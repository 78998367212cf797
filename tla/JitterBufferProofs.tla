-------------------------- MODULE JitterBufferProofs --------------------------
(***************************************************************************)
(* The playout of JitterBuffer for a stream, a ring and a sequence space   *)
(* of any size, the code's 2^16, 128, 3 and 16 among them.                 *)
(***************************************************************************)
EXTENDS JitterBuffer, TLAPS

----------------------------------------------------------------------------
(* Arithmetic of remainders.                                                *)

\* A remainder lies in its range.
LEMMA RemainderRange ==
  ASSUME NEW n \in Nat \ {0}, NEW x \in Int
  PROVE  x % n \in Int /\ 0 <= x % n /\ x % n < n
  OBVIOUS

\* A number is a multiple of the divisor and its remainder.
LEMMA Division ==
  ASSUME NEW n \in Nat \ {0}, NEW x \in Int
  PROVE  \E q \in Int, r \in Int : x = n * q + r /\ r = x % n /\ 0 <= r /\ r < n
<1>1. x \div n \in Int
  OBVIOUS
<1> DEFINE q == x \div n
           r == x % n
<1>2. q \in Int /\ r \in Int /\ q = x \div n /\ r = x % n /\ 0 <= r /\ r < n
  BY <1>1, RemainderRange
<1> HIDE DEF q, r
<1>3. x = n * q + r
  BY <1>2, SMTT(30)
<1> QED BY <1>2, <1>3, Zenon

\* The remainder of a sum that has the form of a division.
LEMMA RemainderIs ==
  ASSUME NEW n \in Nat \ {0}, NEW q \in Int, NEW r \in Int, 0 <= r, r < n
  PROVE  (n * q + r) % n = r
  OBVIOUS

\* The only multiple of n between -n and n is 0.
LEMMA SmallMultiple ==
  ASSUME NEW n \in Nat \ {0}, NEW q \in Int, NEW d \in Int, d = n * q, -n < d, d < n
  PROVE  d = 0
  OBVIOUS

\* Numbers less than n apart with the same remainder are the same.
LEMMA SameRemainder ==
  ASSUME NEW n \in Nat \ {0}, NEW x \in Int, NEW y \in Int, x % n = y % n, x - y < n, y - x < n
  PROVE  x = y
<1>1. PICK q \in Int, r \in Int : x = n * q + r /\ r = x % n
  BY Division, Zenon
<1>2. PICK p \in Int, s \in Int : y = n * p + s /\ s = y % n
  BY Division, Zenon
<1>3. r = s
  BY <1>1, <1>2, Zenon
<1>4. x - y = n * (q - p)
  BY <1>1, <1>2, <1>3
<1>5. q - p \in Int
  OBVIOUS
<1>6. x - y = 0
  BY <1>4, <1>5, SmallMultiple
<1> QED BY <1>6

\* Adding before or after taking the remainder is the same.
LEMMA RemainderShift ==
  ASSUME NEW n \in Nat \ {0}, NEW x \in Int, NEW z \in Int
  PROVE  ((x % n) + z) % n = (x + z) % n
<1>1. PICK q \in Int, r \in Int : x = n * q + r /\ r = x % n
  BY Division, Zenon
<1>2. r + z \in Int
  OBVIOUS
<1>3. PICK p \in Int, t \in Int : r + z = n * p + t /\ t = (r + z) % n /\ 0 <= t /\ t < n
  BY <1>2, Division, Zenon
<1>4. x + z = n * (p + q) + t /\ p + q \in Int
  <2>1. x = n * q + r /\ r + z = n * p + t
    BY <1>1, <1>3, Zenon
  <2> QED BY <2>1
<1>5. (n * (p + q) + t) % n = t
  BY <1>3, <1>4, RemainderIs
<1>6. (x + z) % n = t
  BY <1>4, <1>5
<1> QED BY <1>1, <1>3, <1>6, Zenon

\* The remainder for a divisor of n can be taken from the remainder for n.
LEMMA RemainderOfRemainder ==
  ASSUME NEW n \in Nat \ {0}, NEW m \in Nat \ {0}, NEW k \in Int, n = m * k, NEW x \in Int
  PROVE  (x % n) % m = x % m
<1>1. PICK q \in Int, r \in Int : x = n * q + r /\ r = x % n
  BY Division, Zenon
<1>3. PICK p \in Int, t \in Int : r = m * p + t /\ t = r % m /\ 0 <= t /\ t < m
  BY Division, Zenon
<1>4. x = m * (p + k * q) + t /\ p + k * q \in Int
  <2>1. x = n * q + r /\ r = m * p + t
    BY <1>1, <1>3, Zenon
  <2>2. x = (m * k) * q + (m * p + t)
    BY <2>1, Zenon
  <2> QED BY <2>2
<1>5. (m * (p + k * q) + t) % m = t
  BY <1>3, <1>4, RemainderIs
<1>6. x % m = t
  BY <1>4, <1>5, Zenon
<1> QED BY <1>1, <1>3, <1>6, Zenon

\* Subtracting before or after taking the remainder is the same.
LEMMA RemainderBack ==
  ASSUME NEW n \in Nat \ {0}, NEW x \in Int, NEW y \in Int
  PROVE  (x - (y % n)) % n = (x - y) % n
<1>1. PICK q \in Int, r \in Int : y = n * q + r /\ r = y % n
  BY Division, Zenon
<1>2. PICK p \in Int, t \in Int : x - r = n * p + t /\ t = (x - r) % n /\ 0 <= t /\ t < n
  <2>1. x - r \in Int
    OBVIOUS
  <2> QED BY <2>1, Division, Zenon
<1>3. x - y = n * (p - q) + t /\ p - q \in Int
  <2>1. y = n * q + r /\ x - r = n * p + t
    BY <1>1, <1>2, Zenon
  <2> QED BY <2>1
<1>4. (n * (p - q) + t) % n = t
  BY <1>2, <1>3, RemainderIs
<1>5. (x - y) % n = t
  BY <1>3, <1>4, Zenon
<1>6. r = y % n /\ (x - r) % n = t
  BY <1>1, <1>2, Zenon
<1> QED BY <1>5, <1>6

\* The sizes are numbers; half the sequence space is a whole one.
LEMMA Sizes ==
  /\ SeqSpace \in Nat \ {0} /\ Slots \in Nat \ {0}
  /\ {Lag, MaxLead, FirstPacket, LastPacket, Release, Late, Burst} \subseteq Nat
  /\ SeqSpace \div 2 \in Nat /\ SeqSpace = 2 * (SeqSpace \div 2)
  /\ Lag <= MaxLead /\ MaxLead < Slots
  /\ Burst + 1 < SeqSpace \div 2 /\ Late + 1 < SeqSpace \div 2
  BY JitterAssumption

\* Packets share a slot by their numbers as by their sequence numbers.
LEMMA SlotOf ==
  ASSUME NEW k \in Int
  PROVE  Seq16(k) % Slots = k % Slots /\ k % Slots \in 0 .. Slots - 1
<1>1. PICK q \in Int, r \in Int : SeqSpace = Slots * q + r /\ r = SeqSpace % Slots
  <2>1. SeqSpace \in Int
    BY Sizes
  <2> QED BY <2>1, Sizes, Division, Zenon
<1>2. SeqSpace = Slots * q
  <2>1. r = 0
    BY <1>1, JitterAssumption, Zenon
  <2> QED BY <1>1, <2>1, Sizes
<1>3. (k % SeqSpace) % Slots = k % Slots
  BY <1>2, Sizes, RemainderOfRemainder, Zenon
<1> QED BY <1>3, Sizes, RemainderRange DEF Seq16

\* The signed difference of sequence numbers is that of the packets, as long as these are
\* less than half the sequence space apart.
LEMMA DiffIs ==
  ASSUME NEW x \in Int, NEW y \in Int,
         x - y < SeqSpace \div 2, y - x <= SeqSpace \div 2
  PROVE  Diff(Seq16(x), Seq16(y)) = x - y
<1>0. (x - (y % SeqSpace)) % SeqSpace = (x - y) % SeqSpace
  <2>1. SeqSpace \in Nat \ {0}
    BY Sizes
  <2> QED BY <2>1, RemainderBack, Zenon
<1> DEFINE n == SeqSpace
           h == SeqSpace \div 2
           d == Seq16(Seq16(x) - Seq16(y))
<1>1. n \in Nat \ {0} /\ h \in Nat /\ n = 2 * h
  BY Sizes
<1>2. d = (x - y) % n
  <2> DEFINE a == x % n
             b == y % n
  <2>1. a \in Int /\ b \in Int /\ d = (a - b) % n
    BY <1>1, RemainderRange DEF Seq16
  <2>2. (x - b) % n = (x - y) % n
    BY <1>0, Zenon
  <2>3. ASSUME NEW z \in Int PROVE (a + z) % n = (x + z) % n
    BY <1>1, RemainderShift
  <2> HIDE DEF a, b, d, n
  <2>4. -b \in Int /\ a + (-b) = a - b /\ x + (-b) = x - b
    BY <2>1
  <2>5. (a + (-b)) % n = (x + (-b)) % n
    BY <2>3, <2>4
  <2> QED BY <2>1, <2>2, <2>4, <2>5
<1>3. x - y >= 0 => d = x - y
  BY <1>1, <1>2
<1>4. x - y < 0 => d = x - y + n
  BY <1>1, <1>2
<1>5. Diff(Seq16(x), Seq16(y)) = IF d >= h THEN d - n ELSE d
  BY DEF Diff
<1> HIDE DEF d, n, h
<1> QED BY <1>1, <1>3, <1>4, <1>5 DEF h
----------------------------------------------------------------------------
(* The inductive invariant.                                                 *)

BufTypeOK ==
  /\ slot \in [0 .. Slots - 1 -> [seq : Int, packet : Int]]
  /\ have \in BOOLEAN /\ primed \in BOOLEAN
  /\ top \in Int /\ cursor \in Int /\ sent \in Int
  /\ got \subseteq Nat

\* The wrapped cursors stand for the true ones, which are close enough together for their
\* signed difference to tell their order.
Cursors ==
  /\ ~have => ~primed /\ got = {}
  /\ have => /\ newest = Seq16(top) /\ Start = Seq16(cursor)
             /\ cursor <= top + 1 /\ top <= sent
             /\ sent - cursor <= Burst \/ sent - cursor <= Late

\* A packet in the ring has the sequence number beside it and is less than a turn old.
Ring ==
  \A i \in 0 .. Slots - 1 :
    slot[i].packet # NoPacket =>
      /\ slot[i].seq = Seq16(slot[i].packet)
      /\ slot[i].packet <= sent /\ sent - slot[i].packet < SeqSpace

\* A packet that is due within the ring's length is in its slot.
Waiting ==
  \A k \in got :
    /\ cursor <= k /\ k <= top
    /\ top - k < Slots => slot[k % Slots].packet = k

PlayoutInv == BufTypeOK /\ Cursors /\ Ring

\* The stream starts with an empty buffer.
LEMMA InitPlayout == JitterInit => PlayoutInv /\ Waiting
<1> SUFFICES ASSUME JitterInit PROVE PlayoutInv /\ Waiting
  OBVIOUS
<1>1. EmptySlots \in [0 .. Slots - 1 -> [seq : Int, packet : Int]]
      /\ \A i \in 0 .. Slots - 1 : EmptySlots[i].packet = NoPacket
  BY DEF EmptySlots, NoPacket
<1>2. FirstPacket \in Int /\ FirstPacket - 1 \in Int
  BY Sizes
<1>3. BufTypeOK
  BY <1>1, <1>2 DEF JitterInit, BufTypeOK
<1>4. Cursors /\ Ring /\ Waiting
  BY <1>1 DEF JitterInit, Cursors, Ring, Waiting
<1> QED BY <1>3, <1>4 DEF PlayoutInv

\* What a pull finds: how far the newest packet is ahead, and the packet that is due, at most
\* MaxLead behind the newest.
LEMMA PullFinds ==
  ASSUME PlayoutInv, have
  PROVE  /\ Diff(newest, Start) = top - cursor
         /\ Ready => \E c \in Int :
              /\ Position = Seq16(c) /\ Diff(Position, Start) = c - cursor
              /\ cursor <= c /\ c <= top /\ top - c <= MaxLead
<1> DEFINE h == SeqSpace \div 2
<1>1. /\ top \in Int /\ cursor \in Int /\ sent \in Int
      /\ newest = Seq16(top) /\ Start = Seq16(cursor)
      /\ cursor <= top + 1 /\ top - cursor < h /\ cursor - top <= h
      /\ Lag \in Nat /\ MaxLead \in Nat /\ Lag <= MaxLead /\ h \in Nat
  <2>1. /\ top \in Int /\ cursor \in Int /\ sent \in Int
        /\ newest = Seq16(top) /\ Start = Seq16(cursor)
        /\ cursor <= top + 1 /\ top <= sent
        /\ sent - cursor <= Burst \/ sent - cursor <= Late
    BY DEF PlayoutInv, BufTypeOK, Cursors
  <2>2. /\ {Lag, MaxLead, Burst, Late, h} \subseteq Nat /\ Lag <= MaxLead
        /\ Burst + 1 < h /\ Late + 1 < h
    BY Sizes
  <2> HIDE DEF h
  <2> QED BY <2>1, <2>2
<1>2. Diff(newest, Start) = top - cursor
  BY <1>1, DiffIs
<1>3. ASSUME Ready PROVE cursor <= top
  BY <1>1, <1>2, <1>3 DEF Ready, Start
<1>4. ASSUME Ready, top - cursor <= MaxLead
      PROVE  Position = Seq16(cursor) /\ Diff(Position, Start) = cursor - cursor
  <2>1. Position = Start
    BY <1>1, <1>2, <1>4 DEF Position
  <2>2. cursor - cursor < h /\ cursor - cursor <= h
    BY <1>1, <1>3, <1>4
  <2> QED BY <1>1, <2>1, <2>2, DiffIs
<1>5. ASSUME Ready, ~(top - cursor <= MaxLead)
      PROVE  Position = Seq16(top - Lag) /\ Diff(Position, Start) = (top - Lag) - cursor
  <2>1. Position = Seq16(Seq16(top) - Lag)
    BY <1>1, <1>2, <1>5 DEF Position
  <2>2. Seq16(Seq16(top) - Lag) = Seq16(top - Lag)
    <3>1. SeqSpace \in Nat \ {0} /\ -Lag \in Int /\ top % SeqSpace \in Int
      BY <1>1, Sizes, RemainderRange
    <3>2. ((top % SeqSpace) + (-Lag)) % SeqSpace = (top + (-Lag)) % SeqSpace
      BY <1>1, <3>1, RemainderShift
    <3>3. (top % SeqSpace) + (-Lag) = (top % SeqSpace) - Lag /\ top + (-Lag) = top - Lag
      BY <1>1, <3>1
    <3> QED BY <3>2, <3>3 DEF Seq16
  <2>3. top - Lag \in Int /\ (top - Lag) - cursor < h /\ cursor - (top - Lag) <= h
    BY <1>1, <1>5
  <2> QED BY <1>1, <2>1, <2>2, <2>3, DiffIs
<1>6. ASSUME Ready
      PROVE  \E c \in Int : /\ Position = Seq16(c) /\ Diff(Position, Start) = c - cursor
                            /\ cursor <= c /\ c <= top /\ top - c <= MaxLead
  <2>1. CASE top - cursor <= MaxLead
    BY <1>1, <1>3, <1>4, <1>6, <2>1
  <2>2. CASE ~(top - cursor <= MaxLead)
    <3>1. top - Lag \in Int /\ cursor <= top - Lag /\ top - Lag <= top /\ top - (top - Lag) <= MaxLead
      BY <1>1, <2>2
    <3> QED BY <1>5, <1>6, <2>2, <3>1
  <2> QED BY <2>1, <2>2
<1> QED BY <1>2, <1>6

\* What a pull that plays or conceals does, in numbers that do not wrap.
LEMMA PullDoes ==
  ASSUME PlayoutInv, PullFrame
  PROVE  \E c \in Int :
           /\ cursor <= c /\ c <= top /\ top - c <= MaxLead /\ cursor' = c + 1
           /\ have /\ UNCHANGED <<have, newest, sent, top>>
           /\ primed' /\ next' = Seq16(c + 1)
           /\ got' = {k \in got : k >= c + 1}
           /\ \/ /\ slot[c % Slots].packet = c /\ slot[c % Slots].packet # NoPacket
                 /\ out' = [status |-> "frame", packet |-> c]
                 /\ slot' = [slot EXCEPT ![c % Slots].packet = NoPacket]
              \/ /\ slot[c % Slots].packet # c \/ c = NoPacket
                 /\ out' = [status |-> "plc", packet |-> NoPacket]
                 /\ slot' = slot
<1>1. have /\ Ready
  BY DEF PullFrame, Ready
<1>2. PICK c \in Int : /\ Position = Seq16(c) /\ Diff(Position, Start) = c - cursor
                       /\ cursor <= c /\ c <= top /\ top - c <= MaxLead
  BY <1>1, PullFinds
<1>3. cursor \in Int /\ top \in Int /\ sent \in Int /\ top <= sent
      /\ (sent - cursor <= Burst \/ sent - cursor <= Late)
  BY <1>1 DEF PlayoutInv, BufTypeOK, Cursors
<1>4. cursor' = c + 1
  BY <1>2, <1>3 DEF PullFrame
<1>5. next' = Seq16(c + 1)
  <2>1. next' = Seq16(Seq16(c) + 1)
    BY <1>2 DEF PullFrame
  <2>2. ((c % SeqSpace) + 1) % SeqSpace = (c + 1) % SeqSpace
    <3>1. SeqSpace \in Nat \ {0} /\ 1 \in Int
      BY Sizes
    <3> QED BY <3>1, RemainderShift, Zenon
  <2> QED BY <2>1, <2>2 DEF Seq16
<1>6. Position % Slots = c % Slots /\ c % Slots \in 0 .. Slots - 1
  BY <1>2, SlotOf
<1> DEFINE p == slot[c % Slots].packet
<1>7. p # NoPacket => /\ slot[c % Slots].seq = Seq16(p) /\ p \in Int
                      /\ p <= sent /\ sent - p < SeqSpace
  BY <1>6 DEF PlayoutInv, BufTypeOK, Ring
<1>8. InSlot(Position) <=> p # NoPacket /\ Seq16(p) = Seq16(c)
  BY <1>2, <1>6, <1>7 DEF InSlot
<1>9. p # NoPacket /\ Seq16(p) = Seq16(c) => p = c
  <2> SUFFICES ASSUME p # NoPacket, Seq16(p) = Seq16(c) PROVE p = c
    OBVIOUS
  <2>1. p \in Int /\ p <= sent /\ sent - p < SeqSpace
    BY <1>7
  <2> HIDE DEF p
  <2>2. p - c < SeqSpace /\ c - p < SeqSpace
    BY <1>2, <1>3, <2>1, Sizes
  <2> QED BY <2>1, <2>2, Sizes, SameRemainder DEF Seq16
<1>10. InSlot(Position) <=> p # NoPacket /\ p = c
  BY <1>8, <1>9
<1>11. got' = {k \in got : k >= c + 1} /\ UNCHANGED <<have, newest, sent, top>> /\ primed'
  BY <1>4 DEF PullFrame
<1>12. CASE InSlot(Position)
  BY <1>1, <1>2, <1>4, <1>5, <1>6, <1>10, <1>11, <1>12 DEF PullFrame
<1>13. CASE ~InSlot(Position)
  BY <1>1, <1>2, <1>4, <1>5, <1>6, <1>10, <1>11, <1>13 DEF PullFrame
<1> QED BY <1>12, <1>13
----------------------------------------------------------------------------
(* The steps keep it.                                                       *)

\* An arrival with a payload, in numbers that do not wrap.
LEMMA ArrivalDoes ==
  ASSUME PlayoutInv, NEW k \in FirstPacket .. LastPacket, Arrive(k), k \notin Empty
  PROVE  /\ k \in Nat /\ k <= sent /\ sent - k <= Late
         /\ have' /\ newest' = Seq16(top')
         /\ top' = (IF ~have \/ k > top THEN k ELSE top)
         /\ \/ k \in Oversize /\ slot' = slot /\ got' = got
            \/ /\ k \notin Oversize
               /\ slot' = [slot EXCEPT ![k % Slots] = [seq |-> Seq16(k), packet |-> k]]
<1> USE DEF Insert
<1>1. k \in Nat /\ sent \in Int /\ Late \in Nat /\ FirstPacket \in Nat
  BY Sizes DEF PlayoutInv, BufTypeOK
<1>2. k <= sent /\ sent - k <= Late
  BY <1>1 DEF Arrive
<1>3. have' /\ top' = (IF ~have \/ k > top THEN k ELSE top)
  BY DEF Arrive
<1>4. \/ k \in Oversize /\ slot' = slot /\ got' = got
      \/ /\ k \notin Oversize
         /\ slot' = [slot EXCEPT ![k % Slots] = [seq |-> Seq16(k), packet |-> k]]
  <2>1. Seq16(k) % Slots = k % Slots
    BY <1>1, SlotOf
  <2> QED BY <2>1 DEF Arrive, SlotsAfter
<1>5. CASE ~have
  BY <1>1, <1>2, <1>3, <1>4, <1>5 DEF Arrive
<1>6. CASE have
  <2>1. /\ top \in Int /\ cursor \in Int /\ newest = Seq16(top)
        /\ cursor <= top + 1 /\ top <= sent
        /\ sent - cursor <= Burst \/ sent - cursor <= Late
    BY <1>6 DEF PlayoutInv, BufTypeOK, Cursors
  <2>2. k - top < SeqSpace \div 2 /\ top - k <= SeqSpace \div 2
    <3> DEFINE h == SeqSpace \div 2
    <3>1. {h, Burst, Late} \subseteq Nat /\ Burst + 1 < h /\ Late + 1 < h
      BY Sizes
    <3> HIDE DEF h
    <3>2. k - top < h /\ top - k <= h
      BY <1>1, <1>2, <2>1, <3>1
    <3> QED BY <3>2 DEF h
  <2>3. Diff(Seq16(k), newest) = k - top
    BY <1>1, <2>1, <2>2, DiffIs
  <2>4. Diff(Seq16(k), newest) > 0 <=> k > top
    BY <1>1, <2>1, <2>3
  <2> QED BY <1>1, <1>2, <1>3, <1>4, <1>6, <2>1, <2>4 DEF Arrive
<1> QED BY <1>1, <1>2, <1>3, <1>4, <1>5, <1>6

\* An arrival sets the cursors of an empty buffer and never moves those of another.
LEMMA ArrivalKeeps ==
  ASSUME PlayoutInv, NEW k \in FirstPacket .. LastPacket, Arrive(k)
  PROVE  PlayoutInv'
<1>0. CASE k \in Empty
  BY <1>0 DEF Arrive, PlayoutInv, BufTypeOK, Cursors, Start, Ring
<1> SUFFICES ASSUME k \notin Empty PROVE PlayoutInv'
  BY <1>0
<1> USE DEF Insert
<1>1. /\ k \in Nat /\ k <= sent /\ sent - k <= Late
      /\ have' /\ newest' = Seq16(top')
      /\ top' = (IF ~have \/ k > top THEN k ELSE top)
      /\ \/ slot' = slot
         \/ slot' = [slot EXCEPT ![k % Slots] = [seq |-> Seq16(k), packet |-> k]]
  BY ArrivalDoes
<1>2. /\ sent' = sent /\ primed' = primed /\ next' = next
      /\ first' = (IF have THEN first ELSE Seq16(k))
      /\ cursor' = (IF have THEN cursor ELSE k)
      /\ got' \subseteq got \union {k}
  BY DEF Arrive
<1>3. BufTypeOK
  BY DEF PlayoutInv
<1>4. Seq16(k) \in Int
  BY <1>1, Sizes, RemainderRange DEF Seq16
<1>5. BufTypeOK'
  <2>1. slot' \in [0 .. Slots - 1 -> [seq : Int, packet : Int]]
    <3> DEFINE new == [seq |-> Seq16(k), packet |-> k]
    <3>1. new \in [seq : Int, packet : Int]
      BY <1>1, <1>4
    <3>2. slot' = slot \/ slot' = [slot EXCEPT ![k % Slots] = new]
      BY <1>1
    <3> HIDE DEF new
    <3> QED BY <1>3, <3>1, <3>2 DEF BufTypeOK
  <2>2. have' \in BOOLEAN
    BY DEF Arrive
  <2> QED BY <1>1, <1>2, <1>3, <2>1, <2>2 DEF BufTypeOK
<1>6. Cursors'
  <2>1. CASE have
    <3>1. /\ Start = Seq16(cursor) /\ cursor <= top + 1 /\ top <= sent
          /\ sent - cursor <= Burst \/ sent - cursor <= Late
      BY <2>1 DEF PlayoutInv, Cursors
    <3>2. top \in Int /\ cursor \in Int /\ sent \in Int
      BY <1>3 DEF BufTypeOK
    <3>3. cursor' = cursor /\ Start' = Start
      BY <1>2, <2>1 DEF Start
    <3>4. cursor <= top' + 1 /\ top' <= sent
      <4>1. k \in Nat /\ k <= sent /\ ((top' = k /\ k > top) \/ top' = top)
        BY <1>1, <2>1
      <4> QED BY <3>1, <3>2, <4>1
    <3> QED BY <1>1, <1>2, <3>1, <3>3, <3>4 DEF Cursors
  <2>2. CASE ~have
    <3>1. ~primed
      BY <2>2 DEF PlayoutInv, Cursors
    <3>2. top' = k /\ cursor' = k /\ first' = Seq16(k) /\ k <= k + 1
      BY <1>1, <1>2, <2>2
    <3> QED BY <1>1, <1>2, <3>1, <3>2 DEF Cursors, Start
  <2> QED BY <2>1, <2>2
<1>7. Ring'
  <2> SUFFICES ASSUME NEW i \in 0 .. Slots - 1, slot'[i].packet # NoPacket
               PROVE  /\ slot'[i].seq = Seq16(slot'[i].packet)
                      /\ slot'[i].packet <= sent /\ sent - slot'[i].packet < SeqSpace
    BY <1>2 DEF Ring
  <2>1. CASE i = k % Slots /\ slot' # slot
    <3>1. slot'[i] = [seq |-> Seq16(k), packet |-> k]
      BY <1>1, <1>3, <2>1 DEF BufTypeOK
    <3>2. sent \in Int /\ Late \in Nat /\ Late < SeqSpace
      BY <1>3, Sizes DEF BufTypeOK
    <3>3. sent - k < SeqSpace
      BY <1>1, <3>2, Sizes
    <3> QED BY <1>1, <3>1, <3>3
  <2>2. CASE i # k % Slots \/ slot' = slot
    <3>1. slot'[i] = slot[i]
      BY <1>1, <1>3, <2>2 DEF BufTypeOK
    <3> QED BY <3>1 DEF PlayoutInv, Ring
  <2> QED BY <2>1, <2>2
<1> QED BY <1>5, <1>6, <1>7 DEF PlayoutInv

\* A pull moves the cursor past the packet it played or concealed.
LEMMA PullKeeps ==
  ASSUME PlayoutInv, PullFrame
  PROVE  PlayoutInv'
<1>1. PICK c \in Int :
           /\ cursor <= c /\ c <= top /\ top - c <= MaxLead /\ cursor' = c + 1
           /\ have /\ UNCHANGED <<have, newest, sent, top>>
           /\ primed' /\ next' = Seq16(c + 1)
           /\ got' = {k \in got : k >= c + 1}
           /\ \/ /\ slot[c % Slots].packet = c /\ slot[c % Slots].packet # NoPacket
                 /\ out' = [status |-> "frame", packet |-> c]
                 /\ slot' = [slot EXCEPT ![c % Slots].packet = NoPacket]
              \/ /\ slot[c % Slots].packet # c \/ c = NoPacket
                 /\ out' = [status |-> "plc", packet |-> NoPacket]
                 /\ slot' = slot
  BY PullDoes
<1>2. BufTypeOK /\ Cursors /\ Ring
  BY DEF PlayoutInv
<1>3. BufTypeOK'
  <2>1. slot' \in [0 .. Slots - 1 -> [seq : Int, packet : Int]]
    BY <1>1, <1>2 DEF BufTypeOK, NoPacket
  <2>2. cursor' \in Int /\ primed' \in BOOLEAN
    BY <1>1 DEF PullFrame
  <2> QED BY <1>1, <1>2, <2>1, <2>2 DEF BufTypeOK
<1>4. Cursors'
  <2>1. /\ cursor \in Int /\ top \in Int /\ sent \in Int /\ newest = Seq16(top) /\ top <= sent
        /\ sent - cursor <= Burst \/ sent - cursor <= Late
    BY <1>1, <1>2 DEF BufTypeOK, Cursors
  <2>2. Burst \in Nat /\ Late \in Nat
    BY Sizes
  <2>3. c + 1 <= top + 1 /\ (sent - (c + 1) <= Burst \/ sent - (c + 1) <= Late)
    BY <1>1, <2>1, <2>2
  <2> QED BY <1>1, <2>1, <2>3 DEF Cursors, Start
<1>5. Ring'
  <2> SUFFICES ASSUME NEW i \in 0 .. Slots - 1, slot'[i].packet # NoPacket
               PROVE  slot'[i] = slot[i]
    BY <1>1, <1>2 DEF Ring
  <2> QED BY <1>1, <1>2 DEF BufTypeOK
<1> QED BY <1>3, <1>4, <1>5 DEF PlayoutInv

\* The other steps.
LEMMA PlayoutStep ==
  ASSUME PlayoutInv, [JitterNext]_jitterVars
  PROVE  PlayoutInv'
<1>1. CASE Send
  <2>1. UNCHANGED <<bufVars, top, cursor, got>> /\ sent' = sent + 1
    BY <1>1 DEF Send
  <2>2. BufTypeOK'
    BY <2>1 DEF PlayoutInv, BufTypeOK, bufVars
  <2>3. Cursors'
    <3>1. have => /\ cursor \in Int /\ top \in Int /\ sent \in Int /\ top <= sent + 1
                  /\ sent + 1 - cursor <= Burst
      <4>1. cursor \in Int /\ top \in Int /\ sent \in Int /\ Burst \in Nat
        BY Sizes DEF PlayoutInv, BufTypeOK
      <4>2. have => top <= sent /\ sent - cursor < Burst
        BY <1>1 DEF Send, PlayoutInv, Cursors
      <4> QED BY <4>1, <4>2
    <3> QED BY <2>1, <3>1 DEF PlayoutInv, Cursors, Start, bufVars
  <2>4. Ring'
    <3>0. slot' = slot /\ sent' = sent + 1
      BY <2>1 DEF bufVars
    <3> SUFFICES ASSUME NEW i \in 0 .. Slots - 1, slot'[i].packet # NoPacket
                 PROVE  /\ slot'[i].seq = Seq16(slot'[i].packet)
                        /\ slot'[i].packet <= sent' /\ sent' - slot'[i].packet < SeqSpace
      BY DEF Ring
    <3>1. slot[i].packet \in Int /\ sent \in Int /\ i \in DOMAIN slot
      BY DEF PlayoutInv, BufTypeOK
    <3>2. slot[i].seq = Seq16(slot[i].packet) /\ slot[i].packet <= sent
      BY <3>0 DEF PlayoutInv, Ring
    <3>3. (sent + 1) - slot[i].packet < SeqSpace
      BY <1>1, <3>0, <3>1 DEF Send, RingTurnsOver
    <3>4. slot[i].packet <= sent + 1
      BY <3>1, <3>2
    <3>5. slot'[i].packet = slot[i].packet /\ slot'[i].seq = slot[i].seq /\ sent' = sent + 1
      BY <3>0, Zenon
    <3> QED BY <3>2, <3>3, <3>4, <3>5, Zenon
  <2> QED BY <2>2, <2>3, <2>4 DEF PlayoutInv
<1>2. ASSUME NEW k \in FirstPacket .. LastPacket, Arrive(k) PROVE PlayoutInv'
  BY <1>2, ArrivalKeeps
<1>3. CASE Pull
  <2>1. CASE PullSilence
    BY <2>1 DEF PullSilence, bufVars, PlayoutInv, BufTypeOK, Cursors, Ring, Start
  <2>2. CASE PullFrame
    BY <2>2, PullKeeps
  <2> QED BY <1>3, <2>1, <2>2 DEF Pull
<1>4. CASE Restart
  <2>1. EmptySlots \in [0 .. Slots - 1 -> [seq : Int, packet : Int]]
        /\ \A i \in 0 .. Slots - 1 : EmptySlots[i].packet = NoPacket
    BY DEF EmptySlots, NoPacket
  <2>2. FirstPacket \in Int
    BY Sizes
  <2>3. BufTypeOK'
    BY <1>4, <2>1, <2>2 DEF Restart, PlayoutInv, BufTypeOK
  <2>4. Cursors' /\ Ring'
    BY <1>4, <2>1 DEF Restart, Cursors, Ring
  <2> QED BY <2>3, <2>4 DEF PlayoutInv
<1>5. CASE UNCHANGED jitterVars
  BY <1>5 DEF jitterVars, bufVars, PlayoutInv, BufTypeOK, Cursors, Ring, Start
<1> QED BY <1>1, <1>2, <1>3, <1>4, <1>5 DEF JitterNext

\* The playout's invariant holds in every state.
LEMMA PlayoutCorrect == JitterSpec => []PlayoutInv
  BY InitPlayout, PlayoutStep, PTL DEF JitterSpec
\* Whatever is lost, repeated or late, and however often the sequence number wraps: a decoded
\* frame is the packet the cursor stands for, and the cursor only moves forward (jb_insert,
\* jb_pull).
THEOREM PlaysInOrderCorrect == JitterSpec => PlaysInOrder
<1> DEFINE Played == out'.status = "frame" /\ out' # out =>
                       out'.packet = cursor' - 1 /\ cursor' > cursor
<1>1. PlayoutInv /\ [JitterNext]_jitterVars => [Played]_jitterVars
  <2> SUFFICES ASSUME PlayoutInv, JitterNext, out'.status = "frame", out' # out
               PROVE  out'.packet = cursor' - 1 /\ cursor' > cursor
    OBVIOUS
  <2>1. PullFrame
    BY DEF JitterNext, Send, Arrive, Pull, PullSilence, Restart
  <2>2. PICK c \in Int : /\ cursor <= c /\ cursor' = c + 1
                         /\ \/ out' = [status |-> "frame", packet |-> c]
                            \/ out' = [status |-> "plc", packet |-> NoPacket]
    BY <2>1, PullDoes
  <2>3. out'.packet = c /\ cursor \in Int
    BY <2>2 DEF PlayoutInv, BufTypeOK
  <2> QED BY <2>2, <2>3
<1> QED BY <1>1, PlayoutCorrect, PTL DEF JitterSpec, PlaysInOrder

\* A pull leaves at most MaxLead packets between the newest and the one it played, also after a
\* gap of any length (the resync of jb_pull).
THEOREM LatencyCorrect == JitterSpec => LatencyBounded
<1> DEFINE Bounded == primed' /\ cursor' # cursor => top' - (cursor' - 1) <= MaxLead
<1>1. PlayoutInv /\ [JitterNext]_jitterVars => [Bounded]_jitterVars
  <2> SUFFICES ASSUME PlayoutInv, JitterNext, primed', cursor' # cursor
               PROVE  top' - (cursor' - 1) <= MaxLead
    OBVIOUS
  <2>1. ~Send /\ ~Restart /\ ~PullSilence
    BY DEF Send, Restart, PullSilence
  <2>2. ASSUME NEW k \in FirstPacket .. LastPacket, Arrive(k) PROVE FALSE
    BY <2>2 DEF Arrive, Insert, PlayoutInv, Cursors
  <2>3. PullFrame
    BY <2>1, <2>2 DEF JitterNext, Pull
  <2>4. PICK c \in Int : top - c <= MaxLead /\ cursor' = c + 1 /\ top' = top
    BY <2>3, PullDoes
  <2>5. top \in Int
    BY DEF PlayoutInv, BufTypeOK
  <2> QED BY <2>4, <2>5
<1> QED BY <1>1, PlayoutCorrect, PTL DEF JitterSpec, LatencyBounded

----------------------------------------------------------------------------
(* Nothing that arrived in time is concealed.                               *)

\* As long as packets are reordered by less than the ring is long, an arrival overwrites a
\* packet in waiting only when the newest is a ring ahead of that.
LEMMA ArrivalWaits ==
  ASSUME Late < Slots, PlayoutInv, Waiting, NEW k \in FirstPacket .. LastPacket, Arrive(k)
  PROVE  Waiting'
<1>0. CASE k \in Empty
  BY <1>0 DEF Arrive, Waiting
<1> SUFFICES ASSUME k \notin Empty PROVE Waiting'
  BY <1>0
<1>1. /\ k \in Nat /\ k <= sent /\ sent - k <= Late
      /\ top' = (IF ~have \/ k > top THEN k ELSE top)
      /\ \/ k \in Oversize /\ slot' = slot /\ got' = got
         \/ /\ k \notin Oversize
            /\ slot' = [slot EXCEPT ![k % Slots] = [seq |-> Seq16(k), packet |-> k]]
  BY ArrivalDoes
<1>2. BufTypeOK /\ Cursors
  BY DEF PlayoutInv
<1>3. /\ top \in Int /\ cursor \in Int /\ sent \in Int
      /\ Late \in Nat /\ Slots \in Nat \ {0} /\ got \subseteq Nat
  BY <1>2, Sizes DEF BufTypeOK
<1>4. /\ cursor' = (IF have THEN cursor ELSE k)
      /\ got' = (IF k \notin Oversize /\ k >= cursor' THEN got \union {k} ELSE got)
  BY DEF Arrive, Insert
<1>5. ~have => got = {}
  BY <1>2 DEF Cursors
<1>6. k % Slots \in 0 .. Slots - 1
  BY <1>1, SlotOf
<1> SUFFICES ASSUME NEW j \in got'
             PROVE  /\ cursor' <= j /\ j <= top'
                    /\ top' - j < Slots => slot'[j % Slots].packet = j
  BY DEF Waiting
<1>7. CASE j = k /\ k \notin Oversize
  <2>0. slot' = [slot EXCEPT ![k % Slots] = [seq |-> Seq16(k), packet |-> k]]
    BY <1>1, <1>7, Zenon
  <2>1. slot'[k % Slots].packet = k
    BY <1>2, <1>6, <2>0 DEF BufTypeOK
  <2>2. cursor' <= k
    <3>1. CASE k >= cursor'
      BY <1>1, <1>3, <1>4, <3>1
    <3>2. CASE ~(k >= cursor')
      <4>1. k \in got /\ have
        BY <1>4, <1>5, <1>7, <3>2
      <4> QED BY <1>4, <4>1 DEF Waiting
    <3> QED BY <3>1, <3>2
  <2>3. k <= top'
    BY <1>1, <1>3
  <2> QED BY <1>7, <2>1, <2>2, <2>3
<1>8. CASE j # k \/ k \in Oversize
  <2>1. j \in got /\ have
    BY <1>4, <1>5, <1>8
  <2>2. j \in Nat /\ cursor' <= j /\ j <= top /\ (top - j < Slots => slot[j % Slots].packet = j)
    BY <1>3, <1>4, <2>1 DEF Waiting
  <2>3. top <= sent /\ top <= top' /\ k <= top' /\ top' \in Int
    BY <1>1, <1>2, <1>3, <2>1 DEF Cursors
  <2>4. ASSUME top' - j < Slots, k \notin Oversize PROVE slot'[j % Slots].packet = j
    <3>1. top - j < Slots /\ k - j < Slots /\ j - k < Slots
      BY <1>1, <1>3, <2>2, <2>3, <2>4
    <3>2. j % Slots # k % Slots
      <4>1. j \in Int /\ k \in Int
        BY <1>1, <2>2
      <4> QED BY <1>3, <1>8, <2>4, <3>1, <4>1, SameRemainder, Zenon
    <3>0. slot' = [slot EXCEPT ![k % Slots] = [seq |-> Seq16(k), packet |-> k]]
      BY <1>1, <2>4, Zenon
    <3>3. slot'[j % Slots] = slot[j % Slots]
      BY <1>2, <1>6, <2>2, <3>0, <3>2, SlotOf DEF BufTypeOK
    <3> QED BY <2>2, <3>1, <3>3
  <2>5. j <= top'
    BY <1>3, <2>2, <2>3
  <2>6. ASSUME top' - j < Slots, k \in Oversize PROVE slot'[j % Slots].packet = j
    BY <1>1, <1>3, <2>2, <2>3, <2>6
  <2> QED BY <2>2, <2>4, <2>5, <2>6
<1> QED BY <1>7, <1>8

\* A pull takes no packet but the one it plays out of the ring.
LEMMA PullWaits ==
  ASSUME PlayoutInv, Waiting, PullFrame
  PROVE  Waiting'
<1>1. PICK c \in Int :
           /\ cursor <= c /\ c <= top /\ top - c <= MaxLead /\ cursor' = c + 1 /\ top' = top
           /\ got' = {k \in got : k >= c + 1}
           /\ slot' = [slot EXCEPT ![c % Slots].packet = NoPacket] \/ slot' = slot
  BY PullDoes
<1>2. /\ top \in Int /\ got \subseteq Nat /\ Slots \in Nat \ {0} /\ MaxLead \in Nat /\ MaxLead < Slots
  BY Sizes DEF PlayoutInv, BufTypeOK
<1> SUFFICES ASSUME NEW j \in got'
             PROVE  /\ cursor' <= j /\ j <= top'
                    /\ top' - j < Slots => slot'[j % Slots].packet = j
  BY DEF Waiting
<1>3. j \in got /\ j \in Nat /\ j >= c + 1 /\ j <= top
      /\ (top - j < Slots => slot[j % Slots].packet = j)
  BY <1>1, <1>2 DEF Waiting
<1>4. j - c < Slots /\ c - j < Slots /\ j # c
  BY <1>1, <1>2, <1>3
<1>5. j % Slots # c % Slots
  <2>1. j \in Int
    BY <1>3
  <2> QED BY <1>2, <1>4, <2>1, SameRemainder, Zenon
<1>6. slot'[j % Slots] = slot[j % Slots]
  <2>1. j % Slots \in 0 .. Slots - 1
    BY <1>3, SlotOf
  <2>2. slot \in [0 .. Slots - 1 -> [seq : Int, packet : Int]]
    BY DEF PlayoutInv, BufTypeOK
  <2> QED BY <1>1, <1>5, <2>1, <2>2
<1> QED BY <1>1, <1>3, <1>6

\* The packets in waiting stay in the ring.
LEMMA WaitingCorrect ==
  ASSUME Late < Slots
  PROVE  JitterSpec => []Waiting
<1>1. PlayoutInv /\ Waiting /\ [JitterNext]_jitterVars => Waiting'
  <2> SUFFICES ASSUME PlayoutInv, Waiting, [JitterNext]_jitterVars PROVE Waiting'
    OBVIOUS
  <2>1. CASE UNCHANGED <<slot, top, cursor, got>>
    BY <2>1 DEF Waiting
  <2>2. ASSUME NEW k \in FirstPacket .. LastPacket, Arrive(k) PROVE Waiting'
    BY <2>2, ArrivalWaits
  <2>3. CASE PullFrame
    BY <2>3, PullWaits
  <2>4. CASE Restart
    BY <2>4 DEF Restart, Waiting
  <2> QED BY <2>1, <2>2, <2>3, <2>4 DEF JitterNext, Send, Pull, PullSilence, jitterVars, bufVars
<1> QED BY <1>1, InitPlayout, PlayoutCorrect, PTL DEF JitterSpec

\* A packet that arrived in time is played and not concealed, provided the network reorders by
\* less than the ring is long: no older and no newer packet that shares its slot has
\* overwritten it (jb_insert writes a slot whatever is in it).
THEOREM ConcealsCorrect ==
  ASSUME Late < Slots
  PROVE  JitterSpec => ConcealsOnlyMissing
<1> DEFINE Missing == out'.status = "plc" /\ cursor' # cursor => (cursor' - 1) \notin got
<1>1. PlayoutInv /\ Waiting /\ [JitterNext]_jitterVars => [Missing]_jitterVars
  <2> SUFFICES ASSUME PlayoutInv, Waiting, JitterNext, out'.status = "plc", cursor' # cursor,
                      (cursor' - 1) \in got
               PROVE  FALSE
    OBVIOUS
  <2>1. ~Send /\ ~Restart /\ ~PullSilence
    BY DEF Send, Restart, PullSilence
  <2>2. ASSUME NEW k \in FirstPacket .. LastPacket, Arrive(k) PROVE FALSE
    BY <2>2 DEF Arrive, Insert, PlayoutInv, Cursors
  <2>3. PullFrame
    BY <2>1, <2>2 DEF JitterNext, Pull
  <2>4. PICK c \in Int :
          /\ top - c <= MaxLead /\ cursor' = c + 1
          /\ \/ out' = [status |-> "frame", packet |-> c]
             \/ slot[c % Slots].packet # c \/ c = NoPacket
    BY <2>3, PullDoes
  <2>5. c \in got /\ c \in Nat
    <3>1. cursor' - 1 = c
      BY <2>4
    <3> QED BY <3>1 DEF PlayoutInv, BufTypeOK
  <2>6. top - c < Slots
    BY <2>4, Sizes DEF PlayoutInv, BufTypeOK
  <2>7. slot[c % Slots].packet = c /\ c # NoPacket
    BY <2>5, <2>6 DEF Waiting, NoPacket
  <2>8. out' = [status |-> "frame", packet |-> c]
    BY <2>4, <2>7
  <2> QED BY <2>8
<1> QED BY <1>1, PlayoutCorrect, WaitingCorrect, PTL DEF JitterSpec, ConcealsOnlyMissing
===============================================================================
