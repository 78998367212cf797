------------------------------ MODULE PassProofs ------------------------------
(***************************************************************************)
(* What the mixer's passes compute, for sequences of any length: the pass  *)
(* of peer_ctl_batch over the absent listeners of a batch (JoinWindow),    *)
(* the pass of a tick over the sources of a listener (PairMix) and the     *)
(* sender's walk over the sessions of a room (DotMerge).                   *)
(***************************************************************************)
EXTENDS JoinWindow, PairMix, TLAPS, FiniteSetTheorems, WellFoundedInduction

----------------------------------------------------------------------------
(* Induction, stated with a set in the place of a predicate.                *)

\* A set of naturals has a least element.
LEMMA LeastElement ==
  ASSUME NEW T, T \subseteq Nat, T # {}
  PROVE  \E m \in T : \A n \in T : m <= n
<1> DEFINE R == {ss \in Nat \X Nat : ss[1] < ss[2]}
<1>1. IsWellFoundedOn(R, Nat)
  BY NatLessThanWellFounded DEF OpToRel
<1>2. R = {ss \in Nat \X Nat : ss[1] < ss[2]}
  OBVIOUS
<1> HIDE DEF R
<1>3. PICK x \in T : \A y \in T : ~ (<<y, x>> \in R)
  BY <1>1, WFMin
<1>4. \A y \in T : ~(y < x)
  BY <1>2, <1>3
<1> QED BY <1>4

\* A set that has 0 and the successor of each of its members has them all.
LEMMA SetInduction ==
  ASSUME NEW S, 0 \in S, \A n \in Nat : n \in S => n + 1 \in S
  PROVE  Nat \subseteq S
<1> SUFFICES ASSUME NEW x \in Nat, x \notin S PROVE FALSE
  OBVIOUS
<1> DEFINE T == {n \in Nat : n \notin S}
<1>1. PICK m \in T : \A n \in T : m <= n
  BY LeastElement
<1>2. m # 0 /\ m - 1 \in Nat /\ m - 1 \notin T
  BY <1>1
<1> QED BY <1>2

\* The steps F[1] .. F[n] can be taken one after the other.
LEMMA IteratesExist ==
  ASSUME NEW V, NEW v0 \in V, NEW n \in Nat, NEW F, F \in [1 .. n -> [V -> V]]
  PROVE  \E f \in [0 .. n -> V] : f[0] = v0 /\ \A i \in 1 .. n : f[i] = F[i][f[i - 1]]
<1> DEFINE Good(k) ==
             \E f \in [0 .. k -> V] : f[0] = v0 /\ \A i \in 1 .. k : f[i] = F[i][f[i - 1]]
           T == {k \in Nat : k <= n => Good(k)}
<1>1. 0 \in T
  <2> DEFINE f == [i \in 0 .. 0 |-> v0]
  <2>1. f \in [0 .. 0 -> V] /\ f[0] = v0 /\ \A i \in 1 .. 0 : f[i] = F[i][f[i - 1]]
    OBVIOUS
  <2> QED BY <2>1
<1>2. ASSUME NEW k \in Nat, k \in T PROVE k + 1 \in T
  <2> SUFFICES ASSUME k + 1 <= n PROVE Good(k + 1)
    OBVIOUS
  <2>1. PICK f \in [0 .. k -> V] : f[0] = v0 /\ \A i \in 1 .. k : f[i] = F[i][f[i - 1]]
    BY <1>2
  <2> DEFINE g == [i \in 0 .. k + 1 |-> IF i <= k THEN f[i] ELSE F[k + 1][f[k]]]
  <2>2. g \in [0 .. k + 1 -> V]
    BY <2>1
  <2>3. g[0] = v0 /\ \A i \in 1 .. k + 1 : g[i] = F[i][g[i - 1]]
    BY <2>1
  <2> HIDE DEF g
  <2> QED BY <2>2, <2>3
<1> HIDE DEF T
<1>3. Nat \subseteq T
  BY <1>1, <1>2, SetInduction
<1>4. n \in T
  BY <1>3
<1> QED BY <1>4 DEF T

----------------------------------------------------------------------------
(* The deferred store: what its operations do to a store that names every   *)
(* listener once.                                                           *)

Record == [listener : Displays, excl : SUBSET Displays, mute : SUBSET Displays]

Distinct(st) == \A i, j \in DOMAIN st : st[i].listener = st[j].listener => i = j

\* A store in the middle of a deposit, and one between two deposits
Stores == {st \in Seq(Record) : Distinct(st)}
Settled ==
  {st \in Stores : /\ Len(st) <= MaxDeferred
                   /\ \A i \in DOMAIN st : st[i].excl # {} \/ st[i].mute # {}}

\* The record of M is older than the record of N.
Older(st, M, N) ==
  \E i, j \in DOMAIN st : i < j /\ st[i].listener = M /\ st[j].listener = N

\* SequencesExt's RemoveAt, index by index
LEMMA RemoveAtIs ==
  ASSUME NEW S, NEW s \in Seq(S), NEW i \in DOMAIN s
  PROVE  /\ RemoveAt(s, i) \in Seq(S)
         /\ Len(RemoveAt(s, i)) = Len(s) - 1
         /\ \A j \in 1 .. Len(s) - 1 :
              RemoveAt(s, i)[j] = IF j < i THEN s[j] ELSE s[j + 1]
<1> DEFINE p == SubSeq(s, 1, i - 1)
           q == SubSeq(s, i + 1, Len(s))
<1>1. i \in 1 .. Len(s) /\ Len(s) \in Nat
  OBVIOUS
<1>2. p \in Seq(S) /\ Len(p) = i - 1 /\ \A j \in 1 .. i - 1 : p[j] = s[j]
  BY <1>1
<1>3. q \in Seq(S) /\ Len(q) = Len(s) - i /\ \A j \in 1 .. Len(s) - i : q[j] = s[i + j]
  BY <1>1
<1> HIDE DEF p, q
<1> DEFINE c == p \o q
<1>4. /\ c \in Seq(S)
      /\ Len(c) = Len(p) + Len(q)
      /\ \A j \in 1 .. Len(p) + Len(q) : c[j] = IF j <= Len(p) THEN p[j] ELSE q[j - Len(p)]
  <2>1. p \in Seq(S) /\ q \in Seq(S)
    BY <1>2, <1>3
  <2> QED BY <2>1
<1>5. RemoveAt(s, i) = c
  BY DEF RemoveAt, p, q
<1> HIDE DEF c
<1>6. Len(c) = Len(s) - 1
  BY <1>1, <1>2, <1>3, <1>4
<1>7. ASSUME NEW j \in 1 .. Len(s) - 1
      PROVE  c[j] = IF j < i THEN s[j] ELSE s[j + 1]
  <2>1. CASE j < i
    <3>1. j \in 1 .. i - 1 /\ j \in 1 .. Len(p) + Len(q) /\ j <= Len(p)
      BY <1>1, <1>2, <1>3, <2>1
    <3> QED BY <1>2, <1>4, <2>1, <3>1
  <2>2. CASE ~(j < i)
    <3>1. j \in 1 .. Len(p) + Len(q) /\ ~(j <= Len(p))
      BY <1>1, <1>2, <1>3, <2>2
    <3>2. j - Len(p) \in 1 .. Len(s) - i /\ i + (j - Len(p)) = j + 1
      BY <1>1, <1>2, <2>2
    <3>3. c[j] = q[j - Len(p)]
      BY <1>4, <3>1
    <3> QED BY <1>3, <3>2, <3>3, <2>2
  <2> QED BY <2>1, <2>2
<1> QED BY <1>4, <1>5, <1>6, <1>7

\* find_idx finds the record of a listener that has one.
LEMMA FindIdxIs ==
  ASSUME NEW st \in Stores, NEW i \in DOMAIN st
  PROVE  /\ FindIdx(st, st[i].listener) = i
         /\ Has(st, st[i].listener)
         /\ Get(st, st[i].listener) = [excl |-> st[i].excl, mute |-> st[i].mute]
<1>1. \A j \in DOMAIN st : st[j].listener = st[i].listener => j = i
  BY DEF Stores, Distinct
<1>2. FindIdx(st, st[i].listener) = i
  BY <1>1 DEF FindIdx
<1>3. Has(st, st[i].listener)
  BY DEF Has
<1> QED BY <1>2, <1>3 DEF Get

\* remove_at takes one listener's record out and leaves the others' as they
\* were, and in the order they were in.
LEMMA RemoveAtKeeps ==
  ASSUME NEW st \in Stores, NEW i \in DOMAIN st
  PROVE  LET new == RemoveAt(st, i)
         IN  /\ new \in Stores
             /\ Len(new) = Len(st) - 1
             /\ ~Has(new, st[i].listener)
             /\ \A j \in DOMAIN new : \E k \in DOMAIN st : new[j] = st[k]
             /\ \A M : M # st[i].listener =>
                  /\ Has(new, M) <=> Has(st, M)
                  /\ Get(new, M) = Get(st, M)
             /\ \A M, N : /\ Older(st, M, N) /\ M # st[i].listener /\ N # st[i].listener
                          => Older(new, M, N)
<1> DEFINE new == RemoveAt(st, i)
           back(j) == IF j < i THEN j ELSE j + 1
<1>1. st \in Seq(Record) /\ Distinct(st)
  BY DEF Stores
<1>2. /\ new \in Seq(Record)
      /\ Len(new) = Len(st) - 1
      /\ \A j \in 1 .. Len(st) - 1 : new[j] = IF j < i THEN st[j] ELSE st[j + 1]
  BY <1>1, RemoveAtIs
<1> HIDE DEF new
<1>3. i \in 1 .. Len(st) /\ Len(st) \in Nat /\ DOMAIN new = 1 .. Len(st) - 1 /\ DOMAIN st = 1 .. Len(st)
  BY <1>1, <1>2
<1>4. \A j \in DOMAIN new : back(j) \in DOMAIN st /\ back(j) # i /\ new[j] = st[back(j)]
  BY <1>2, <1>3
<1>5. \A j, k \in DOMAIN new : back(j) = back(k) => j = k
  BY <1>3
<1>6. \A k \in DOMAIN st : k # i => \E j \in DOMAIN new : back(j) = k
  <2> TAKE k \in DOMAIN st
  <2> HAVE k # i
  <2>1. CASE k < i
    <3>1. k \in DOMAIN new /\ back(k) = k
      BY <1>3, <2>1
    <3> QED BY <3>1
  <2>2. CASE k > i
    <3>1. k - 1 \in DOMAIN new /\ back(k - 1) = k
      BY <1>3, <2>2
    <3> QED BY <3>1
  <2> QED BY <1>3, <2>1, <2>2
<1>7. \A j, k \in DOMAIN new : back(j) < back(k) => j < k
  BY <1>3
<1> HIDE DEF back
<1>8. Distinct(new)
  BY <1>1, <1>4, <1>5 DEF Distinct
<1>9. new \in Stores
  BY <1>2, <1>8 DEF Stores
<1>10. ~Has(new, st[i].listener)
  BY <1>1, <1>3, <1>4 DEF Has, Distinct
<1>11. ASSUME NEW M, M # st[i].listener
       PROVE  (Has(new, M) <=> Has(st, M)) /\ Get(new, M) = Get(st, M)
  <2>1. ASSUME Has(st, M) PROVE Has(new, M) /\ Get(new, M) = Get(st, M)
    <3>1. PICK k \in DOMAIN st : st[k].listener = M
      BY <2>1 DEF Has
    <3>2. PICK j \in DOMAIN new : back(j) = k
      BY <1>6, <1>11, <3>1
    <3>3. new[j] = st[k]
      BY <1>4, <3>2
    <3>4. Get(st, M) = [excl |-> st[k].excl, mute |-> st[k].mute]
      BY <3>1, FindIdxIs
    <3>5. /\ Has(new, new[j].listener)
          /\ Get(new, new[j].listener) = [excl |-> new[j].excl, mute |-> new[j].mute]
      BY <1>9, FindIdxIs
    <3> QED BY <3>1, <3>3, <3>4, <3>5
  <2>2. ASSUME Has(new, M) PROVE Has(st, M)
    BY <1>4, <2>2 DEF Has
  <2>3. ASSUME ~Has(st, M) PROVE Get(new, M) = Get(st, M)
    BY <2>2, <2>3 DEF Get
  <2> QED BY <2>1, <2>2, <2>3
<1>12. ASSUME NEW M, NEW N, Older(st, M, N), M # st[i].listener, N # st[i].listener
       PROVE  Older(new, M, N)
  <2>1. PICK k, l \in DOMAIN st : k < l /\ st[k].listener = M /\ st[l].listener = N
    BY <1>12 DEF Older
  <2>2. PICK j \in DOMAIN new : back(j) = k
    BY <1>6, <1>12, <2>1
  <2>3. PICK m \in DOMAIN new : back(m) = l
    BY <1>6, <1>12, <2>1
  <2>4. j < m /\ new[j].listener = M /\ new[m].listener = N
    BY <1>4, <1>7, <2>1, <2>2, <2>3
  <2> QED BY <2>4 DEF Older
<1> QED BY <1>2, <1>4, <1>9, <1>10, <1>11, <1>12 DEF new

\* Eviction: whatever keeps its record keeps its place behind the older ones.
LEMMA MakeRoomKeeps ==
  ASSUME NEW st \in Settled
  PROVE  LET new == MakeRoom(st)
         IN  /\ new \in Settled
             /\ Len(new) < MaxDeferred
             /\ Len(st) < MaxDeferred => new = st
             /\ \A M : Has(new, M) => Has(st, M)
             /\ \A M, N : Older(st, M, N) /\ Has(new, M) => Older(new, M, N)
<1>1. st \in Stores /\ st \in Seq(Record) /\ Len(st) \in Nat /\ Len(st) <= MaxDeferred
  BY DEF Settled, Stores
<1>2. MaxDeferred \in Nat /\ MaxDeferred > 0
  BY MaxDeferredAssumption
<1>3. CASE Len(st) < MaxDeferred
  <2>1. MakeRoom(st) = st
    BY <1>1, <1>2, <1>3 DEF MakeRoom
  <2> QED BY <1>3, <2>1
<1>4. CASE ~(Len(st) < MaxDeferred)
  <2>1. 1 \in DOMAIN st /\ Len(st) = MaxDeferred
    BY <1>1, <1>2, <1>4
  <2>2. RemoveAt(st, 1) = Tail(st)
    <3> DEFINE r == RemoveAt(st, 1)
               t == Tail(st)
    <3>1. /\ r \in Seq(Record) /\ Len(r) = Len(st) - 1
          /\ \A j \in 1 .. Len(st) - 1 : r[j] = IF j < 1 THEN st[j] ELSE st[j + 1]
      BY <1>1, <2>1, RemoveAtIs
    <3>2. /\ t \in Seq(Record) /\ Len(t) = Len(st) - 1
          /\ \A j \in 1 .. Len(st) - 1 : t[j] = st[j + 1]
      BY <1>1, <2>1
    <3> HIDE DEF r, t
    <3>3. \A j \in 1 .. Len(r) : r[j] = t[j]
      BY <1>1, <3>1, <3>2
    <3>4. r = t
      BY <3>1, <3>2, <3>3
    <3> QED BY <3>4 DEF r, t
  <2>3. MakeRoom(st) = RemoveAt(st, 1)
    BY <1>1, <1>2, <1>4, <2>2 DEF MakeRoom
  <2> DEFINE new == RemoveAt(st, 1)
  <2>4. /\ new \in Stores
        /\ Len(new) = Len(st) - 1
        /\ ~Has(new, st[1].listener)
        /\ \A j \in DOMAIN new : \E k \in DOMAIN st : new[j] = st[k]
        /\ \A M : M # st[1].listener => (Has(new, M) <=> Has(st, M))
        /\ \A M, N : /\ Older(st, M, N) /\ M # st[1].listener /\ N # st[1].listener
                     => Older(new, M, N)
    BY <1>1, <2>1, RemoveAtKeeps
  <2> HIDE DEF new
  <2>5. new \in Settled /\ Len(new) < MaxDeferred
    BY <1>1, <1>2, <2>1, <2>4 DEF Settled
  <2>6. ASSUME NEW M, NEW N, Older(st, M, N), Has(new, M) PROVE Older(new, M, N)
    <3>1. M # st[1].listener
      BY <2>4, <2>6
    <3>2. PICK i, j \in DOMAIN st : i < j /\ st[i].listener = M /\ st[j].listener = N
      BY <2>6 DEF Older
    <3>3. j # 1
      BY <1>1, <3>2
    <3>4. N # st[1].listener
      BY <2>1, <3>2, <3>3 DEF Settled, Stores, Distinct
    <3> QED BY <2>4, <2>6, <3>1, <3>4
  <2>7. \A M : Has(new, M) => Has(st, M)
    BY <2>4
  <2> QED BY <1>4, <2>3, <2>5, <2>6, <2>7 DEF new
<1> QED BY <1>3, <1>4

\* A record is appended for a listener that has none.
LEMMA WithRecordKeeps ==
  ASSUME NEW st \in Settled, NEW L \in Displays
  PROVE  LET base == WithRecord(st, L)
         IN  /\ base \in Stores
             /\ Len(base) <= MaxDeferred
             /\ Has(base, L)
             /\ Get(base, L) = Get(st, L)
             /\ \A i \in DOMAIN base :
                  base[i].listener # L => base[i].excl # {} \/ base[i].mute # {}
             /\ \A M : M # L => (Has(base, M) => Has(st, M))
             /\ Has(st, L) \/ Len(st) < MaxDeferred => \A M : Get(base, M) = Get(st, M)
             /\ \A M, N : Older(st, M, N) /\ Has(base, M) => Older(base, M, N)
<1>1. st \in Stores /\ st \in Seq(Record) /\ Len(st) \in Nat /\ Len(st) <= MaxDeferred
  BY DEF Settled, Stores
<1>2. CASE Has(st, L)
  <2>1. WithRecord(st, L) = st
    BY <1>2 DEF WithRecord
  <2> QED BY <1>1, <1>2, <2>1 DEF Settled
<1>3. CASE ~Has(st, L)
  <2> DEFINE room == MakeRoom(st)
             new == [listener |-> L, excl |-> {}, mute |-> {}]
             base == Append(room, new)
  <2>1. /\ room \in Settled
        /\ Len(room) < MaxDeferred
        /\ Len(st) < MaxDeferred => room = st
        /\ \A M : Has(room, M) => Has(st, M)
        /\ \A M, N : Older(st, M, N) /\ Has(room, M) => Older(room, M, N)
    BY MakeRoomKeeps
  <2>2. WithRecord(st, L) = base
    BY <1>3 DEF WithRecord
  <2>3. new \in Record /\ new.listener = L /\ new.excl = {} /\ new.mute = {}
    BY DEF Record
  <2> HIDE DEF room, new
  <2>4. room \in Stores /\ room \in Seq(Record) /\ Len(room) \in Nat
    BY <2>1 DEF Settled, Stores
  <2>5. /\ base \in Seq(Record)
        /\ Len(base) = Len(room) + 1
        /\ DOMAIN base = 1 .. Len(room) + 1
        /\ DOMAIN room = 1 .. Len(room)
        /\ \A i \in 1 .. Len(room) : base[i] = room[i]
        /\ base[Len(room) + 1] = new
    BY <2>3, <2>4
  <2> HIDE DEF base
  <2>6. ~Has(room, L)
    BY <1>3, <2>1
  <2>7. Distinct(base)
    <3>1. Distinct(room) /\ \A i \in DOMAIN room : room[i].listener # L
      BY <2>4, <2>6 DEF Has, Stores
    <3>2. \A i \in DOMAIN base : i # Len(room) + 1 => i \in DOMAIN room
      BY <2>4, <2>5
    <3> QED BY <2>3, <2>5, <3>1, <3>2 DEF Distinct
  <2>8. base \in Stores
    BY <2>5, <2>7 DEF Stores
  <2>9. Len(room) + 1 \in DOMAIN base
    BY <2>4, <2>5
  <2>10. Has(base, L) /\ Get(base, L) = NoCols
    <3>1. Get(base, base[Len(room) + 1].listener)
            = [excl |-> base[Len(room) + 1].excl, mute |-> base[Len(room) + 1].mute]
      BY <2>8, <2>9, FindIdxIs
    <3>2. Has(base, base[Len(room) + 1].listener)
      BY <2>8, <2>9, FindIdxIs
    <3> QED BY <2>3, <2>5, <3>1, <3>2 DEF NoCols
  <2>11. Get(st, L) = NoCols
    BY <1>3 DEF Get
  <2>12. \A i \in DOMAIN base : base[i].listener # L => base[i].excl # {} \/ base[i].mute # {}
    <3>1. \A i \in DOMAIN base : i # Len(room) + 1 => i \in DOMAIN room
      BY <2>4, <2>5
    <3> QED BY <2>1, <2>3, <2>5, <3>1 DEF Settled
  <2>13. ASSUME NEW M, M # L
         PROVE  (Has(base, M) <=> Has(room, M)) /\ Get(base, M) = Get(room, M)
    <3>1. ASSUME Has(base, M) PROVE Has(room, M)
      <4>1. PICK i \in DOMAIN base : base[i].listener = M
        BY <3>1 DEF Has
      <4>2. i # Len(room) + 1
        BY <2>3, <2>5, <2>13, <4>1
      <4>3. i \in DOMAIN room
        BY <2>4, <2>5, <4>2
      <4> QED BY <2>5, <4>1, <4>3 DEF Has
    <3>2. ASSUME Has(room, M) PROVE Has(base, M) /\ Get(base, M) = Get(room, M)
      <4>1. PICK i \in DOMAIN room : room[i].listener = M
        BY <3>2 DEF Has
      <4>2. i \in DOMAIN base /\ base[i] = room[i]
        BY <2>4, <2>5
      <4>3. Get(room, M) = [excl |-> room[i].excl, mute |-> room[i].mute]
        BY <2>4, <4>1, FindIdxIs
      <4>4. /\ Has(base, base[i].listener)
            /\ Get(base, base[i].listener) = [excl |-> base[i].excl, mute |-> base[i].mute]
        BY <2>8, <4>2, FindIdxIs
      <4> QED BY <4>1, <4>2, <4>3, <4>4
    <3>3. ASSUME ~Has(room, M) PROVE Get(base, M) = Get(room, M)
      BY <3>1, <3>3 DEF Get
    <3> QED BY <3>1, <3>2, <3>3
  <2>14. ASSUME NEW M, NEW N, Older(st, M, N), Has(base, M) PROVE Older(base, M, N)
    <3>1. M # L
      BY <1>3, <2>14 DEF Older, Has
    <3>2. Older(room, M, N)
      BY <2>1, <2>13, <2>14, <3>1
    <3>3. PICK i, j \in DOMAIN room : i < j /\ room[i].listener = M /\ room[j].listener = N
      BY <3>2 DEF Older
    <3>4. i \in DOMAIN base /\ j \in DOMAIN base /\ base[i] = room[i] /\ base[j] = room[j]
      BY <2>4, <2>5
    <3> QED BY <3>3, <3>4 DEF Older
  <2>15. Len(base) <= MaxDeferred
    <3>1. MaxDeferred \in Nat
      BY MaxDeferredAssumption
    <3> QED BY <2>1, <2>4, <2>5, <3>1
  <2>16. ASSUME Len(st) < MaxDeferred, NEW M PROVE Get(base, M) = Get(st, M)
    BY <2>1, <2>10, <2>11, <2>13, <2>16
  <2>17. \A M : M # L => (Has(base, M) => Has(st, M))
    BY <2>1, <2>13
  <2> QED BY <1>3, <2>2, <2>8, <2>10, <2>11, <2>12, <2>14, <2>15, <2>16, <2>17
<1> QED BY <1>2, <1>3

\* Rewriting the columns of one record touches nothing else.
LEMMA RewriteKeeps ==
  ASSUME NEW st \in Stores, NEW i \in DOMAIN st, NEW e \in Record,
         e.listener = st[i].listener
  PROVE  LET new == [st EXCEPT ![i] = e]
         IN  /\ new \in Stores
             /\ Len(new) = Len(st)
             /\ DOMAIN new = DOMAIN st
             /\ new[i] = e
             /\ \A j \in DOMAIN st : j # i => new[j] = st[j]
             /\ Get(new, e.listener) = [excl |-> e.excl, mute |-> e.mute]
             /\ \A M : Has(new, M) <=> Has(st, M)
             /\ \A M : M # e.listener => Get(new, M) = Get(st, M)
             /\ \A M, N : Older(st, M, N) => Older(new, M, N)
<1> DEFINE new == [st EXCEPT ![i] = e]
<1>1. st \in Seq(Record) /\ Distinct(st)
  BY DEF Stores
<1>2. /\ new \in Seq(Record) /\ Len(new) = Len(st) /\ DOMAIN new = DOMAIN st
      /\ new[i] = e /\ \A j \in DOMAIN st : j # i => new[j] = st[j]
  BY <1>1
<1> HIDE DEF new
<1>3. \A j \in DOMAIN st : new[j].listener = st[j].listener
  BY <1>2
<1>4. new \in Stores
  BY <1>1, <1>2, <1>3 DEF Stores, Distinct
<1>5. \A M : Has(new, M) <=> Has(st, M)
  BY <1>2, <1>3 DEF Has
<1>6. \A M, N : Older(st, M, N) => Older(new, M, N)
  BY <1>2, <1>3 DEF Older
<1>7. Get(new, e.listener) = [excl |-> e.excl, mute |-> e.mute]
  <2>1. Get(new, new[i].listener) = [excl |-> new[i].excl, mute |-> new[i].mute]
    BY <1>2, <1>4, FindIdxIs
  <2> QED BY <1>2, <2>1
<1>8. ASSUME NEW M, M # e.listener PROVE Get(new, M) = Get(st, M)
  <2>1. CASE ~Has(st, M)
    BY <1>5, <2>1 DEF Get
  <2>2. CASE Has(st, M)
    <3>1. PICK j \in DOMAIN st : st[j].listener = M
      BY <2>2 DEF Has
    <3>2. new[j] = st[j] /\ j \in DOMAIN new
      BY <1>2, <1>8, <3>1
    <3>3. Get(st, st[j].listener) = [excl |-> st[j].excl, mute |-> st[j].mute]
      BY FindIdxIs
    <3>4. Get(new, new[j].listener) = [excl |-> new[j].excl, mute |-> new[j].mute]
      BY <1>4, <3>2, FindIdxIs
    <3> QED BY <3>1, <3>2, <3>3, <3>4
  <2> QED BY <2>1, <2>2
<1> QED BY <1>2, <1>4, <1>5, <1>6, <1>7, <1>8 DEF new

\* An operation yields a column, and nothing comes of a remove from no column.
LEMMA ApplyOpType ==
  ASSUME NEW op \in Ops, NEW col \in SUBSET Displays, NEW src \in SUBSET Displays
  PROVE  /\ ApplyOp(op, col, src) \in SUBSET Displays
         /\ op = "remove" \/ src = {} => ApplyOp(op, {}, src) = {}
BY DEF ApplyOp, Ops

\* A listener without a record reads as one with empty columns.
LEMMA GetType ==
  ASSUME NEW st \in Stores, NEW M
  PROVE  Get(st, M) \in Cols /\ (~Has(st, M) => Get(st, M) = NoCols)
<1>1. CASE ~Has(st, M)
  BY <1>1 DEF Get, NoCols, Cols
<1>2. CASE Has(st, M)
  <2>1. PICK i \in DOMAIN st : st[i].listener = M
    BY <1>2 DEF Has
  <2>2. Get(st, M) = [excl |-> st[i].excl, mute |-> st[i].mute]
    BY <2>1, FindIdxIs
  <2>3. st[i] \in Record
    BY DEF Stores
  <2> QED BY <1>2, <2>2, <2>3 DEF Record, Cols
<1> QED BY <1>1, <1>2

\* A channel of a pair of columns after one entry
Touched(c, op, src, ch) ==
  [excl |-> IF ch = "excl" THEN ApplyOp(op, c.excl, src) ELSE c.excl,
   mute |-> IF ch = "mute" THEN ApplyOp(op, c.mute, src) ELSE c.mute]

\* The same for the two columns of a listener, one of which is touched
LEMMA TouchedType ==
  ASSUME NEW c \in Cols, NEW op \in Ops, NEW src \in SUBSET Displays, NEW ch \in Channels
  PROVE  /\ Touched(c, op, src, ch) \in Cols
         /\ op = "remove" \/ src = {} => Touched(NoCols, op, src, ch) = NoCols
<1>1. c.excl \in SUBSET Displays /\ c.mute \in SUBSET Displays
  BY DEF Cols
<1>2. ApplyOp(op, c.excl, src) \in SUBSET Displays /\ ApplyOp(op, c.mute, src) \in SUBSET Displays
  BY <1>1, ApplyOpType
<1>3. op = "remove" \/ src = {} => ApplyOp(op, {}, src) = {}
  BY ApplyOpType
<1> QED BY <1>1, <1>2, <1>3 DEF Touched, Cols, NoCols

\* A record whose channel ch is updated, field by field
LEMMA RecordTouched ==
  ASSUME NEW r \in Record, NEW op, NEW src, NEW ch \in Channels
  PROVE  LET t == Touched([excl |-> r.excl, mute |-> r.mute], op, src, ch)
         IN  [r EXCEPT ![ch] = ApplyOp(op, @, src)]
               = [listener |-> r.listener, excl |-> t.excl, mute |-> t.mute]
<1>1. PICK l, x, m : r = [listener |-> l, excl |-> x, mute |-> m]
  BY DEF Record
<1>2. CASE ch = "excl"
  BY <1>1, <1>2 DEF Touched
<1>3. CASE ch = "mute"
  BY <1>1, <1>3 DEF Touched
<1> QED BY <1>2, <1>3 DEF Channels

\* What one deposit does to a store: the named listener's columns take the
\* entry in the one channel, and nobody else's change unless the store was
\* full, when only the oldest can go.
Deposited(old, new, L, op, src, ch) ==
  /\ Get(new, L) = Touched(Get(old, L), op, src, ch)
  /\ \A M : M # L => (Has(new, M) => Has(old, M))
  /\ Has(old, L) \/ Len(old) < MaxDeferred =>
       \A M : M # L => Get(new, M) = Get(old, M)
  /\ \A M, N : /\ Older(old, M, N) /\ M # L /\ N # L /\ Has(new, M)
               => Older(new, M, N)

\* slv_deferred_put deposits, and leaves a sound store.
LEMMA PutKeeps ==
  ASSUME NEW st \in Settled, NEW L \in Displays, NEW op \in Ops,
         NEW src \in SUBSET Displays, NEW ch \in Channels
  PROVE  /\ Put(st, L, op, src, ch) \in Settled
         /\ Deposited(st, Put(st, L, op, src, ch), L, op, src, ch)
<1>0. st \in Stores
  BY DEF Settled
<1>1. CASE ~Has(st, L) /\ (op = "remove" \/ src = {})
  <2>1. Put(st, L, op, src, ch) = st
    BY <1>1 DEF Put
  <2>2. Get(st, L) = NoCols
    BY <1>0, <1>1, GetType
  <2>3. NoCols \in Cols
    BY DEF NoCols, Cols
  <2>4. Touched(NoCols, op, src, ch) = NoCols
    BY <1>1, <2>3, TouchedType
  <2> QED BY <2>1, <2>2, <2>4 DEF Deposited
<1>2. CASE ~(~Has(st, L) /\ (op = "remove" \/ src = {}))
  <2> DEFINE base == WithRecord(st, L)
             i == FindIdx(base, L)
             e == [listener |-> L, excl |-> Touched(Get(st, L), op, src, ch).excl,
                   mute |-> Touched(Get(st, L), op, src, ch).mute]
             mid == [base EXCEPT ![i] = e]
             new == DropIfEmpty(mid, i)
  <2>1. /\ base \in Stores
        /\ Len(base) <= MaxDeferred
        /\ Has(base, L)
        /\ Get(base, L) = Get(st, L)
        /\ \A k \in DOMAIN base :
             base[k].listener # L => base[k].excl # {} \/ base[k].mute # {}
        /\ \A M : M # L => (Has(base, M) => Has(st, M))
        /\ Has(st, L) \/ Len(st) < MaxDeferred => \A M : Get(base, M) = Get(st, M)
        /\ \A M, N : Older(st, M, N) /\ Has(base, M) => Older(base, M, N)
    BY WithRecordKeeps
  <2>2. Put(st, L, op, src, ch) = DropIfEmpty([base EXCEPT ![i][ch] = ApplyOp(op, @, src)], i)
    BY <1>2 DEF Put
  <2> HIDE DEF base
  <2>3. PICK k \in DOMAIN base : base[k].listener = L
    BY <2>1 DEF Has
  <2>4. i = k /\ Get(base, L) = [excl |-> base[k].excl, mute |-> base[k].mute]
    BY <2>1, <2>3, FindIdxIs
  <2> HIDE DEF i
  <2>5. base[i] \in Record /\ base[i].listener = L /\ i \in DOMAIN base /\ base \in Seq(Record)
    BY <2>1, <2>3, <2>4 DEF Stores
  <2>6. Get(st, L) \in Cols /\ Get(st, L).excl = base[i].excl /\ Get(st, L).mute = base[i].mute
    BY <1>0, <2>1, <2>4, GetType
  <2>7. Touched(Get(st, L), op, src, ch) \in Cols
    BY <2>6, TouchedType
  <2>8. e \in Record /\ e.listener = L
    BY <2>7 DEF Cols, Record
  <2>9. [base[i] EXCEPT ![ch] = ApplyOp(op, @, src)] = e
    <3>1. Get(st, L) = [excl |-> base[i].excl, mute |-> base[i].mute]
      BY <2>1, <2>4
    <3> DEFINE r == base[i]
               t == Touched([excl |-> r.excl, mute |-> r.mute], op, src, ch)
    <3>2. r \in Record
      BY <2>5
    <3> HIDE DEF r
    <3>3. [r EXCEPT ![ch] = ApplyOp(op, @, src)]
            = [listener |-> r.listener, excl |-> t.excl, mute |-> t.mute]
      BY <3>2, RecordTouched
    <3> QED BY <2>5, <3>1, <3>3 DEF r
  <2>10. [base EXCEPT ![i][ch] = ApplyOp(op, @, src)] = mid
    BY <2>5, <2>9
  <2>11. [excl |-> e.excl, mute |-> e.mute] = Touched(Get(st, L), op, src, ch)
    BY DEF Touched
  <2> HIDE DEF e
  <2>12. /\ mid \in Stores
         /\ Len(mid) = Len(base)
         /\ DOMAIN mid = DOMAIN base
         /\ mid[i] = e
         /\ \A j \in DOMAIN base : j # i => mid[j] = base[j]
         /\ Get(mid, e.listener) = [excl |-> e.excl, mute |-> e.mute]
         /\ \A M : Has(mid, M) <=> Has(base, M)
         /\ \A M : M # e.listener => Get(mid, M) = Get(base, M)
         /\ \A M, N : Older(base, M, N) => Older(mid, M, N)
    BY <2>1, <2>5, <2>8, RewriteKeeps
  <2> HIDE DEF mid
  <2>13. \A j \in DOMAIN mid : j # i => mid[j].excl # {} \/ mid[j].mute # {}
    <3>1. \A j \in DOMAIN base : j # i => base[j].listener # L
      BY <2>1, <2>5 DEF Stores, Distinct
    <3> QED BY <2>1, <2>12, <3>1
  <2>14. CASE ~(e.excl = {} /\ e.mute = {})
    <3>1. new = mid
      BY <2>12, <2>14 DEF DropIfEmpty
    <3>2. mid \in Settled
      BY <2>1, <2>12, <2>13, <2>14 DEF Settled
    <3>3. Get(mid, L) = Touched(Get(st, L), op, src, ch)
      BY <2>8, <2>11, <2>12
    <3>4. Put(st, L, op, src, ch) = mid
      BY <2>2, <2>10, <3>1
    <3> QED BY <2>1, <2>8, <2>12, <3>2, <3>3, <3>4 DEF Deposited
  <2>15. CASE e.excl = {} /\ e.mute = {}
    <3> DEFINE cut == RemoveAt(mid, i)
    <3>1. new = cut
      BY <2>12, <2>15 DEF DropIfEmpty
    <3>2. mid[i].listener = L
      BY <2>8, <2>12
    <3>3. /\ cut \in Stores
          /\ Len(cut) = Len(mid) - 1
          /\ ~Has(cut, mid[i].listener)
          /\ \A j \in DOMAIN cut : \E m \in DOMAIN mid : cut[j] = mid[m]
          /\ \A M : M # mid[i].listener =>
               /\ Has(cut, M) <=> Has(mid, M)
               /\ Get(cut, M) = Get(mid, M)
          /\ \A M, N : /\ Older(mid, M, N) /\ M # mid[i].listener /\ N # mid[i].listener
                       => Older(cut, M, N)
      BY <2>5, <2>12, RemoveAtKeeps
    <3> HIDE DEF cut
    <3>4. \A j \in DOMAIN cut : cut[j].excl # {} \/ cut[j].mute # {}
      <4> TAKE j \in DOMAIN cut
      <4>1. PICK m \in DOMAIN mid : cut[j] = mid[m]
        BY <3>3
      <4>2. cut[j].listener # L
        BY <3>2, <3>3 DEF Has
      <4>3. m # i
        BY <3>2, <4>1, <4>2
      <4> QED BY <2>13, <4>1, <4>3
    <3>5. cut \in Settled
      <4>1. MaxDeferred \in Nat /\ Len(mid) \in Nat
        BY <2>12, MaxDeferredAssumption DEF Stores
      <4>2. Len(cut) <= MaxDeferred
        BY <2>1, <2>12, <3>3, <4>1
      <4> QED BY <3>3, <3>4, <4>2 DEF Settled
    <3>6. Get(cut, L) = NoCols
      BY <3>2, <3>3, GetType
    <3>7. Touched(Get(st, L), op, src, ch) = NoCols
      BY <2>11, <2>15 DEF NoCols
    <3>8. Put(st, L, op, src, ch) = cut
      BY <2>2, <2>10, <3>1
    <3> QED BY <2>1, <2>8, <2>12, <3>2, <3>3, <3>5, <3>6, <3>7, <3>8 DEF Deposited
  <2> QED BY <2>14, <2>15
<1> QED BY <1>1, <1>2
----------------------------------------------------------------------------
(* A channel of a batch, entry by entry.                                    *)

\* The entries of a channel of a batch
LEMMA BatchType ==
  ASSUME NEW b \in Batches, NEW ch \in Channels
  PROVE  /\ b.op \in Ops
         /\ DOMAIN b[ch] \subseteq Displays
         /\ \A L \in DOMAIN b[ch] : b[ch][L] \in SUBSET Displays
BY WindowAssumption

\* IteratesExist for the deposits of a batch
LEMMA SettledIterates ==
  ASSUME NEW v0 \in Settled, NEW n \in Nat, NEW F, F \in [1 .. n -> [Settled -> Settled]]
  PROVE  \E f \in [0 .. n -> Settled] :
           f[0] = v0 /\ \A i \in 1 .. n : f[i] = F[i][f[i - 1]]
BY IteratesExist

\* DeferChannel is where the run of its deposits ends.
LEMMA DeferRun ==
  ASSUME NEW st \in Settled, NEW b \in Batches, NEW ch \in Channels,
         NEW order \in Seq(DOMAIN b[ch])
  PROVE  \E run \in [0 .. Len(order) -> Settled] :
           /\ run[0] = st
           /\ run[Len(order)] = DeferChannel(st, b, ch, order)
           /\ \A i \in 1 .. Len(order) :
                Deposited(run[i - 1], run[i], order[i], b.op, b[ch][order[i]], ch)
<1> DEFINE n == Len(order)
           F == [i \in 1 .. n |-> [v \in Settled |-> Put(v, order[i], b.op, b[ch][order[i]], ch)]]
           run == CHOOSE g : g = [i \in 0 .. n |->
                    IF i = 0 THEN st ELSE Put(g[i - 1], order[i], b.op, b[ch][order[i]], ch)]
<1>1. n \in Nat /\ \A i \in 1 .. n : order[i] \in DOMAIN b[ch]
  OBVIOUS
<1>2. ASSUME NEW i \in 1 .. n, NEW v \in Settled
      PROVE  LET w == Put(v, order[i], b.op, b[ch][order[i]], ch)
             IN  w \in Settled /\ Deposited(v, w, order[i], b.op, b[ch][order[i]], ch)
  <2>1. order[i] \in Displays /\ b.op \in Ops /\ b[ch][order[i]] \in SUBSET Displays
    BY <1>1, BatchType
  <2> QED BY <2>1, PutKeeps
<1>3. F \in [1 .. n -> [Settled -> Settled]]
  BY <1>2
<1>4. \A i \in 1 .. n : \A v \in Settled : F[i][v] = Put(v, order[i], b.op, b[ch][order[i]], ch)
  OBVIOUS
<1> HIDE DEF n, F
<1>5. PICK f \in [0 .. n -> Settled] : f[0] = st /\ \A i \in 1 .. n : f[i] = F[i][f[i - 1]]
  <2>1. n \in Nat
    BY <1>1
  <2> QED BY <1>3, <2>1, SettledIterates
<1>6. \A i \in 1 .. n : i - 1 \in 0 .. n
  BY <1>1
<1>7. \A i \in 1 .. n : f[i] = Put(f[i - 1], order[i], b.op, b[ch][order[i]], ch)
  BY <1>4, <1>5, <1>6
<1>8. f = [i \in 0 .. n |->
             IF i = 0 THEN st ELSE Put(f[i - 1], order[i], b.op, b[ch][order[i]], ch)]
  BY <1>1, <1>5, <1>7
<1>9. run = [i \in 0 .. n |->
               IF i = 0 THEN st ELSE Put(run[i - 1], order[i], b.op, b[ch][order[i]], ch)]
  BY <1>8
<1>10. run[n] = DeferChannel(st, b, ch, order)
  BY DEF DeferChannel, n
<1> HIDE DEF run
<1>11. run[0] = st /\ \A i \in 1 .. n : run[i] = Put(run[i - 1], order[i], b.op, b[ch][order[i]], ch)
  BY <1>1, <1>9
<1> DEFINE T == {k \in Nat : k <= n => run[k] \in Settled}
<1>12. 0 \in T
  BY <1>11
<1>13. ASSUME NEW k \in Nat, k \in T PROVE k + 1 \in T
  <2> SUFFICES ASSUME k + 1 <= n PROVE run[k + 1] \in Settled
    OBVIOUS
  <2>1. k + 1 \in 1 .. n /\ (k + 1) - 1 = k /\ run[k] \in Settled
    BY <1>1, <1>13
  <2> QED BY <1>2, <1>11, <2>1
<1> HIDE DEF T
<1>14. Nat \subseteq T
  BY <1>12, <1>13, SetInduction
<1>15. \A k \in 0 .. n : run[k] \in Settled
  BY <1>1, <1>14 DEF T
<1>16. run \in [0 .. n -> Settled]
  BY <1>9, <1>15
<1>17. \A i \in 1 .. n : Deposited(run[i - 1], run[i], order[i], b.op, b[ch][order[i]], ch)
  BY <1>2, <1>6, <1>11, <1>15
<1> QED BY <1>10, <1>11, <1>16, <1>17 DEF n

\* A store that lacks one of a set of listeners is shorter than the set.
LEMMA StoreSize ==
  ASSUME NEW st \in Stores, NEW W, IsFiniteSet(W), NEW L \in W, ~Has(st, L),
         \A i \in DOMAIN st : st[i].listener \in W
  PROVE  Len(st) < Cardinality(W)
<1> DEFINE f == [i \in 1 .. Len(st) |-> st[i].listener]
<1>1. Len(st) \in Nat /\ DOMAIN st = 1 .. Len(st) /\ Distinct(st)
  BY DEF Stores
<1>2. f \in Injection(1 .. Len(st), W \ {L})
  BY <1>1 DEF Has, Distinct, Injection, IsInjective
<1>3. IsFiniteSet(W \ {L}) /\ Cardinality(W \ {L}) = Cardinality(W) - 1 /\ Cardinality(W) \in Nat
  BY FS_RemoveElement, FS_CardinalityType
<1> HIDE DEF f
<1>4. Cardinality(1 .. Len(st)) <= Cardinality(W \ {L})
  BY <1>2, <1>3, FS_Injection
<1>5. Cardinality(1 .. Len(st)) = Len(st)
  BY <1>1, FS_Interval
<1> QED BY <1>1, <1>3, <1>4, <1>5

\* A channel's pass leaves a sound store that knows no listener neither the
\* store nor the pass named.
LEMMA DeferSound ==
  ASSUME NEW st \in Settled, NEW b \in Batches, NEW ch \in Channels,
         NEW order \in Seq(DOMAIN b[ch])
  PROVE  /\ DeferChannel(st, b, ch, order) \in Settled
         /\ \A M : Has(DeferChannel(st, b, ch, order), M) =>
              Has(st, M) \/ \E i \in 1 .. Len(order) : order[i] = M
<1> DEFINE n == Len(order)
<1>1. n \in Nat /\ \A i \in 1 .. n : order[i] \in DOMAIN b[ch]
  OBVIOUS
<1>2. PICK run \in [0 .. n -> Settled] :
        /\ run[0] = st
        /\ run[n] = DeferChannel(st, b, ch, order)
        /\ \A i \in 1 .. n : Deposited(run[i - 1], run[i], order[i], b.op, b[ch][order[i]], ch)
  BY DeferRun, Zenon
<1> HIDE DEF n
<1> DEFINE P(k) == \A M : Has(run[k], M) => Has(st, M) \/ \E i \in 1 .. k : order[i] = M
           T == {k \in Nat : k <= n => P(k)}
<1>3. 0 \in T
  BY <1>2
<1>4. ASSUME NEW k \in Nat, k \in T PROVE k + 1 \in T
  <2> SUFFICES ASSUME k + 1 <= n, NEW M, Has(run[k + 1], M)
               PROVE  Has(st, M) \/ \E i \in 1 .. k + 1 : order[i] = M
    OBVIOUS
  <2>1. /\ k + 1 \in 1 .. n /\ k \in 0 .. n /\ k <= n
        /\ Deposited(run[(k + 1) - 1], run[k + 1], order[k + 1], b.op, b[ch][order[k + 1]], ch)
    BY <1>1, <1>2
  <2>2. (k + 1) - 1 = k
    OBVIOUS
  <2>3. M # order[k + 1] => Has(run[k], M)
    BY <2>1, <2>2 DEF Deposited
  <2>4. Has(run[k], M) => Has(st, M) \/ \E i \in 1 .. k : order[i] = M
    BY <1>4, <2>1
  <2>5. k + 1 \in 1 .. k + 1 /\ \A i \in 1 .. k : i \in 1 .. k + 1
    OBVIOUS
  <2> QED BY <2>3, <2>4, <2>5
<1> HIDE DEF T
<1>5. n \in T
  BY <1>1, <1>3, <1>4, SetInduction
<1>6. P(n) /\ n \in 0 .. n
  BY <1>1, <1>5 DEF T
<1> QED BY <1>2, <1>6 DEF n

\* A record a pass does not name and does not evict stays behind the older ones.
LEMMA DeferOlder ==
  ASSUME NEW st \in Settled, NEW b \in Batches, NEW ch \in Channels,
         NEW order \in Seq(DOMAIN b[ch]), NEW M, NEW N,
         M \notin DOMAIN b[ch], N \notin DOMAIN b[ch],
         Older(st, M, N), Has(DeferChannel(st, b, ch, order), M)
  PROVE  Older(DeferChannel(st, b, ch, order), M, N)
<1> DEFINE n == Len(order)
<1>1. n \in Nat /\ \A i \in 1 .. n : order[i] \in DOMAIN b[ch]
  OBVIOUS
<1>2. PICK run \in [0 .. n -> Settled] :
        /\ run[0] = st
        /\ run[n] = DeferChannel(st, b, ch, order)
        /\ \A i \in 1 .. n : Deposited(run[i - 1], run[i], order[i], b.op, b[ch][order[i]], ch)
  BY DeferRun, Zenon
<1> HIDE DEF n
<1> DEFINE T == {k \in Nat : k <= n => (Has(run[k], M) => Older(run[k], M, N))}
<1>3. 0 \in T
  BY <1>2
<1>4. ASSUME NEW k \in Nat, k \in T PROVE k + 1 \in T
  <2> SUFFICES ASSUME k + 1 <= n, Has(run[k + 1], M) PROVE Older(run[k + 1], M, N)
    OBVIOUS
  <2>1. /\ k + 1 \in 1 .. n /\ k \in 0 .. n /\ k <= n
        /\ Deposited(run[(k + 1) - 1], run[k + 1], order[k + 1], b.op, b[ch][order[k + 1]], ch)
    BY <1>1, <1>2
  <2>2. (k + 1) - 1 = k
    OBVIOUS
  <2>3. M # order[k + 1] /\ N # order[k + 1]
    BY <1>1, <2>1
  <2>4. Has(run[k], M)
    BY <2>1, <2>2, <2>3 DEF Deposited
  <2>5. Older(run[k], M, N)
    BY <1>4, <2>1, <2>4
  <2> QED BY <2>1, <2>2, <2>3, <2>5 DEF Deposited
<1> HIDE DEF T
<1>5. n \in T
  BY <1>1, <1>3, <1>4, SetInduction
<1> QED BY <1>1, <1>2, <1>5 DEF T

\* While the listeners fit the store, a pass applies each of its entries to the
\* columns deferred for the entry's listener and does nothing else.
LEMMA DeferWithinCap ==
  ASSUME NEW st \in Settled, NEW b \in Batches, NEW ch \in Channels,
         NEW order \in Seq(DOMAIN b[ch]), NEW W
  PROVE  /\ \A i, j \in 1 .. Len(order) : order[i] = order[j] => i = j
         /\ IsFiniteSet(W) /\ Cardinality(W) <= MaxDeferred
         /\ \A M : Has(st, M) => M \in W
         /\ \A i \in 1 .. Len(order) : order[i] \in W
         => \A M : Get(DeferChannel(st, b, ch, order), M) =
              IF \E i \in 1 .. Len(order) : order[i] = M
              THEN Touched(Get(st, M), b.op, b[ch][M], ch) ELSE Get(st, M)
<1> DEFINE n == Len(order)
           Col(k, M) == IF \E i \in 1 .. k : order[i] = M
                        THEN Touched(Get(st, M), b.op, b[ch][M], ch) ELSE Get(st, M)
<1>1. n \in Nat /\ \A i \in 1 .. n : order[i] \in DOMAIN b[ch]
  OBVIOUS
<1>2. PICK run \in [0 .. n -> Settled] :
        /\ run[0] = st
        /\ run[n] = DeferChannel(st, b, ch, order)
        /\ \A i \in 1 .. n : Deposited(run[i - 1], run[i], order[i], b.op, b[ch][order[i]], ch)
  BY DeferRun, Zenon
<1> SUFFICES ASSUME \A i, j \in 1 .. n : order[i] = order[j] => i = j,
                    IsFiniteSet(W), Cardinality(W) <= MaxDeferred,
                    \A M : Has(st, M) => M \in W,
                    \A i \in 1 .. n : order[i] \in W
             PROVE  \A M : Get(DeferChannel(st, b, ch, order), M) = Col(n, M)
  OBVIOUS
<1>3. /\ \A i, j \in 1 .. n : order[i] = order[j] => i = j
      /\ \A i \in 1 .. n : order[i] \in W
  OBVIOUS
<1> HIDE DEF n
<1> DEFINE P(k) == /\ \A M : Has(run[k], M) => M \in W
                   /\ \A M : Get(run[k], M) = Col(k, M)
           T == {k \in Nat : k <= n => P(k)}
<1>4. 0 \in T
  BY <1>2
<1>5. ASSUME NEW k \in Nat, k \in T PROVE k + 1 \in T
  <2> SUFFICES ASSUME k + 1 <= n PROVE P(k + 1)
    OBVIOUS
  <2> DEFINE L == order[k + 1]
  <2>1. /\ k + 1 \in 1 .. n /\ k \in 0 .. n /\ k <= n
        /\ Deposited(run[(k + 1) - 1], run[k + 1], L, b.op, b[ch][L], ch)
        /\ run[k] \in Settled
    BY <1>1, <1>2
  <2>2. (k + 1) - 1 = k
    OBVIOUS
  <2>3. L \in W /\ \A i \in 1 .. k : order[i] # L
    BY <1>1, <1>3, <2>1
  <2> HIDE DEF L
  <2>4. P(k)
    BY <1>5, <2>1
  <2>5. Has(run[k], L) \/ Len(run[k]) < MaxDeferred
    <3> SUFFICES ASSUME ~Has(run[k], L) PROVE Len(run[k]) < MaxDeferred
      OBVIOUS
    <3>1. run[k] \in Stores /\ Len(run[k]) \in Nat
      BY <2>1 DEF Settled, Stores
    <3>2. \A i \in DOMAIN run[k] : run[k][i].listener \in W
      BY <2>4 DEF Has
    <3>3. Len(run[k]) < Cardinality(W)
      BY <2>3, <3>1, <3>2, StoreSize
    <3>4. MaxDeferred \in Nat /\ Cardinality(W) \in Nat
      BY MaxDeferredAssumption, FS_CardinalityType
    <3> QED BY <3>1, <3>3, <3>4
  <2>6. /\ Get(run[k + 1], L) = Touched(Get(run[k], L), b.op, b[ch][L], ch)
        /\ \A M : M # L => (Has(run[k + 1], M) => Has(run[k], M))
        /\ \A M : M # L => Get(run[k + 1], M) = Get(run[k], M)
    BY <2>1, <2>2, <2>5 DEF Deposited
  <2>7. \A M : Has(run[k + 1], M) => M \in W
    BY <2>3, <2>4, <2>6
  <2>8. ASSUME NEW M PROVE Get(run[k + 1], M) = Col(k + 1, M)
    <3>1. CASE M = L
      <4>1. \E i \in 1 .. k + 1 : order[i] = M
        BY <3>1 DEF L
      <4>2. Get(run[k], L) = Get(st, L)
        BY <2>3, <2>4
      <4> QED BY <2>6, <3>1, <4>1, <4>2
    <3>2. CASE M # L
      <4>1. (\E i \in 1 .. k + 1 : order[i] = M) <=> (\E i \in 1 .. k : order[i] = M)
        BY <3>2 DEF L
      <4> QED BY <2>4, <2>6, <3>2, <4>1
    <3> QED BY <3>1, <3>2
  <2> QED BY <2>7, <2>8
<1> HIDE DEF T
<1>6. n \in T
  BY <1>1, <1>4, <1>5, SetInduction
<1>7. P(n)
  BY <1>1, <1>6 DEF T
<1> QED BY <1>2, <1>7 DEF n
----------------------------------------------------------------------------
(* The join window.                                                         *)

\* The inductive invariant: besides what StoreKeeps says, nothing is deferred
\* or asked for a listener that is present, and a session that is in no room
\* and through with its leave holds no columns.
WindowInv ==
  /\ FeedTypeOK /\ deferred \in Settled
  /\ intent \in [Displays -> Cols] /\ crowded \in BOOLEAN
  /\ \A L \in Displays : Present(L) => intent[L] = NoCols /\ ~Has(deferred, L)
  /\ ~crowded => \A L \in Displays : Get(deferred, L) = intent[L]
  /\ \A s \in Sessions : s \notin member /\ leaving[s] = "no" => cols[s] = NoCols

\* An order of a batch's absent listeners names each of them once.
LEMMA OrderIs ==
  ASSUME NEW A, IsFiniteSet(A), NEW order \in SetToSeqs(A)
  PROVE  /\ order \in Seq(A)
         /\ \A i, j \in 1 .. Len(order) : order[i] = order[j] => i = j
         /\ \A x \in A : \E i \in 1 .. Len(order) : order[i] = x
<1> DEFINE n == Cardinality(A)
<1>1. n \in Nat
  BY FS_CardinalityType
<1>2. order \in [1 .. n -> A] /\ \A i, j \in 1 .. n : i # j => order[i] # order[j]
  BY DEF SetToSeqs
<1>3. order \in Injection(1 .. n, A)
  BY <1>2 DEF Injection, IsInjective
<1>4. Cardinality(1 .. n) = n
  BY <1>1, FS_Interval
<1>5. order \in Surjection(1 .. n, A)
  BY <1>3, <1>4, FS_Injection
<1> HIDE DEF n
<1>6. order \in Seq(A) /\ Len(order) = n
  BY <1>1, <1>2
<1> QED BY <1>2, <1>5, <1>6 DEF Surjection

\* The columns of M after channel ch of batch b, where it is deferred
DeferredAfter(b, ch, M, c) ==
  IF M \in DOMAIN b[ch] /\ ~Present(M) THEN Touched(c, b.op, b[ch][M], ch) ELSE c

\* One channel of a batch: from the store st to the store new.
ChannelDeferred(b, ch, st, new) ==
  /\ new \in Settled
  /\ \A M : Has(new, M) => Has(st, M) \/ (M \in DOMAIN b[ch] /\ ~Present(M))
  /\ \A W : /\ IsFiniteSet(W) /\ Cardinality(W) <= MaxDeferred
            /\ \A M : Has(st, M) => M \in W
            /\ DOMAIN b[ch] \subseteq W
            => \A M : Get(new, M) = DeferredAfter(b, ch, M, Get(st, M))
  /\ \A M, N : /\ M \notin DOMAIN b[ch] /\ N \notin DOMAIN b[ch]
               /\ Older(st, M, N) /\ Has(new, M)
               => Older(new, M, N)

\* A batch's channel does to the store what ChannelDeferred says, in any order of
\* its absent listeners.
LEMMA ChannelPass ==
  ASSUME NEW st \in Settled, NEW b \in Batches, NEW ch \in Channels,
         NEW order \in DeferOrders(b, ch, {})
  PROVE  ChannelDeferred(b, ch, st, DeferChannel(st, b, ch, order))
<1> DEFINE A == {L \in DOMAIN b[ch] \ {} : ~Present(L)}
           new == DeferChannel(st, b, ch, order)
<1>1. A \subseteq DOMAIN b[ch] /\ DOMAIN b[ch] \subseteq Displays
  BY BatchType
<1>2. IsFiniteSet(A)
  BY <1>1, WindowAssumption, FS_Subset
<1>3. order \in SetToSeqs(A)
  BY DEF DeferOrders
<1>4. \A M : M \in A <=> M \in DOMAIN b[ch] /\ ~Present(M)
  OBVIOUS
<1> HIDE DEF A
<1>5. /\ order \in Seq(A)
      /\ \A i, j \in 1 .. Len(order) : order[i] = order[j] => i = j
      /\ \A x \in A : \E i \in 1 .. Len(order) : order[i] = x
  BY <1>2, <1>3, OrderIs
<1>6. order \in Seq(DOMAIN b[ch]) /\ \A i \in 1 .. Len(order) : order[i] \in A
  BY <1>1, <1>5
<1>7. \A M : (\E i \in 1 .. Len(order) : order[i] = M) <=> M \in A
  BY <1>5, <1>6
<1>8. /\ new \in Settled
      /\ \A M : Has(new, M) => Has(st, M) \/ \E i \in 1 .. Len(order) : order[i] = M
  BY <1>6, DeferSound
<1>9. ASSUME NEW M, NEW N, M \notin DOMAIN b[ch], N \notin DOMAIN b[ch],
             Older(st, M, N), Has(new, M)
      PROVE  Older(new, M, N)
  BY <1>6, <1>9, DeferOlder
<1>10. ASSUME NEW W, IsFiniteSet(W), Cardinality(W) <= MaxDeferred,
              \A M : Has(st, M) => M \in W, DOMAIN b[ch] \subseteq W, NEW M
       PROVE  Get(new, M) = DeferredAfter(b, ch, M, Get(st, M))
  <2>1. \A i \in 1 .. Len(order) : order[i] \in W
    BY <1>1, <1>6, <1>10
  <2>2. Get(new, M) = IF \E i \in 1 .. Len(order) : order[i] = M
                      THEN Touched(Get(st, M), b.op, b[ch][M], ch) ELSE Get(st, M)
    BY <1>5, <1>6, <1>10, <2>1, DeferWithinCap
  <2> QED BY <1>4, <1>7, <2>2 DEF DeferredAfter
<1> HIDE DEF new
<1>11. \A M : Has(new, M) => Has(st, M) \/ (M \in DOMAIN b[ch] /\ ~Present(M))
  BY <1>4, <1>7, <1>8
<1>12. ChannelDeferred(b, ch, st, new)
  BY <1>8, <1>9, <1>10, <1>11 DEF ChannelDeferred
<1> QED BY <1>12 DEF new

\* A whole batch: the exclusions, then the mutes
LEMMA BatchPass ==
  ASSUME NEW b \in Batches, deferred \in Settled, ApplyBatch(b, {})
  PROVE  \E mid : ChannelDeferred(b, "excl", deferred, mid) /\ ChannelDeferred(b, "mute", mid, deferred')
<1>1. PICK eo \in DeferOrders(b, "excl", {}), mo \in DeferOrders(b, "mute", {}) :
        deferred' = DeferChannel(DeferChannel(deferred, b, "excl", eo), b, "mute", mo)
  BY DEF ApplyBatch
<1> DEFINE mid == DeferChannel(deferred, b, "excl", eo)
<1>2. "excl" \in Channels /\ "mute" \in Channels
  BY DEF Channels
<1>3. ChannelDeferred(b, "excl", deferred, mid)
  BY <1>2, ChannelPass
<1> HIDE DEF mid
<1>4. mid \in Settled
  BY <1>3 DEF ChannelDeferred
<1>5. ChannelDeferred(b, "mute", mid, DeferChannel(mid, b, "mute", mo))
  BY <1>2, <1>4, ChannelPass
<1> QED BY <1>1, <1>3, <1>5 DEF mid

\* What a batch asks for an absent listener is what the two channels do to it.
LEMMA IntentAfterIs ==
  ASSUME NEW b \in Batches, NEW M \in Displays, intent[M] \in Cols
  PROVE  /\ IntentAfter(b, M)
              = DeferredAfter(b, "mute", M, DeferredAfter(b, "excl", M, intent[M]))
         /\ IntentAfter(b, M) \in Cols
<1>1. PICK x \in SUBSET Displays, m \in SUBSET Displays : intent[M] = [excl |-> x, mute |-> m]
  BY DEF Cols
<1>2. "excl" \in Channels /\ "mute" \in Channels /\ b.op \in Ops
  BY BatchType DEF Channels
<1> DEFINE xx == IF M \in DOMAIN b["excl"] THEN ApplyOp(b.op, x, b["excl"][M]) ELSE x
           mm == IF M \in DOMAIN b["mute"] THEN ApplyOp(b.op, m, b["mute"][M]) ELSE m
<1>3. xx \in SUBSET Displays /\ mm \in SUBSET Displays
  BY <1>2, BatchType, ApplyOpType
<1>4. CASE Present(M)
  BY <1>4 DEF IntentAfter, DeferredAfter
<1>5. CASE ~Present(M)
  <2>1. IntentAfter(b, M) = [ch \in Channels |-> IF ch = "excl" THEN xx ELSE mm]
    BY <1>1, <1>5 DEF IntentAfter, Channels
  <2>2. DeferredAfter(b, "mute", M, DeferredAfter(b, "excl", M, intent[M]))
          = [excl |-> xx, mute |-> mm]
    BY <1>1, <1>5 DEF DeferredAfter, Touched
  <2> HIDE DEF xx, mm
  <2>3. [ch \in Channels |-> IF ch = "excl" THEN xx ELSE mm] = [excl |-> xx, mute |-> mm]
    BY DEF Channels
  <2>4. [excl |-> xx, mute |-> mm] \in Cols
    BY <1>3 DEF Cols
  <2> QED BY <2>1, <2>2, <2>3, <2>4
<1> QED BY <1>4, <1>5

\* The columns of the sessions after a batch
LEMMA BatchCols ==
  ASSUME NEW b \in Batches, FeedTypeOK, ApplyBatch(b, {})
  PROVE  /\ cols' \in [Sessions -> Cols]
         /\ \A s \in Sessions : s \notin Participants => cols'[s] = cols[s]
<1>1. "excl" \in Channels /\ "mute" \in Channels /\ b.op \in Ops
  BY BatchType DEF Channels
<1>2. ASSUME NEW s \in Sessions, NEW ch \in Channels, cols[s][ch] \in SUBSET Displays
      PROVE  /\ ChannelAfter(b, ch, {}, s) \in SUBSET Displays
             /\ s \notin Participants => ChannelAfter(b, ch, {}, s) = cols[s][ch]
  <2>1. CASE EntryApplies(b, ch, {}, s)
    <3>1. s \in Participants /\ DisplayOf[s] \in DOMAIN b[ch]
      BY <2>1 DEF EntryApplies
    <3>2. b[ch][DisplayOf[s]] \in SUBSET Displays
      BY <3>1, BatchType
    <3>3. ApplyOp(b.op, cols[s][ch], b[ch][DisplayOf[s]]) \in SUBSET Displays
      BY <1>1, <1>2, <3>2, ApplyOpType
    <3> QED BY <2>1, <3>1, <3>3 DEF ChannelAfter
  <2>2. CASE ~EntryApplies(b, ch, {}, s)
    BY <1>2, <2>2 DEF ChannelAfter
  <2> QED BY <2>1, <2>2
<1>3. \A s \in Sessions : cols[s] \in Cols
  BY DEF FeedTypeOK
<1>4. \A s \in Sessions : cols[s]["excl"] \in SUBSET Displays /\ cols[s]["mute"] \in SUBSET Displays
  BY <1>3 DEF Cols
<1>5. cols' = [s \in Sessions |-> [excl |-> ChannelAfter(b, "excl", {}, s),
                                   mute |-> ChannelAfter(b, "mute", {}, s)]]
  BY DEF ApplyBatch
<1>6. ASSUME NEW s \in Sessions
      PROVE  /\ ChannelAfter(b, "excl", {}, s) \in SUBSET Displays
             /\ ChannelAfter(b, "mute", {}, s) \in SUBSET Displays
             /\ s \notin Participants => /\ ChannelAfter(b, "excl", {}, s) = cols[s].excl
                                         /\ ChannelAfter(b, "mute", {}, s) = cols[s].mute
  BY <1>1, <1>2, <1>4
<1>7. cols' \in [Sessions -> Cols]
  BY <1>5, <1>6 DEF Cols
<1>8. ASSUME NEW s \in Sessions, s \notin Participants PROVE cols'[s] = cols[s]
  <2>1. cols[s] = [excl |-> cols[s].excl, mute |-> cols[s].mute]
    BY <1>3 DEF Cols
  <2> QED BY <1>5, <1>6, <1>8, <2>1
<1> QED BY <1>7, <1>8

\* The three kinds of step of the join window keep the invariant: a batch,
LEMMA BatchInv ==
  ASSUME WindowInv, NEW b \in Batches, Batch(b)
  PROVE  WindowInv'
<1>1. /\ FeedTypeOK /\ deferred \in Settled /\ intent \in [Displays -> Cols] /\ crowded \in BOOLEAN
      /\ ApplyBatch(b, {})
  BY DEF WindowInv, Batch, Asked
<1>2. member' = member /\ leaving' = leaving
  BY <1>1 DEF ApplyBatch
<1>3. Participants' = Participants /\ \A L : Present(L)' <=> Present(L)
  BY <1>2 DEF Participants, Present
<1>4. /\ intent' = [L \in Displays |-> IntentAfter(b, L)]
      /\ crowded' = (crowded \/ Cardinality(Waiting \union Named(b)) > MaxDeferred)
  BY DEF Batch, Asked
<1>5. PICK mid : /\ ChannelDeferred(b, "excl", deferred, mid)
                 /\ ChannelDeferred(b, "mute", mid, deferred')
  BY <1>1, BatchPass
<1>6. cols' \in [Sessions -> Cols] /\ \A s \in Sessions : s \notin Participants => cols'[s] = cols[s]
  BY <1>1, BatchCols
<1>7. deferred' \in Settled
  BY <1>5 DEF ChannelDeferred
<1>8. FeedTypeOK'
  <2>1. deferred' \in Seq(Record)
    BY <1>7 DEF Settled, Stores
  <2> QED BY <1>1, <1>2, <1>6, <2>1 DEF FeedTypeOK, Record
<1>9. \A L \in Displays : intent[L] \in Cols
  BY <1>1
<1>10. \A L \in Displays : intent'[L] = IntentAfter(b, L) /\ IntentAfter(b, L) \in Cols
  BY <1>4, <1>9, IntentAfterIs
<1>11. intent' \in [Displays -> Cols] /\ crowded' \in BOOLEAN
  BY <1>4, <1>10
<1>12. ASSUME NEW L \in Displays, Present(L)' PROVE intent'[L] = NoCols /\ ~Has(deferred', L)
  <2>1. Present(L) /\ intent[L] = NoCols /\ ~Has(deferred, L)
    BY <1>3, <1>12 DEF WindowInv
  <2>2. intent'[L] = intent[L]
    BY <1>10, <2>1 DEF IntentAfter
  <2>3. ~Has(deferred', L)
    BY <1>5, <2>1 DEF ChannelDeferred
  <2> QED BY <2>1, <2>2, <2>3
<1>13. ASSUME ~crowded', NEW L \in Displays PROVE Get(deferred', L) = intent'[L]
  <2> DEFINE W == Waiting \union Named(b)
  <2>1. ~crowded /\ ~(Cardinality(W) > MaxDeferred)
    BY <1>4, <1>13
  <2>2. /\ DOMAIN b["excl"] \subseteq Displays /\ DOMAIN b["mute"] \subseteq Displays
    BY BatchType DEF Channels
  <2>3. /\ DOMAIN b["excl"] \subseteq W /\ DOMAIN b["mute"] \subseteq W /\ Waiting \subseteq W
        /\ W \subseteq Displays
    BY <2>2 DEF Named, Waiting
  <2>4. IsFiniteSet(W)
    BY <2>3, WindowAssumption, FS_Subset
  <2>5. Cardinality(W) <= MaxDeferred
    <3>1. Cardinality(W) \in Nat /\ MaxDeferred \in Nat
      BY <2>4, FS_CardinalityType, MaxDeferredAssumption
    <3> HIDE DEF W
    <3> QED BY <2>1, <3>1
  <2>6. \A M : Has(deferred, M) => M \in Waiting
    <3> SUFFICES ASSUME NEW i \in DOMAIN deferred PROVE deferred[i].listener \in Waiting
      BY DEF Has
    <3>1. deferred \in Stores /\ deferred[i] \in Record
      BY <1>1 DEF Settled, Stores
    <3>2. Get(deferred, deferred[i].listener) = [excl |-> deferred[i].excl, mute |-> deferred[i].mute]
      BY <3>1, FindIdxIs
    <3>3. deferred[i].excl # {} \/ deferred[i].mute # {}
      BY <1>1 DEF Settled
    <3>4. deferred[i].listener \in Displays
      BY <3>1 DEF Record
    <3>5. intent[deferred[i].listener] = Get(deferred, deferred[i].listener)
      BY <2>1, <3>4 DEF WindowInv
    <3>6. Get(deferred, deferred[i].listener) # NoCols
      BY <3>2, <3>3 DEF NoCols
    <3> QED BY <3>4, <3>5, <3>6 DEF Waiting
  <2> HIDE DEF W
  <2>7. \A M : Get(mid, M) = DeferredAfter(b, "excl", M, Get(deferred, M))
    BY <1>5, <2>3, <2>4, <2>5, <2>6 DEF ChannelDeferred
  <2>8. \A M : Has(mid, M) => M \in W
    BY <1>5, <2>3, <2>6 DEF ChannelDeferred
  <2>9. \A M : Get(deferred', M) = DeferredAfter(b, "mute", M, Get(mid, M))
    BY <1>5, <2>3, <2>4, <2>5, <2>8 DEF ChannelDeferred
  <2>10. Get(deferred, L) = intent[L]
    BY <2>1 DEF WindowInv
  <2>11. intent'[L] = DeferredAfter(b, "mute", L, DeferredAfter(b, "excl", L, intent[L]))
    BY <1>9, <1>10, IntentAfterIs
  <2> QED BY <2>7, <2>9, <2>10, <2>11
<1>14. ASSUME NEW s \in Sessions, s \notin member', leaving'[s] = "no" PROVE cols'[s] = NoCols
  BY <1>2, <1>6, <1>14 DEF WindowInv, Participants
<1> QED BY <1>7, <1>8, <1>11, <1>12, <1>13, <1>14 DEF WindowInv

\* replay_done takes the listener's record out and leaves the others.
LEMMA ReplayDoneKeeps ==
  ASSUME NEW st \in Settled, NEW L
  PROVE  /\ ReplayDone(st, L) \in Settled
         /\ ~Has(ReplayDone(st, L), L)
         /\ \A M : M # L => /\ Has(ReplayDone(st, L), M) <=> Has(st, M)
                            /\ Get(ReplayDone(st, L), M) = Get(st, M)
<1>1. st \in Stores
  BY DEF Settled
<1>2. CASE ~Has(st, L)
  BY <1>2 DEF ReplayDone
<1>3. CASE Has(st, L)
  <2>1. PICK i \in DOMAIN st : st[i].listener = L
    BY <1>3 DEF Has
  <2>2. FindIdx(st, L) = i
    BY <1>1, <2>1, FindIdxIs
  <2> DEFINE new == RemoveAt(st, i)
  <2>3. ReplayDone(st, L) = new
    BY <1>3, <2>2 DEF ReplayDone
  <2>4. /\ new \in Stores
        /\ Len(new) = Len(st) - 1
        /\ ~Has(new, st[i].listener)
        /\ \A j \in DOMAIN new : \E k \in DOMAIN st : new[j] = st[k]
        /\ \A M : M # st[i].listener => /\ Has(new, M) <=> Has(st, M)
                                        /\ Get(new, M) = Get(st, M)
    BY <1>1, <2>1, RemoveAtKeeps
  <2> HIDE DEF new
  <2>5. Len(new) <= MaxDeferred
    <3>1. Len(st) \in Nat /\ MaxDeferred \in Nat /\ Len(st) <= MaxDeferred
      BY MaxDeferredAssumption DEF Settled, Stores
    <3> QED BY <2>4, <3>1
  <2>6. new \in Settled
    BY <2>4, <2>5 DEF Settled
  <2> QED BY <2>1, <2>3, <2>4, <2>6
<1> QED BY <1>2, <1>3

\* a join, which takes the record of its display out of the store,
LEMMA JoinInv ==
  ASSUME WindowInv, NEW s \in Sessions, WindowJoin(s)
  PROVE  WindowInv'
<1> DEFINE D == DisplayOf[s]
<1>1. /\ FeedTypeOK /\ deferred \in Settled /\ intent \in [Displays -> Cols] /\ crowded \in BOOLEAN
      /\ D \in Displays /\ cols[s] \in Cols
  BY FeedAssumption DEF WindowInv, FeedTypeOK
<1>2. /\ member' = member \union {s} /\ leaving' = leaving /\ crowded' = crowded
      /\ cols' = [cols EXCEPT ![s] = ReplayedCols(s)]
      /\ deferred' = ReplayDone(deferred, D)
      /\ intent' = [intent EXCEPT ![D] = NoCols]
  BY DEF WindowJoin, Arrived, JoinReplay, JoinWith
<1>3. Get(deferred, D) \in Cols
  BY <1>1, GetType DEF Settled
<1>4. ReplayedCols(s) \in Cols
  BY <1>1, <1>3 DEF ReplayedCols, Cols
<1> HIDE DEF D
<1>5. /\ deferred' \in Settled /\ ~Has(deferred', D)
      /\ \A M : M # D => (Has(deferred', M) <=> Has(deferred, M)) /\ Get(deferred', M) = Get(deferred, M)
  BY <1>1, <1>2, ReplayDoneKeeps
<1>6. FeedTypeOK'
  <2>1. deferred' \in Seq(Record)
    BY <1>5 DEF Settled, Stores
  <2> QED BY <1>1, <1>2, <1>4, <2>1 DEF FeedTypeOK, Record
<1>7. NoCols \in Cols
  BY DEF NoCols, Cols
<1>8. /\ intent' \in [Displays -> Cols] /\ intent'[D] = NoCols
      /\ \A L \in Displays : L # D => intent'[L] = intent[L]
  BY <1>1, <1>2, <1>7
<1>9. \A L \in Displays : L # D /\ Present(L)' => Present(L)
  BY <1>2 DEF Present, Participants, D
<1>10. ASSUME NEW L \in Displays, Present(L)' PROVE intent'[L] = NoCols /\ ~Has(deferred', L)
  BY <1>5, <1>8, <1>9, <1>10 DEF WindowInv
<1>11. ASSUME ~crowded', NEW L \in Displays PROVE Get(deferred', L) = intent'[L]
  <2>1. CASE L = D
    BY <1>5, <1>8, <2>1 DEF Get
  <2>2. CASE L # D
    BY <1>2, <1>5, <1>8, <1>11, <2>2 DEF WindowInv
  <2> QED BY <2>1, <2>2
<1>12. ASSUME NEW t \in Sessions, t \notin member', leaving'[t] = "no" PROVE cols'[t] = NoCols
  <2>1. t # s /\ t \notin member /\ leaving[t] = "no" /\ cols'[t] = cols[t]
    BY <1>1, <1>2, <1>12 DEF FeedTypeOK
  <2> QED BY <2>1 DEF WindowInv
<1> QED BY <1>2, <1>1, <1>5, <1>6, <1>8, <1>10, <1>11, <1>12 DEF WindowInv

\* and a leave, which does not touch the store.
LEMMA LeaveInv ==
  ASSUME WindowInv, NEW s \in Sessions, WindowLeave(s)
  PROVE  WindowInv'
<1>1. FeedTypeOK /\ deferred' = deferred /\ intent' = intent /\ crowded' = crowded
  BY DEF WindowInv, WindowLeave, LeaveStep, LeaveStart, LeaveRemove, LeaveReset
<1>2. NoCols \in Cols
  BY DEF NoCols, Cols
<1>3. CASE LeaveStart(s)
  <2>1. FeedTypeOK'
    BY <1>1, <1>3 DEF FeedTypeOK, LeaveStart, LeavePhases
  <2>2. \A L : Present(L)' => Present(L)
    BY <1>1, <1>3 DEF FeedTypeOK, LeaveStart, Present, Participants
  <2>3. \A t \in Sessions : t \notin member' /\ leaving'[t] = "no" => cols'[t] = NoCols
    BY <1>1, <1>3 DEF FeedTypeOK, LeaveStart, WindowInv
  <2> QED BY <1>1, <2>1, <2>2, <2>3 DEF WindowInv
<1>4. CASE LeaveRemove(s)
  <2>1. FeedTypeOK'
    BY <1>1, <1>4 DEF FeedTypeOK, LeaveRemove, LeavePhases
  <2>2. \A L : Present(L)' => Present(L)
    BY <1>1, <1>4 DEF FeedTypeOK, LeaveRemove, Present, Participants
  <2>3. \A t \in Sessions : t \notin member' /\ leaving'[t] = "no" => cols'[t] = NoCols
    BY <1>1, <1>4 DEF FeedTypeOK, LeaveRemove, WindowInv
  <2> QED BY <1>1, <2>1, <2>2, <2>3 DEF WindowInv
<1>5. CASE LeaveReset(s)
  <2>1. FeedTypeOK'
    BY <1>1, <1>2, <1>5 DEF FeedTypeOK, LeaveReset, LeavePhases
  <2>2. \A L : Present(L)' => Present(L)
    BY <1>1, <1>5 DEF FeedTypeOK, LeaveReset, Present, Participants
  <2>3. \A t \in Sessions : t \notin member' /\ leaving'[t] = "no" => cols'[t] = NoCols
    BY <1>1, <1>5 DEF FeedTypeOK, LeaveReset, WindowInv
  <2> QED BY <1>1, <2>1, <2>2, <2>3 DEF WindowInv
<1> QED BY <1>3, <1>4, <1>5 DEF WindowLeave, LeaveStep

\* The inductive invariant holds in every state of every feed.
THEOREM WindowInvariant == WindowSpec => []WindowInv
<1>1. WindowInit => WindowInv
  <2> SUFFICES ASSUME WindowInit PROVE WindowInv
    OBVIOUS
  <2>1. NoCols \in Cols
    BY DEF NoCols, Cols
  <2>2. /\ member = {} /\ leaving = [s \in Sessions |-> "no"] /\ cols = [s \in Sessions |-> NoCols]
        /\ deferred = <<>> /\ intent = [L \in Displays |-> NoCols] /\ crowded = FALSE
    BY DEF WindowInit, FeedInit
  <2>3. deferred \in Settled /\ \A L : ~Has(deferred, L)
    BY <2>2, MaxDeferredAssumption DEF Settled, Stores, Distinct, Has
  <2>4. \A L : Get(deferred, L) = NoCols
    BY <2>3 DEF Get
  <2>5. FeedTypeOK
    BY <2>1, <2>2 DEF FeedTypeOK, LeavePhases
  <2> QED BY <2>1, <2>2, <2>3, <2>4, <2>5 DEF WindowInv
<1>2. WindowInv /\ [WindowNext]_windowVars => WindowInv'
  <2> SUFFICES ASSUME WindowInv, [WindowNext]_windowVars PROVE WindowInv'
    OBVIOUS
  <2>1. CASE \E b \in Batches : Batch(b)
    BY <2>1, BatchInv
  <2>2. CASE \E s \in Sessions : WindowJoin(s) \/ WindowLeave(s)
    BY <2>2, JoinInv, LeaveInv
  <2>3. CASE UNCHANGED windowVars
    BY <2>3 DEF windowVars, WindowInv, FeedTypeOK, Present, Participants
  <2> QED BY <2>1, <2>2, <2>3 DEF WindowNext
<1> QED BY <1>1, <1>2, PTL DEF WindowSpec

\* However adds, removes and replaces of the two channels come, are merged,
\* emptied and re-created before a listener joins, its record holds what they
\* asked for, as long as the listeners waited for fit the store.
THEOREM StoreKeepsAlways == WindowSpec => []StoreKeeps
<1>1. WindowInv => StoreKeeps
  <2> SUFFICES ASSUME WindowInv PROVE StoreKeeps
    OBVIOUS
  <2>1. StoreWellFormed
    BY DEF WindowInv, StoreWellFormed, Settled, Stores, Distinct
  <2>2. NothingLostBelowCap
    BY DEF WindowInv, NothingLostBelowCap
  <2> QED BY <2>1, <2>2 DEF StoreKeeps
<1> QED BY <1>1, WindowInvariant, PTL

\* A session whose leave is over joins with what was asked for its display and
\* with nothing of the room it was in before.
THEOREM JoinGetsIntentAlways ==
  ASSUME ~OverlapRejoin
  PROVE  WindowSpec => JoinGetsIntent
<1> DEFINE A == \A s \in Sessions :
                  /\ s \notin member /\ s \in member'
                  /\ ~crowded /\ ~Present(DisplayOf[s])
                  => cols'[s] = intent[DisplayOf[s]]
<1>1. WindowInv /\ [WindowNext]_windowVars => [A]_windowVars
  <2> SUFFICES ASSUME WindowInv, WindowNext,
                      NEW s \in Sessions, s \notin member, s \in member', ~crowded
               PROVE  cols'[s] = intent[DisplayOf[s]]
    OBVIOUS
  <2>1. WindowJoin(s)
    BY DEF WindowNext, Batch, Asked, ApplyBatch, WindowJoin, Arrived, JoinReplay, JoinWith, WindowLeave,
           LeaveStep, LeaveStart, LeaveRemove, LeaveReset
  <2>2. leaving[s] = "no" /\ cols' = [cols EXCEPT ![s] = ReplayedCols(s)]
    BY <2>1 DEF WindowJoin, Arrived, JoinReplay, JoinWith
  <2>3. cols[s] = NoCols /\ cols \in [Sessions -> Cols] /\ DisplayOf[s] \in Displays
    BY <2>2, FeedAssumption DEF WindowInv, FeedTypeOK
  <2>4. Get(deferred, DisplayOf[s]) = intent[DisplayOf[s]] /\ intent[DisplayOf[s]] \in Cols
    BY <2>3 DEF WindowInv
  <2>5. ReplayedCols(s) = Get(deferred, DisplayOf[s])
    BY <2>3, <2>4 DEF ReplayedCols, NoCols, Cols
  <2> QED BY <2>2, <2>3, <2>4, <2>5
<1> QED BY <1>1, WindowInvariant, PTL DEF WindowSpec, JoinGetsIntent

\* A listener the batch leaves alone never loses its columns to the cap while
\* another such listener keeps older ones.
THEOREM OldestGoFirstAlways == WindowSpec => OldestGoFirst
<1> DEFINE A == \A b \in Batches, i, j \in DOMAIN deferred :
                  /\ Batch(b) /\ i < j
                  /\ deferred[i].listener \notin Named(b) /\ deferred[j].listener \notin Named(b)
                  /\ Has(deferred', deferred[i].listener)
                  => Has(deferred', deferred[j].listener)
<1>1. WindowInv => A
  <2> SUFFICES ASSUME WindowInv, NEW b \in Batches, NEW i \in DOMAIN deferred, NEW j \in DOMAIN deferred,
                      Batch(b), i < j,
                      deferred[i].listener \notin Named(b), deferred[j].listener \notin Named(b),
                      Has(deferred', deferred[i].listener)
               PROVE  Has(deferred', deferred[j].listener)
    OBVIOUS
  <2> DEFINE M == deferred[i].listener
             N == deferred[j].listener
  <2>1. Older(deferred, M, N)
    BY DEF Older
  <2>2. /\ M \notin DOMAIN b["excl"] /\ M \notin DOMAIN b["mute"]
        /\ N \notin DOMAIN b["excl"] /\ N \notin DOMAIN b["mute"]
    BY DEF Named
  <2>3. Has(deferred', M)
    OBVIOUS
  <2> HIDE DEF M, N
  <2>4. deferred \in Settled /\ ApplyBatch(b, {})
    BY DEF WindowInv, Batch, Asked
  <2>5. PICK mid : /\ ChannelDeferred(b, "excl", deferred, mid)
                   /\ ChannelDeferred(b, "mute", mid, deferred')
    BY <2>4, BatchPass
  <2>6. Has(mid, M)
    BY <2>2, <2>3, <2>5 DEF ChannelDeferred
  <2>7. Older(mid, M, N)
    BY <2>1, <2>2, <2>5, <2>6 DEF ChannelDeferred
  <2>8. Older(deferred', M, N)
    BY <2>2, <2>3, <2>5, <2>7 DEF ChannelDeferred
  <2> QED BY <2>8 DEF Older, Has, N
<1> QED BY <1>1, WindowInvariant, PTL DEF WindowSpec, OldestGoFirst
----------------------------------------------------------------------------
(* The latch table of a listener.                                           *)

Slot == [agent : Agents, culled : BOOLEAN, seen : Nat]

\* One slot per agent, within the array
Tables ==
  {h \in Seq(Slot) : /\ Len(h) <= MaxMix
                     /\ \A i, j \in DOMAIN h : h[i].agent = h[j].agent => i = j}

Rows(h) == {h[k] : k \in DOMAIN h}

\* What the constants of the mix are
LEMMA MixConstants ==
  /\ Order \in Seq(Src) /\ Readd \in Nat /\ Cutoff \in Nat /\ Readd < Cutoff
  /\ MaxMix \in Nat /\ MaxMix > 0 /\ MaxTick \in Nat
  /\ \A s \in Src : AgentOf[s] \in Agents
BY PairMixAssumption DEF Agents

\* The eviction takes a slot of the table, and none has an older stamp.
LEMMA VictimIs ==
  ASSUME NEW h \in Tables, Len(h) > 0
  PROVE  /\ Victim(h) \in DOMAIN h
         /\ \A j \in DOMAIN h : h[Victim(h)].seen <= h[j].seen
<1>1. h \in Seq(Slot) /\ Len(h) \in Nat /\ DOMAIN h = 1 .. Len(h)
  BY DEF Tables
<1>2. \A k \in DOMAIN h : h[k].seen \in Nat
  <2>1. \A k \in DOMAIN h : h[k] \in Slot
    BY <1>1
  <2> QED BY <2>1 DEF Slot
<1> DEFINE T == {h[k].seen : k \in DOMAIN h}
<1>3. T \subseteq Nat /\ T # {}
  <2>1. 1 \in DOMAIN h
    BY <1>1
  <2> QED BY <1>2, <2>1
<1>4. PICK m \in T : \A n \in T : m <= n
  BY <1>3, LeastElement
<1> DEFINE K == {k \in DOMAIN h : h[k].seen = m}
<1>5. K \subseteq Nat /\ K # {}
  BY <1>1, <1>4
<1> HIDE DEF K
<1>6. PICK v \in K : \A k \in K : v <= k
  BY <1>5, LeastElement
<1>7. v \in DOMAIN h /\ h[v].seen = m
  BY <1>6 DEF K
<1>8. ASSUME NEW j \in DOMAIN h
      PROVE  h[v].seen < h[j].seen \/ (h[v].seen = h[j].seen /\ v <= j)
  <2>1. m <= h[j].seen /\ h[j].seen \in Nat /\ m \in Nat
    BY <1>2, <1>3, <1>4
  <2>2. h[j].seen = m => v <= j
    BY <1>6 DEF K
  <2> QED BY <1>7, <2>1, <2>2
<1> DEFINE w == Victim(h)
<1>9. /\ w \in DOMAIN h
      /\ \A j \in DOMAIN h : h[w].seen < h[j].seen \/ (h[w].seen = h[j].seen /\ w <= j)
  BY <1>7, <1>8 DEF Victim
<1> HIDE DEF w
<1>10. \A j \in DOMAIN h : h[w].seen <= h[j].seen
  BY <1>2, <1>9
<1> QED BY <1>9, <1>10 DEF w

\* What the evaluation of agent a at distance d does to the table: a has a slot
\* with this tick's stamp and a latch that follows its old one, and the other
\* slots stay, but for one with the oldest stamp when the table was full.
Stepped(old, new, a, d, now) ==
  /\ new \in Tables
  /\ \E r \in Rows(new) :
       /\ r.agent = a /\ r.seen = now
       /\ \A q \in Rows(old) : q.agent = a => r.culled = Latch(q.culled, d)
       /\ (\A q \in Rows(old) : q.agent # a) => r.culled = (d > Cutoff)
  /\ \A r \in Rows(new) : r.agent # a => r \in Rows(old)
  /\ \A r \in Rows(old) :
       r.agent # a /\ r \notin Rows(new) =>
         /\ Len(old) = MaxMix
         /\ \A q \in Rows(old) : q.agent # a /\ r.seen <= q.seen

\* A latch is a Boolean.
LEMMA LatchType ==
  ASSUME NEW was, NEW d
  PROVE  Latch(was, d) \in BOOLEAN
<1>1. (d > Cutoff) \in BOOLEAN /\ (~(d < Readd)) \in BOOLEAN
  OBVIOUS
<1> QED BY <1>1, Zenon DEF Latch

\* A slot that is evaluated keeps its agent.
LEMMA SlotEvaluated ==
  ASSUME NEW q \in Slot, NEW d, NEW now
  PROVE  [q EXCEPT !.culled = Latch(@, d), !.seen = now]
           = [agent |-> q.agent, culled |-> Latch(q.culled, d), seen |-> now]
<1> DEFINE l == Latch(q.culled, d)
           e == [q EXCEPT !.culled = l, !.seen = now]
           r == [agent |-> q.agent, culled |-> l, seen |-> now]
<1>1. DOMAIN q = {"agent", "culled", "seen"} /\ q = [f \in DOMAIN q |-> q[f]]
  BY DEF Slot
<1> HIDE DEF l
<1>2. DOMAIN e = {"agent", "culled", "seen"} /\ e = [f \in DOMAIN e |-> e[f]]
  BY <1>1
<1>3. e["agent"] = q.agent /\ e["culled"] = l /\ e["seen"] = now
  BY <1>1
<1>4. e = r
  <2>1. DOMAIN r = {"agent", "culled", "seen"} /\ r = [f \in DOMAIN r |-> r[f]]
    OBVIOUS
  <2>2. r["agent"] = q.agent /\ r["culled"] = l /\ r["seen"] = now
    OBVIOUS
  <2> HIDE DEF e, r
  <2> QED BY <1>2, <1>3, <2>1, <2>2
<1> QED BY <1>4 DEF l

\* The search, the eviction and the latch of distance_cull_locked do to the table
\* what Stepped says.
LEMMA CullSteps ==
  ASSUME NEW h \in Tables, NEW a \in Agents, NEW d \in Int, NEW now \in Nat
  PROVE  Stepped(h, DistanceCull(h, a, d, now), a, d, now)
<1>1. h \in Seq(Slot) /\ Len(h) \in Nat /\ DOMAIN h = 1 .. Len(h) /\ Len(h) <= MaxMix
  BY DEF Tables
<1>2. MaxMix \in Nat /\ MaxMix > 0 /\ Cutoff \in Nat /\ Readd \in Nat
  BY MixConstants
<1> DEFINE own == SlotsOf(h, a)
           new == DistanceCull(h, a, d, now)
<1>3. CASE own = {}
  <2> DEFINE r == [agent |-> a, culled |-> d > Cutoff, seen |-> now]
  <2>1. new = Added(h, r)
    BY <1>3 DEF DistanceCull
  <2>2. r \in Slot /\ r.agent = a /\ r.seen = now /\ r.culled = (d > Cutoff)
    BY DEF Slot
  <2>3. \A k \in DOMAIN h : h[k].agent # a
    BY <1>3 DEF SlotsOf
  <2> HIDE DEF r
  <2>4. CASE Len(h) < MaxMix
    <3> DEFINE g == Append(h, r)
    <3>1. new = g
      BY <2>1, <2>4 DEF Added
    <3>2. /\ g \in Seq(Slot) /\ Len(g) = Len(h) + 1 /\ DOMAIN g = 1 .. Len(h) + 1
          /\ \A k \in 1 .. Len(h) : g[k] = h[k]
          /\ g[Len(h) + 1] = r
      BY <1>1, <2>2
    <3> HIDE DEF g
    <3>3. \A k \in DOMAIN g : k \in DOMAIN h \/ k = Len(h) + 1
      BY <1>1, <3>2
    <3>4. g \in Tables
      BY <1>1, <1>2, <2>2, <2>3, <2>4, <3>2, <3>3 DEF Tables
    <3>5. Rows(g) = Rows(h) \union {r}
      <4>1. Len(h) + 1 \in DOMAIN g /\ \A k \in DOMAIN h : k \in DOMAIN g
        BY <1>1, <3>2
      <4> QED BY <1>1, <3>2, <3>3, <4>1 DEF Rows
    <3>6. \A q \in Rows(h) : q.agent # a
      BY <2>3 DEF Rows
    <3>7. Stepped(h, g, a, d, now)
      BY <2>2, <3>4, <3>5, <3>6 DEF Stepped
    <3> QED BY <3>1, <3>7
  <2>5. CASE ~(Len(h) < MaxMix)
    <3> DEFINE v == Victim(h)
               g == [h EXCEPT ![v] = r]
    <3>0. new = g
      BY <2>1, <2>5, Zenon DEF Added
    <3>1. Len(h) = MaxMix /\ Len(h) > 0
      <4>1. Len(h) \in Nat /\ Len(h) <= MaxMix /\ MaxMix \in Nat /\ MaxMix > 0 /\ ~(Len(h) < MaxMix)
        BY <1>1, <1>2, <2>5
      <4> QED BY ONLY <4>1
    <3>2. v \in DOMAIN h /\ \A j \in DOMAIN h : h[v].seen <= h[j].seen
      BY <3>1, VictimIs
    <3> HIDE DEF v
    <3>3. /\ g \in Seq(Slot) /\ Len(g) = Len(h) /\ DOMAIN g = DOMAIN h
          /\ g[v] = r /\ \A j \in DOMAIN h : j # v => g[j] = h[j]
      BY <1>1, <2>2, <3>2
    <3> HIDE DEF g
    <3>4. g \in Tables
      BY <1>1, <2>2, <2>3, <3>2, <3>3 DEF Tables
    <3>5. r \in Rows(g)
      BY <3>2, <3>3 DEF Rows
    <3>6. \A q \in Rows(h) : q.agent # a
      BY <2>3 DEF Rows
    <3>7. \A q \in Rows(g) : q.agent # a => q \in Rows(h)
      BY <2>2, <3>3 DEF Rows
    <3>8. \A q \in Rows(h) : q \notin Rows(g) => q = h[v]
      BY <3>3 DEF Rows
    <3>9. \A q \in Rows(h) : h[v].seen <= q.seen
      BY <3>2 DEF Rows
    <3>10. Stepped(h, g, a, d, now)
      BY <2>2, <3>1, <3>4, <3>5, <3>6, <3>7, <3>8, <3>9 DEF Stepped
    <3> QED BY <3>0, <3>10
  <2> QED BY <2>4, <2>5
<1>4. CASE own # {}
  <2>1. PICK k \in DOMAIN h : h[k].agent = a
    BY <1>4 DEF SlotsOf
  <2>2. own = {k}
    BY <2>1 DEF SlotsOf, Tables
  <2> DEFINE r == [agent |-> a, culled |-> Latch(h[k].culled, d), seen |-> now]
  <2>3. h[k] \in Slot
    BY <1>1
  <2>4. Latch(h[k].culled, d) \in BOOLEAN
    BY LatchType
  <2>5. r \in Slot /\ r.agent = a /\ r.seen = now /\ r.culled = Latch(h[k].culled, d)
    BY <2>4 DEF Slot
  <2>6. [h[k] EXCEPT !.culled = Latch(@, d), !.seen = now] = r
    BY <2>1, <2>3, SlotEvaluated
  <2> DEFINE g == [i \in DOMAIN h |-> IF i = k THEN r ELSE h[i]]
  <2>7. new = [i \in DOMAIN h |->
                 IF i \in own THEN [h[i] EXCEPT !.culled = Latch(@, d), !.seen = now] ELSE h[i]]
    BY <1>4 DEF DistanceCull
  <2>8. new = g
    BY <2>2, <2>6, <2>7
  <2> HIDE DEF r
  <2>9. /\ g \in Seq(Slot) /\ Len(g) = Len(h) /\ DOMAIN g = DOMAIN h
        /\ g[k] = r /\ \A j \in DOMAIN h : j # k => g[j] = h[j]
    BY <1>1, <2>1, <2>5
  <2> HIDE DEF g
  <2>10. g \in Tables
    <3>1. \A j \in DOMAIN h : g[j].agent = h[j].agent
      BY <2>1, <2>5, <2>9
    <3> QED BY <1>1, <2>9, <3>1 DEF Tables
  <2>11. r \in Rows(g)
    BY <2>1, <2>9 DEF Rows
  <2>12. \A q \in Rows(h) : q.agent = a => q = h[k]
    BY <2>1 DEF Rows, Tables
  <2>13. h[k] \in Rows(h)
    BY <2>1 DEF Rows
  <2>14. \A q \in Rows(g) : q.agent # a => q \in Rows(h)
    BY <2>5, <2>9 DEF Rows
  <2>15. \A q \in Rows(h) : q.agent # a => q \in Rows(g)
    BY <2>1, <2>9 DEF Rows
  <2>16. Stepped(h, g, a, d, now)
    BY <2>1, <2>5, <2>10, <2>11, <2>12, <2>13, <2>14, <2>15 DEF Stepped
  <2> QED BY <2>8, <2>16
<1> QED BY <1>3, <1>4
----------------------------------------------------------------------------
(* The pass of a tick over the sources of a listener.                       *)

\* The table within its bounds, its stamps in the past, and fewer sources in
\* the room than the table has slots
PairInv ==
  /\ hyst \in Tables /\ tick \in Nat
  /\ \A r \in Rows(hyst) : r.seen <= tick
  /\ present \subseteq Src /\ IsFiniteSet(present) /\ Cardinality(present) <= MaxMix - 1
  /\ place \in [Src -> Int]

Accs == [hyst : Tables, mixed : SUBSET Src]

\* The sources that reach the distance cull
Evaluates(s) == s \in present /\ ~Dropped(s) /\ Placed(s)

\* One source of the pass
PairStep(acc, new, s) ==
  /\ s \notin present \/ Dropped(s) => new = acc
  /\ s \in present /\ ~Dropped(s) /\ ~Placed(s) =>
       new.hyst = acc.hyst /\ new.mixed = acc.mixed \union {s}
  /\ Evaluates(s) =>
       /\ Stepped(acc.hyst, new.hyst, AgentOf[s], place[s], tick + 1)
       /\ new.mixed = IF CulledIn(new.hyst, AgentOf[s]) THEN acc.mixed ELSE acc.mixed \union {s}

\* The stages of a pair do to table and mix what PairStep says.
LEMMA MixPairSteps ==
  ASSUME PairInv, NEW acc \in Accs, NEW s \in Src
  PROVE  MixPair(acc, s) \in Accs /\ PairStep(acc, MixPair(acc, s), s)
<1>1. acc.hyst \in Tables /\ acc.mixed \in SUBSET Src
  BY DEF Accs
<1>2. CASE s \notin present \/ Dropped(s)
  <2>1. MixPair(acc, s) = acc
    BY <1>2 DEF MixPair
  <2> QED BY <1>2, <2>1 DEF PairStep, Evaluates
<1>3. CASE s \in present /\ ~Dropped(s) /\ ~Placed(s)
  <2>1. MixPair(acc, s) = [acc EXCEPT !.mixed = @ \union {s}]
    BY <1>3 DEF MixPair
  <2>2. [acc EXCEPT !.mixed = @ \union {s}] = [hyst |-> acc.hyst, mixed |-> acc.mixed \union {s}]
    BY DEF Accs
  <2> DEFINE new == [hyst |-> acc.hyst, mixed |-> acc.mixed \union {s}]
  <2>3. new \in Accs /\ new.hyst = acc.hyst /\ new.mixed = acc.mixed \union {s}
    BY <1>1 DEF Accs
  <2>4. MixPair(acc, s) = new
    BY <2>1, <2>2
  <2> HIDE DEF new
  <2> QED BY <1>3, <2>3, <2>4 DEF PairStep, Evaluates
<1>4. CASE Evaluates(s)
  <2> DEFINE h == DistanceCull(acc.hyst, AgentOf[s], place[s], tick + 1)
             m == IF CulledIn(h, AgentOf[s]) THEN acc.mixed ELSE acc.mixed \union {s}
             new == [hyst |-> h, mixed |-> m]
  <2>1. MixPair(acc, s) = new
    BY <1>4 DEF MixPair, Evaluates
  <2>2. AgentOf[s] \in Agents /\ place[s] \in Int /\ tick + 1 \in Nat
    BY MixConstants DEF PairInv
  <2>3. Stepped(acc.hyst, h, AgentOf[s], place[s], tick + 1)
    BY <1>1, <2>2, CullSteps
  <2> HIDE DEF h
  <2>4. h \in Tables /\ m \in SUBSET Src
    BY <1>1, <2>3 DEF Stepped
  <2> HIDE DEF m
  <2>5. new \in Accs /\ new.hyst = h /\ new.mixed = m
    BY <2>4 DEF Accs
  <2> HIDE DEF new
  <2> QED BY <1>4, <2>1, <2>3, <2>5 DEF PairStep, Evaluates, m
<1> QED BY <1>2, <1>3, <1>4 DEF Evaluates

\* IteratesExist for the sources of a pass
LEMMA AccIterates ==
  ASSUME NEW v0 \in Accs, NEW n \in Nat, NEW F, F \in [1 .. n -> [Accs -> Accs]]
  PROVE  \E f \in [0 .. n -> Accs] :
           f[0] = v0 /\ \A i \in 1 .. n : f[i] = F[i][f[i - 1]]
BY IteratesExist

\* The pass is where the run of its steps ends.
LEMMA PassRun ==
  ASSUME PairInv
  PROVE  \E run \in [0 .. Len(Order) -> Accs] :
           /\ run[0] = [hyst |-> hyst, mixed |-> {}]
           /\ run[Len(Order)] = Pass
           /\ \A i \in 1 .. Len(Order) : PairStep(run[i - 1], run[i], Order[i])
<1> DEFINE n == Len(Order)
           st == [hyst |-> hyst, mixed |-> {}]
           F == [i \in 1 .. n |-> [v \in Accs |-> MixPair(v, Order[i])]]
           run == CHOOSE g : g = [i \in 0 .. n |->
                    IF i = 0 THEN st ELSE MixPair(g[i - 1], Order[i])]
<1>1. n \in Nat /\ \A i \in 1 .. n : Order[i] \in Src
  BY MixConstants
<1>2. ASSUME NEW i \in 1 .. n, NEW v \in Accs
      PROVE  MixPair(v, Order[i]) \in Accs /\ PairStep(v, MixPair(v, Order[i]), Order[i])
  BY <1>1, MixPairSteps
<1>3. F \in [1 .. n -> [Accs -> Accs]]
  BY <1>2
<1>4. \A i \in 1 .. n : \A v \in Accs : F[i][v] = MixPair(v, Order[i])
  OBVIOUS
<1>5. st \in Accs
  BY DEF PairInv, Accs
<1>6. run[n] = Pass
  BY DEF Pass
<1> HIDE DEF n, F, st
<1>7. PICK f \in [0 .. n -> Accs] : f[0] = st /\ \A i \in 1 .. n : f[i] = F[i][f[i - 1]]
  <2>1. n \in Nat
    BY <1>1
  <2> QED BY <1>3, <1>5, <2>1, AccIterates
<1>8. \A i \in 1 .. n : i - 1 \in 0 .. n
  BY <1>1
<1>9. \A i \in 1 .. n : f[i] = MixPair(f[i - 1], Order[i])
  BY <1>4, <1>7, <1>8
<1>10. f = [i \in 0 .. n |-> IF i = 0 THEN st ELSE MixPair(f[i - 1], Order[i])]
  BY <1>1, <1>7, <1>9
<1>11. run = [i \in 0 .. n |-> IF i = 0 THEN st ELSE MixPair(run[i - 1], Order[i])]
  BY <1>10
<1> HIDE DEF run
<1>12. run[0] = st /\ \A i \in 1 .. n : run[i] = MixPair(run[i - 1], Order[i])
  BY <1>1, <1>11
<1> DEFINE T == {k \in Nat : k <= n => run[k] \in Accs}
<1>13. 0 \in T
  BY <1>5, <1>12
<1>14. ASSUME NEW k \in Nat, k \in T PROVE k + 1 \in T
  <2> SUFFICES ASSUME k + 1 <= n PROVE run[k + 1] \in Accs
    OBVIOUS
  <2>1. k + 1 \in 1 .. n /\ (k + 1) - 1 = k /\ run[k] \in Accs
    BY <1>1, <1>14
  <2> QED BY <1>2, <1>12, <2>1
<1> HIDE DEF T
<1>15. Nat \subseteq T
  BY <1>13, <1>14, SetInduction
<1>16. \A k \in 0 .. n : run[k] \in Accs
  BY <1>1, <1>15 DEF T
<1>17. run \in [0 .. n -> Accs]
  BY <1>11, <1>16
<1>18. \A i \in 1 .. n : PairStep(run[i - 1], run[i], Order[i])
  BY <1>2, <1>8, <1>12, <1>16
<1> QED BY <1>6, <1>12, <1>17, <1>18 DEF n, st

\* The accumulators of a pass, source by source
IsRun(run) ==
  /\ run \in [0 .. Len(Order) -> Accs]
  /\ run[0] = [hyst |-> hyst, mixed |-> {}]
  /\ run[Len(Order)] = Pass
  /\ \A i \in 1 .. Len(Order) : PairStep(run[i - 1], run[i], Order[i])

\* Every pass has a run.
LEMMA RunExists ==
  ASSUME PairInv
  PROVE  \E run : IsRun(run)
BY PassRun DEF IsRun

\* The facts every induction along a run starts from
LEMMA RunBasics ==
  ASSUME NEW run, IsRun(run)
  PROVE  /\ Len(Order) \in Nat /\ \A i \in 1 .. Len(Order) : Order[i] \in Src
         /\ run[0].hyst = hyst /\ run[0].mixed = {} /\ run[Len(Order)] = Pass
         /\ \A k \in Nat : k <= Len(Order) => run[k].hyst \in Tables /\ run[k].mixed \in SUBSET Src
         /\ \A k \in Nat : k + 1 <= Len(Order) => PairStep(run[k], run[k + 1], Order[k + 1])
<1>1. Len(Order) \in Nat /\ \A i \in 1 .. Len(Order) : Order[i] \in Src
  BY MixConstants
<1>2. run[0].hyst = hyst /\ run[0].mixed = {} /\ run[Len(Order)] = Pass
  BY DEF IsRun
<1>3. ASSUME NEW k \in Nat, k <= Len(Order)
      PROVE  run[k].hyst \in Tables /\ run[k].mixed \in SUBSET Src
  <2>1. run[k] \in Accs
    BY <1>1, <1>3 DEF IsRun
  <2> QED BY <2>1 DEF Accs
<1>4. ASSUME NEW k \in Nat, k + 1 <= Len(Order)
      PROVE  PairStep(run[k], run[k + 1], Order[k + 1])
  <2>1. k + 1 \in 1 .. Len(Order) /\ (k + 1) - 1 = k
    BY <1>1, <1>4
  <2> QED BY <2>1 DEF IsRun
<1> QED BY <1>1, <1>2, <1>3, <1>4

\* A table has one latch for an agent.
LEMMA CulledIs ==
  ASSUME NEW h \in Tables, NEW r \in Rows(h)
  PROVE  /\ CulledIn(h, r.agent) <=> r.culled
         /\ r \in Slot
         /\ \A q \in Rows(h) : q.agent = r.agent => q = r
<1>1. PICK k \in DOMAIN h : h[k] = r
  BY DEF Rows
<1>2. \A j \in DOMAIN h : h[j].agent = r.agent => j = k
  BY <1>1 DEF Tables
<1>3. SlotsOf(h, r.agent) = {k}
  BY <1>1, <1>2 DEF SlotsOf
<1>4. r \in Slot
  BY <1>1 DEF Tables
<1>5. CulledIn(h, r.agent) <=> h[k].culled
  BY <1>3 DEF CulledIn
<1>6. \A q \in Rows(h) : q.agent = r.agent => q = r
  BY <1>1, <1>2 DEF Rows
<1> QED BY <1>1, <1>4, <1>5, <1>6

\* A stamp of this tick is that of a source the pass has evaluated, any other
\* row is one the pass began with.
LEMMA RunStamps ==
  ASSUME PairInv, NEW run, IsRun(run), NEW k \in Nat, k <= Len(Order)
  PROVE  \A r \in Rows(run[k].hyst) :
           \/ r.seen <= tick /\ r \in Rows(hyst)
           \/ /\ r.seen = tick + 1
              /\ \E j \in 1 .. k : Evaluates(Order[j]) /\ r.agent = AgentOf[Order[j]]
<1> DEFINE Good(i, r) ==
             \/ r.seen <= tick /\ r \in Rows(hyst)
             \/ /\ r.seen = tick + 1
                /\ \E j \in 1 .. i : Evaluates(Order[j]) /\ r.agent = AgentOf[Order[j]]
           T == {i \in Nat : i <= Len(Order) => \A r \in Rows(run[i].hyst) : Good(i, r)}
<1>0. /\ Len(Order) \in Nat
      /\ run[0].hyst = hyst
      /\ \A i \in Nat : i + 1 <= Len(Order) => PairStep(run[i], run[i + 1], Order[i + 1])
      /\ \A i \in Nat : i <= Len(Order) => run[i].hyst \in Tables
  BY RunBasics
<1>1. 0 \in T
  BY <1>0 DEF PairInv
<1>2. ASSUME NEW i \in Nat, i \in T PROVE i + 1 \in T
  <2> SUFFICES ASSUME i + 1 <= Len(Order), NEW r \in Rows(run[i + 1].hyst) PROVE Good(i + 1, r)
    OBVIOUS
  <2> DEFINE s == Order[i + 1]
  <2>1. /\ PairStep(run[i], run[i + 1], s) /\ run[i + 1].hyst \in Tables
        /\ \A q \in Rows(run[i].hyst) : Good(i, q)
    BY <1>0, <1>2
  <2>2. \A q : Good(i, q) => Good(i + 1, q)
    <3>1. \A j \in 1 .. i : j \in 1 .. i + 1
      OBVIOUS
    <3> QED BY <3>1
  <2>3. CASE ~Evaluates(s)
    <3>1. run[i + 1].hyst = run[i].hyst
      BY <2>1, <2>3 DEF PairStep, Evaluates
    <3> QED BY <2>1, <2>2, <3>1
  <2>4. CASE Evaluates(s)
    <3>1. Stepped(run[i].hyst, run[i + 1].hyst, AgentOf[s], place[s], tick + 1)
      BY <2>1, <2>4 DEF PairStep
    <3>2. CASE r.agent # AgentOf[s]
      <4>1. r \in Rows(run[i].hyst)
        BY <3>1, <3>2 DEF Stepped
      <4> QED BY <2>1, <2>2, <4>1
    <3>3. CASE r.agent = AgentOf[s]
      <4>1. PICK q \in Rows(run[i + 1].hyst) : q.agent = AgentOf[s] /\ q.seen = tick + 1
        BY <3>1 DEF Stepped
      <4>2. r = q
        BY <2>1, <3>3, <4>1, CulledIs
      <4>3. i + 1 \in 1 .. i + 1
        OBVIOUS
      <4> QED BY <2>4, <3>3, <4>1, <4>2, <4>3
    <3> QED BY <3>2, <3>3
  <2> QED BY <2>3, <2>4
<1> HIDE DEF T
<1>3. k \in T
  BY <1>1, <1>2, SetInduction
<1> QED BY <1>3 DEF T

\* The pass mixes no placed source past the cutoff.
LEMMA RunHeard ==
  ASSUME PairInv, NEW run, IsRun(run), NEW k \in Nat, k <= Len(Order)
  PROVE  \A s \in run[k].mixed : Placed(s) => place[s] <= Cutoff
<1> DEFINE T == {i \in Nat : i <= Len(Order) =>
                   \A s \in run[i].mixed : Placed(s) => place[s] <= Cutoff}
<1>0. /\ Len(Order) \in Nat /\ \A i \in 1 .. Len(Order) : Order[i] \in Src
      /\ run[0].mixed = {}
      /\ \A i \in Nat : i + 1 <= Len(Order) => PairStep(run[i], run[i + 1], Order[i + 1])
      /\ \A i \in Nat : i <= Len(Order) => run[i].hyst \in Tables
  BY RunBasics
<1>1. 0 \in T
  BY <1>0
<1>2. ASSUME NEW i \in Nat, i \in T PROVE i + 1 \in T
  <2> SUFFICES ASSUME i + 1 <= Len(Order), NEW s \in run[i + 1].mixed, Placed(s)
               PROVE  place[s] <= Cutoff
    OBVIOUS
  <2> DEFINE t == Order[i + 1]
  <2>1. /\ PairStep(run[i], run[i + 1], t) /\ run[i + 1].hyst \in Tables
        /\ s \in run[i].mixed => place[s] <= Cutoff
        /\ t \in Src
    BY <1>0, <1>2
  <2> HIDE DEF t
  <2>2. CASE ~Evaluates(t)
    BY <2>1, <2>2 DEF PairStep, Evaluates
  <2>3. CASE Evaluates(t) /\ s \in run[i].mixed
    BY <2>1, <2>3
  <2>4. CASE Evaluates(t) /\ s \notin run[i].mixed
    <3>1. /\ Stepped(run[i].hyst, run[i + 1].hyst, AgentOf[t], place[t], tick + 1)
          /\ s = t /\ ~CulledIn(run[i + 1].hyst, AgentOf[t])
      BY <2>1, <2>4 DEF PairStep
    <3>2. PICK r \in Rows(run[i + 1].hyst) :
            /\ r.agent = AgentOf[t]
            /\ \A q \in Rows(run[i].hyst) : q.agent = AgentOf[t] => r.culled = Latch(q.culled, place[t])
            /\ (\A q \in Rows(run[i].hyst) : q.agent # AgentOf[t]) => r.culled = (place[t] > Cutoff)
      BY <3>1 DEF Stepped
    <3>3. ~r.culled
      BY <2>1, <3>1, <3>2, CulledIs
    <3>4. place[t] \in Int /\ Cutoff \in Nat /\ Readd \in Nat /\ Readd < Cutoff
      BY <2>1, MixConstants DEF PairInv
    <3>5. CASE \A q \in Rows(run[i].hyst) : q.agent # AgentOf[t]
      <4>1. ~(place[t] > Cutoff)
        BY <3>2, <3>3, <3>5
      <4> QED BY <3>1, <3>4, <4>1
    <3>6. CASE \E q \in Rows(run[i].hyst) : q.agent = AgentOf[t]
      <4>1. PICK c : ~Latch(c, place[t])
        BY <3>2, <3>3, <3>6
      <4>2. place[t] < Readd \/ ~(place[t] > Cutoff)
        BY <4>1 DEF Latch
      <4> QED BY <3>1, <3>4, <4>2
    <3> QED BY <3>5, <3>6
  <2> QED BY <2>2, <2>3, <2>4
<1> HIDE DEF T
<1>3. k \in T
  BY <1>1, <1>2, SetInduction
<1> QED BY <1>3 DEF T

\* What a tick makes of the table
LEMMA TickInv ==
  ASSUME PairInv, Tick
  PROVE  PairInv'
<1>1. /\ hyst' = Pass.hyst /\ tick' = tick + 1 /\ present' = present /\ place' = place
      /\ tick \in Nat
  BY DEF Tick, PairInv
<1>2. PICK run : IsRun(run)
  BY RunExists
<1> DEFINE n == Len(Order)
<1>3. n \in Nat /\ n <= n /\ run[n] = Pass /\ run[n].hyst \in Tables
  BY <1>2, RunBasics
<1>4. \A r \in Rows(run[n].hyst) : r.seen <= tick \/ r.seen = tick + 1
  BY <1>2, <1>3, RunStamps
<1>5. \A r \in Rows(run[n].hyst) : r \in Slot
  BY <1>3, CulledIs
<1>6. \A r \in Rows(run[n].hyst) : r.seen \in Nat
  BY <1>5 DEF Slot
<1>7. \A r \in Rows(run[n].hyst) : r.seen <= tick + 1
  BY <1>1, <1>4, <1>6
<1>8. hyst' \in Tables /\ tick' \in Nat /\ \A r \in Rows(hyst') : r.seen <= tick'
  BY <1>1, <1>3, <1>7
<1> QED BY <1>1, <1>8 DEF PairInv, Rows

\* The invariant of the table holds in every state.
THEOREM PairInvariant == PairSpec => []PairInv
<1>1. Init => PairInv
  <2> SUFFICES ASSUME Init PROVE PairInv
    OBVIOUS
  <2>1. hyst = <<>> /\ tick = 0 /\ present = {} /\ place = [s \in Src |-> Nowhere]
    BY DEF Init
  <2>2. hyst \in Tables /\ Rows(hyst) = {}
    BY <2>1, MixConstants DEF Tables, Rows
  <2>3. IsFiniteSet(present) /\ Cardinality(present) = 0
    BY <2>1, FS_EmptySet
  <2>4. place \in [Src -> Int]
    BY <2>1 DEF Nowhere
  <2>5. MaxMix \in Nat /\ MaxMix > 0
    BY MixConstants
  <2> QED BY <2>1, <2>2, <2>3, <2>4, <2>5 DEF PairInv
<1>2. PairInv /\ [Next]_pairVars => PairInv'
  <2> SUFFICES ASSUME PairInv, [Next]_pairVars PROVE PairInv'
    OBVIOUS
  <2>0. MaxMix \in Nat /\ MaxMix > 0 /\ Cardinality(present) \in Nat
    BY MixConstants, FS_CardinalityType DEF PairInv
  <2>1. ASSUME NEW s \in Src, SourceJoins(s) PROVE PairInv'
    <3>1. /\ present' = present \union {s} /\ s \notin present /\ Cardinality(present) < MaxMix - 1
          /\ hyst' = hyst /\ tick' = tick /\ place' = place
      BY <2>1 DEF SourceJoins
    <3>2. IsFiniteSet(present') /\ Cardinality(present') = Cardinality(present) + 1
      BY <3>1, FS_AddElement DEF PairInv
    <3>3. Cardinality(present') <= MaxMix - 1
      BY <2>0, <3>1, <3>2
    <3> QED BY <3>1, <3>2, <3>3 DEF PairInv, Rows
  <2>2. ASSUME NEW s \in Src, SourceLeaves(s) PROVE PairInv'
    <3>1. /\ present' = present \ {s} /\ s \in present /\ hyst' = hyst /\ tick' = tick
          /\ place' = [place EXCEPT ![s] = Nowhere]
      BY <2>2 DEF SourceLeaves
    <3>2. IsFiniteSet(present') /\ Cardinality(present') = Cardinality(present) - 1
      BY <3>1, FS_RemoveElement DEF PairInv
    <3>3. Cardinality(present') <= MaxMix - 1
      BY <2>0, <3>2 DEF PairInv
    <3>4. place' \in [Src -> Int]
      BY <3>1 DEF PairInv, Nowhere
    <3> QED BY <3>1, <3>2, <3>3, <3>4 DEF PairInv, Rows
  <2>3. ASSUME NEW s \in Src, NEW d \in Distances[s], Move(s, d) PROVE PairInv'
    <3>1. d \in Nat
      BY PairMixAssumption
    <3>2. place' \in [Src -> Int]
      BY <2>3, <3>1 DEF Move, PairInv
    <3> QED BY <2>3, <3>2 DEF Move, PairInv, Rows
  <2>4. CASE Rejoin
    <3>1. hyst' = <<>> /\ tick' = tick /\ present' = present /\ place' = place
      BY <2>4 DEF Rejoin
    <3>2. hyst' \in Tables /\ Rows(hyst') = {}
      BY <3>1, MixConstants DEF Tables, Rows
    <3> QED BY <3>1, <3>2 DEF PairInv
  <2>5. CASE UNCHANGED <<present, place, hyst, tick>>
    BY <2>5 DEF PairInv, Rows
  <2>6. CASE Tick
    BY <2>6, TickInv
  <2> QED BY <2>1, <2>2, <2>3, <2>4, <2>5, <2>6
          DEF Next, ModMute, Exclude, Locate, Control, StandingChanges, pairVars
<1> QED BY <1>1, <1>2, PTL DEF PairSpec

\* A step that moves the clock is a tick.
LEMMA OnlyTickTicks ==
  ASSUME PairInv, Next, tick' # tick
  PROVE  Tick
BY DEF Next, SourceJoins, SourceLeaves, Move, ModMute, Exclude, Locate, Control,
       StandingChanges, Rejoin

\* Whatever the latches went through, and whichever sessions share an agent, a
\* source past the cutoff is not mixed.
THEOREM HeardWithinCutoffAlways == PairSpec => HeardWithinCutoff
<1> DEFINE A == tick' # tick => \A s \in Pass.mixed : Placed(s) => place[s] <= Cutoff
<1>1. PairInv => A
  <2> SUFFICES ASSUME PairInv PROVE \A s \in Pass.mixed : Placed(s) => place[s] <= Cutoff
    OBVIOUS
  <2>1. PICK run : IsRun(run)
    BY RunExists
  <2>2. Len(Order) \in Nat /\ Len(Order) <= Len(Order) /\ run[Len(Order)] = Pass
    BY <2>1, RunBasics
  <2>3. \A s \in run[Len(Order)].mixed : Placed(s) => place[s] <= Cutoff
    BY <2>1, <2>2, RunHeard
  <2> QED BY <2>2, <2>3
<1> QED BY <1>1, PairInvariant, PTL DEF PairSpec, HeardWithinCutoff

\* The size of an interval from 1
LEMMA IntervalSize ==
  ASSUME NEW n \in Nat
  PROVE  IsFiniteSet(1 .. n) /\ Cardinality(1 .. n) = n
<1>1. 1 \in Int /\ n \in Int /\ (1 > n => n = 0) /\ n - 1 + 1 = n
  OBVIOUS
<1>2. IsFiniteSet(1 .. n) /\ Cardinality(1 .. n) = IF 1 > n THEN 0 ELSE n - 1 + 1
  BY <1>1, FS_Interval
<1> QED BY <1>1, <1>2

\* A latch of this tick is never evicted: there are fewer sources in the room
\* than slots in the table.
LEMMA RunKeeps ==
  ASSUME PairInv, NEW run, IsRun(run), NEW k \in Nat, k + 1 <= Len(Order),
         NEW r \in Rows(run[k].hyst), r.seen = tick + 1,
         Evaluates(Order[k + 1]) => r.agent # AgentOf[Order[k + 1]]
  PROVE  r \in Rows(run[k + 1].hyst)
<1> DEFINE s == Order[k + 1]
           h == run[k].hyst
<1>1. /\ Len(Order) \in Nat /\ PairStep(run[k], run[k + 1], s) /\ h \in Tables /\ k <= Len(Order)
      /\ tick \in Nat
  BY RunBasics DEF PairInv
<1>2. CASE ~Evaluates(s)
  BY <1>1, <1>2 DEF PairStep, Evaluates
<1>3. CASE Evaluates(s)
  <2> SUFFICES ASSUME r \notin Rows(run[k + 1].hyst) PROVE FALSE
    OBVIOUS
  <2>1. Stepped(h, run[k + 1].hyst, AgentOf[s], place[s], tick + 1)
    BY <1>1, <1>3 DEF PairStep
  <2>2. Len(h) = MaxMix /\ \A q \in Rows(h) : r.seen <= q.seen
    BY <1>3, <2>1 DEF Stepped
  <2>3. \A q \in Rows(h) : q.seen \in Nat
    <3>1. \A q \in Rows(h) : q \in Slot
      BY <1>1, CulledIs
    <3> QED BY <3>1 DEF Slot
  <2>4. \A q \in Rows(h) : ~(q.seen <= tick)
    BY <1>1, <2>2, <2>3
  <2>5. \A q \in Rows(h) : \E j \in 1 .. k : Evaluates(Order[j]) /\ q.agent = AgentOf[Order[j]]
    BY <1>1, <2>4, RunStamps
  <2>6. \A q \in Rows(h) : \E x \in present : AgentOf[x] = q.agent
    BY <2>5 DEF Evaluates
  <2> HIDE DEF h
  <2> DEFINE f == [i \in 1 .. MaxMix |-> CHOOSE x \in present : AgentOf[x] = h[i].agent]
  <2>7. MaxMix \in Nat /\ MaxMix > 0 /\ DOMAIN h = 1 .. MaxMix
    BY <1>1, <2>2, MixConstants DEF Tables
  <2>8. \A i \in 1 .. MaxMix : f[i] \in present /\ AgentOf[f[i]] = h[i].agent
    BY <2>6, <2>7 DEF Rows
  <2> HIDE DEF f
  <2>9. f \in Injection(1 .. MaxMix, present)
    <3>1. f \in [1 .. MaxMix -> present]
      BY <2>8 DEF f
    <3>2. \A i, j \in 1 .. MaxMix : f[i] = f[j] => i = j
      BY <1>1, <2>7, <2>8 DEF Tables
    <3> QED BY <3>1, <3>2 DEF Injection, IsInjective
  <2>10. IsFiniteSet(present) /\ Cardinality(present) \in Nat /\ Cardinality(present) <= MaxMix - 1
    BY FS_CardinalityType DEF PairInv
  <2>11. Cardinality(1 .. MaxMix) <= Cardinality(present)
    BY <2>9, <2>10, FS_Injection
  <2>12. Cardinality(1 .. MaxMix) = MaxMix
    BY <2>7, IntervalSize
  <2> QED BY <2>7, <2>10, <2>11, <2>12
<1> QED BY <1>2, <1>3

\* At most one session of an agent is in the room, and the hash table visits
\* it once.
Alone ==
  \A i, j \in DOMAIN Order :
    /\ Order[i] \in present /\ Order[j] \in present
    /\ AgentOf[Order[i]] = AgentOf[Order[j]]
    => i = j

\* The sources mixed so far are among those visited, in the room and not
\* dropped.
LEMMA RunMixed ==
  ASSUME PairInv, NEW run, IsRun(run), NEW k \in Nat, k <= Len(Order)
  PROVE  \A s \in run[k].mixed : \E j \in 1 .. k : s = Order[j] /\ s \in present /\ ~Dropped(s)
<1> DEFINE From(i, s) == \E j \in 1 .. i : s = Order[j] /\ s \in present /\ ~Dropped(s)
           T == {i \in Nat : i <= Len(Order) => \A s \in run[i].mixed : From(i, s)}
<1>0. /\ Len(Order) \in Nat
      /\ run[0].mixed = {}
      /\ \A i \in Nat : i + 1 <= Len(Order) => PairStep(run[i], run[i + 1], Order[i + 1])
  BY RunBasics
<1>1. 0 \in T
  BY <1>0
<1>2. ASSUME NEW i \in Nat, i \in T PROVE i + 1 \in T
  <2> SUFFICES ASSUME i + 1 <= Len(Order), NEW s \in run[i + 1].mixed PROVE From(i + 1, s)
    OBVIOUS
  <2>1. PairStep(run[i], run[i + 1], Order[i + 1]) /\ \A q \in run[i].mixed : From(i, q)
    BY <1>0, <1>2
  <2>2. From(i, s) => From(i + 1, s)
    <3>1. \A j \in 1 .. i : j \in 1 .. i + 1
      OBVIOUS
    <3> QED BY <3>1
  <2>3. s \in run[i].mixed \/ (s = Order[i + 1] /\ s \in present /\ ~Dropped(s))
    BY <2>1 DEF PairStep, Evaluates
  <2>4. i + 1 \in 1 .. i + 1
    OBVIOUS
  <2> QED BY <2>1, <2>2, <2>3, <2>4
<1> HIDE DEF T
<1>3. k \in T
  BY <1>1, <1>2, SetInduction
<1> QED BY <1>3 DEF T

\* What the pass decided of a source stands until it ends.
LEMMA RunStands ==
  ASSUME PairInv, Alone, NEW run, IsRun(run), NEW j \in 1 .. Len(Order), Order[j] \in present,
         NEW k \in Nat, j + k <= Len(Order)
  PROVE  /\ Order[j] \in run[j + k].mixed <=> Order[j] \in run[j].mixed
         /\ \A r \in Rows(run[j].hyst) :
              r.seen = tick + 1 /\ r.agent = AgentOf[Order[j]] => r \in Rows(run[j + k].hyst)
<1> DEFINE Stands(i) ==
             /\ Order[j] \in run[j + i].mixed <=> Order[j] \in run[j].mixed
             /\ \A r \in Rows(run[j].hyst) :
                  r.seen = tick + 1 /\ r.agent = AgentOf[Order[j]] => r \in Rows(run[j + i].hyst)
           T == {i \in Nat : j + i <= Len(Order) => Stands(i)}
<1>0. /\ Len(Order) \in Nat /\ j \in Nat /\ j \in DOMAIN Order /\ DOMAIN Order = 1 .. Len(Order)
      /\ \A i \in Nat : i + 1 <= Len(Order) => PairStep(run[i], run[i + 1], Order[i + 1])
  BY RunBasics, MixConstants
<1>1. 0 \in T
  BY <1>0
<1>2. ASSUME NEW i \in Nat, i \in T PROVE i + 1 \in T
  <2> SUFFICES ASSUME j + (i + 1) <= Len(Order) PROVE Stands(i + 1)
    OBVIOUS
  <2> DEFINE m == j + i
             t == Order[m + 1]
  <2>1. m \in Nat /\ m + 1 <= Len(Order) /\ m + 1 \in DOMAIN Order /\ m + 1 # j /\ j + (i + 1) = m + 1
    BY <1>0
  <2>2. Stands(i)
    BY <1>0, <1>2
  <2>3. PairStep(run[m], run[m + 1], t)
    BY <1>0, <2>1
  <2>4. t \in present => AgentOf[t] # AgentOf[Order[j]] /\ t # Order[j]
    BY <1>0, <2>1 DEF Alone
  <2> HIDE DEF m
  <2>5. Order[j] \in run[m + 1].mixed <=> Order[j] \in run[m].mixed
    <3> HIDE DEF t
    <3> QED BY <2>3, <2>4 DEF PairStep, Evaluates
  <2>6. ASSUME NEW r \in Rows(run[m].hyst), r.seen = tick + 1, r.agent = AgentOf[Order[j]]
        PROVE  r \in Rows(run[m + 1].hyst)
    <3>1. Evaluates(t) => r.agent # AgentOf[t]
      BY <2>4, <2>6 DEF Evaluates
    <3> QED BY <2>1, <2>6, <3>1, RunKeeps
  <2>7. Order[j] \in run[m].mixed <=> Order[j] \in run[j].mixed
    BY <2>2 DEF m
  <2>8. \A r \in Rows(run[j].hyst) :
          r.seen = tick + 1 /\ r.agent = AgentOf[Order[j]] => r \in Rows(run[m].hyst)
    BY <2>2 DEF m
  <2> QED BY <2>1, <2>5, <2>6, <2>7, <2>8
<1> HIDE DEF T
<1>3. k \in T
  BY <1>1, <1>2, SetInduction
<1> QED BY <1>3 DEF T

\* The pass's verdict on a source of the room, and the latch that records it
LEMMA RunVerdict ==
  ASSUME PairInv, Alone, NEW run, IsRun(run), NEW j \in 1 .. Len(Order), Order[j] \in present
  PROVE  /\ Dropped(Order[j]) => Order[j] \notin Pass.mixed
         /\ ~Dropped(Order[j]) /\ ~Placed(Order[j]) => Order[j] \in Pass.mixed
         /\ Evaluates(Order[j]) =>
              \E r \in Rows(Pass.hyst) :
                /\ r.agent = AgentOf[Order[j]] /\ r.seen = tick + 1
                /\ Order[j] \in Pass.mixed <=> ~r.culled
                /\ \A q \in Rows(run[j - 1].hyst) :
                     q.agent = AgentOf[Order[j]] => r.culled = Latch(q.culled, place[Order[j]])
<1> DEFINE s == Order[j]
           i == j - 1
           n == Len(Order)
<1>1. /\ n \in Nat /\ i \in Nat /\ j \in Nat /\ i + 1 = j /\ i <= n /\ j <= n
      /\ n - j \in Nat /\ j + (n - j) = n /\ n <= n
      /\ DOMAIN Order = 1 .. n
  BY MixConstants
<1>2. PairStep(run[i], run[j], s) /\ run[n] = Pass /\ run[j].hyst \in Tables
  BY <1>1, RunBasics
<1>3. s \notin run[i].mixed
  <2> SUFFICES ASSUME s \in run[i].mixed PROVE FALSE
    OBVIOUS
  <2>1. PICK m \in 1 .. i : s = Order[m]
    BY <1>1, RunMixed
  <2>2. m \in 1 .. n /\ j \in 1 .. n /\ m # j
    <3>1. n \in Nat /\ j \in 1 .. n /\ m \in 1 .. j - 1
      BY <1>1
    <3> QED BY ONLY <3>1
  <2> QED BY <1>1, <2>1, <2>2 DEF Alone
<1>4. /\ s \in Pass.mixed <=> s \in run[j].mixed
      /\ \A r \in Rows(run[j].hyst) :
           r.seen = tick + 1 /\ r.agent = AgentOf[s] => r \in Rows(Pass.hyst)
  <2> DEFINE m == n - j
  <2>1. m \in Nat /\ j + m <= Len(Order) /\ run[j + m] = Pass
    BY <1>1, <1>2
  <2> HIDE DEF m
  <2> QED BY <2>1, RunStands
<1> HIDE DEF i
<1>5. Dropped(s) => s \notin Pass.mixed
  BY <1>2, <1>3, <1>4 DEF PairStep
<1>6. ~Dropped(s) /\ ~Placed(s) => s \in Pass.mixed
  BY <1>2, <1>4 DEF PairStep
<1>7. ASSUME Evaluates(s)
      PROVE  \E r \in Rows(Pass.hyst) :
                /\ r.agent = AgentOf[s] /\ r.seen = tick + 1
                /\ s \in Pass.mixed <=> ~r.culled
                /\ \A q \in Rows(run[i].hyst) :
                     q.agent = AgentOf[s] => r.culled = Latch(q.culled, place[s])
  <2>1. /\ Stepped(run[i].hyst, run[j].hyst, AgentOf[s], place[s], tick + 1)
        /\ s \in run[j].mixed <=> ~CulledIn(run[j].hyst, AgentOf[s])
    BY <1>2, <1>3, <1>7 DEF PairStep
  <2>2. PICK r \in Rows(run[j].hyst) :
          /\ r.agent = AgentOf[s] /\ r.seen = tick + 1
          /\ \A q \in Rows(run[i].hyst) : q.agent = AgentOf[s] => r.culled = Latch(q.culled, place[s])
    BY <2>1 DEF Stepped
  <2>3. CulledIn(run[j].hyst, AgentOf[s]) <=> r.culled
    BY <1>2, <2>2, CulledIs
  <2> QED BY <1>4, <2>1, <2>2, <2>3
<1> QED BY <1>5, <1>6, <1>7 DEF i

\* When no two sessions in the room share an agent, a batch built after a tick
\* lights exactly the agents the tick mixed.
THEOREM DotsMatchMixAlways == PairSpec /\ []Alone => DotsMatchMix
<1> DEFINE A == tick' # tick => \A a \in Agents :
                  (Dot(a)' = "lit") <=> (\E s \in Pass.mixed : AgentOf[s] = a)
<1>1. PairInv /\ Alone /\ Next => A
  <2> SUFFICES ASSUME PairInv, Alone, Next, tick' # tick, NEW a \in Agents
               PROVE  (Dot(a)' = "lit") <=> (\E s \in Pass.mixed : AgentOf[s] = a)
    OBVIOUS
  <2>1. Tick
    BY OnlyTickTicks
  <2>2. /\ hyst' = Pass.hyst /\ tick' = tick + 1
        /\ UNCHANGED <<present, place, located, ctl, modMuted, excluded, standing>>
    BY <2>1 DEF Tick
  <2>3. PICK run : IsRun(run)
    BY RunExists
  <2> DEFINE n == Len(Order)
  <2>4. /\ n \in Nat /\ n <= n /\ run[n] = Pass /\ Pass.hyst \in Tables
        /\ DOMAIN Order = 1 .. n /\ \A s \in Src : \E j \in 1 .. n : s = Order[j]
    <3>1. n \in Nat /\ n <= n /\ run[n] = Pass /\ run[n].hyst \in Tables
      BY <2>3, RunBasics
    <3>2. DOMAIN Order = 1 .. n
      BY MixConstants
    <3> QED BY <3>1, <3>2 DEF Src, Range
  <2>5. Latched(a)' <=> \E r \in Rows(Pass.hyst) : r.agent = a /\ r.culled /\ r.seen = tick + 1
    BY <2>2 DEF Latched, SlotsOf, Rows
  <2>6. Dot(a)' = "lit" <=>
          \E s \in present : AgentOf[s] = a /\ ~Dropped(s) /\ ~Latched(a)'
    BY <2>2 DEF Dot, Dropped, OwnMuted
  <2>7. ASSUME NEW s \in present, AgentOf[s] = a, ~Dropped(s), ~Latched(a)'
        PROVE  s \in Pass.mixed
    <3>1. PICK j \in 1 .. n : s = Order[j]
      BY <2>4 DEF PairInv
    <3>2. CASE ~Placed(s)
      BY <2>3, <2>7, <3>1, <3>2, RunVerdict
    <3>3. CASE Placed(s)
      <4>1. Evaluates(Order[j])
        BY <2>7, <3>1, <3>3 DEF Evaluates
      <4>2. PICK r \in Rows(Pass.hyst) :
              /\ r.agent = AgentOf[Order[j]] /\ r.seen = tick + 1
              /\ Order[j] \in Pass.mixed <=> ~r.culled
        BY <2>3, <2>7, <3>1, <4>1, RunVerdict
      <4> QED BY <2>5, <2>7, <3>1, <4>2
    <3> QED BY <3>2, <3>3
  <2>8. ASSUME NEW s \in Pass.mixed, AgentOf[s] = a
        PROVE  s \in present /\ ~Dropped(s) /\ ~Latched(a)'
    <3>1. PICK j \in 1 .. n : s = Order[j] /\ s \in present /\ ~Dropped(s)
      BY <2>3, <2>4, RunMixed
    <3>2. ASSUME Latched(a)' PROVE FALSE
      <4>1. PICK q \in Rows(Pass.hyst) : q.agent = a /\ q.culled /\ q.seen = tick + 1
        BY <2>5, <3>2
      <4>2. ~(q.seen <= tick)
        BY <4>1 DEF PairInv
      <4>3. PICK i \in 1 .. n : Evaluates(Order[i]) /\ q.agent = AgentOf[Order[i]]
        BY <2>3, <2>4, <4>2, RunStamps
      <4>4. i = j
        BY <2>4, <2>8, <3>1, <4>1, <4>3 DEF Alone, Evaluates
      <4>5. PICK r \in Rows(Pass.hyst) :
              r.agent = AgentOf[Order[j]] /\ (Order[j] \in Pass.mixed <=> ~r.culled)
        BY <2>3, <3>1, <4>3, <4>4, RunVerdict
      <4>6. r = q
        BY <2>4, <2>8, <3>1, <4>1, <4>5, CulledIs
      <4> QED BY <3>1, <4>1, <4>5, <4>6
    <3> QED BY <3>1, <3>2
  <2> QED BY <2>6, <2>7, <2>8
<1> QED BY <1>1, PairInvariant, PTL DEF PairSpec, DotsMatchMix

\* The agents are as many as the sessions at most.
LEMMA AgentsFinite == IsFiniteSet(Agents)
<1> DEFINE n == Len(Order)
           f == [i \in 1 .. n |-> AgentOf[Order[i]]]
<1>1. n \in Nat /\ DOMAIN Order = 1 .. n /\ \A i \in 1 .. n : Order[i] \in Src
  BY MixConstants
<1>2. Agents = {AgentOf[Order[i]] : i \in 1 .. n}
  BY <1>1 DEF Agents, Src, Range
<1>3. IsFiniteSet(1 .. n)
  BY <1>1, IntervalSize
<1>4. f \in Surjection(1 .. n, Agents)
  BY <1>2 DEF Surjection
<1> QED BY <1>3, <1>4, FS_Surjection DEF ExistsSurjection

\* The latch of a source that the last tick evaluated and this one will is in
\* the table until the pass comes to it, when there is room for everybody.
LEMMA RunRemembers ==
  ASSUME PairInv, Alone, Cardinality(Evaluated \union Recent) <= MaxMix,
         NEW run, IsRun(run), NEW m \in 1 .. Len(Order), Evaluates(Order[m]),
         NEW r \in Rows(hyst), r.agent = AgentOf[Order[m]], r.seen = tick,
         NEW k \in Nat, k < m
  PROVE  r \in Rows(run[k].hyst)
<1> DEFINE T == {i \in Nat : i < m => r \in Rows(run[i].hyst)}
           All == Evaluated \union Recent
<1>0. /\ Len(Order) \in Nat /\ m \in Nat /\ m <= Len(Order) /\ DOMAIN Order = 1 .. Len(Order)
      /\ run[0].hyst = hyst /\ tick \in Nat
  BY RunBasics, MixConstants DEF PairInv
<1>1. 0 \in T
  BY <1>0
<1>2. ASSUME NEW i \in Nat, i \in T PROVE i + 1 \in T
  <2> SUFFICES ASSUME i + 1 < m, r \notin Rows(run[i + 1].hyst) PROVE FALSE
    OBVIOUS
  <2> DEFINE t == Order[i + 1]
             h == run[i].hyst
             b == AgentOf[t]
  <2>1. /\ i < m /\ i <= Len(Order) /\ i + 1 <= Len(Order) /\ i + 1 \in 1 .. Len(Order)
        /\ m \in 1 .. Len(Order) /\ i + 1 # m
    BY <1>0
  <2>2. PairStep(run[i], run[i + 1], t) /\ h \in Tables
    BY <2>1, RunBasics
  <2>3. r \in Rows(h)
    BY <1>2, <2>1
  <2>4. Evaluates(t)
    BY <2>2, <2>3 DEF PairStep, Evaluates
  <2>5. b # r.agent
    BY <1>0, <2>1, <2>4 DEF Alone, Evaluates
  <2>6. Len(h) = MaxMix /\ \A q \in Rows(h) : q.agent # b /\ tick <= q.seen
    <3>1. Stepped(h, run[i + 1].hyst, b, place[t], tick + 1)
      BY <2>2, <2>4 DEF PairStep
    <3> QED BY <2>3, <2>5, <3>1 DEF Stepped
  <2>7. b \in All
    BY <2>4 DEF Evaluated, Evaluates
  <2>8. \A q \in Rows(h) : q \in Slot
    BY <2>2, CulledIs
  <2>9. ASSUME NEW q \in Rows(h) PROVE q.agent \in All
    <3>0. q.seen \in Nat /\ q.agent \in Agents
      BY <2>8 DEF Slot
    <3>1. \/ q.seen <= tick /\ q \in Rows(hyst)
          \/ \E j \in 1 .. i : Evaluates(Order[j]) /\ q.agent = AgentOf[Order[j]]
      BY <2>1, RunStamps
    <3>2. CASE q.seen <= tick /\ q \in Rows(hyst)
      <4>1. q.seen = tick
        BY <1>0, <2>6, <3>0, <3>2
      <4> QED BY <3>0, <3>2, <4>1 DEF Recent, SlotsOf, Rows
    <3>3. CASE \E j \in 1 .. i : Evaluates(Order[j]) /\ q.agent = AgentOf[Order[j]]
      BY <3>3 DEF Evaluated, Evaluates
    <3> QED BY <3>1, <3>2, <3>3
  <2> HIDE DEF h, b
  <2> DEFINE f == [l \in 1 .. MaxMix |-> h[l].agent]
             Rest == All \ {b}
  <2>10. MaxMix \in Nat /\ DOMAIN h = 1 .. MaxMix
    BY <2>2, <2>6, MixConstants DEF Tables
  <2>11. f \in Injection(1 .. MaxMix, Rest)
    <3>1. \A l \in 1 .. MaxMix : h[l] \in Rows(h)
      BY <2>10 DEF Rows
    <3>2. \A l \in 1 .. MaxMix : h[l].agent \in All /\ h[l].agent # b
      BY <2>6, <2>9, <3>1
    <3> HIDE DEF All
    <3>3. f \in [1 .. MaxMix -> Rest]
      BY <3>2
    <3>4. \A l, j \in 1 .. MaxMix : f[l] = f[j] => l = j
      BY <2>2, <2>10 DEF Tables
    <3> QED BY <3>3, <3>4 DEF Injection, IsInjective
  <2>12. IsFiniteSet(All) /\ Cardinality(All) \in Nat
    <3>1. All \subseteq Agents
      <4>1. Evaluated \subseteq Agents
        BY DEF Evaluated, Agents, PairInv
      <4> QED BY <4>1 DEF Recent
    <3> HIDE DEF All
    <3> QED BY <3>1, AgentsFinite, FS_Subset, FS_CardinalityType
  <2>13. IsFiniteSet(Rest) /\ Cardinality(Rest) = Cardinality(All) - 1
    <3> HIDE DEF All
    <3> QED BY <2>7, <2>12, FS_RemoveElement
  <2>14. Cardinality(1 .. MaxMix) <= Cardinality(Rest)
    BY <2>11, <2>13, FS_Injection DEF ExistsInjection
  <2>15. Cardinality(1 .. MaxMix) = MaxMix
    BY <2>10, IntervalSize
  <2>16. Cardinality(All) <= MaxMix
    OBVIOUS
  <2> HIDE DEF All, Rest
  <2> QED BY <2>10, <2>12, <2>13, <2>14, <2>15, <2>16
<1> HIDE DEF T
<1>3. k \in T
  BY <1>1, <1>2, SetInduction
<1> QED BY <1>3 DEF T

\* When no two sessions in the room share an agent, the latch of a pair that
\* two ticks in a row evaluate changes only by crossing the far edge of its
\* band outwards or the near edge inwards.
THEOREM NoFlapInBandAlways == PairSpec /\ []Alone => NoFlapInBand
<1> DEFINE A == tick' # tick /\ Cardinality(Evaluated \union Recent) <= MaxMix =>
                  \A s \in present : \A k \in SlotsOf(hyst, AgentOf[s]) :
                    hyst[k].seen = tick /\ Placed(s) /\ ~Dropped(s) =>
                      /\ CulledIn(hyst', AgentOf[s]) /\ ~hyst[k].culled => place[s] > Cutoff
                      /\ ~CulledIn(hyst', AgentOf[s]) /\ hyst[k].culled => place[s] < Readd
<1>1. PairInv /\ Alone /\ Next => A
  <2> SUFFICES ASSUME PairInv, Alone, Next, tick' # tick,
                      Cardinality(Evaluated \union Recent) <= MaxMix,
                      NEW s \in present, NEW k \in SlotsOf(hyst, AgentOf[s]),
                      hyst[k].seen = tick, Placed(s), ~Dropped(s)
               PROVE  /\ CulledIn(hyst', AgentOf[s]) /\ ~hyst[k].culled => place[s] > Cutoff
                      /\ ~CulledIn(hyst', AgentOf[s]) /\ hyst[k].culled => place[s] < Readd
    OBVIOUS
  <2>1. hyst' = Pass.hyst
    BY OnlyTickTicks DEF Tick
  <2>2. PICK run : IsRun(run)
    BY RunExists
  <2>3. /\ Len(Order) \in Nat /\ Len(Order) <= Len(Order)
        /\ run[Len(Order)] = Pass /\ run[Len(Order)].hyst \in Tables
        /\ DOMAIN Order = 1 .. Len(Order)
    BY <2>2, RunBasics, MixConstants
  <2>4. PICK m \in 1 .. Len(Order) : s = Order[m]
    BY <2>3 DEF PairInv, Src, Range
  <2> DEFINE r == hyst[k]
  <2>5. r \in Rows(hyst) /\ r.agent = AgentOf[Order[m]] /\ r.seen = tick
    BY <2>4 DEF SlotsOf, Rows
  <2>6. Evaluates(Order[m])
    BY <2>4 DEF Evaluates
  <2>7. m - 1 \in Nat /\ m - 1 < m
    BY <2>3
  <2> HIDE DEF r
  <2>8. r \in Rows(run[m - 1].hyst)
    BY <2>2, <2>5, <2>6, <2>7, RunRemembers
  <2>9. PICK q \in Rows(Pass.hyst) :
          q.agent = AgentOf[Order[m]] /\ q.culled = Latch(r.culled, place[Order[m]])
    BY <2>2, <2>4, <2>5, <2>6, <2>8, RunVerdict
  <2>10. CulledIn(Pass.hyst, AgentOf[s]) <=> q.culled
    BY <2>3, <2>4, <2>9, CulledIs
  <2>11. CulledIn(hyst', AgentOf[s]) <=> Latch(r.culled, place[s])
    BY <2>1, <2>4, <2>9, <2>10
  <2> QED BY <2>11 DEF Latch, r
<1> QED BY <1>1, PairInvariant, PTL DEF PairSpec, NoFlapInBand
----------------------------------------------------------------------------
(* The sender's walk over the sessions of a room.                           *)

DotRec == [p : Levels, v : BOOLEAN, up : BOOLEAN]
DotTables == UNION {[D -> DotRec] : D \in SUBSET Shown}

\* The voices of a display among the sessions S
VoicesIn(S, d) ==
  IF \E s \in S : s.display = d /\ s.up
  THEN {s \in S : s.display = d /\ s.up}
  ELSE {s \in S : s.display = d}

\* Dot x is the one that the sessions V speak for.
DotOf(x, V) ==
  /\ \E s \in V : s.p = x.p
  /\ \A s \in V : s.p <= x.p
  /\ x.v <=> \E s \in V : s.v

\* The table is right for the sessions S.
RightFor(S, dots) ==
  /\ DOMAIN dots = {s.display : s \in S}
  /\ \A d \in DOMAIN dots :
       /\ dots[d].up <=> \E s \in S : s.display = d /\ s.up
       /\ DotOf(dots[d], VoicesIn(S, d))

\* The maximum is the element that no other exceeds.
LEMMA MaxIs ==
  ASSUME NEW S, S \subseteq Nat, NEW m \in S, \A x \in S : x <= m
  PROVE  Max(S) = m
<1>1. \A y \in S : m >= y
  OBVIOUS
<1>2. Max(S) \in S /\ \A y \in S : Max(S) >= y
  BY <1>1 DEF Max
<1>3. Max(S) \in Nat /\ m \in Nat /\ Max(S) >= m /\ Max(S) <= m
  BY <1>2
<1> QED BY ONLY <1>3

\* A table of dots, display by display
LEMMA DotTableIs ==
  ASSUME NEW dots \in DotTables
  PROVE  /\ DOMAIN dots \subseteq Shown /\ dots = [d \in DOMAIN dots |-> dots[d]]
         /\ \A d \in DOMAIN dots : dots[d] \in DotRec
BY DEF DotTables

\* A dot put into the table replaces the one of its display and no other.
LEMMA PutDotIs ==
  ASSUME NEW dots \in DotTables, NEW s \in Visited, NEW x \in DotRec
  PROVE  /\ PutDot(dots, s, x) \in DotTables
         /\ DOMAIN PutDot(dots, s, x) = DOMAIN dots \union {s.display}
         /\ PutDot(dots, s, x)[s.display] = x
         /\ \A d \in DOMAIN dots : d # s.display => PutDot(dots, s, x)[d] = dots[d]
<1> DEFINE D == DOMAIN dots \union {s.display}
           g == [d \in D |-> IF d = s.display THEN x ELSE dots[d]]
<1>1. s.display \in Shown
  BY DEF Visited
<1>2. D \in SUBSET Shown /\ g \in [D -> DotRec]
  BY <1>1, DotTableIs
<1>3. g \in DotTables
  BY <1>2 DEF DotTables
<1>4. PutDot(dots, s, x) = g
  BY DEF PutDot
<1> QED BY <1>3, <1>4

\* What one more session makes of the voices of a display
LEMMA VoicesApart ==
  ASSUME NEW S, NEW s, NEW d, d # s.display
  PROVE  VoicesIn(S \union {s}, d) = VoicesIn(S, d)
BY DEF VoicesIn

\* A live session joins live voices and replaces downed ones; a downed one only joins
\* downed ones.
LEMMA VoicesGrow ==
  ASSUME NEW S, NEW s
  PROVE  /\ s.up /\ (\E t \in S : t.display = s.display /\ t.up) =>
              VoicesIn(S \union {s}, s.display) = VoicesIn(S, s.display) \union {s}
         /\ s.up /\ ~(\E t \in S : t.display = s.display /\ t.up) =>
              VoicesIn(S \union {s}, s.display) = {s}
         /\ ~s.up /\ (\E t \in S : t.display = s.display /\ t.up) =>
              VoicesIn(S \union {s}, s.display) = VoicesIn(S, s.display)
         /\ ~s.up /\ ~(\E t \in S : t.display = s.display /\ t.up) =>
              VoicesIn(S \union {s}, s.display) = VoicesIn(S, s.display) \union {s}
<1> DEFINE d == s.display
           U == S \union {s}
           Live == \E t \in S : t.display = d /\ t.up
<1>1. CASE s.up
  <2>1. VoicesIn(U, d) = {t \in S : t.display = d /\ t.up} \union {s}
    BY <1>1 DEF VoicesIn
  <2>2. Live => VoicesIn(S, d) = {t \in S : t.display = d /\ t.up}
    BY DEF VoicesIn
  <2>3. ~Live => {t \in S : t.display = d /\ t.up} = {}
    OBVIOUS
  <2> QED BY <1>1, <2>1, <2>2, <2>3
<1>2. CASE ~s.up
  <2>1. (\E t \in U : t.display = d /\ t.up) <=> Live
    BY <1>2
  <2>2. Live => VoicesIn(U, d) = VoicesIn(S, d)
    BY <1>2, <2>1 DEF VoicesIn
  <2>3. ~Live => VoicesIn(U, d) = VoicesIn(S, d) \union {s}
    BY <2>1 DEF VoicesIn
  <2> QED BY <1>2, <2>2, <2>3
<1> QED BY <1>1, <1>2

\* Merging a session into a table that is right for those before it
LEMMA MergedRight ==
  ASSUME NEW dots \in DotTables, NEW S, S \subseteq Visited, RightFor(S, dots), NEW s \in Visited
  PROVE  Merged(dots, s) \in DotTables /\ RightFor(S \union {s}, Merged(dots, s))
<1> DEFINE e == s.display
           new == Merged(dots, s)
           U == S \union {s}
           mine == [p |-> s.p, v |-> s.v, up |-> s.up]
<1>1. /\ e \in Shown /\ s.p \in Levels /\ s.v \in BOOLEAN /\ s.up \in BOOLEAN
      /\ Levels \subseteq Nat
  BY DotMergeAssumption DEF Visited
<1>2. mine \in DotRec /\ mine.p = s.p /\ mine.v = s.v /\ mine.up = s.up
  BY <1>1 DEF DotRec
<1>3. \A t \in S : t.p \in Nat
  BY <1>1 DEF Visited
<1> HIDE DEF mine
\* It is enough that the dot of the session's display is right.
<1>4. ASSUME NEW x \in DotRec, x.up <=> \E t \in U : t.display = e /\ t.up,
             DotOf(x, VoicesIn(U, e)), new = PutDot(dots, s, x)
      PROVE  new \in DotTables /\ RightFor(U, new)
  <2>1. /\ new \in DotTables /\ DOMAIN new = DOMAIN dots \union {e} /\ new[e] = x
        /\ \A d \in DOMAIN dots : d # e => new[d] = dots[d]
    <3> DEFINE g == PutDot(dots, s, x)
    <3>1. /\ g \in DotTables /\ DOMAIN g = DOMAIN dots \union {e} /\ g[e] = x
          /\ \A d \in DOMAIN dots : d # e => g[d] = dots[d]
      BY PutDotIs
    <3> QED BY <1>4, <3>1
  <2> HIDE DEF new
  <2>2. DOMAIN new = {t.display : t \in U}
    BY <2>1 DEF RightFor
  <2>3. ASSUME NEW d \in DOMAIN new, d # e
        PROVE  /\ new[d].up <=> \E t \in U : t.display = d /\ t.up
               /\ DotOf(new[d], VoicesIn(U, d))
    <3>1. new[d] = dots[d] /\ d \in DOMAIN dots
      BY <2>1, <2>3
    <3>2. VoicesIn(U, d) = VoicesIn(S, d)
      BY <2>3, VoicesApart
    <3> QED BY <2>3, <3>1, <3>2 DEF RightFor
  <2>4. ASSUME NEW d \in DOMAIN new, d = e
        PROVE  /\ new[d].up <=> \E t \in U : t.display = d /\ t.up
               /\ DotOf(new[d], VoicesIn(U, d))
    BY <1>4, <2>1, <2>4
  <2> HIDE DEF U, e
  <2>5. RightFor(U, new)
    BY <2>2, <2>3, <2>4 DEF RightFor
  <2> QED BY <2>1, <2>5
<1>5. CASE e \notin DOMAIN dots \/ (e \in DOMAIN dots /\ s.up /\ ~dots[e].up)
  <2>1. new = PutDot(dots, s, mine)
    BY <1>5 DEF Merged, mine
  <2>2. ~\E t \in S : t.display = e /\ t.up
    BY <1>5 DEF RightFor
  <2>3. VoicesIn(U, e) = {s}
    <3>1. CASE s.up
      BY <2>2, <3>1, VoicesGrow
    <3>2. CASE ~s.up
      <4>1. VoicesIn(S, e) = {}
        BY <1>5, <3>2 DEF VoicesIn, RightFor
      <4> QED BY <2>2, <3>2, <4>1, VoicesGrow
    <3> QED BY <3>1, <3>2
  <2>4. DotOf(mine, {s})
    <3>1. mine.p = s.p /\ s.p <= mine.p
      <4>1. s.p \in Nat
        BY <1>1
      <4> QED BY <1>2, <4>1
    <3>2. mine.v <=> \E t \in {s} : t.v
      BY <1>2, Zenon
    <3> QED BY <3>1, <3>2 DEF DotOf
  <2>5. mine.up <=> \E t \in U : t.display = e /\ t.up
    BY <1>2, <2>2
  <2> QED BY <1>2, <1>4, <2>1, <2>3, <2>4, <2>5
<1>6. CASE e \in DOMAIN dots /\ ~(s.up /\ ~dots[e].up)
  <2> DEFINE was == dots[e]
             x == [p |-> Max({s.p, was.p}), v |-> was.v \/ s.v, up |-> was.up]
  <2>1. was \in DotRec
    BY <1>6, DotTableIs
  <2>2. was.p \in Levels /\ was.v \in BOOLEAN /\ was.up \in BOOLEAN
    BY <2>1 DEF DotRec
  <2>3. /\ was.up <=> \E t \in S : t.display = e /\ t.up
        /\ DotOf(was, VoicesIn(S, e))
    BY <1>6 DEF RightFor
  <2>4. CASE s.up # was.up
    <3>1. new = dots
      BY <1>6, <2>4 DEF Merged
    <3>2. ~s.up /\ \E t \in S : t.display = e /\ t.up
      BY <1>1, <1>6, <2>2, <2>3, <2>4
    <3>3. VoicesIn(U, e) = VoicesIn(S, e)
      BY <3>2, VoicesGrow
    <3>4. ASSUME NEW d \in DOMAIN dots
          PROVE  /\ dots[d].up <=> \E t \in U : t.display = d /\ t.up
                 /\ DotOf(dots[d], VoicesIn(U, d))
      <4>1. VoicesIn(U, d) = VoicesIn(S, d)
        <5>1. d # e => VoicesIn(U, d) = VoicesIn(S, d)
          BY VoicesApart
        <5> QED BY <3>3, <5>1
      <4> QED BY <3>2, <4>1 DEF RightFor
    <3>5. DOMAIN dots = {t.display : t \in U}
      BY <1>6 DEF RightFor
    <3>6. RightFor(U, dots)
      BY <3>4, <3>5 DEF RightFor
    <3> QED BY <3>1, <3>6
  <2>5. CASE s.up = was.up
    <3>1. new = PutDot(dots, s, x)
      BY <1>6, <2>5 DEF Merged
    <3> DEFINE top == Max({s.p, was.p})
    <3>2. top \in {s.p, was.p} /\ s.p <= top /\ was.p <= top /\ top \in Levels
      <4>1. s.p \in Nat /\ was.p \in Nat
        BY <1>1, <2>2
      <4>2. CASE s.p <= was.p
        <5>1. top = was.p
          BY <4>1, <4>2, MaxIs
        <5> QED BY <1>1, <2>2, <4>1, <4>2, <5>1
      <4>3. CASE was.p <= s.p
        <5>1. top = s.p
          BY <4>1, <4>3, MaxIs
        <5> QED BY <1>1, <2>2, <4>1, <4>3, <5>1
      <4> QED BY <4>1, <4>2, <4>3
    <3> HIDE DEF top
    <3>3. (was.v \/ s.v) \in BOOLEAN
      BY <1>1, <2>2
    <3>4. x \in DotRec /\ x.p = top /\ (x.v <=> (was.v \/ s.v)) /\ x.up = was.up
      BY <2>2, <3>2, <3>3 DEF DotRec, top
    <3>5. VoicesIn(U, e) = VoicesIn(S, e) \union {s}
      <4>1. CASE s.up
        BY <2>3, <2>5, <4>1, VoicesGrow
      <4>2. CASE ~s.up
        BY <2>3, <2>5, <4>2, VoicesGrow
      <4> QED BY <4>1, <4>2
    <3>6. x.up <=> \E t \in U : t.display = e /\ t.up
      BY <1>1, <2>2, <2>3, <2>5, <3>4
    <3> HIDE DEF x, was
    <3>7. \A t \in VoicesIn(S, e) : t.p \in Nat
      BY <1>3 DEF VoicesIn
    <3>8. DotOf(x, VoicesIn(S, e) \union {s})
      <4>1. \E t \in VoicesIn(S, e) \union {s} : t.p = x.p
        BY <2>3, <3>2, <3>4 DEF DotOf
      <4>2. ASSUME NEW t \in VoicesIn(S, e) PROVE t.p <= x.p
        <5>1. t.p \in Nat /\ was.p \in Nat /\ top \in Nat /\ t.p <= was.p /\ was.p <= top
          BY <1>1, <2>2, <2>3, <3>2, <3>7 DEF DotOf
        <5> QED BY <3>4, <5>1
      <4>3. s.p <= x.p
        BY <3>2, <3>4
      <4>4. x.v <=> \E t \in VoicesIn(S, e) \union {s} : t.v
        BY <2>3, <3>4 DEF DotOf
      <4> QED BY <4>1, <4>2, <4>3, <4>4 DEF DotOf
    <3> QED BY <1>4, <3>1, <3>4, <3>5, <3>6, <3>8
  <2> QED BY <2>4, <2>5
<1> QED BY <1>5, <1>6

\* IteratesExist for the sessions of a walk
LEMMA DotIterates ==
  ASSUME NEW v0 \in DotTables, NEW n \in Nat, NEW F, F \in [1 .. n -> [DotTables -> DotTables]]
  PROVE  \E f \in [0 .. n -> DotTables] :
           f[0] = v0 /\ \A i \in 1 .. n : f[i] = F[i][f[i - 1]]
BY IteratesExist

\* Merging keeps a table a table, whatever it is right for.
LEMMA MergedType ==
  ASSUME NEW dots \in DotTables, NEW s \in Visited
  PROVE  Merged(dots, s) \in DotTables
<1> DEFINE e == s.display
           was == dots[e]
           mine == [p |-> s.p, v |-> s.v, up |-> s.up]
           x == [p |-> Max({s.p, was.p}), v |-> was.v \/ s.v, up |-> was.up]
<1>1. s.p \in Levels /\ s.v \in BOOLEAN /\ s.up \in BOOLEAN /\ Levels \subseteq Nat
  BY DotMergeAssumption DEF Visited
<1>2. mine \in DotRec
  BY <1>1 DEF DotRec
<1>3. CASE e \notin DOMAIN dots \/ (e \in DOMAIN dots /\ s.up /\ ~dots[e].up)
  <2>1. Merged(dots, s) = PutDot(dots, s, mine)
    BY <1>3 DEF Merged
  <2> HIDE DEF mine
  <2>2. PutDot(dots, s, mine) \in DotTables
    BY <1>2, PutDotIs
  <2> QED BY <2>1, <2>2
<1>4. CASE e \in DOMAIN dots /\ ~(s.up /\ ~dots[e].up)
  <2>1. was \in DotRec
    BY <1>4, DotTableIs
  <2>2. was.p \in Levels /\ was.v \in BOOLEAN /\ was.up \in BOOLEAN
    BY <2>1 DEF DotRec
  <2>3. Max({s.p, was.p}) \in Levels
    <3>1. s.p \in Nat /\ was.p \in Nat
      BY <1>1, <2>2
    <3>2. CASE s.p <= was.p
      BY <2>2, <3>1, <3>2, MaxIs
    <3>3. CASE was.p <= s.p
      BY <1>1, <3>1, <3>3, MaxIs
    <3> QED BY <3>1, <3>2, <3>3
  <2>4. (was.v \/ s.v) \in BOOLEAN
    BY <1>1, <2>2
  <2>5. x \in DotRec
    BY <2>2, <2>3, <2>4 DEF DotRec
  <2>6. Merged(dots, s) = dots \/ Merged(dots, s) = PutDot(dots, s, x)
    BY <1>4 DEF Merged
  <2> HIDE DEF x
  <2>7. PutDot(dots, s, x) \in DotTables
    BY <2>5, PutDotIs
  <2> QED BY <2>6, <2>7
<1> QED BY <1>3, <1>4

\* The walk's table is right for the sessions it visited, in any number and in
\* any order.
LEMMA WalkRight ==
  ASSUME NEW sessions \in Seq(Visited)
  PROVE  Walk(sessions) \in DotTables /\ RightFor(Range(sessions), Walk(sessions))
<1> DEFINE n == Len(sessions)
           F == [i \in 1 .. n |-> [v \in DotTables |-> Merged(v, sessions[i])]]
           run == CHOOSE g : g = [i \in 0 .. n |->
                    IF i = 0 THEN NoDots ELSE Merged(g[i - 1], sessions[i])]
           Upto(k) == {sessions[j] : j \in 1 .. k}
<1>1. n \in Nat /\ DOMAIN sessions = 1 .. n /\ \A i \in 1 .. n : sessions[i] \in Visited
  OBVIOUS
<1>2. ASSUME NEW i \in 1 .. n, NEW v \in DotTables PROVE Merged(v, sessions[i]) \in DotTables
  BY <1>1, MergedType
<1>3. F \in [1 .. n -> [DotTables -> DotTables]]
  BY <1>2
<1>4. \A i \in 1 .. n : \A v \in DotTables : F[i][v] = Merged(v, sessions[i])
  OBVIOUS
<1>5. NoDots \in DotTables /\ DOMAIN NoDots = {}
  <2>1. NoDots \in [{} -> DotRec] /\ {} \in SUBSET Shown
    BY DEF NoDots
  <2> QED BY <2>1 DEF DotTables
<1>6. run[n] = Walk(sessions)
  BY DEF Walk
<1> HIDE DEF n, F
<1>7. PICK f \in [0 .. n -> DotTables] : f[0] = NoDots /\ \A i \in 1 .. n : f[i] = F[i][f[i - 1]]
  <2> DEFINE st == NoDots
  <2>1. n \in Nat
    BY <1>1
  <2>2. st \in DotTables
    BY <1>5
  <2> HIDE DEF st
  <2>3. \E f \in [0 .. n -> DotTables] : f[0] = st /\ \A i \in 1 .. n : f[i] = F[i][f[i - 1]]
    <3>1. F \in [1 .. n -> [DotTables -> DotTables]]
      BY <1>3
    <3>2. \A v0 \in DotTables, m \in Nat : \A G \in [1 .. m -> [DotTables -> DotTables]] :
            \E f \in [0 .. m -> DotTables] :
              f[0] = v0 /\ \A i \in 1 .. m : f[i] = G[i][f[i - 1]]
      BY DotIterates
    <3> QED BY <2>1, <2>2, <3>1, <3>2, Zenon
  <2> QED BY <2>3 DEF st
<1>8. \A i \in 1 .. n : i - 1 \in 0 .. n
  BY <1>1
<1>9. \A i \in 1 .. n : f[i] = Merged(f[i - 1], sessions[i])
  BY <1>4, <1>7, <1>8
<1>10. f = [i \in 0 .. n |-> IF i = 0 THEN NoDots ELSE Merged(f[i - 1], sessions[i])]
  BY <1>1, <1>7, <1>9
<1>11. run = [i \in 0 .. n |-> IF i = 0 THEN NoDots ELSE Merged(run[i - 1], sessions[i])]
  BY <1>10
<1> HIDE DEF run
<1>12. run[0] = NoDots /\ \A i \in 1 .. n : run[i] = Merged(run[i - 1], sessions[i])
  BY <1>1, <1>11
<1> DEFINE T == {k \in Nat : k <= n => run[k] \in DotTables /\ RightFor(Upto(k), run[k])}
<1>13. 0 \in T
  <2>1. Upto(0) = {}
    OBVIOUS
  <2>2. RightFor(Upto(0), run[0])
    BY <1>5, <1>12, <2>1 DEF RightFor
  <2> QED BY <1>5, <1>12, <2>2
<1>14. ASSUME NEW k \in Nat, k \in T PROVE k + 1 \in T
  <2> SUFFICES ASSUME k + 1 <= n
               PROVE  run[k + 1] \in DotTables /\ RightFor(Upto(k + 1), run[k + 1])
    OBVIOUS
  <2> DEFINE s == sessions[k + 1]
             S == Upto(k)
  <2>1. k + 1 \in 1 .. n /\ (k + 1) - 1 = k /\ k <= n
    BY <1>1
  <2>2. s \in Visited /\ run[k + 1] = Merged(run[k], s)
    BY <1>1, <1>12, <2>1
  <2>3. run[k] \in DotTables /\ RightFor(S, run[k])
    BY <1>14, <2>1
  <2>4. Upto(k + 1) = S \union {s}
    <3>1. \A j : j \in 1 .. k + 1 <=> j \in 1 .. k \/ j = k + 1
      OBVIOUS
    <3> QED BY <3>1
  <2>5. S \subseteq Visited
    BY <1>1, <2>1
  <2> HIDE DEF S, s, Upto
  <2> QED BY <2>2, <2>3, <2>4, <2>5, MergedRight
<1> HIDE DEF T
<1>15. n \in T
  BY <1>1, <1>13, <1>14, SetInduction
<1>16. run[n] \in DotTables /\ RightFor(Upto(n), run[n])
  BY <1>1, <1>15 DEF T
<1>17. Upto(n) = Range(sessions)
  BY <1>1 DEF Range
<1> QED BY <1>6, <1>16, <1>17

\* Whatever sessions the sender visits, how many and in which order, the dot of
\* a display shows the loudest of its live sessions, or of all of them when
\* none is live, and speaks if one of those does.
THEOREM EveryWalkRight ==
  ASSUME NEW sessions \in Seq(Visited)
  PROVE  WalkedRight(sessions)
<1> DEFINE dots == Walk(sessions)
           S == Range(sessions)
<1>1. dots \in DotTables /\ RightFor(S, dots)
  BY WalkRight
<1>2. S \subseteq Visited
  BY DEF Range
<1>3. Levels \subseteq Nat
  BY DotMergeAssumption
<1>4. \A d : Voices(sessions, d) = VoicesIn(S, d)
  BY DEF Voices, VoicesIn
<1> HIDE DEF dots, S
<1>5. DOMAIN dots = {s.display : s \in S}
  BY <1>1 DEF RightFor
<1>6. ASSUME NEW d \in DOMAIN dots
      PROVE  /\ dots[d].p = Max({s.p : s \in Voices(sessions, d)})
             /\ dots[d].v = (\E s \in Voices(sessions, d) : s.v)
  <2> DEFINE V == VoicesIn(S, d)
             P == {s.p : s \in V}
  <2>1. DotOf(dots[d], V) /\ dots[d] \in DotRec
    BY <1>1, DotTableIs DEF RightFor
  <2>2. V \subseteq Visited
    BY <1>2 DEF VoicesIn
  <2> HIDE DEF V
  <2>3. P \subseteq Nat
    BY <1>3, <2>2 DEF Visited
  <2>4. dots[d].p \in P /\ \A x \in P : x <= dots[d].p
    BY <2>1 DEF DotOf
  <2> HIDE DEF P
  <2>5. Max(P) = dots[d].p
    BY <2>3, <2>4, MaxIs
  <2>6. dots[d].v \in BOOLEAN
    BY <2>1 DEF DotRec
  <2>7. dots[d].v <=> \E s \in V : s.v
    BY <2>1 DEF DotOf
  <2>8. dots[d].v = (\E s \in V : s.v)
    BY <2>6, <2>7, Zenon
  <2>9. Voices(sessions, d) = V
    BY <1>4 DEF V
  <2> QED BY <2>5, <2>8, <2>9 DEF P
<1> QED BY <1>5, <1>6 DEF WalkedRight, dots, S

\* The sender's merge is deterministic: no walk over the sessions of a room, of
\* any length and in any order, shows another dot than that of the display's
\* loudest voice.
THEOREM MergeIsOrderFreeAlways == PairSpec => []MergeIsOrderFree
<1>1. WrongWalks = {}
  <2> SUFFICES ASSUME NEW n \in 0 .. MaxVisited, NEW sessions \in [1 .. n -> Visited]
               PROVE  WalkedRight(sessions)
    BY DEF WrongWalks
  <2>1. n \in Nat
    BY DotMergeAssumption
  <2>2. sessions \in Seq(Visited)
    BY <2>1
  <2> QED BY <2>2, EveryWalkRight
<1>2. MergeIsOrderFree
  BY <1>1 DEF MergeIsOrderFree
<1> QED BY <1>2, PTL
=============================================================================
