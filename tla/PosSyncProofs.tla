----------------------------- MODULE PosSyncProofs -----------------------------
(***************************************************************************)
(* What the position store guarantees for any participants, instances,     *)
(* requests, speeds and tolerances.                                        *)
(***************************************************************************)
EXTENDS PosSync, FiniteSetTheorems, SequenceTheorems, TLAPS

\* What a request of a simulator is: points of agents, sampled in the past.
IsRequest(m) ==
  /\ m.epoch \in Epochs /\ m.seq \in Nat /\ m.seq >= 1 /\ m.full \in BOOLEAN
  /\ m.when \in Nat /\ m.when <= now
  /\ DOMAIN m.at \subseteq Agents /\ \A a \in DOMAIN m.at : m.at[a] \in Nat

PosTypeOK ==
  /\ now \in Nat
  /\ where \in [Viewers -> Nat]
  /\ claim \in [Viewers -> [at : Nat \union {None}, when : Nat]]
  /\ IsFiniteSet(sent) /\ \A m \in sent : IsRequest(m)
  /\ stats \in [have : BOOLEAN, epoch : Nat, seq : Nat]
  /\ auth \in [epoch : Nat, fresh : BOOLEAN, lapsed : BOOLEAN]
  /\ accepted \in Seq(sent)

\* The constants are numbers.
LEMMA Constants ==
  /\ MaxSent \in Nat /\ StoreMax \in Nat /\ StaleAfter \in Nat /\ Speed \in Nat /\ Tol \in Nat
  /\ Delay \in Nat /\ Lag \in Nat /\ Span \in Nat /\ MaxTime \in Nat
  /\ IsFiniteSet(Agents) /\ Viewers \subseteq Agents /\ Epochs \subseteq Nat
  BY PosSyncAssumption

\* The request a simulator sends: numbered, its points sampled now.
Sample(e, k) ==
  [epoch |-> e, seq |-> NextSeq(e), full |-> k.full,
   at |-> [a \in k.names |-> IF a \in Viewers THEN where[a] ELSE 0], when |-> now]

\* A sample is a request.
LEMMA SampleTyped ==
  ASSUME PosTypeOK, NEW e \in Epochs, NEW k \in Kinds
  PROVE  IsRequest(Sample(e, k))
<1> DEFINE mine == {m \in sent : m.epoch = e}
<1>1. IsFiniteSet(mine)
  BY FS_Subset DEF PosTypeOK
<1>2. Cardinality(mine) \in Nat
  BY <1>1, FS_CardinalityType
<1>3. NextSeq(e) \in Nat /\ NextSeq(e) >= 1
  BY <1>2 DEF NextSeq
<1>4. k.names \subseteq Agents /\ k.full \in BOOLEAN
  BY PosSyncAssumption
<1>5. now \in Nat /\ \A a \in Viewers : where[a] \in Nat
  BY DEF PosTypeOK
<1> DEFINE at == [a \in k.names |-> IF a \in Viewers THEN where[a] ELSE 0]
<1>6. DOMAIN at = k.names /\ \A a \in k.names : at[a] \in Nat
  BY <1>5
<1>7. /\ Sample(e, k).epoch = e /\ Sample(e, k).seq = NextSeq(e) /\ Sample(e, k).full = k.full
      /\ Sample(e, k).at = at /\ Sample(e, k).when = now
  BY DEF Sample
<1> HIDE DEF at
<1> QED BY <1>3, <1>4, <1>5, <1>6, <1>7 DEF IsRequest

\* The state of the position check is well typed.
THEOREM PosTypeCorrect == PosSpec => []PosTypeOK
<1>1. Init => PosTypeOK
  <2> SUFFICES ASSUME Init PROVE PosTypeOK
    OBVIOUS
  <2>1. where \in [Viewers -> Nat]
    BY Constants DEF Init
  <2>2. claim \in [Viewers -> [at : Nat \union {None}, when : Nat]]
    BY DEF Init
  <2>3. accepted \in Seq(sent)
    BY DEF Init
  <2>4. IsFiniteSet(sent)
    BY FS_EmptySet DEF Init
  <2> QED BY <2>1, <2>2, <2>3, <2>4 DEF Init, PosTypeOK
<1>2. PosTypeOK /\ [Next]_posVars => PosTypeOK'
  <2> SUFFICES ASSUME PosTypeOK, [Next]_posVars PROVE PosTypeOK'
    OBVIOUS
  <2> USE Constants
  <2>1. CASE Second
    <3>1. now \in Nat /\ now' = now + 1 /\ now' \in Nat
      BY <2>1 DEF Second, PosTypeOK
    <3>2. where' \in [Viewers -> Nat]
      BY <2>1 DEF Second
    <3>3. sent' = sent /\ \A m \in sent : IsRequest(m)'
      BY <2>1, <3>1 DEF Second, PosTypeOK, IsRequest
    <3> QED BY <2>1, <3>1, <3>2, <3>3 DEF Second, PosTypeOK
  <2>2. CASE Lapse
    <3>1. auth' \in [epoch : Nat, fresh : BOOLEAN, lapsed : BOOLEAN]
      BY <2>2 DEF Lapse, PosTypeOK
    <3>2. UNCHANGED <<now, where, claim, sent, stats, accepted>>
      BY <2>2 DEF Lapse
    <3> QED BY <3>1, <3>2 DEF PosTypeOK, IsRequest
  <2>3. ASSUME NEW m \in sent, Refused(m) PROVE PosTypeOK'
    BY <2>3 DEF Refused, posVars, PosTypeOK, IsRequest
  <2>4. ASSUME NEW m \in sent, Accept(m) PROVE PosTypeOK'
    <3>1. m.epoch \in Nat /\ m.seq \in Nat
      BY DEF PosTypeOK, IsRequest
    <3>2. stats' \in [have : BOOLEAN, epoch : Nat, seq : Nat]
      BY <2>4, <3>1 DEF Accept
    <3>3. accepted' \in Seq(sent)
      BY <2>4 DEF Accept, PosTypeOK
    <3>4. UNCHANGED <<now, where, claim, sent, auth>>
      BY <2>4 DEF Accept
    <3> QED BY <3>2, <3>3, <3>4 DEF PosTypeOK, IsRequest
  <2>5. CASE Tick
    BY <2>5 DEF Tick, PosTypeOK, IsRequest
  <2>6. ASSUME NEW a \in Viewers, Claim(a) PROVE PosTypeOK'
    <3>1. [at |-> where[a], when |-> now] \in [at : Nat \union {None}, when : Nat]
      BY DEF PosTypeOK
    <3>2. claim' \in [Viewers -> [at : Nat \union {None}, when : Nat]]
      BY <2>6, <3>1 DEF Claim, PosTypeOK
    <3>3. UNCHANGED <<now, where, sent, stats, auth, accepted>>
      BY <2>6 DEF Claim
    <3> QED BY <3>2, <3>3 DEF PosTypeOK, IsRequest
  <2>7. ASSUME NEW e \in Epochs, Send(e) PROVE PosTypeOK'
    <3>1. PICK k \in Kinds : sent' = sent \union {Sample(e, k)}
      BY <2>7 DEF Send, Sample
    <3>2. UNCHANGED <<now, where, claim, stats, auth, accepted>>
      BY <2>7 DEF Send
    <3>3. IsFiniteSet(sent')
      BY <3>1, FS_AddElement DEF PosTypeOK
    <3>4. IsRequest(Sample(e, k))
      BY SampleTyped
    <3>5. \A m \in sent' : IsRequest(m)
      BY <3>1, <3>4 DEF PosTypeOK
    <3>6. \A m \in sent' : IsRequest(m)'
      BY <3>2, <3>5 DEF IsRequest
    <3>7. accepted' \in Seq(sent')
      BY <3>1, <3>2 DEF PosTypeOK
    <3> QED BY <3>2, <3>3, <3>6, <3>7 DEF PosTypeOK
  <2>8. ASSUME NEW e \in Epochs, Adopt(e) PROVE PosTypeOK'
    <3>1. auth' \in [epoch : Nat, fresh : BOOLEAN, lapsed : BOOLEAN]
      BY <2>8 DEF Adopt, PosTypeOK
    <3>2. UNCHANGED <<now, where, claim, sent, stats, accepted>>
      BY <2>8 DEF Adopt
    <3> QED BY <3>1, <3>2 DEF PosTypeOK, IsRequest
  <2>9. CASE UNCHANGED posVars
    BY <2>9 DEF posVars, PosTypeOK, IsRequest
  <2> QED BY <2>1, <2>2, <2>3, <2>4, <2>5, <2>6, <2>7, <2>8, <2>9 DEF Next, PeerPos
<1> QED BY <1>1, <1>2, PTL DEF PosSpec
----------------------------------------------------------------------------
(* Order.  A room accepts requests in the order of their instances, and     *)
(* within an instance in the order of their sequence numbers.               *)

Before(x, y) == x.epoch < y.epoch \/ (x.epoch = y.epoch /\ x.seq < y.seq)

\* pos_stats describe the request accepted last.
StatsAreLast ==
  /\ stats.have <=> Len(accepted) > 0
  /\ Len(accepted) > 0 =>
       /\ stats.epoch = accepted[Len(accepted)].epoch
       /\ stats.seq = accepted[Len(accepted)].seq

\* While its authority never lapsed the room follows ever newer instances, and every request
\* comes after all those accepted before it.
InOrder ==
  ~auth.lapsed =>
    /\ auth.epoch # 0 => auth.fresh
    /\ \A i \in DOMAIN accepted : accepted[i].epoch <= auth.epoch
    /\ \A i, j \in DOMAIN accepted : i < j => Before(accepted[i], accepted[j])

\* The requests accepted are requests sent, hence typed.
LEMMA AcceptedTyped ==
  ASSUME PosTypeOK
  PROVE  /\ Len(accepted) \in Nat /\ DOMAIN accepted = 1 .. Len(accepted)
         /\ \A i \in DOMAIN accepted :
              /\ accepted[i] \in sent
              /\ accepted[i].epoch \in Epochs /\ accepted[i].epoch \in Nat /\ accepted[i].seq \in Nat
<1>1. accepted \in Seq(sent)
  BY DEF PosTypeOK
<1>2. Len(accepted) \in Nat /\ DOMAIN accepted = 1 .. Len(accepted)
  BY <1>1
<1>3. \A i \in DOMAIN accepted : accepted[i] \in sent
  BY <1>1
<1>4. \A m \in sent : m.epoch \in Epochs /\ m.epoch \in Nat /\ m.seq \in Nat
  BY Constants DEF PosTypeOK, IsRequest
<1> QED BY <1>2, <1>3, <1>4

\* What appending a request does to the history.
LEMMA AppendAccepted ==
  ASSUME PosTypeOK, NEW m \in sent, Accept(m)
  PROVE  /\ Len(accepted') = Len(accepted) + 1
         /\ DOMAIN accepted' = 1 .. (Len(accepted) + 1)
         /\ \A i \in 1 .. Len(accepted) : accepted'[i] = accepted[i]
         /\ accepted'[Len(accepted) + 1] = m
  BY DEF Accept, PosTypeOK

\* An accepted request makes itself the last.
LEMMA StatsStep ==
  ASSUME PosTypeOK, StatsAreLast, [Next]_posVars
  PROVE  StatsAreLast'
<1>1. ASSUME NEW m \in sent, Accept(m) PROVE StatsAreLast'
  <2>1. stats' = [have |-> TRUE, epoch |-> m.epoch, seq |-> m.seq]
    BY <1>1 DEF Accept
  <2>2. Len(accepted) \in Nat
    BY AcceptedTyped
  <2>3. Len(accepted') > 0 /\ accepted'[Len(accepted')] = m
    BY <1>1, <2>2, AppendAccepted
  <2> QED BY <2>1, <2>3 DEF StatsAreLast
<1>2. CASE UNCHANGED <<stats, accepted>>
  BY <1>2 DEF StatsAreLast
<1>3. (\E m \in sent : Accept(m)) \/ UNCHANGED <<stats, accepted>>
  BY DEF Next, PeerPos, Refused, Second, Lapse, Tick, Claim, Send, Adopt, posVars
<1> QED BY <1>1, <1>2, <1>3

\* An accepted request comes after the one accepted last: a fresh authority refuses the older
\* instances, the sequence number the older requests of the same one.
LEMMA AcceptsLater ==
  ASSUME 0 \in Epochs => Epochs = {0},
         PosTypeOK, StatsAreLast, InOrder, ~auth.lapsed,
         NEW m \in sent, Arrives(m), Accept(m)
  PROVE  /\ \A i \in DOMAIN accepted : Before(accepted[i], m)
         /\ m.epoch <= auth.epoch
<1> DEFINE n == Len(accepted)
<1>1. m.epoch \in Epochs /\ m.epoch \in Nat /\ m.seq \in Nat /\ auth.epoch \in Nat
  BY Constants DEF PosTypeOK, IsRequest
<1>2. m.epoch # 0 => auth.epoch >= m.epoch
  BY DEF Arrives
<1>3. m.epoch # 0 /\ auth.epoch # 0 /\ m.epoch < auth.epoch /\ auth.fresh => FALSE
  BY DEF Accept, Refusal
<1>4. stats.have /\ m.epoch = stats.epoch /\ m.seq <= stats.seq => FALSE
  BY DEF Accept, Refusal
<1>5. auth.epoch # 0 => auth.fresh
  BY DEF InOrder
<1>6. m.epoch <= auth.epoch /\ (m.epoch # 0 => m.epoch = auth.epoch)
  BY <1>1, <1>2, <1>3, <1>5
<1>7. ASSUME NEW i \in DOMAIN accepted PROVE Before(accepted[i], m)
  <2>1. n \in Nat /\ i \in 1 .. n /\ n \in DOMAIN accepted
    BY AcceptedTyped
  <2>2. /\ accepted[i].epoch \in Nat /\ accepted[i].seq \in Nat
        /\ accepted[n].epoch \in Nat /\ accepted[n].epoch \in Epochs /\ accepted[n].seq \in Nat
    BY <2>1, AcceptedTyped
  <2>3. accepted[n].epoch <= auth.epoch
    BY <2>1 DEF InOrder
  <2>4. accepted[n].epoch <= m.epoch
    <3>1. CASE m.epoch = 0
      BY <3>1, <1>1, <2>2
    <3>2. CASE m.epoch # 0
      BY <3>2, <1>6, <2>3
    <3> QED BY <3>1, <3>2
  <2>5. stats.have /\ stats.epoch = accepted[n].epoch /\ stats.seq = accepted[n].seq
    BY <2>1 DEF StatsAreLast
  <2>6. Before(accepted[n], m)
    BY <1>1, <1>4, <2>2, <2>4, <2>5 DEF Before
  <2>7. i # n => Before(accepted[i], accepted[n])
    BY <2>1 DEF InOrder
  <2> QED BY <1>1, <2>2, <2>6, <2>7 DEF Before
<1> QED BY <1>6, <1>7

\* Requests stay in order.
LEMMA OrderStep ==
  ASSUME 0 \in Epochs => Epochs = {0},
         PosTypeOK, StatsAreLast, InOrder, [Next]_posVars
  PROVE  InOrder'
<1>1. ASSUME NEW m \in sent, Arrives(m), Accept(m) PROVE InOrder'
  <2> SUFFICES ASSUME ~auth.lapsed PROVE InOrder'
    BY <1>1 DEF Accept, InOrder
  <2> DEFINE n == Len(accepted)
  <2>1. auth' = auth
    BY <1>1 DEF Accept
  <2>2. (\A i \in DOMAIN accepted : Before(accepted[i], m)) /\ m.epoch <= auth.epoch
    BY <1>1, AcceptsLater
  <2>3. n \in Nat /\ DOMAIN accepted = 1 .. n
    BY AcceptedTyped
  <2>4. /\ DOMAIN accepted' = 1 .. (n + 1) /\ accepted'[n + 1] = m
        /\ \A i \in 1 .. n : accepted'[i] = accepted[i]
    BY <1>1, AppendAccepted
  <2> HIDE DEF n
  <2>5. ASSUME NEW i \in DOMAIN accepted' PROVE accepted'[i].epoch <= auth.epoch
    <3>1. i \in 1 .. n \/ i = n + 1
      BY <2>3, <2>4
    <3> QED BY <2>2, <2>3, <2>4, <3>1 DEF InOrder
  <2>6. ASSUME NEW i \in DOMAIN accepted', NEW j \in DOMAIN accepted', i < j
        PROVE  Before(accepted'[i], accepted'[j])
    <3>1. i \in 1 .. n /\ (j \in 1 .. n \/ j = n + 1)
      BY <2>3, <2>4, <2>6
    <3>2. CASE j = n + 1
      BY <2>2, <2>3, <2>4, <3>1, <3>2
    <3>3. CASE j \in 1 .. n
      <4>1. Before(accepted[i], accepted[j])
        BY <2>3, <2>6, <3>1, <3>3 DEF InOrder
      <4> QED BY <4>1, <2>4, <3>1, <3>3
    <3> QED BY <3>1, <3>2, <3>3
  <2>7. auth.epoch # 0 => auth.fresh
    BY DEF InOrder
  <2> QED BY <2>1, <2>5, <2>6, <2>7 DEF InOrder
<1>2. CASE Lapse
  BY <1>2 DEF Lapse, InOrder, PosTypeOK
<1>3. ASSUME NEW e \in Epochs, Adopt(e) PROVE InOrder'
  <2>1. /\ auth'.epoch = e /\ auth'.fresh = TRUE /\ auth'.lapsed = auth.lapsed
        /\ accepted' = accepted
    BY <1>3 DEF Adopt, PosTypeOK
  <2>2. e # 0 /\ (e > auth.epoch \/ ~auth.fresh) /\ e \in Nat /\ auth.epoch \in Nat
    BY <1>3, Constants DEF Adopt, PosTypeOK
  <2>3. ASSUME ~auth.lapsed, NEW i \in DOMAIN accepted PROVE accepted[i].epoch <= e
    <3>1. accepted[i].epoch <= auth.epoch /\ (auth.epoch # 0 => auth.fresh)
      BY <2>3 DEF InOrder
    <3>2. accepted[i].epoch \in Nat
      BY AcceptedTyped
    <3> QED BY <2>2, <3>1, <3>2
  <2> QED BY <2>1, <2>3 DEF InOrder
<1>4. CASE UNCHANGED <<auth, accepted>>
  BY <1>4 DEF InOrder
<1>5. \/ \E m \in sent : Arrives(m) /\ Accept(m)
      \/ Lapse \/ (\E e \in Epochs : Adopt(e)) \/ UNCHANGED <<auth, accepted>>
  BY DEF Next, PeerPos, Refused, Second, Tick, Claim, Send, posVars
<1> QED BY <1>1, <1>2, <1>3, <1>4, <1>5

\* The history is in order in every state, whenever all the instances have an epoch or none.
THEOREM OrderCorrect ==
  ASSUME 0 \in Epochs => Epochs = {0}
  PROVE  PosSpec => [](PosTypeOK /\ StatsAreLast /\ InOrder)
<1>1. Init => StatsAreLast /\ InOrder
  BY DEF Init, StatsAreLast, InOrder
<1>2. PosTypeOK /\ StatsAreLast /\ InOrder /\ [Next]_posVars => StatsAreLast' /\ InOrder'
  BY StatsStep, OrderStep
<1> QED BY <1>1, <1>2, PosTypeCorrect, PTL DEF PosSpec

\* A request takes effect at most once as long as the room's authority never lapsed, whatever
\* is repeated and in whatever order it arrives (the two checks at the head of handle_peer_pos),
\* provided all the instances have an epoch or none has.
THEOREM OnceCorrect ==
  ASSUME 0 \in Epochs => Epochs = {0}
  PROVE  PosSpec => []AcceptedOnce
<1>1. PosTypeOK /\ StatsAreLast /\ InOrder => AcceptedOnce
  <2> SUFFICES ASSUME PosTypeOK, InOrder, ~auth.lapsed,
                      NEW i \in DOMAIN accepted, NEW j \in DOMAIN accepted,
                      accepted[i] = accepted[j], i # j
               PROVE  FALSE
    BY DEF AcceptedOnce
  <2>1. i \in Nat /\ j \in Nat /\ accepted[i].epoch \in Nat /\ accepted[i].seq \in Nat
    BY AcceptedTyped
  <2>2. Before(accepted[i], accepted[j]) \/ Before(accepted[j], accepted[i])
    BY <2>1 DEF InOrder
  <2> QED BY <2>1, <2>2 DEF Before
<1> QED BY <1>1, OrderCorrect, PTL
----------------------------------------------------------------------------
(* Distance.  Every point was once where its participant was, and nobody    *)
(* gets further than Speed a second.                                        *)

Reach(k) == Speed * k

Near(x, y, d) == x - y <= d /\ y - x <= d

\* How far a participant gets grows with the time it has.
LEMMA ReachFacts ==
  /\ Reach(0) = 0
  /\ \A k \in Nat : Reach(k) \in Nat /\ Reach(k + 1) = Reach(k) + Speed
  /\ \A k, l \in Nat : k <= l => Reach(k) <= Reach(l)
  /\ \A k, l \in Nat : Reach(k + l) = Reach(k) + Reach(l)
  /\ Reach(Delay) <= Tol /\ Reach(Lag) <= Tol
<1>1. Speed \in Nat
  BY Constants
<1>2. \A k, l \in Nat : Speed * (k + l) = Speed * k + Speed * l
  BY <1>1
<1>3. \A k \in Nat : Speed * k \in Nat
  BY <1>1
<1>4. Speed * 1 = Speed /\ Speed * 0 = 0
  BY <1>1
<1>5. ASSUME NEW k \in Nat, NEW l \in Nat, k <= l PROVE Speed * k <= Speed * l
  <2>1. l - k \in Nat /\ l = k + (l - k)
    BY <1>5
  <2>2. Speed * l = Speed * k + Speed * (l - k)
    BY <1>2, <2>1
  <2>3. Speed * k \in Nat /\ Speed * (l - k) \in Nat
    BY <1>3, <2>1
  <2> QED BY <2>2, <2>3
<1>6. \A k \in Nat : Speed * (k + 1) = Speed * k + Speed
  BY <1>2, <1>4
<1>7. Speed * Delay <= Tol /\ Speed * Lag <= Tol
  BY PosSyncAssumption
<1> QED BY <1>2, <1>3, <1>4, <1>5, <1>6, <1>7 DEF Reach

\* A request's points are as far from their participants now as these got since.
PointsNear ==
  \A m \in sent : \A a \in Viewers \intersect DOMAIN m.at :
    Near(m.at[a], where[a], Reach(now - m.when))

\* So are the claims, none of which is older than Lag.
ClaimsNear ==
  \A a \in Viewers : claim[a].at # None =>
    /\ claim[a].when <= now /\ now - claim[a].when <= Lag
    /\ Near(claim[a].at, where[a], Reach(now - claim[a].when))

\* A point and a claim are as far apart as their participant got between the two.
PointsNearClaims ==
  \A m \in sent : \A a \in Viewers \intersect DOMAIN m.at : claim[a].at # None =>
    /\ m.when <= claim[a].when => Near(m.at[a], claim[a].at, Reach(claim[a].when - m.when))
    /\ claim[a].when <= m.when => Near(m.at[a], claim[a].at, Reach(m.when - claim[a].when))

\* A stored point is a request's, received within Delay of being sampled.
StoredInTime ==
  ~auth.lapsed => \A a \in DOMAIN store : \E m \in sent :
    /\ a \in DOMAIN m.at /\ store[a].at = m.at[a]
    /\ store[a].recv \in Nat /\ store[a].recv <= now
    /\ m.when <= store[a].recv /\ store[a].recv <= m.when + Delay

Tracks == PointsNear /\ ClaimsNear /\ PointsNearClaims /\ StoredInTime

\* Typed values the arithmetic needs.
LEMMA Numbers ==
  ASSUME PosTypeOK
  PROVE  /\ now \in Nat
         /\ \A a \in Viewers : where[a] \in Nat /\ claim[a].when \in Nat
                               /\ (claim[a].at # None => claim[a].at \in Nat)
         /\ \A m \in sent : m.when \in Nat /\ m.when <= now
                            /\ \A a \in DOMAIN m.at : m.at[a] \in Nat
  BY DEF PosTypeOK, IsRequest

\* A second takes everybody at most Speed further.
LEMMA SecondTracks ==
  ASSUME PosTypeOK, Tracks, Second
  PROVE  Tracks'
<1>0. /\ now' = now + 1
      /\ UNCHANGED <<claim, sent, store, auth>>
      /\ \A a \in Viewers : claim[a].at # None => now + 1 - claim[a].when <= Lag
      /\ where' \in [Viewers -> 0 .. Span]
      /\ \A a \in Viewers : where'[a] - where[a] \in -Speed .. Speed
  BY DEF Second
<1>1. Speed \in Nat /\ Span \in Nat /\ Lag \in Nat
  BY Constants
<1>2. \A a \in Viewers : where'[a] \in Nat /\ Near(where[a], where'[a], Speed)
  BY <1>0, <1>1, Numbers DEF Near
<1>3. ASSUME NEW x \in Nat, NEW a \in Viewers, NEW t \in Nat, t <= now,
             Near(x, where[a], Reach(now - t))
      PROVE  Near(x, where'[a], Reach(now' - t))
  <2>1. now - t \in Nat /\ now' - t = (now - t) + 1
    BY <1>0, <1>3, Numbers
  <2>2. Reach(now' - t) = Reach(now - t) + Speed /\ Reach(now - t) \in Nat
    BY <2>1, ReachFacts
  <2>3. where[a] \in Nat /\ where'[a] \in Nat /\ Near(where[a], where'[a], Speed)
    BY <1>2, Numbers
  <2> QED BY <1>1, <1>3, <2>2, <2>3 DEF Near
<1>4. PointsNear'
  <2> SUFFICES ASSUME NEW m \in sent, NEW a \in Viewers \intersect DOMAIN m.at
               PROVE  Near(m.at[a], where'[a], Reach(now' - m.when))
    BY <1>0 DEF PointsNear
  <2>1. Near(m.at[a], where[a], Reach(now - m.when))
    BY DEF Tracks, PointsNear
  <2>2. m.at[a] \in Nat /\ m.when \in Nat /\ m.when <= now
    BY Numbers
  <2> QED BY <1>3, <2>1, <2>2
<1>5. ClaimsNear'
  <2> SUFFICES ASSUME NEW a \in Viewers, claim[a].at # None
               PROVE  /\ claim[a].when <= now' /\ now' - claim[a].when <= Lag
                      /\ Near(claim[a].at, where'[a], Reach(now' - claim[a].when))
    BY <1>0 DEF ClaimsNear
  <2>1. claim[a].when <= now /\ Near(claim[a].at, where[a], Reach(now - claim[a].when))
    BY DEF Tracks, ClaimsNear
  <2>2. claim[a].at \in Nat /\ claim[a].when \in Nat /\ now \in Nat
    BY Numbers
  <2>3. Near(claim[a].at, where'[a], Reach(now' - claim[a].when))
    BY <1>3, <2>1, <2>2
  <2>4. claim[a].when <= now' /\ now' - claim[a].when <= Lag
    BY <1>0, <2>1, <2>2
  <2> QED BY <2>3, <2>4
<1>6. PointsNearClaims'
  BY <1>0 DEF Tracks, PointsNearClaims
<1>7. StoredInTime'
  <2> SUFFICES ASSUME ~auth.lapsed, NEW a \in DOMAIN store
               PROVE  \E m \in sent :
                        /\ a \in DOMAIN m.at /\ store[a].at = m.at[a]
                        /\ store[a].recv \in Nat /\ store[a].recv <= now'
                        /\ m.when <= store[a].recv /\ store[a].recv <= m.when + Delay
    BY <1>0 DEF StoredInTime
  <2>1. PICK m \in sent : /\ a \in DOMAIN m.at /\ store[a].at = m.at[a]
                          /\ store[a].recv \in Nat /\ store[a].recv <= now
                          /\ m.when <= store[a].recv /\ store[a].recv <= m.when + Delay
    BY DEF Tracks, StoredInTime
  <2>2. store[a].recv <= now'
    BY <1>0, <2>1, Numbers
  <2> QED BY <2>1, <2>2
<1> QED BY <1>4, <1>5, <1>6, <1>7 DEF Tracks

\* A new claim is where its viewer is.
LEMMA ClaimTracks ==
  ASSUME PosTypeOK, Tracks, NEW b \in Viewers, Claim(b)
  PROVE  Tracks'
<1>0. /\ claim' = [claim EXCEPT ![b] = [at |-> where[b], when |-> now]]
      /\ UNCHANGED <<now, where, sent, store, auth>>
  BY DEF Claim
<1>1. claim'[b].at = where[b] /\ claim'[b].when = now
      /\ \A a \in Viewers : a # b => claim'[a] = claim[a]
  BY <1>0 DEF PosTypeOK
<1>2. Lag \in Nat
  BY Constants
<1>3. PointsNear'
  BY <1>0 DEF Tracks, PointsNear
<1>4. ClaimsNear'
  <2> SUFFICES ASSUME NEW a \in Viewers, claim'[a].at # None
               PROVE  /\ claim'[a].when <= now /\ now - claim'[a].when <= Lag
                      /\ Near(claim'[a].at, where[a], Reach(now - claim'[a].when))
    BY <1>0 DEF ClaimsNear
  <2>1. CASE a = b
    <3>1. where[a] \in Nat /\ now \in Nat
      BY Numbers
    <3>2. now - now = 0
      BY <3>1
    <3>3. Reach(now - now) = 0
      BY <3>2, ReachFacts
    <3>4. Near(where[a], where[a], Reach(now - now))
      BY <3>1, <3>3 DEF Near
    <3> QED BY <1>1, <1>2, <2>1, <3>1, <3>2, <3>4
  <2>2. CASE a # b
    BY <1>1, <2>2 DEF Tracks, ClaimsNear
  <2> QED BY <2>1, <2>2
<1>5. PointsNearClaims'
  <2> SUFFICES ASSUME NEW m \in sent, NEW a \in Viewers \intersect DOMAIN m.at, claim'[a].at # None
               PROVE  /\ m.when <= claim'[a].when => Near(m.at[a], claim'[a].at, Reach(claim'[a].when - m.when))
                      /\ claim'[a].when <= m.when => Near(m.at[a], claim'[a].at, Reach(m.when - claim'[a].when))
    BY <1>0 DEF PointsNearClaims
  <2>1. CASE a = b
    <3>1. Near(m.at[a], where[a], Reach(now - m.when))
      BY DEF Tracks, PointsNear
    <3>2. m.when \in Nat /\ now \in Nat /\ m.when <= now
      BY Numbers
    <3>3. now <= m.when => m.when = now
      BY <3>2
    <3> QED BY <1>1, <2>1, <3>1, <3>2, <3>3
  <2>2. CASE a # b
    BY <1>1, <2>2 DEF Tracks, PointsNearClaims
  <2> QED BY <2>1, <2>2
<1>6. StoredInTime'
  BY <1>0 DEF Tracks, StoredInTime
<1> QED BY <1>3, <1>4, <1>5, <1>6 DEF Tracks

\* So is a new sample.
LEMMA SendTracks ==
  ASSUME PosTypeOK, Tracks, NEW e \in Epochs, Send(e)
  PROVE  Tracks'
<1>1. PICK k \in Kinds : sent' = sent \union {Sample(e, k)}
  BY DEF Send, Sample
<1>2. UNCHANGED <<now, where, claim, store, auth>>
  BY DEF Send
<1> DEFINE s == Sample(e, k)
<1>3. /\ s.when = now
      /\ \A a \in Viewers \intersect DOMAIN s.at : s.at[a] = where[a]
  BY DEF Sample
<1>4. now \in Nat /\ now - now = 0 /\ \A a \in Viewers : where[a] \in Nat
  BY Numbers
<1> HIDE DEF s
<1>5. \A a \in Viewers \intersect DOMAIN s.at : Near(s.at[a], where[a], Reach(now - s.when))
  <2>1. Reach(now - s.when) = 0
    BY <1>3, <1>4, ReachFacts
  <2> QED BY <1>3, <1>4, <2>1 DEF Near
<1>6. PointsNear'
  BY <1>1, <1>2, <1>5 DEF Tracks, PointsNear, s
<1>7. ClaimsNear'
  BY <1>2 DEF Tracks, ClaimsNear
<1>8. ASSUME NEW a \in Viewers \intersect DOMAIN s.at, claim[a].at # None
      PROVE  /\ s.when <= claim[a].when => Near(s.at[a], claim[a].at, Reach(claim[a].when - s.when))
             /\ claim[a].when <= s.when => Near(s.at[a], claim[a].at, Reach(s.when - claim[a].when))
  <2>1. claim[a].when <= now /\ Near(claim[a].at, where[a], Reach(now - claim[a].when))
    BY <1>8 DEF Tracks, ClaimsNear
  <2>2. Near(where[a], claim[a].at, Reach(now - claim[a].when))
    BY <2>1 DEF Near
  <2>3. claim[a].when \in Nat
    BY Numbers
  <2>4. now <= claim[a].when => claim[a].when = now
    BY <1>4, <2>1, <2>3
  <2> QED BY <1>3, <2>2, <2>4
<1>9. PointsNearClaims'
  BY <1>1, <1>2, <1>8 DEF Tracks, PointsNearClaims, s
<1>10. StoredInTime'
  BY <1>1, <1>2 DEF Tracks, StoredInTime
<1> QED BY <1>6, <1>7, <1>9, <1>10 DEF Tracks

\* What a stored point is after a request.
LEMMA AppliedPoint ==
  ASSUME NEW m \in sent, Accept(m), NEW a \in DOMAIN store'
  PROVE  \/ a \in DOMAIN m.at /\ store'[a] = [at |-> m.at[a], recv |-> now, seq |-> m.seq]
         \/ a \in DOMAIN store /\ store'[a] = store[a]
<1>1. PICK fit \in Fitting(Base(m), m) : store' = Applied(Base(m), m, fit)
  BY DEF Accept
<1>2. fit \subseteq DOMAIN m.at
  BY <1>1 DEF Fitting
<1>3. Base(m) = <<>> \/ Base(m) = store
  BY DEF Base
<1>4. DOMAIN store' = DOMAIN Base(m) \union fit
  BY <1>1 DEF Applied
<1>5. CASE a \in fit
  BY <1>1, <1>2, <1>5 DEF Applied
<1>6. CASE a \notin fit
  <2>1. a \in DOMAIN Base(m) /\ store'[a] = Base(m)[a]
    BY <1>1, <1>4, <1>6 DEF Applied
  <2> QED BY <1>3, <2>1
<1> QED BY <1>5, <1>6

\* The points of an accepted request were sampled at most Delay ago: one accepted before would
\* be refused.
LEMMA AcceptTracks ==
  ASSUME 0 \in Epochs => Epochs = {0},
         PosTypeOK, StatsAreLast, InOrder, Tracks, NEW m \in sent, Arrives(m), Accept(m)
  PROVE  Tracks'
<1>1. UNCHANGED <<now, where, claim, sent, auth>>
  BY DEF Accept
<1>2. PointsNear' /\ ClaimsNear' /\ PointsNearClaims'
  BY <1>1 DEF Tracks, PointsNear, ClaimsNear, PointsNearClaims
<1>3. ASSUME ~auth.lapsed PROVE m.when + Delay >= now
  <2> SUFFICES ASSUME NEW i \in DOMAIN accepted, accepted[i] = m PROVE FALSE
    BY DEF Arrives
  <2>1. Before(m, m)
    BY <1>3, AcceptsLater
  <2>2. m.epoch \in Nat /\ m.seq \in Nat
    BY AcceptedTyped
  <2> QED BY <2>1, <2>2 DEF Before
<1>4. StoredInTime'
  <2> SUFFICES ASSUME ~auth.lapsed, NEW a \in DOMAIN store'
               PROVE  \E x \in sent :
                        /\ a \in DOMAIN x.at /\ store'[a].at = x.at[a]
                        /\ store'[a].recv \in Nat /\ store'[a].recv <= now
                        /\ x.when <= store'[a].recv /\ store'[a].recv <= x.when + Delay
    BY <1>1 DEF StoredInTime
  <2>1. CASE a \in DOMAIN m.at /\ store'[a] = [at |-> m.at[a], recv |-> now, seq |-> m.seq]
    <3>1. store'[a].at = m.at[a] /\ store'[a].recv = now
      BY <2>1
    <3>2. now \in Nat /\ m.when \in Nat /\ m.when <= now /\ now <= m.when + Delay
      BY <1>3, Numbers, Constants
    <3> QED BY <2>1, <3>1, <3>2
  <2>2. CASE a \in DOMAIN store /\ store'[a] = store[a]
    BY <2>2 DEF Tracks, StoredInTime
  <2> QED BY <2>1, <2>2, AppliedPoint
<1> QED BY <1>2, <1>4 DEF Tracks

\* Every step keeps track.
LEMMA TracksStep ==
  ASSUME 0 \in Epochs => Epochs = {0},
         PosTypeOK, StatsAreLast, InOrder, Tracks, [Next]_posVars
  PROVE  Tracks'
<1>1. CASE Lapse
  <2>1. UNCHANGED <<now, where, claim, sent, store>> /\ auth'.lapsed
    BY <1>1 DEF Lapse, PosTypeOK
  <2> QED BY <2>1 DEF Tracks, PointsNear, ClaimsNear, PointsNearClaims, StoredInTime
<1>2. ASSUME NEW e \in Epochs, Adopt(e) PROVE Tracks'
  <2>1. UNCHANGED <<now, where, claim, sent, store>> /\ auth'.lapsed = auth.lapsed
    BY <1>2 DEF Adopt, PosTypeOK
  <2> QED BY <2>1 DEF Tracks, PointsNear, ClaimsNear, PointsNearClaims, StoredInTime
<1>3. CASE UNCHANGED <<now, where, claim, sent, store, auth>>
  BY <1>3 DEF Tracks, PointsNear, ClaimsNear, PointsNearClaims, StoredInTime
<1>4. \/ Second \/ Lapse \/ (\E m \in sent : Arrives(m) /\ Accept(m))
      \/ (\E a \in Viewers : Claim(a)) \/ (\E e \in Epochs : Send(e) \/ Adopt(e))
      \/ UNCHANGED <<now, where, claim, sent, store, auth>>
  BY DEF Next, PeerPos, Refused, Tick, posVars
<1> QED BY <1>1, <1>2, <1>3, <1>4, SecondTracks, ClaimTracks, SendTracks, AcceptTracks

\* With points in time no claim is further off than the tolerance allows.
LEMMA NobodyOutOfPlace ==
  ASSUME PosTypeOK, Tracks, ~auth.lapsed, NEW a \in Viewers
  PROVE  ~OutOfPlace(a)
<1> SUFFICES ASSUME a \in DOMAIN store, claim[a].at # None
             PROVE  ~(Abs(claim[a].at - store[a].at) > Allowance(store[a]))
  BY DEF OutOfPlace
<1>1. PICK m \in sent : /\ a \in DOMAIN m.at /\ store[a].at = m.at[a]
                        /\ store[a].recv \in Nat /\ store[a].recv <= now
                        /\ m.when <= store[a].recv /\ store[a].recv <= m.when + Delay
  BY DEF Tracks, StoredInTime
<1> DEFINE c == claim[a].at  tc == claim[a].when  p == m.at[a]  tm == m.when  r == store[a].recv
<1>2. /\ now \in Nat /\ c \in Nat /\ tc \in Nat /\ p \in Nat /\ tm \in Nat /\ r \in Nat
      /\ Delay \in Nat /\ Lag \in Nat /\ Speed \in Nat /\ Tol \in Nat
  BY <1>1, Numbers, Constants
<1>3. tc <= now /\ now - tc <= Lag
  BY DEF Tracks, ClaimsNear
<1>4. /\ tm <= tc => Near(p, c, Reach(tc - tm))
      /\ tc <= tm => Near(p, c, Reach(tm - tc))
  BY <1>1 DEF Tracks, PointsNearClaims
<1>5. r <= now /\ tm <= r /\ r <= tm + Delay /\ store[a].at = p
  BY <1>1
<1>6. Allowance(store[a]) = Tol + Reach(now - r)
  BY DEF Allowance, Reach
<1> HIDE DEF c, tc, p, tm, r
<1>7. now - r \in Nat
  BY <1>2, <1>5
<1>8. now - r \in Nat /\ Reach(now - r) \in Nat
  BY <1>7, ReachFacts
<1>9. Near(p, c, Tol + Reach(now - r))
  <2>1. now - r \in Nat /\ Reach(now - r) \in Nat
    BY <1>8
  <2>2. CASE tm <= tc
    <3>1. tc - tm \in Nat /\ r - tm \in Nat /\ (now - r) + (r - tm) \in Nat
          /\ tc - tm <= (now - r) + (r - tm) /\ r - tm <= Delay
      BY <1>2, <1>3, <1>5, <2>2
    <3>2. Reach(tc - tm) <= Reach((now - r) + (r - tm))
      BY <3>1, ReachFacts
    <3>3. Reach((now - r) + (r - tm)) = Reach(now - r) + Reach(r - tm)
      BY <2>1, <3>1, ReachFacts
    <3>4. Reach(r - tm) <= Reach(Delay) /\ Reach(Delay) <= Tol
      BY <1>2, <3>1, ReachFacts
    <3>5. Reach(tc - tm) \in Nat /\ Reach(r - tm) \in Nat /\ Reach(Delay) \in Nat
      BY <1>2, <3>1, ReachFacts
    <3>6. Reach(tc - tm) <= Tol + Reach(now - r)
      BY <1>2, <2>1, <3>2, <3>3, <3>4, <3>5
    <3> QED BY <1>2, <1>4, <2>1, <2>2, <3>5, <3>6 DEF Near
  <2>3. CASE tc <= tm
    <3>1. tm - tc \in Nat /\ tm - tc <= Lag
      BY <1>2, <1>3, <1>5, <2>3
    <3>2. Reach(tm - tc) \in Nat /\ Reach(Lag) \in Nat
          /\ Reach(tm - tc) <= Reach(Lag) /\ Reach(Lag) <= Tol
      BY <1>2, <3>1, ReachFacts
    <3>3. Reach(tm - tc) <= Tol + Reach(now - r)
      BY <1>2, <2>1, <3>2
    <3> QED BY <1>2, <1>4, <2>1, <2>3, <3>2, <3>3 DEF Near
  <2> QED BY <1>2, <2>2, <2>3
<1>10. Tol + Reach(now - r) \in Nat
  BY <1>2, <1>8
<1>11. ~(Abs(c - p) > Tol + Reach(now - r))
  BY <1>2, <1>9, <1>10 DEF Near, Abs
<1> QED BY <1>5, <1>6, <1>11 DEF c

\* Nobody who moves as allowed and says where it is is counted as out of place, for any speed,
\* request delay and claim lag the tolerance covers, as long as the room's authority never
\* lapsed (slv_pos_observe, slv_pos_tolerance_now), provided all the instances have an epoch or
\* none has.
THEOREM ClampCorrect ==
  ASSUME 0 \in Epochs => Epochs = {0}
  PROVE  PosSpec => []NoFalseClamp
<1> DEFINE Inv == PosTypeOK /\ StatsAreLast /\ InOrder
<1>1. Init => Tracks /\ NoFalseClamp
  BY DEF Init, Tracks, PointsNear, ClaimsNear, PointsNearClaims, StoredInTime, NoFalseClamp
<1>2. Inv /\ Tracks /\ [Next]_posVars => Tracks'
  BY TracksStep
<1>3. Inv /\ Tracks /\ NoFalseClamp /\ [Next]_posVars => NoFalseClamp'
  <2> SUFFICES ASSUME PosTypeOK, Tracks, NoFalseClamp, [Next]_posVars, ~auth'.lapsed
               PROVE  clamped' = {}
    BY DEF NoFalseClamp
  <2>1. ~auth.lapsed
    BY DEF Next, PeerPos, Refused, Accept, Second, Lapse, Tick, Claim, Send, Adopt, posVars, PosTypeOK
  <2>2. CASE Tick
    BY <2>1, <2>2, NobodyOutOfPlace DEF Tick
  <2>3. CASE clamped' = clamped
    BY <2>1, <2>3 DEF NoFalseClamp
  <2>4. Tick \/ clamped' = clamped
    BY DEF Next, PeerPos, Refused, Accept, Second, Lapse, Claim, Send, Adopt, posVars
  <2> QED BY <2>2, <2>3, <2>4
<1>4. PosSpec => []Inv
  BY OrderCorrect
<1> QED BY <1>1, <1>2, <1>3, <1>4, PTL DEF PosSpec
----------------------------------------------------------------------------
(* The store.  It is what the log of the current instance says, as far as   *)
(* there is room.                                                           *)

\* f is the sequence number of the last full request of a log L, 0 with none.
IsLastFull(L, f) ==
  /\ f \in Nat
  /\ f = 0 \/ \E x \in L : x.full /\ x.seq = f
  /\ \A x \in L : x.full => x.seq <= f

\* The log's requests are told apart by their sequence numbers, the last of which is in pos_stats.
LogOK ==
  /\ Log \subseteq sent
  /\ \A x \in Log : x.seq <= stats.seq
  /\ \A x, y \in Log : x.seq = y.seq => x = y
  /\ IsLastFull(Log, LastFull)

\* A stored point is the newest request's that names its agent; only a full store lacks one.
StoreOK ==
  /\ DOMAIN store \subseteq Agents /\ Cardinality(DOMAIN store) <= StoreMax
  /\ ~stats.have => store = <<>>
  /\ \A a \in DOMAIN store : \E m \in Naming(a) :
       /\ store[a].seq = m.seq /\ store[a].at = m.at[a]
       /\ \A x \in Naming(a) : x.seq <= m.seq
  /\ \A a \in Agents \ DOMAIN store :
       Naming(a) # {} => Cardinality(DOMAIN store) = StoreMax

\* An upper bound that is in the set is its maximum.
LEMMA MaxIs ==
  ASSUME NEW S, S \subseteq Nat, NEW x \in S, \A y \in S : y <= x
  PROVE  Max(S) = x
<1>1. \A y \in S : x >= y
  OBVIOUS
<1>2. \A z \in S : (\A y \in S : z >= y) => z = x
  OBVIOUS
<1> QED BY <1>1, <1>2 DEF Max

\* There is only one last full request.
LEMMA LastFullIs ==
  ASSUME NEW L, \A m \in L : m.seq \in Nat, NEW f, IsLastFull(L, f)
  PROVE  Max({m.seq : m \in {x \in L : x.full}} \union {0}) = f
<1> DEFINE S == {m.seq : m \in {x \in L : x.full}} \union {0}
<1>1. S \subseteq Nat
  OBVIOUS
<1>2. f \in S
  BY DEF IsLastFull
<1>3. \A y \in S : y <= f
  BY DEF IsLastFull
<1> HIDE DEF S
<1>4. Max(S) = f
  BY <1>1, <1>2, <1>3, MaxIs
<1> QED BY <1>4 DEF S

\* The log after a request: a request of another instance starts a new one.
LEMMA LogStep ==
  ASSUME PosTypeOK, StatsAreLast, NEW m \in sent, Accept(m)
  PROVE  Log' = (IF stats.have /\ m.epoch = stats.epoch THEN Log ELSE {}) \union {m}
<1> DEFINE n == Len(accepted)
           In(i) == \A j \in i .. n : accepted[j].epoch = stats.epoch
           InNext(i) == \A j \in i .. (n + 1) : accepted'[j].epoch = m.epoch
<1>1. n \in Nat /\ DOMAIN accepted = 1 .. n
  BY AcceptedTyped
<1>2. /\ DOMAIN accepted' = 1 .. (n + 1) /\ Len(accepted') = n + 1 /\ accepted'[n + 1] = m
      /\ \A i \in 1 .. n : accepted'[i] = accepted[i]
  BY AppendAccepted
<1>3. stats'.epoch = m.epoch
  BY DEF Accept
<1>4. Log = {accepted[i] : i \in {i \in 1 .. n : In(i)}}
  BY <1>1 DEF Log
<1>5. Log' = {accepted'[i] : i \in {i \in 1 .. (n + 1) : InNext(i)}}
  BY <1>2, <1>3 DEF Log
<1>6. n > 0 => stats.epoch = accepted[n].epoch
  BY DEF StatsAreLast
<1>7. stats.have <=> n > 0
  BY DEF StatsAreLast
<1> HIDE DEF n
<1>8. InNext(n + 1)
  BY <1>1, <1>2
<1>9. ASSUME NEW i \in 1 .. n, m.epoch = stats.epoch PROVE InNext(i) <=> In(i)
  <2>1. ASSUME InNext(i) PROVE In(i)
    BY <1>1, <1>2, <1>9, <2>1
  <2>2. ASSUME In(i), NEW j \in i .. (n + 1) PROVE accepted'[j].epoch = m.epoch
    <3>1. j \in i .. n \/ j = n + 1
      BY <1>1
    <3>2. \A k \in i .. n : k \in 1 .. n
      BY <1>1
    <3> QED BY <1>2, <1>9, <2>2, <3>1, <3>2
  <2> QED BY <2>1, <2>2
<1>10. ASSUME NEW i \in 1 .. n, InNext(i) PROVE m.epoch = stats.epoch
  <2>1. n \in i .. (n + 1) /\ n \in 1 .. n /\ n > 0
    BY <1>1
  <2> QED BY <1>2, <1>6, <1>10, <2>1
<1> HIDE DEF In, InNext
<1>11. CASE stats.have /\ m.epoch = stats.epoch
  <2>1. ASSUME NEW x \in Log' PROVE x \in Log \union {m}
    <3>1. PICK i \in 1 .. (n + 1) : InNext(i) /\ x = accepted'[i]
      BY <1>5
    <3>2. i \in 1 .. n \/ i = n + 1
      BY <1>1
    <3> QED BY <1>2, <1>4, <1>9, <1>11, <3>1, <3>2
  <2>2. ASSUME NEW x \in Log PROVE x \in Log'
    <3>1. PICK i \in 1 .. n : In(i) /\ x = accepted[i]
      BY <1>4
    <3>2. i \in 1 .. (n + 1) /\ InNext(i) /\ x = accepted'[i]
      BY <1>1, <1>2, <1>9, <1>11, <3>1
    <3> QED BY <1>5, <3>2
  <2>3. m \in Log'
    BY <1>1, <1>2, <1>5, <1>8
  <2> QED BY <1>11, <2>1, <2>2, <2>3
<1>12. CASE ~(stats.have /\ m.epoch = stats.epoch)
  <2>1. ASSUME NEW x \in Log' PROVE x = m
    <3>1. PICK i \in 1 .. (n + 1) : InNext(i) /\ x = accepted'[i]
      BY <1>5
    <3>2. i \in 1 .. n \/ i = n + 1
      BY <1>1
    <3>3. i \notin 1 .. n
      BY <1>1, <1>7, <1>10, <1>12, <3>1
    <3> QED BY <1>2, <3>1, <3>2, <3>3
  <2>2. m \in Log'
    BY <1>1, <1>2, <1>5, <1>8
  <2> QED BY <1>12, <2>1, <2>2
<1> QED BY <1>11, <1>12

\* Before the first request the log is empty.
LEMMA NoLog ==
  ASSUME PosTypeOK, StatsAreLast, ~stats.have
  PROVE  Log = {}
<1>1. DOMAIN accepted = {}
  BY AcceptedTyped DEF StatsAreLast
<1> QED BY <1>1 DEF Log
\* What a request leaves of the log that counts: nothing of another instance, nothing before
\* a full one.
Resets(m) == m.full \/ (stats.have /\ m.epoch # stats.epoch)

\* The log stays a log, and what names an agent after a request.
LEMMA NamingStep ==
  ASSUME PosTypeOK, StatsAreLast, LogOK, NEW m \in sent, Accept(m)
  PROVE  /\ LogOK'
         /\ \A a : Naming(a)' = (IF Resets(m) THEN {} ELSE Naming(a))
                                \union {x \in {m} : a \in DOMAIN x.at}
         /\ ~Resets(m) => \A a : \A x \in Naming(a) : x.seq < m.seq
<1> DEFINE same == stats.have /\ m.epoch = stats.epoch
           kept == IF same THEN Log ELSE {}
<1>1. Log' = kept \union {m}
  BY LogStep
<1>2. \A x \in sent : x.seq \in Nat /\ x.seq >= 1 /\ x.full \in BOOLEAN
  BY DEF PosTypeOK, IsRequest
<1>3. kept \subseteq Log /\ Log \subseteq sent /\ kept \subseteq sent
  BY DEF LogOK
<1>4. stats.seq \in Nat /\ stats' = [have |-> TRUE, epoch |-> m.epoch, seq |-> m.seq] /\ sent' = sent
  BY DEF PosTypeOK, Accept
<1>5. same => m.seq > stats.seq
  <2>1. stats.have /\ m.epoch = stats.epoch /\ m.seq <= stats.seq => FALSE
    BY DEF Accept, Refusal
  <2> QED BY <1>2, <1>4, <2>1
<1>6. \A x \in kept : x.seq < m.seq
  <2>1. \A x \in Log : x.seq <= stats.seq
    BY DEF LogOK
  <2> QED BY <1>2, <1>3, <1>4, <1>5, <2>1
<1>7. IsLastFull(Log, LastFull) /\ \A x, y \in Log : x.seq = y.seq => x = y
  BY DEF LogOK
<1>8. same \/ kept = {}
  OBVIOUS
<1>9. ~Resets(m) => ~m.full /\ kept = Log
  BY NoLog DEF Resets
<1>10. Resets(m) => m.full \/ kept = {}
  BY DEF Resets
<1> DEFINE f == IF m.full THEN m.seq ELSE IF kept = {} THEN 0 ELSE LastFull
<1>11. LastFull' = f /\ IsLastFull(Log', f)
  <2>1. f \in Nat
    BY <1>2, <1>7 DEF IsLastFull
  <2>2. f = 0 \/ \E x \in Log' : x.full /\ x.seq = f
    <3>1. CASE m.full
      BY <1>1, <3>1
    <3>2. CASE ~m.full /\ kept = {}
      BY <3>2
    <3>3. CASE ~m.full /\ kept # {}
      <4>1. kept = Log /\ f = LastFull
        BY <1>8, <3>3
      <4> QED BY <1>1, <1>7, <4>1 DEF IsLastFull
    <3> QED BY <3>1, <3>2, <3>3
  <2>3. ASSUME NEW x \in Log', x.full PROVE x.seq <= f
    <3>1. CASE m.full
      BY <1>1, <1>2, <1>3, <1>6, <3>1
    <3>2. CASE ~m.full
      <4>1. x \in kept /\ x \in Log /\ f = LastFull
        BY <1>1, <1>3, <2>3, <3>2
      <4> QED BY <1>7, <2>3, <4>1 DEF IsLastFull
    <3> QED BY <3>1, <3>2
  <2> HIDE DEF f, kept
  <2>4. IsLastFull(Log', f)
    BY <2>1, <2>2, <2>3 DEF IsLastFull
  <2>5. \A x \in Log' : x.seq \in Nat
    BY <1>1, <1>2, <1>3
  <2>6. Max({x.seq : x \in {y \in Log' : y.full}} \union {0}) = f
    BY <2>4, <2>5, LastFullIs
  <2> QED BY <2>4, <2>6 DEF LastFull
<1>12. LogOK'
  <2>1. Log' \subseteq sent'
    BY <1>1, <1>3, <1>4
  <2>2. \A x \in Log' : x.seq <= stats'.seq
    BY <1>1, <1>2, <1>3, <1>4, <1>6
  <2>3. \A x, y \in Log' : x.seq = y.seq => x = y
    BY <1>1, <1>2, <1>3, <1>6, <1>7
  <2>4. IsLastFull(Log, LastFull)'
    BY <1>11 DEF IsLastFull
  <2> QED BY <2>1, <2>2, <2>3, <2>4 DEF LogOK
<1>13. ~Resets(m) => \A a : \A x \in Naming(a) : x.seq < m.seq
  BY <1>6, <1>9 DEF Naming
<1>14. m.seq >= f
  <2>1. CASE ~m.full /\ kept # {}
    <3>1. kept = Log /\ f = LastFull
      BY <1>8, <2>1
    <3>2. LastFull = 0 \/ \E x \in Log : x.seq = LastFull
      BY <1>7 DEF IsLastFull
    <3> QED BY <1>2, <1>3, <1>6, <3>1, <3>2
  <2>2. CASE m.full \/ kept = {}
    BY <1>2, <2>2
  <2> QED BY <2>1, <2>2
<1>15. ASSUME NEW a
       PROVE  Naming(a)' = (IF Resets(m) THEN {} ELSE Naming(a)) \union {x \in {m} : a \in DOMAIN x.at}
  <2>1. Naming(a)' = {x \in Log' : x.seq >= f /\ a \in DOMAIN x.at}
    BY <1>11 DEF Naming
  <2>2. CASE Resets(m)
    <3>1. \A x \in kept : ~(x.seq >= f)
      BY <1>2, <1>3, <1>6, <1>10, <2>2
    <3> HIDE DEF f, kept
    <3> QED BY <1>1, <1>14, <2>1, <2>2, <3>1
  <2>3. CASE ~Resets(m)
    <3>1. kept = Log /\ ~m.full
      BY <1>9, <2>3
    <3>2. ASSUME Log # {} PROVE f = LastFull
      BY <3>1, <3>2
    <3> HIDE DEF f, kept
    <3>3. {x \in Log : x.seq >= f /\ a \in DOMAIN x.at} = Naming(a)
      BY <3>2 DEF Naming
    <3> QED BY <1>1, <1>14, <2>1, <2>3, <3>1, <3>3
  <2> QED BY <2>2, <2>3
<1> QED BY <1>12, <1>13, <1>15
\* A request's slots: the agents it names that were stored before, and new ones while there is
\* room, all of them or as many as fit.
LEMMA FittingSlots ==
  ASSUME NEW base, DOMAIN base \subseteq Agents, Cardinality(DOMAIN base) <= StoreMax,
         NEW m, DOMAIN m.at \subseteq Agents, NEW fit \in Fitting(base, m)
  PROVE  /\ fit \subseteq DOMAIN m.at
         /\ DOMAIN m.at \intersect DOMAIN base \subseteq fit
         /\ Cardinality(DOMAIN base \union fit) <= StoreMax
         /\ Cardinality(DOMAIN base) = StoreMax => Cardinality(DOMAIN base \union fit) = StoreMax
         /\ (\E a \in DOMAIN m.at : a \notin DOMAIN base \union fit)
              => Cardinality(DOMAIN base \union fit) = StoreMax
<1> DEFINE B == DOMAIN base  D == DOMAIN m.at  new == D \ B  room == StoreMax - Cardinality(B)
<1>1. PICK g \in SUBSET new :
        /\ Cardinality(g) = IF Cardinality(new) <= room THEN Cardinality(new) ELSE room
        /\ fit = (D \intersect B) \union g
  BY DEF Fitting
<1>2. IsFiniteSet(B) /\ IsFiniteSet(new) /\ IsFiniteSet(g)
  BY Constants, FS_Subset
<1>3. Cardinality(B) \in Nat /\ Cardinality(new) \in Nat /\ Cardinality(g) \in Nat /\ StoreMax \in Nat
  BY <1>2, FS_CardinalityType, Constants
<1>4. B \union fit = B \union g /\ B \intersect g = {}
  BY <1>1
<1>5. Cardinality(B \union g) = Cardinality(B) + Cardinality(g)
  <2>1. Cardinality(B \union g) = Cardinality(B) + Cardinality(g) - Cardinality(B \intersect g)
    BY <1>2, FS_Union
  <2>2. Cardinality(B \intersect g) = 0
    BY <1>4, FS_EmptySet
  <2> QED BY <1>3, <2>1, <2>2
<1>6. ASSUME NEW a \in D, a \notin B \union fit PROVE Cardinality(g) = room
  <2>1. a \in new /\ a \notin g
    BY <1>1, <1>6
  <2>2. g \subseteq new /\ g # new
    BY <2>1
  <2>3. Cardinality(g) < Cardinality(new)
    <3>1. Cardinality(g) <= Cardinality(new) /\ Cardinality(g) # Cardinality(new)
      BY <1>2, <2>2, FS_Subset
    <3> QED BY <1>3, <3>1
  <2> QED BY <1>1, <1>3, <2>3
<1>7. Cardinality(B) <= StoreMax
  OBVIOUS
<1>8. fit \subseteq D /\ D \intersect B \subseteq fit
  BY <1>1
<1> DEFINE cB == Cardinality(B)  cg == Cardinality(g)  cn == Cardinality(new)
<1> HIDE DEF B, D, new
<1>9. cg = (IF cn <= StoreMax - cB THEN cn ELSE StoreMax - cB) /\ cB <= StoreMax
  BY <1>1, <1>7
<1>10. cB \in Nat /\ cg \in Nat /\ cn \in Nat /\ StoreMax \in Nat
  BY <1>3
<1>11. Cardinality(B \union fit) = cB + cg
  BY <1>4, <1>5
<1> HIDE DEF cB, cg, cn
<1>12. Cardinality(B \union fit) <= StoreMax
  BY <1>9, <1>10, <1>11
<1>13. cB = StoreMax => Cardinality(B \union fit) = StoreMax
  BY <1>9, <1>10, <1>11
<1>14. cg = StoreMax - cB => Cardinality(B \union fit) = StoreMax
  BY <1>10, <1>11
<1> QED BY <1>6, <1>8, <1>12, <1>13, <1>14 DEF B, D, cB, cg

\* A request is applied to the points that still count.
LEMMA StoreStep ==
  ASSUME PosTypeOK, StatsAreLast, LogOK, StoreOK, NEW m \in sent, Accept(m)
  PROVE  StoreOK'
<1> DEFINE base == Base(m)
           old(a) == IF Resets(m) THEN {} ELSE Naming(a)
<1>1. PICK fit \in Fitting(base, m) : store' = Applied(base, m, fit)
  BY DEF Accept
<1>2. DOMAIN m.at \subseteq Agents /\ m.seq \in Nat
  BY DEF PosTypeOK, IsRequest
<1>3. (Resets(m) /\ base = <<>>) \/ (~Resets(m) /\ base = store)
  BY DEF Base, Resets
<1>4. DOMAIN base \subseteq Agents /\ Cardinality(DOMAIN base) <= StoreMax
  <2>1. CASE base = <<>>
    <3>1. DOMAIN base = {}
      BY <2>1
    <3> QED BY <3>1, FS_EmptySet, Constants
  <2>2. CASE base = store
    BY <2>2 DEF StoreOK
  <2> QED BY <1>3, <2>1, <2>2
<1>5. \A a \in DOMAIN base : \E x \in old(a) :
        /\ base[a].seq = x.seq /\ base[a].at = x.at[a]
        /\ \A y \in old(a) : y.seq <= x.seq
  <2>1. CASE base = <<>>
    BY <2>1
  <2>2. CASE ~Resets(m) /\ base = store
    BY <2>2 DEF StoreOK
  <2> QED BY <1>3, <2>1, <2>2
<1>6. \A a \in Agents \ DOMAIN base : old(a) # {} => Cardinality(DOMAIN base) = StoreMax
  <2>1. CASE Resets(m)
    BY <2>1
  <2>2. CASE ~Resets(m) /\ base = store
    BY <2>2 DEF StoreOK
  <2> QED BY <1>3, <2>1, <2>2
<1>7. \A a : Naming(a)' = old(a) \union {x \in {m} : a \in DOMAIN x.at}
  BY NamingStep
<1>8. \A a : \A x \in old(a) : x.seq < m.seq /\ x.seq \in Nat
  <2>1. \A a : \A x \in Naming(a) : x.seq \in Nat
    BY DEF Naming, LogOK, PosTypeOK, IsRequest
  <2>2. ~Resets(m) => \A a : \A x \in Naming(a) : x.seq < m.seq
    BY NamingStep
  <2> QED BY <2>1, <2>2
<1> HIDE DEF base, old
<1>9. /\ fit \subseteq DOMAIN m.at
      /\ DOMAIN m.at \intersect DOMAIN base \subseteq fit
      /\ Cardinality(DOMAIN base \union fit) <= StoreMax
      /\ Cardinality(DOMAIN base) = StoreMax => Cardinality(DOMAIN base \union fit) = StoreMax
      /\ (\E a \in DOMAIN m.at : a \notin DOMAIN base \union fit)
           => Cardinality(DOMAIN base \union fit) = StoreMax
  BY <1>1, <1>2, <1>4, FittingSlots
<1>10. /\ DOMAIN store' = DOMAIN base \union fit
       /\ \A a \in fit : store'[a].at = m.at[a] /\ store'[a].seq = m.seq
       /\ \A a \in DOMAIN base \ fit : store'[a] = base[a]
  BY <1>1 DEF Applied
<1>11. DOMAIN store' \subseteq Agents /\ Cardinality(DOMAIN store') <= StoreMax
  BY <1>2, <1>4, <1>9, <1>10
<1>12. stats'.have
  BY DEF Accept
<1>13. ASSUME NEW a \in DOMAIN store'
       PROVE  \E x \in Naming(a)' : /\ store'[a].seq = x.seq /\ store'[a].at = x.at[a]
                                    /\ \A y \in Naming(a)' : y.seq <= x.seq
  <2>1. CASE a \in fit
    <3>1. m \in Naming(a)' /\ store'[a].seq = m.seq /\ store'[a].at = m.at[a]
      BY <1>7, <1>9, <1>10, <2>1
    <3>2. \A y \in Naming(a)' : y.seq <= m.seq
      BY <1>2, <1>7, <1>8
    <3> QED BY <3>1, <3>2
  <2>2. CASE a \notin fit
    <3>1. a \in DOMAIN base /\ store'[a] = base[a] /\ a \notin DOMAIN m.at
      BY <1>9, <1>10, <2>2
    <3>2. Naming(a)' = old(a)
      BY <1>7, <3>1
    <3> QED BY <1>5, <3>1, <3>2
  <2> QED BY <2>1, <2>2
<1>14. ASSUME NEW a \in Agents \ DOMAIN store', Naming(a)' # {}
       PROVE  Cardinality(DOMAIN store') = StoreMax
  <2>1. a \in DOMAIN m.at \/ old(a) # {}
    BY <1>7, <1>14
  <2> QED BY <1>6, <1>9, <1>10, <2>1
<1> QED BY <1>11, <1>12, <1>13, <1>14 DEF StoreOK

\* The log and the store stay what they are in every other step.
LEMMA LogStoreStep ==
  ASSUME PosTypeOK, StatsAreLast, LogOK, StoreOK, [Next]_posVars
  PROVE  LogOK' /\ StoreOK'
<1>1. ASSUME NEW m \in sent, Accept(m) PROVE LogOK' /\ StoreOK'
  BY <1>1, NamingStep, StoreStep
<1>2. CASE UNCHANGED <<store, stats, accepted>> /\ sent \subseteq sent'
  <2>1. Log' = Log
    BY <1>2 DEF Log
  <2>2. LastFull' = LastFull
    BY <2>1 DEF LastFull
  <2>3. \A a : Naming(a)' = Naming(a)
    BY <2>1, <2>2 DEF Naming
  <2>4. LogOK'
    BY <1>2, <2>1, <2>2 DEF LogOK, IsLastFull
  <2>5. StoreOK'
    BY <1>2, <2>3 DEF StoreOK
  <2> QED BY <2>4, <2>5
<1>3. \/ \E m \in sent : Accept(m)
      \/ UNCHANGED <<store, stats, accepted>> /\ sent \subseteq sent'
  BY DEF Next, PeerPos, Refused, Second, Lapse, Tick, Claim, Send, Adopt, posVars
<1> QED BY <1>1, <1>2, <1>3

\* The store is what a reader of the log would reconstruct, for any agents, instances, requests
\* and limit: no point of another instance, none from before the last full request, the newest
\* for every agent, and none missing unless the store is at its limit (slv_pos_store_apply).
THEOREM StoreCorrect == PosSpec => []StoreIsLatest
<1>1. Init => StatsAreLast /\ LogOK /\ StoreOK
  <2> SUFFICES ASSUME Init PROVE StatsAreLast /\ LogOK /\ StoreOK
    OBVIOUS
  <2>1. StatsAreLast
    BY DEF Init, StatsAreLast
  <2>2. DOMAIN accepted = {} /\ DOMAIN store = {}
    BY DEF Init
  <2>3. Log = {}
    BY <2>2 DEF Log
  <2>4. IsLastFull(Log, 0)
    BY <2>3 DEF IsLastFull
  <2>5. LastFull = 0
    BY <2>3, <2>4, LastFullIs DEF LastFull
  <2>6. LogOK
    BY <2>3, <2>4, <2>5 DEF LogOK
  <2>7. \A a : Naming(a) = {}
    BY <2>3 DEF Naming
  <2>8. StoreOK
    BY <2>2, <2>7, FS_EmptySet, Constants DEF Init, StoreOK
  <2> QED BY <2>1, <2>6, <2>8
<1>2. PosTypeOK /\ StatsAreLast /\ LogOK /\ StoreOK /\ [Next]_posVars
        => StatsAreLast' /\ LogOK' /\ StoreOK'
  BY StatsStep, LogStoreStep
<1>3. PosTypeOK /\ LogOK /\ StoreOK => StoreIsLatest
  <2> SUFFICES ASSUME PosTypeOK, LogOK, StoreOK PROVE StoreIsLatest
    OBVIOUS
  <2>1. ASSUME NEW a \in DOMAIN store
        PROVE  /\ Naming(a) # {}
               /\ store[a].seq = Max({m.seq : m \in Naming(a)})
               /\ \A m \in Naming(a) : m.seq = store[a].seq => store[a].at = m.at[a]
    <3>1. PICK m \in Naming(a) : /\ store[a].seq = m.seq /\ store[a].at = m.at[a]
                                 /\ \A x \in Naming(a) : x.seq <= m.seq
      BY DEF StoreOK
    <3> DEFINE S == {x.seq : x \in Naming(a)}
    <3>2. S \subseteq Nat
      BY DEF Naming, LogOK, PosTypeOK, IsRequest
    <3>3. m.seq \in S /\ \A y \in S : y <= m.seq
      BY <3>1
    <3> HIDE DEF S
    <3>4. Max(S) = m.seq
      BY <3>2, <3>3, MaxIs
    <3>5. \A x \in Naming(a) : x.seq = m.seq => x = m
      BY DEF Naming, LogOK
    <3> QED BY <3>1, <3>4, <3>5 DEF S
  <2> QED BY <2>1 DEF StoreOK, StoreIsLatest
<1> QED BY <1>1, <1>2, <1>3, PosTypeCorrect, PTL DEF PosSpec
=============================================================================
