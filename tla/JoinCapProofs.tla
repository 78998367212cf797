----------------------------- MODULE JoinCapProofs -----------------------------
(***************************************************************************)
(* What the join capability guarantees for every set of tokens, requests   *)
(* and handles, every size of the replay store, every skew and room size.  *)
(*                                                                         *)
(* The argument: the state is well typed, with the store within its cap    *)
(* (CapTypeCorrect).  The store mirrors the spent tokens (StoreMirror): a  *)
(* token that was spent and is not past its last second has its entry, an  *)
(* entry stems from a spent token, and no two entries share a nonce.  So a *)
(* nonce is taken a second time only in the last second                    *)
(* (ReplayCorrect), and a full store is full of live tokens                *)
(* (FullStoreCorrect).  The members of a gated room, with the join that    *)
(* is past the gate, are paid for by tokens (Paid), so every member has    *)
(* one (GateCorrect).  Forgetting the tokens gives the handler without     *)
(* capabilities (ShadowCorrect).                                           *)
(***************************************************************************)
EXTENDS JoinCap, FiniteSetTheorems, TLAPS

\* The constants that are numbers.
LEMMA Numbers ==
  /\ Skew \in Nat /\ MaxEpoch \in Nat
  /\ MaxNonces \in Nat /\ MaxNonces > 0
  BY JoinCapAssumption

\* A set grows by at most one element at a time.
LEMMA AddOne ==
  ASSUME NEW S, IsFiniteSet(S), NEW e
  PROVE  IsFiniteSet(S \union {e}) /\ Cardinality(S \union {e}) <= Cardinality(S) + 1
<1>1. Cardinality(S) \in Nat
  BY FS_CardinalityType
<1>2. Cardinality(S \union {e}) = IF e \in S THEN Cardinality(S) ELSE Cardinality(S) + 1
  BY FS_AddElement
<1>3. IsFiniteSet(S \union {e})
  BY FS_AddElement
<1> QED BY <1>1, <1>2, <1>3

Verdicts == Refusals \union {"ok"}

\* Every check answers with a refusal or "ok".
LEMMA VerdictType ==
  ASSUME NEW q
  PROVE  Verdict(q) \in Verdicts
<1>1. ASSUME NEW c PROVE Parse(c) \in Verdicts
  BY DEF Parse, Verdicts, Refusals
<1>2. ASSUME NEW c PROVE Check(c, q) \in Verdicts
  BY DEF Check, Verdicts, Refusals
<1>3. ASSUME NEW c PROVE NonceVerdict(c) \in Verdicts
  BY DEF NonceVerdict, Verdicts, Refusals
<1>4. ASSUME NEW c PROVE Generation(c, snapshot) \in Verdicts
  BY DEF Generation, Verdicts, Refusals
<1>5. "ok" \in Verdicts /\ "cap_missing" \in Verdicts
  BY DEF Verdicts, Refusals
<1> QED BY <1>1, <1>2, <1>3, <1>4, <1>5 DEF Verdict

\* A token that the join of a request gets as far as presenting is one of the
\* tokens in circulation, for the request's room and not yet expired.
LEMMA PresentedFacts ==
  ASSUME NEW q \in Requests, Presented(q), now \in Nat
  PROVE  /\ q.cap \in Caps
         /\ q.cap.room = q.room
         /\ q.cap.exp \in Nat /\ q.cap.exp + Skew \in Nat
         /\ now <= q.cap.exp + Skew
<1>1. q.cap \in Caps
  BY JoinCapAssumption DEF Presented
<1>2. q.cap.exp \in Nat /\ Skew \in Nat
  BY <1>1, JoinCapAssumption DEF IsCap
<1>3. q.cap.room = q.room /\ ~(now > q.cap.exp + Skew)
  BY DEF Presented, Check
<1> QED BY <1>1, <1>2, <1>3

\* What slv_joincap_nonce_take leaves is well typed and within the cap.
LEMMA StoreAfterType ==
  ASSUME TypeOK, NEW q \in Requests, Presented(q)
  PROVE  /\ StoreAfter(q.cap) \subseteq [nonce : {c.nonce : c \in Caps}, expires_at : Nat]
         /\ IsFiniteSet(StoreAfter(q.cap)) /\ Cardinality(StoreAfter(q.cap)) <= MaxNonces
<1> DEFINE entry == [nonce |-> q.cap.nonce, expires_at |-> q.cap.exp + Skew]
<1>1. q.cap \in Caps /\ q.cap.exp + Skew \in Nat
  BY PresentedFacts DEF TypeOK
<1>2. Swept(store) \subseteq store
  BY DEF Swept
<1>3. IsFiniteSet(Swept(store)) /\ Cardinality(Swept(store)) <= Cardinality(store)
  BY <1>2, FS_Subset DEF TypeOK
<1>4. Cardinality(store) \in Nat /\ Cardinality(Swept(store)) \in Nat /\ MaxNonces \in Nat
  BY <1>3, FS_CardinalityType, Numbers DEF TypeOK
<1>5. Swept(store) \subseteq [nonce : {c.nonce : c \in Caps}, expires_at : Nat]
  BY <1>2 DEF TypeOK
<1>6. Cardinality(Swept(store)) <= MaxNonces
  <2>1. Cardinality(store) <= MaxNonces
    BY DEF TypeOK
  <2> QED BY <1>3, <1>4, <2>1
<1>7. CASE NonceVerdict(q.cap) = "ok"
  <2>1. StoreAfter(q.cap) = Swept(store) \union {entry}
    BY <1>7 DEF StoreAfter
  <2>2. entry \in [nonce : {c.nonce : c \in Caps}, expires_at : Nat]
    BY <1>1
  <2>3. Cardinality(Swept(store)) < MaxNonces
    BY <1>4, <1>7 DEF NonceVerdict
  <2>4. IsFiniteSet(Swept(store) \union {entry})
        /\ Cardinality(Swept(store) \union {entry}) <= Cardinality(Swept(store)) + 1
    BY <1>3, <1>4, AddOne
  <2>5. Cardinality(Swept(store) \union {entry}) <= MaxNonces
    BY <1>4, <2>3, <2>4, FS_CardinalityType
  <2> QED BY <1>5, <2>1, <2>2, <2>4, <2>5
<1>8. CASE NonceVerdict(q.cap) # "ok"
  BY <1>3, <1>5, <1>6, <1>8 DEF StoreAfter
<1> QED BY <1>7, <1>8

\* The state of the join capability is well typed, and the replay store stays
\* within its array.
THEOREM CapTypeCorrect == CapSpec => []TypeOK
<1>1. CapInit => TypeOK
  <2> SUFFICES ASSUME CapInit PROVE TypeOK
    OBVIOUS
  <2>1. IsFiniteSet(store) /\ Cardinality(store) <= MaxNonces
    <3>1. store = {}
      BY DEF CapInit
    <3>2. IsFiniteSet({}) /\ Cardinality({}) = 0
      BY FS_EmptySet
    <3> QED BY <3>1, <3>2, Numbers
  <2>2. authEpoch \in [Rooms -> 0 .. MaxEpoch] /\ snapshot \in 0 .. MaxEpoch
    <3>1. 0 \in 0 .. MaxEpoch
      BY Numbers
    <3> QED BY <3>1 DEF CapInit
  <2> QED BY <2>1, <2>2 DEF CapInit, TypeOK
<1>2. TypeOK /\ [CapNext]_capVars => TypeOK'
  <2> SUFFICES ASSUME TypeOK, [CapNext]_capVars PROVE TypeOK'
    OBVIOUS
  <2>1. ASSUME NEW q \in Requests, BeginJoin(q) PROVE TypeOK'
    <3>1. authEpoch[q.room] \in 0 .. MaxEpoch
      BY JoinCapAssumption DEF TypeOK
    <3> QED BY <2>1, <3>1 DEF BeginJoin, storeVars, TypeOK
  <2>2. CASE VerifyJoin
    <3>1. job \in Requests
      BY <2>2 DEF VerifyJoin, TypeOK
    <3>2. Verdict(job) \in Verdicts
      BY VerdictType
    <3>3. /\ store' \subseteq [nonce : {c.nonce : c \in Caps}, expires_at : Nat]
          /\ IsFiniteSet(store') /\ Cardinality(store') <= MaxNonces
          /\ spent' \subseteq Caps /\ again' \subseteq Caps \X Nat
      <4>1. CASE Presented(job)
        <5>1. job.cap \in Caps /\ now \in Nat
          BY <3>1, <4>1, PresentedFacts DEF TypeOK
        <5>2. /\ spent \subseteq Caps /\ again \subseteq Caps \X Nat
              /\ <<job.cap, now>> \in Caps \X Nat
          BY <5>1 DEF TypeOK
        <5>3. /\ spent' \in {spent, spent \union {job.cap}}
              /\ again' \in {again, again \union {<<job.cap, now>>}}
              /\ store' = StoreAfter(job.cap)
          BY <2>2, <4>1 DEF VerifyJoin, Spend
        <5>4. spent' \subseteq Caps /\ again' \subseteq Caps \X Nat
          BY <5>1, <5>2, <5>3
        <5> QED BY <3>1, <4>1, <5>3, <5>4, StoreAfterType
      <4>2. CASE ~Presented(job)
        BY <2>2, <4>2 DEF VerifyJoin, Spend, storeVars, TypeOK
      <4> QED BY <4>1, <4>2
    <3>4. /\ job' \in Requests \union {NoReq}
          /\ verdict' \in Refusals \union {"pending", "ok"}
          /\ reason' \in Refusals \union {""}
      BY <2>2, <3>2 DEF VerifyJoin, Refused, Verdicts, TypeOK
    <3> QED BY <2>2, <3>3, <3>4 DEF VerifyJoin, TypeOK
  <2>3. CASE FinishJoin
    <3>1. job \in Requests /\ job.handle \in Handles /\ job.room \in Rooms
      BY <2>3, JoinCapAssumption DEF FinishJoin, TypeOK
    <3>2. member' \in [Handles -> Rooms \union {NoRoom}]
      BY <2>3, <3>1 DEF FinishJoin, TypeOK
    <3> QED BY <2>3, <3>2 DEF FinishJoin, storeVars, TypeOK
  <2>4. CASE OtherRequest
    BY <2>4 DEF OtherRequest, handlerVars, storeVars, TypeOK
  <2>5. CASE Second
    <3>1. now \in Nat
      BY DEF TypeOK
    <3>2. now' \in Nat
      BY <2>5, <3>1 DEF Second
    <3> QED BY <2>5, <3>2 DEF Second, handlerVars, storeVars, TypeOK
  <2>6. ASSUME NEW h \in Handles, Leave(h) PROVE TypeOK'
    BY <2>6 DEF Leave, handlerVars, storeVars, TypeOK
  <2>7. ASSUME NEW r \in Gated, Adopt(r) PROVE TypeOK'
    <3>1. r \in Rooms /\ MaxEpoch \in Nat
      BY JoinCapAssumption
    <3>2. authEpoch \in [Rooms -> 0 .. MaxEpoch] /\ authEpoch[r] \in 0 .. MaxEpoch
      BY <3>1 DEF TypeOK
    <3>3. authEpoch[r] + 1 \in 0 .. MaxEpoch
      BY <2>7, <3>1, <3>2 DEF Adopt
    <3>4. authEpoch' \in [Rooms -> 0 .. MaxEpoch]
      BY <2>7, <3>2, <3>3 DEF Adopt
    <3> QED BY <2>7, <3>4 DEF Adopt, handlerVars, storeVars, TypeOK
  <2>8. CASE UNCHANGED capVars
    BY <2>8 DEF capVars, TypeOK
  <2> QED BY <2>1, <2>2, <2>3, <2>4, <2>5, <2>6, <2>7, <2>8 DEF CapNext
<1> QED BY <1>1, <1>2, PTL DEF CapSpec

----------------------------------------------------------------------------
\* The replay store and the spent tokens

\* The entry slv_joincap_nonce_take writes for a token.
Entry(c) == [nonce |-> c.nonce, expires_at |-> c.exp + Skew]

\* The replay store mirrors the spent tokens.
StoreMirror ==
  /\ IsFiniteSet(spent)
  /\ \A c \in spent : c.exp + Skew > now => Entry(c) \in store
  /\ \A e \in store : \E c \in spent : e = Entry(c)
  /\ \A d, e \in store : d.nonce = e.nonce => d = e

\* The steps that take a nonce, and what all the others leave alone.
LEMMA StoreStep ==
  ASSUME TypeOK, [CapNext]_capVars
  PROVE  \/ job \in Requests /\ VerifyJoin /\ Presented(job)
         \/ UNCHANGED storeVars /\ (now' = now \/ (now' = now + 1 /\ now' <= MaxTime))
<1>1. ASSUME NEW q \in Requests, BeginJoin(q) PROVE UNCHANGED storeVars /\ now' = now
  BY <1>1 DEF BeginJoin
<1>2. CASE VerifyJoin
  <2>1. job \in Requests
    BY <1>2 DEF VerifyJoin, TypeOK
  <2>2. now' = now /\ (~Presented(job) => UNCHANGED storeVars)
    BY <1>2 DEF VerifyJoin, Spend
  <2> QED BY <1>2, <2>1, <2>2
<1>3. CASE FinishJoin
  BY <1>3 DEF FinishJoin
<1>4. CASE OtherRequest
  BY <1>4 DEF OtherRequest
<1>5. CASE Second
  <2>1. now \in Nat /\ MaxTime \in Nat
    BY JoinCapAssumption DEF TypeOK
  <2>2. UNCHANGED storeVars /\ now < MaxTime /\ now' = now + 1
    BY <1>5 DEF Second
  <2> QED BY <2>1, <2>2
<1>6. ASSUME NEW h \in Handles, Leave(h) PROVE UNCHANGED storeVars /\ now' = now
  BY <1>6 DEF Leave
<1>7. ASSUME NEW r \in Gated, Adopt(r) PROVE UNCHANGED storeVars /\ now' = now
  BY <1>7 DEF Adopt
<1>8. CASE UNCHANGED capVars
  BY <1>8 DEF capVars, storeVars
<1> QED BY <1>1, <1>2, <1>3, <1>4, <1>5, <1>6, <1>7, <1>8 DEF CapNext

\* Taking a nonce keeps the mirror: what is swept cannot be presented any
\* more, and a nonce that is still there is refused.
LEMMA TakeKeepsMirror ==
  ASSUME TypeOK, StoreMirror, job \in Requests, VerifyJoin, Presented(job)
  PROVE  StoreMirror'
<1> DEFINE cap == job.cap
<1>1. /\ now' = now
      /\ store' = StoreAfter(cap)
      /\ NonceVerdict(cap) = "ok" => spent' = spent \union {cap}
      /\ NonceVerdict(cap) # "ok" => spent' = spent
  BY DEF VerifyJoin, Spend
<1>2. \A e \in Swept(store) : e \in store
  BY DEF Swept
<1>3. \A c \in spent : c.exp + Skew > now => Entry(c) \in Swept(store)
  <2> SUFFICES ASSUME NEW c \in spent, c.exp + Skew > now PROVE Entry(c) \in Swept(store)
    OBVIOUS
  <2>1. Entry(c) \in store
    BY DEF StoreMirror
  <2>2. Entry(c).expires_at = c.exp + Skew
    BY DEF Entry
  <2> QED BY <2>1, <2>2 DEF Swept
<1>4. \A e \in Swept(store) : \E c \in spent : e = Entry(c)
  BY <1>2 DEF StoreMirror
<1>5. \A d, e \in Swept(store) : d.nonce = e.nonce => d = e
  BY <1>2 DEF StoreMirror
<1>6. CASE NonceVerdict(cap) = "ok"
  <2>1. store' = Swept(store) \union {Entry(cap)}
    BY <1>1, <1>6 DEF StoreAfter, Entry
  <2>2. spent' = spent \union {cap}
    BY <1>1, <1>6
  <2>3. IsFiniteSet(spent')
    BY <2>2, FS_AddElement DEF StoreMirror
  <2>4. \A c \in spent' : c.exp + Skew > now' => Entry(c) \in store'
    BY <1>1, <1>3, <2>1, <2>2
  <2>5. \A e \in store' : \E c \in spent' : e = Entry(c)
    BY <1>4, <2>1, <2>2
  <2>6. \A e \in Swept(store) : e.nonce # Entry(cap).nonce
    BY <1>6 DEF NonceVerdict, Entry
  <2>7. \A d, e \in store' : d.nonce = e.nonce => d = e
    BY <1>5, <2>1, <2>6
  <2> QED BY <2>3, <2>4, <2>5, <2>7 DEF StoreMirror
<1>7. CASE NonceVerdict(cap) # "ok"
  <2>1. store' = Swept(store) /\ spent' = spent
    BY <1>1, <1>7 DEF StoreAfter
  <2> QED BY <1>1, <1>3, <1>4, <1>5, <2>1 DEF StoreMirror
<1> QED BY <1>6, <1>7

\* The replay store mirrors the spent tokens in every reachable state.
THEOREM MirrorsSpent == CapSpec => []StoreMirror
<1>1. CapInit => StoreMirror
  BY FS_EmptySet DEF CapInit, StoreMirror
<1>2. TypeOK /\ StoreMirror /\ [CapNext]_capVars => StoreMirror'
  <2> SUFFICES ASSUME TypeOK, StoreMirror, [CapNext]_capVars PROVE StoreMirror'
    OBVIOUS
  <2>1. CASE job \in Requests /\ VerifyJoin /\ Presented(job)
    BY <2>1, TakeKeepsMirror
  <2>2. CASE UNCHANGED storeVars /\ (now' = now \/ now' = now + 1)
    <3>1. store' = store /\ spent' = spent
      BY <2>2 DEF storeVars
    <3>2. ASSUME NEW c \in spent, c.exp + Skew > now' PROVE Entry(c) \in store
      <4>1. c \in Caps /\ now \in Nat
        BY DEF TypeOK
      <4>2. c.exp \in Nat
        BY <4>1, JoinCapAssumption DEF IsCap
      <4>3. c.exp + Skew > now
        BY <2>2, <3>2, <4>1, <4>2, Numbers
      <4> QED BY <4>3 DEF StoreMirror
    <3> QED BY <3>1, <3>2 DEF StoreMirror
  <2> QED BY <2>1, <2>2, StoreStep
<1> QED BY <1>1, <1>2, CapTypeCorrect, PTL DEF CapSpec

\* SingleUse fails, but no further than this: a token that is taken again is
\* taken in the one second in which slv_joincap_nonce_sweep has forgotten it and
\* slv_joincap_check still accepts it, for any number of tokens, joins and
\* leaves.
THEOREM ReplayCorrect == CapSpec => []ReplayOnlyInLastSecond
<1> DEFINE Late == \A c, t : <<c, t>> \in again => t = c.exp + Skew
<1>1. CapInit => Late
  BY DEF CapInit
<1>2. TypeOK /\ StoreMirror /\ Late /\ [CapNext]_capVars => Late'
  <2> SUFFICES ASSUME TypeOK, StoreMirror, Late, [CapNext]_capVars PROVE Late'
    OBVIOUS
  <2>1. CASE job \in Requests /\ VerifyJoin /\ Presented(job)
    <3> DEFINE cap == job.cap
    <3>1. CASE NonceVerdict(cap) = "ok" /\ cap \in spent
      <4>1. again' = again \union {<<cap, now>>}
        BY <2>1, <3>1 DEF VerifyJoin, Spend
      <4>2. now \in Nat /\ cap.exp + Skew \in Nat /\ now <= cap.exp + Skew
        BY <2>1, PresentedFacts DEF TypeOK
      <4>3. ~(cap.exp + Skew > now)
        <5> SUFFICES ASSUME cap.exp + Skew > now PROVE FALSE
          OBVIOUS
        <5>1. Entry(cap) \in store
          BY <3>1 DEF StoreMirror
        <5>2. Entry(cap).expires_at = cap.exp + Skew /\ Entry(cap).nonce = cap.nonce
          BY DEF Entry
        <5>3. Entry(cap) \in Swept(store)
          BY <5>1, <5>2 DEF Swept
        <5> QED BY <3>1, <5>2, <5>3 DEF NonceVerdict
      <4>4. now = cap.exp + Skew
        BY <4>2, <4>3
      <4> QED BY <4>1, <4>4
    <3>2. CASE ~(NonceVerdict(cap) = "ok" /\ cap \in spent)
      BY <2>1, <3>2 DEF VerifyJoin, Spend
    <3> QED BY <3>1, <3>2
  <2>2. CASE UNCHANGED storeVars
    BY <2>2 DEF storeVars
  <2> QED BY <2>1, <2>2, StoreStep
<1>3. Late => ReplayOnlyInLastSecond
  BY DEF ReplayOnlyInLastSecond
<1> QED BY <1>1, <1>2, <1>3, CapTypeCorrect, MirrorsSpent, PTL DEF CapSpec

\* A join is refused because of a full replay store only while that many spent
\* tokens could still be replayed.
THEOREM FullStoreCorrect == CapSpec => FullOfLiveNonces
<1> DEFINE live == {c.nonce : c \in {d \in spent : d.exp + Skew > now}}
<1>1. ASSUME TypeOK, StoreMirror, VerifyJoin, Verdict(job) = "cap_replay_store_full"
      PROVE  Cardinality(live) >= MaxNonces
  <2>1. NonceVerdict(job.cap) = "cap_replay_store_full"
    BY <1>1 DEF Verdict, Parse, Check, Generation
  <2>2. Cardinality(Swept(store)) >= MaxNonces
    BY <2>1 DEF NonceVerdict
  <2> DEFINE f == [e \in Swept(store) |-> e.nonce]
  <2>3. ASSUME NEW e \in Swept(store) PROVE e.nonce \in live
    <3>1. PICK c \in spent : e = Entry(c)
      BY <1>1 DEF Swept, StoreMirror
    <3>2. e.expires_at > now /\ e.expires_at = c.exp + Skew /\ e.nonce = c.nonce
      BY <3>1 DEF Swept, Entry
    <3> QED BY <3>2
  <2>4. \A d, e \in Swept(store) : d.nonce = e.nonce => d = e
    BY <1>1 DEF Swept, StoreMirror
  <2>5. f \in Injection(Swept(store), live)
    BY <2>3, <2>4 DEF Injection, IsInjective
  <2>6. IsFiniteSet(live)
    <3> DEFINE L == {d \in spent : d.exp + Skew > now}
               g == [c \in L |-> c.nonce]
    <3>1. IsFiniteSet(L)
      BY <1>1, FS_Subset DEF StoreMirror
    <3>2. g \in Surjection(L, live)
      BY DEF Surjection
    <3> QED BY <3>1, <3>2, FS_Surjection
  <2>7. Cardinality(Swept(store)) <= Cardinality(live)
    BY <2>5, <2>6, FS_Injection
  <2>8. IsFiniteSet(Swept(store))
    BY <2>5, <2>6, FS_Injection
  <2>9. Cardinality(Swept(store)) \in Nat /\ Cardinality(live) \in Nat
    BY <2>6, <2>8, FS_CardinalityType
  <2> QED BY <2>2, <2>7, <2>9, Numbers
<1>2. TypeOK /\ StoreMirror /\ [CapNext]_capVars
        => [VerifyJoin /\ Verdict(job) = "cap_replay_store_full"
              => Cardinality(live) >= MaxNonces]_capVars
  BY <1>1
<1> QED BY <1>2, CapTypeCorrect, MirrorsSpent, PTL DEF CapSpec, FullOfLiveNonces

----------------------------------------------------------------------------
\* The members of a gated room and their tokens

SpentFor(r) == {c \in spent : c.room = r}

\* Is the join the handler works on past the gate of room r?
InHand(r) == job # NoReq /\ verdict = "ok" /\ job.room = r

\* The join in progress is of a handle in no room; where the gate counts, it is
\* past the gate only with a good token; and the members of a gated room,
\* with the join that is past its gate, are no more than the tokens spent.
Paid ==
  /\ job # NoReq => member[job.handle] = NoRoom
  /\ (Enforcing /\ job # NoReq /\ verdict # "pending" /\ job.room \in Gated) => verdict = "ok"
  /\ (Enforcing /\ again = {}) =>
       \A r \in Gated :
         Population(r) + (IF InHand(r) THEN 1 ELSE 0) <= Cardinality(SpentFor(r))

\* A set of handles, and a set of spent tokens, has a size.
LEMMA Sizes ==
  ASSUME StoreMirror, NEW r
  PROVE  /\ IsFiniteSet({h \in Handles : member[h] = r}) /\ Population(r) \in Nat
         /\ IsFiniteSet(SpentFor(r)) /\ Cardinality(SpentFor(r)) \in Nat
<1>1. IsFiniteSet(Handles) /\ IsFiniteSet(spent)
  BY JoinCapAssumption DEF StoreMirror
<1>2. IsFiniteSet({h \in Handles : member[h] = r}) /\ IsFiniteSet(SpentFor(r))
  BY <1>1, FS_Subset DEF SpentFor
<1> QED BY <1>2, FS_CardinalityType DEF Population

\* The verdict "ok" of a mixer that enforces means a token was spent for the
\* room, and unless it is taken a second time it is a new one.
LEMMA OkSpendsToken ==
  ASSUME TypeOK, StoreMirror, job \in Requests, VerifyJoin, Enforcing, Verdict(job) = "ok",
         again' = {}, NEW r \in Rooms, job.room = r
  PROVE  Cardinality(SpentFor(r)') = Cardinality(SpentFor(r)) + 1
<1> DEFINE cap == job.cap
<1>1. Presented(job) /\ NonceVerdict(cap) = "ok"
  BY DEF Verdict, Presented, Enforcing
<1>2. cap.room = r
  BY <1>1, PresentedFacts DEF TypeOK
<1>3. spent' = spent \union {cap} /\ cap \notin spent
  BY <1>1 DEF VerifyJoin, Spend
<1>4. SpentFor(r)' = SpentFor(r) \union {cap}
  <2>1. {c \in spent' : c.room = r} = {c \in spent : c.room = r} \union {cap}
    BY <1>2, <1>3
  <2> QED BY <2>1 DEF SpentFor
<1>5. cap \notin SpentFor(r) /\ IsFiniteSet(SpentFor(r))
  BY <1>3, Sizes DEF SpentFor
<1> QED BY <1>4, <1>5, FS_AddElement

\* A join adds its handle to the room it names and to no other.
LEMMA JoinCounts ==
  ASSUME TypeOK, StoreMirror, NEW h \in Handles, NEW q \in Rooms, member[h] = NoRoom,
         member' = [member EXCEPT ![h] = q], NEW r \in Rooms
  PROVE  Population(r)' = Population(r) + (IF r = q THEN 1 ELSE 0)
<1> DEFINE In == {k \in Handles : member[k] = r}
           Out == {k \in Handles : member'[k] = r}
<1>1. member \in [Handles -> Rooms \union {NoRoom}] /\ NoRoom \notin Rooms
  BY JoinCapAssumption DEF TypeOK
<1>2. IsFiniteSet(In) /\ Population(r) = Cardinality(In) /\ Population(r) \in Nat
  BY Sizes DEF Population
<1>3. Population(r)' = Cardinality(Out)
  BY DEF Population
<1>4. CASE r = q
  <2>1. Out = In \union {h} /\ h \notin In
    BY <1>1, <1>4
  <2> QED BY <1>2, <1>3, <1>4, <2>1, FS_AddElement
<1>5. CASE r # q
  <2>1. Out = In
    BY <1>1, <1>5
  <2> QED BY <1>2, <1>3, <1>5, <2>1
<1> QED BY <1>4, <1>5

\* A leave adds nobody to any room.
LEMMA LeaveCounts ==
  ASSUME TypeOK, StoreMirror, NEW h \in Handles, NEW r \in Rooms,
         member' = [member EXCEPT ![h] = NoRoom]
  PROVE  Population(r)' \in Nat /\ Population(r)' <= Population(r)
<1> DEFINE In == {k \in Handles : member[k] = r}
           Out == {k \in Handles : member'[k] = r}
<1>1. member \in [Handles -> Rooms \union {NoRoom}] /\ NoRoom \notin Rooms
  BY JoinCapAssumption DEF TypeOK
<1>2. IsFiniteSet(In) /\ Population(r) = Cardinality(In)
  BY Sizes DEF Population
<1>3. Out \in SUBSET In
  BY <1>1
<1>4. Population(r)' = Cardinality(Out)
  BY DEF Population
<1> QED BY <1>2, <1>3, <1>4, FS_Subset, FS_CardinalityType

\* The gate keeps the books of tokens and members.
LEMMA VerifyKeepsPaid ==
  ASSUME TypeOK, StoreMirror, StoreMirror', Paid, VerifyJoin
  PROVE  Paid'
<1>1. job \in Requests
  BY DEF VerifyJoin, TypeOK
<1>2. /\ knobs' = knobs /\ member' = member /\ verdict = "pending"
      /\ again \subseteq again' /\ spent \subseteq spent'
  BY DEF VerifyJoin, Spend, storeVars
<1>3. \/ Refused(job) /\ job' = NoReq
      \/ ~Refused(job) /\ job' = job /\ verdict' = Verdict(job)
  BY DEF VerifyJoin
<1>4. (job' # NoReq => member'[job'.handle] = NoRoom)
  BY <1>2, <1>3 DEF Paid
<1>5. (Enforcing' /\ job' # NoReq /\ verdict' # "pending" /\ job'.room \in Gated)
        => verdict' = "ok"
  BY <1>2, <1>3 DEF Refused, Enforcing
<1>6. ASSUME Enforcing', again' = {}, NEW r \in Gated
      PROVE  Population(r)' + (IF InHand(r)' THEN 1 ELSE 0) <= Cardinality(SpentFor(r)')
  <2>1. Enforcing /\ again = {}
    BY <1>2, <1>6 DEF Enforcing
  <2>2. Population(r) + (IF InHand(r) THEN 1 ELSE 0) <= Cardinality(SpentFor(r))
    BY <2>1 DEF Paid
  <2>3. ~InHand(r)
    BY <1>2 DEF InHand
  <2>4. Population(r)' = Population(r)
    BY <1>2 DEF Population
  <2>5. Population(r) \in Nat /\ Cardinality(SpentFor(r)) \in Nat
    BY Sizes
  <2>6. IsFiniteSet(SpentFor(r)') /\ Cardinality(SpentFor(r)') \in Nat
    <3>1. IsFiniteSet(spent')
      BY DEF StoreMirror
    <3>2. IsFiniteSet({c \in spent' : c.room = r})
      BY <3>1, FS_Subset
    <3> QED BY <3>2, FS_CardinalityType DEF SpentFor
  <2>7. CASE InHand(r)'
    <3>1. job.room = r /\ Verdict(job) = "ok"
      BY <1>3, <2>7 DEF InHand
    <3>2. Cardinality(SpentFor(r)') = Cardinality(SpentFor(r)) + 1
      BY <1>1, <1>6, <2>1, <3>1, OkSpendsToken, JoinCapAssumption
    <3> QED BY <2>2, <2>3, <2>4, <2>5, <2>7, <3>2
  <2>8. CASE ~InHand(r)'
    <3>1. SpentFor(r) \in SUBSET (SpentFor(r)')
      BY <1>2 DEF SpentFor
    <3>2. Cardinality(SpentFor(r)) <= Cardinality(SpentFor(r)')
      BY <2>6, <3>1, FS_Subset
    <3> QED BY <2>2, <2>3, <2>4, <2>5, <2>6, <2>8, <3>2
  <2> QED BY <2>7, <2>8
<1> QED BY <1>4, <1>5, <1>6 DEF Paid

\* Whoever gets a place in the room gets it for the join that was paid for.
LEMMA FinishKeepsPaid ==
  ASSUME TypeOK, StoreMirror, Paid, FinishJoin
  PROVE  Paid'
<1>1. job \in Requests /\ job.handle \in Handles /\ job.room \in Rooms
  BY JoinCapAssumption DEF FinishJoin, TypeOK
<1>2. /\ knobs' = knobs /\ spent' = spent /\ again' = again /\ job' = NoReq
      /\ verdict # "pending" /\ job # NoReq
      /\ member' = member \/ member' = [member EXCEPT ![job.handle] = job.room]
  BY DEF FinishJoin, storeVars
<1>3. ASSUME Enforcing', again' = {}, NEW r \in Gated
      PROVE  Population(r)' + (IF InHand(r)' THEN 1 ELSE 0) <= Cardinality(SpentFor(r)')
  <2>1. Enforcing /\ again = {} /\ r \in Rooms
    BY <1>2, <1>3, JoinCapAssumption DEF Enforcing
  <2>2. Population(r) + (IF InHand(r) THEN 1 ELSE 0) <= Cardinality(SpentFor(r))
    BY <2>1 DEF Paid
  <2>3. ~InHand(r)' /\ SpentFor(r)' = SpentFor(r)
    BY <1>2 DEF InHand, SpentFor
  <2>4. Population(r) \in Nat /\ Cardinality(SpentFor(r)) \in Nat
    BY Sizes
  <2>5. CASE member' = member
    <3>1. Population(r)' = Population(r)
      BY <2>5 DEF Population
    <3> QED BY <2>2, <2>3, <2>4, <3>1
  <2>6. CASE member' = [member EXCEPT ![job.handle] = job.room]
    <3>1. member[job.handle] = NoRoom
      BY <1>2 DEF Paid
    <3>2. Population(r)' = Population(r) + (IF r = job.room THEN 1 ELSE 0)
      BY <1>1, <2>1, <2>6, <3>1, JoinCounts
    <3>3. r = job.room => InHand(r)
      BY <1>2, <2>1 DEF Paid, InHand
    <3> QED BY <2>2, <2>3, <2>4, <3>2, <3>3
  <2> QED BY <1>2, <2>5, <2>6
<1>4. job' = NoReq
  BY <1>2
<1> QED BY <1>3, <1>4 DEF Paid

\* Members of gated rooms, and the join past the gate, are paid for.
THEOREM PaidCorrect == CapSpec => []Paid
<1>1. CapInit => Paid
  <2> SUFFICES ASSUME CapInit PROVE Paid
    OBVIOUS
  <2>1. job = NoReq /\ spent = {} /\ member = [h \in Handles |-> NoRoom]
    BY DEF CapInit
  <2>2. ASSUME NEW r \in Gated
        PROVE  Population(r) + (IF InHand(r) THEN 1 ELSE 0) <= Cardinality(SpentFor(r))
    <3>1. {h \in Handles : member[h] = r} = {} /\ SpentFor(r) = {}
      BY <2>1, JoinCapAssumption DEF SpentFor
    <3>2. Population(r) = 0 /\ Cardinality(SpentFor(r)) = 0
      BY <3>1, FS_EmptySet DEF Population
    <3>3. ~InHand(r)
      BY <2>1 DEF InHand
    <3> QED BY <3>2, <3>3
  <2> QED BY <2>1, <2>2 DEF Paid
<1>2. TypeOK /\ StoreMirror /\ StoreMirror' /\ Paid /\ [CapNext]_capVars => Paid'
  <2> SUFFICES ASSUME TypeOK, StoreMirror, StoreMirror', Paid, [CapNext]_capVars PROVE Paid'
    OBVIOUS
  <2>1. ASSUME NEW q \in Requests, BeginJoin(q) PROVE Paid'
    <3>1. /\ knobs' = knobs /\ spent' = spent /\ again' = again /\ member' = member
          /\ job = NoReq
          /\ \/ job' = job
             \/ job' = q /\ verdict' = "pending" /\ member[q.handle] = NoRoom
      BY <2>1 DEF BeginJoin, storeVars
    <3>2. ASSUME NEW r
          PROVE  ~InHand(r) /\ ~InHand(r)' /\ Population(r)' = Population(r)
                 /\ SpentFor(r)' = SpentFor(r)
      BY <3>1 DEF InHand, Population, SpentFor
    <3> QED BY <3>1, <3>2 DEF Paid, Enforcing
  <2>2. CASE VerifyJoin
    BY <2>2, VerifyKeepsPaid
  <2>3. CASE FinishJoin
    BY <2>3, FinishKeepsPaid
  <2>4. ASSUME NEW h \in Handles, Leave(h) PROVE Paid'
    <3>1. /\ knobs' = knobs /\ spent' = spent /\ again' = again /\ job' = job
          /\ verdict' = verdict /\ member[h] # NoRoom
          /\ member' = [member EXCEPT ![h] = NoRoom]
      BY <2>4 DEF Leave, storeVars, handlerVars
    <3>2. job' # NoReq => member'[job'.handle] = NoRoom
      <4>1. job # NoReq => member[job.handle] = NoRoom /\ job.handle \in Handles
        BY JoinCapAssumption DEF Paid, TypeOK
      <4> QED BY <3>1, <4>1 DEF TypeOK
    <3>3. ASSUME Enforcing, again = {}, NEW r \in Gated
          PROVE  Population(r)' + (IF InHand(r)' THEN 1 ELSE 0) <= Cardinality(SpentFor(r)')
      <4>1. r \in Rooms
        BY JoinCapAssumption
      <4>2. Population(r)' \in Nat /\ Population(r)' <= Population(r)
        BY <3>1, <4>1, LeaveCounts
      <4>3. Population(r) + (IF InHand(r) THEN 1 ELSE 0) <= Cardinality(SpentFor(r))
        BY <3>3 DEF Paid
      <4>4. (InHand(r)' <=> InHand(r)) /\ SpentFor(r)' = SpentFor(r)
        BY <3>1 DEF InHand, SpentFor
      <4>5. Population(r) \in Nat /\ Cardinality(SpentFor(r)) \in Nat
        BY Sizes
      <4> QED BY <4>2, <4>3, <4>4, <4>5
    <3> QED BY <3>1, <3>2, <3>3 DEF Paid, Enforcing
  <2>5. CASE UNCHANGED <<knobs, job, verdict, member, spent, again>>
    <3>1. ASSUME NEW r
          PROVE  /\ InHand(r)' <=> InHand(r)
                 /\ Population(r)' = Population(r) /\ SpentFor(r)' = SpentFor(r)
      BY <2>5 DEF InHand, Population, SpentFor
    <3> QED BY <2>5, <3>1 DEF Paid, Enforcing
  <2>6. OtherRequest \/ Second \/ (\E r \in Gated : Adopt(r)) \/ UNCHANGED capVars
          => UNCHANGED <<knobs, job, verdict, member, spent, again>>
    BY DEF OtherRequest, Second, Adopt, capVars, handlerVars, storeVars
  <2> QED BY <2>1, <2>2, <2>3, <2>4, <2>5, <2>6 DEF CapNext
<1> QED BY <1>1, <1>2, CapTypeCorrect, MirrorsSpent, PTL DEF CapSpec

\* Every member of a gated room is there on a token of its own, however joins,
\* failures after the gate, leaves and new epochs interleave.
THEOREM GateCorrect == CapSpec => []GateHolds
<1>1. TypeOK /\ StoreMirror /\ Paid => GateHolds
  <2> SUFFICES ASSUME TypeOK, StoreMirror, Paid, Enforcing, again = {}, NEW r \in Gated
               PROVE  Population(r) <= Cardinality({c \in spent : c.room = r})
    BY DEF GateHolds, MembersHaveTokens
  <2>1. Population(r) + (IF InHand(r) THEN 1 ELSE 0) <= Cardinality(SpentFor(r))
    BY DEF Paid
  <2>2. Population(r) \in Nat /\ Cardinality(SpentFor(r)) \in Nat
    BY Sizes
  <2>3. Population(r) <= Cardinality(SpentFor(r))
    BY <2>1, <2>2
  <2> QED BY <2>3 DEF SpentFor
<1> QED BY <1>1, CapTypeCorrect, MirrorsSpent, PaidCorrect, PTL

----------------------------------------------------------------------------

\* The code of a reply is the one the handler was left with.
LEMMA ReplyCode ==
  ASSUME NEW code, NEW r, Respond(code, r)
  PROVE  reply'.code = code
  BY DEF Respond

\* With the requirement off, or on without a key, the handler is the one
\* without capabilities; with both, it may also refuse a join, which changes
\* no membership: every step of the handler is a step of PlainJoin.
THEOREM ShadowCorrect == CapSpec => ShadowIsPlain
<1>1. CapInit => Plain!PlainInit
  <2>1. Enforcing \in BOOLEAN
    BY SMT DEF Enforcing
  <2>2. ASSUME CapInit PROVE reply.code = "ok" /\ member = [h \in Handles |-> NoRoom]
    <3>1. reply = [code |-> "ok", reason |-> ""] /\ member = [h \in Handles |-> NoRoom]
      BY <2>2, Zenon DEF CapInit
    <3>2. [code |-> "ok", reason |-> ""].code = "ok"
      OBVIOUS
    <3> QED BY <3>1, <3>2, Zenon
  <2> QED BY <2>1, <2>2 DEF Plain!PlainInit
<1>2. TypeOK /\ Paid /\ [CapNext]_capVars
        => [Plain!PlainNext]_<<Enforcing, member, reply.code>>
  <2> SUFFICES ASSUME TypeOK, Paid, [CapNext]_capVars
               PROVE  Plain!PlainNext \/ UNCHANGED <<Enforcing, member, reply.code>>
    OBVIOUS
  <2>0. Enforcing' = Enforcing
    BY DEF CapNext, BeginJoin, VerifyJoin, FinishJoin, OtherRequest, Second, Leave, Adopt,
           capVars, Enforcing
  <2>1. ASSUME NEW q \in Requests, BeginJoin(q)
        PROVE  Plain!PlainNext \/ UNCHANGED <<Enforcing, member, reply.code>>
    <3>1. member' = member /\ q.handle \in Handles
      BY <2>1, JoinCapAssumption DEF BeginJoin
    <3>2. \/ reply'.code = "already_joined" /\ member[q.handle] # NoRoom
          \/ reply'.code \in {"no_such_room", "invalid_sdp"}
          \/ reply' = reply
      BY <2>1, ReplyCode DEF BeginJoin
    <3>3. CASE reply' = reply
      BY <2>0, <3>1, <3>3
    <3>4. CASE reply'.code = "already_joined" /\ member[q.handle] # NoRoom
      <4>1. Plain!Answered("already_joined")
        BY <3>1, <3>4 DEF Plain!Answered
      <4> QED BY <2>0, <4>1 DEF Plain!PlainNext, Plain!Errors
    <3>5. CASE reply'.code \in {"no_such_room", "invalid_sdp"}
      <4>1. Plain!Answered(reply'.code)
        BY <3>1, <3>5 DEF Plain!Answered
      <4> QED BY <2>0, <3>5, <4>1 DEF Plain!PlainNext, Plain!Errors
    <3> QED BY <3>2, <3>3, <3>4, <3>5
  <2>2. CASE VerifyJoin
    <3>1. CASE Refused(job)
      <4>1. Plain!Answered("join_cap")
        BY <2>2, <3>1, ReplyCode DEF VerifyJoin, Plain!Answered
      <4>2. Enforcing
        BY <3>1 DEF Refused
      <4> QED BY <2>0, <4>1, <4>2 DEF Plain!PlainNext, Plain!Errors
    <3>2. CASE ~Refused(job)
      BY <2>0, <2>2, <3>2 DEF VerifyJoin
    <3> QED BY <3>1, <3>2
  <2>3. CASE FinishJoin
    <3>1. job \in Requests /\ job.handle \in Handles /\ job.room \in Rooms
          /\ member[job.handle] = NoRoom
      BY <2>3, JoinCapAssumption DEF FinishJoin, TypeOK, Paid
    <3>2. \/ /\ reply'.code = "room_full" /\ Population(job.room) >= RoomSize
             /\ member' = member
          \/ reply'.code \in {"invalid_sdp", "no_such_room"} /\ member' = member
          \/ reply'.code = "ok" /\ member' = [member EXCEPT ![job.handle] = job.room]
      BY <2>3, ReplyCode DEF FinishJoin
    <3>3. CASE reply'.code = "room_full" /\ Population(job.room) >= RoomSize /\ member' = member
      <4>1. Plain!Answered("room_full")
        <5>1. Population(job.room) = Cardinality(Plain!Members(job.room))
          BY DEF Population, Plain!Members
        <5>2. Plain!Cardinality(Plain!Members(job.room)) = Cardinality(Plain!Members(job.room))
          BY DEF Plain!Cardinality, Cardinality
        <5> QED BY <3>1, <3>3, <5>1, <5>2 DEF Plain!Answered
      <4> QED BY <2>0, <4>1 DEF Plain!PlainNext, Plain!Errors
    <3>4. CASE reply'.code \in {"invalid_sdp", "no_such_room"} /\ member' = member
      <4>1. Plain!Answered(reply'.code)
        BY <3>4 DEF Plain!Answered
      <4> QED BY <2>0, <3>4, <4>1 DEF Plain!PlainNext, Plain!Errors
    <3>5. CASE reply'.code = "ok" /\ member' = [member EXCEPT ![job.handle] = job.room]
      <4>1. Plain!Admitted(job.handle, job.room)
        BY <3>1, <3>5 DEF Plain!Admitted
      <4> QED BY <2>0, <3>1, <4>1 DEF Plain!PlainNext
    <3> QED BY <3>2, <3>3, <3>4, <3>5
  <2>4. CASE OtherRequest
    <3>1. reply'.code \in {"ok", "other"} /\ member' = member
      BY <2>4, ReplyCode DEF OtherRequest
    <3>2. Plain!Answered(reply'.code)
      BY <3>1 DEF Plain!Answered
    <3> QED BY <2>0, <3>1, <3>2 DEF Plain!PlainNext, Plain!Errors
  <2>5. ASSUME NEW h \in Handles, Leave(h)
        PROVE  Plain!PlainNext
    <3>1. Plain!Left(h)
      BY <2>5 DEF Leave, Plain!Left
    <3> QED BY <2>0, <3>1 DEF Plain!PlainNext
  <2>6. Second \/ (\E r \in Gated : Adopt(r)) \/ UNCHANGED capVars
          => UNCHANGED <<member, reply>>
    BY DEF Second, Adopt, capVars
  <2> QED BY <2>0, <2>1, <2>2, <2>3, <2>4, <2>5, <2>6 DEF CapNext
<1> QED BY <1>1, <1>2, CapTypeCorrect, PaidCorrect, PTL
       DEF CapSpec, ShadowIsPlain, Plain!PlainSpec
=============================================================================
