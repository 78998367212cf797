-------------------------- MODULE VisAuthorityProofs --------------------------
(***************************************************************************)
(* What VisAuthority guarantees for every set of agents, sessions and      *)
(* messages, every policy and every staleness window.                      *)
(*                                                                         *)
(* The argument: the books are well typed (AuthTypeCorrect) and every      *)
(* armed record is of the epoch in force (CurrentEpoch); with simulators   *)
(* that follow the arming protocol the mirror in a record is the policy of *)
(* its generation (MirrorCorrect); the sessions in the room mix with that  *)
(* mirror (MixCorrect, which needs that a leave is over before the session *)
(* joins again); so what is heard is allowed (FailClosedCorrect).          *)
(***************************************************************************)
EXTENDS VisAuthority, TLAPS

\* The operations on a column stay within the displays.
LEMMA ApplyOpType ==
  ASSUME NEW op \in Ops, NEW col \in SUBSET Displays, NEW src \in SUBSET Displays
  PROVE  ApplyOp(op, col, src) \in SUBSET Displays
  BY DEF ApplyOp, Ops

\* The columns a batch leaves in a record are columns.
LEMMA MirrorType ==
  ASSUME NEW bb \in Batches, NEW rec \in Record, NEW L \in Displays
  PROVE  MirroredCols(bb, rec, L) \in Cols
<1>1. IsBatch(bb)
  BY AuthorityAssumption
<1>2. rec.cols.excl \in SUBSET Displays /\ rec.cols.mute \in SUBSET Displays
  BY DEF Record, Cols
<1>3. ColumnAfter(bb, "excl", L, rec.cols.excl) \in SUBSET Displays
  BY <1>1, <1>2, ApplyOpType DEF IsBatch, ColumnAfter
<1>4. ColumnAfter(bb, "mute", L, rec.cols.mute) \in SUBSET Displays
  BY <1>1, <1>2, ApplyOpType DEF IsBatch, ColumnAfter
<1> QED BY <1>3, <1>4 DEF MirroredCols, Cols

\* The window and the age past it, as numbers.
LEMMA WindowFacts ==
  /\ 0 \in Ages /\ Expired \in Ages
  /\ 0 \in Waits
  /\ \A w \in Waits : w \in Ages /\ w \in Int /\ w <= StaleWindow
  /\ \A age \in Ages : Older(age) \in Ages
  BY ClockAssumption DEF Ages, Expired, Waits, Older

\* An unarmed listener has a well-typed record.
LEMMA NoRecordType == NoRecord \in Record
  BY WindowFacts, AuthorityAssumption DEF NoRecord, NoCols, Record, Cols

\* Adoption leaves well-typed books.
LEMMA AdoptType ==
  ASSUME AuthTypeOK, NEW e, NEW w
  PROVE  /\ RecordsAfterAdopt(e, w) \in [Displays -> Record]
         /\ GenAfterAdopt(e, w) \in 0 .. MaxGen
  BY NoRecordType, AuthorityAssumption
     DEF AuthTypeOK, RecordsAfterAdopt, GenAfterAdopt, Unarmed

\* What a stamped batch makes of a record is a record.
LEMMA BatchRecordType ==
  ASSUME NEW bb \in Batches, bb.epoch # 0, NEW recs \in [Displays -> Record],
         NEW new, NEW L \in Displays
  PROVE  RecordAfterBatch(bb, recs, new, L) \in Record
<1> DEFINE rec == recs[L]
<1>1. rec \in Record
  OBVIOUS
<1>2. bb.epoch \in 0 .. MaxEpoch /\ bb.gen \in 0 .. MaxGen
  BY AuthorityAssumption DEF IsBatch, Gens
<1>3. MirroredCols(bb, rec, L) \in Cols
  BY <1>1, MirrorType
<1>4. ArmedRecord(bb, rec, L) \in Record
  BY <1>2, <1>3, WindowFacts DEF ArmedRecord, Record
<1>5. AdvancedRecord(bb, rec, L) \in Record
  BY <1>1, <1>2, <1>3, WindowFacts DEF AdvancedRecord, Record
<1>6. [rec EXCEPT !.stale = TRUE] \in Record
  BY <1>1 DEF Record
<1> QED BY <1>1, <1>4, <1>5, <1>6 DEF RecordAfterBatch

\* What a heartbeat makes of a record is a record.
LEMMA HeartbeatRecordType ==
  ASSUME NEW h \in Heartbeats, NEW rec \in Record, NEW L \in Displays, NEW w \in Waits
  PROVE  RecordAfterHeartbeat(h, rec, L, w) \in Record
<1>1. [rec EXCEPT !.age = w] \in Record
  BY WindowFacts DEF Record
<1>2. [rec EXCEPT !.stale = TRUE] \in Record
  BY DEF Record
<1> QED BY <1>1, <1>2, NoRecordType DEF RecordAfterHeartbeat

\* The books of the authority are well typed, whatever messages arrive.
THEOREM AuthTypeCorrect == Spec => []AuthTypeOK
<1>1. Init => AuthTypeOK
  BY NoRecordType, WindowFacts, AuthorityAssumption DEF Init, AuthTypeOK, Unarmed
<1>2. AuthTypeOK /\ [Next]_vars => AuthTypeOK'
  <2> SUFFICES ASSUME AuthTypeOK, [Next]_vars
               PROVE  AuthTypeOK'
    OBVIOUS
  <2>1. ASSUME NEW bb \in Batches, PeerCtlBatch(bb)
        PROVE  AuthTypeOK'
    <3>1. CASE bb.epoch = 0
      BY <2>1, <3>1 DEF PeerCtlBatch, UnadoptedBatch, UnstampedBatch, StaleEpochBatch, StaleGenerationBatch,
                        CurrentBatch, authVars, AuthTypeOK
    <3>2. CASE StaleEpochBatch(bb)
      BY <3>2 DEF StaleEpochBatch, authVars, AuthTypeOK
    <3>3. CASE bb.epoch # 0 /\ StaleGenerationBatch(bb)
      BY <3>3, AdoptType, WindowFacts, AuthorityAssumption
         DEF StaleGenerationBatch, AuthTypeOK, IsBatch
    <3>4. CASE bb.epoch # 0 /\ CurrentBatch(bb)
      <4> DEFINE recs == RecordsAfterAdopt(bb.epoch, 0)
      <4>1. recs \in [Displays -> Record]
        BY AdoptType
      <4>2. PICK new \in Admissible(bb, recs) :
              records' = [L \in Displays |-> RecordAfterBatch(bb, recs, new, L)]
        BY <3>4 DEF CurrentBatch
      <4>3. records' \in [Displays -> Record]
        BY <3>4, <4>1, <4>2, BatchRecordType
      <4>4. authEpoch' \in 0 .. MaxEpoch /\ authAge' \in Ages /\ policyGen' \in 0 .. MaxGen
        BY <3>4, WindowFacts, AuthorityAssumption DEF CurrentBatch, IsBatch, Gens
      <4> QED BY <4>3, <4>4 DEF AuthTypeOK
    <3> QED BY <2>1, <3>1, <3>2, <3>3, <3>4 DEF PeerCtlBatch, UnadoptedBatch, UnstampedBatch
  <2>2. ASSUME NEW h \in Heartbeats, Heartbeat(h)
        PROVE  AuthTypeOK'
    <3>1. PICK w \in Waits :
            \/ StoppingHeartbeat(h, w)
            \/ OutdatedHeartbeat(h, w)
            \/ EvaluatedHeartbeat(h, w)
      BY <2>2 DEF Heartbeat
    <3> DEFINE recs == RecordsAfterAdopt(h.epoch, w)
    <3>2. recs \in [Displays -> Record] /\ GenAfterAdopt(h.epoch, w) \in 0 .. MaxGen
      BY AdoptType
    <3>3. h.epoch \in 0 .. MaxEpoch
      BY AuthorityAssumption DEF IsHeartbeat, Epochs
    <3>4. authEpoch' = h.epoch /\ policyGen' = GenAfterAdopt(h.epoch, w) /\ authAge' \in Ages
      BY <3>1, WindowFacts DEF StoppingHeartbeat, OutdatedHeartbeat, EvaluatedHeartbeat
    <3>5. records' \in [Displays -> Record]
      <4>1. CASE StoppingHeartbeat(h, w)
        BY <3>2, <4>1 DEF StoppingHeartbeat, Record
      <4>2. CASE OutdatedHeartbeat(h, w)
        BY <3>2, <4>2 DEF OutdatedHeartbeat
      <4>3. CASE EvaluatedHeartbeat(h, w)
        BY <3>2, <4>3, HeartbeatRecordType DEF EvaluatedHeartbeat
      <4> QED BY <3>1, <4>1, <4>2, <4>3
    <3> QED BY <3>2, <3>3, <3>4, <3>5 DEF AuthTypeOK
  <2>3. ASSUME NEW s \in Sessions, Join(s) \/ Leave(s)
        PROVE  AuthTypeOK'
    BY <2>3 DEF Join, Leave, authVars, AuthTypeOK
  <2>4. CASE Tick
    BY <2>4, WindowFacts DEF Tick, AuthTypeOK, Record
  <2>5. CASE UNCHANGED vars
    BY <2>5 DEF vars, AuthTypeOK
  <2> QED BY <2>1, <2>2, <2>3, <2>4, <2>5 DEF Next
<1> QED BY <1>1, <1>2, PTL DEF Spec

\* The verdict "equal" is given to the stored epoch only.
LEMMA EqualIsCurrent ==
  ASSUME NEW e, NEW w, Verdict(e, w) = "equal"
  PROVE  e = authEpoch
  BY DEF Verdict, EpochDecide

\* Records that survive an adoption are those of the epoch in force.
LEMMA AdoptKeepsCurrent ==
  ASSUME AuthTypeOK, RecordsOfCurrentEpoch, NEW e, NEW w, NEW L \in Displays,
         RecordsAfterAdopt(e, w)[L].armed
  PROVE  /\ Verdict(e, w) = "equal" /\ e = authEpoch
         /\ RecordsAfterAdopt(e, w) = records
         /\ RecordsAfterAdopt(e, w)[L].epoch = e
         /\ 1 <= RecordsAfterAdopt(e, w)[L].gen
         /\ RecordsAfterAdopt(e, w)[L].gen <= GenAfterAdopt(e, w)
  BY EqualIsCurrent
     DEF RecordsAfterAdopt, GenAfterAdopt, RecordsOfCurrentEpoch, Unarmed, NoRecord

\* The fields of a record after a batch that is in order
LEMMA BatchRecordFields ==
  ASSUME NEW bb \in Batches, NEW recs \in [Displays -> Record], NEW new, NEW L \in Displays,
         RecordAfterBatch(bb, recs, new, L).armed
  PROVE  LET rec == RecordAfterBatch(bb, recs, new, L)
         IN  \/ /\ rec.epoch = bb.epoch /\ rec.gen = bb.gen
                /\ rec.cols = MirroredCols(bb, recs[L], L)
                /\ L \in Named(bb)
                /\ bb.op = "replace" \/ Follows(bb, recs, L)
             \/ /\ recs[L].armed
                /\ rec.epoch = recs[L].epoch /\ rec.gen = recs[L].gen
                /\ rec.cols = recs[L].cols
                /\ L \notin Named(bb) \/ (bb.op # "replace" /\ ~Follows(bb, recs, L))
<1> DEFINE rec == RecordAfterBatch(bb, recs, new, L)
<1>1. recs[L] \in Record
  OBVIOUS
<1>2. CASE L \notin Named(bb)
  BY <1>2 DEF RecordAfterBatch
<1>3. CASE L \in Named(bb) /\ bb.op = "replace" /\ (recs[L].armed \/ L \in new)
  BY <1>3 DEF RecordAfterBatch, ArmedRecord
<1>4. CASE L \in Named(bb) /\ bb.op = "replace" /\ ~(recs[L].armed \/ L \in new)
  BY <1>4 DEF RecordAfterBatch
<1>5. CASE L \in Named(bb) /\ bb.op # "replace" /\ Follows(bb, recs, L)
  <2>1. rec = AdvancedRecord(bb, recs[L], L)
    BY <1>5 DEF RecordAfterBatch
  <2>2. rec.gen = bb.gen /\ rec.epoch = recs[L].epoch /\ rec.cols = MirroredCols(bb, recs[L], L)
    BY <1>1, <2>1 DEF AdvancedRecord, Record
  <2> QED BY <1>5, <2>2 DEF Follows
<1>6. CASE L \in Named(bb) /\ bb.op # "replace" /\ ~Follows(bb, recs, L)
  <2>1. CASE recs[L].armed
    <3>1. rec = [recs[L] EXCEPT !.stale = TRUE]
      BY <1>6, <2>1 DEF RecordAfterBatch
    <3> QED BY <1>1, <1>6, <2>1, <3>1 DEF Record
  <2>2. CASE ~recs[L].armed
    BY <1>6, <2>2 DEF RecordAfterBatch
  <2> QED BY <2>1, <2>2
<1> QED BY <1>2, <1>3, <1>4, <1>5, <1>6

\* A heartbeat leaves the epoch, generation and columns of a record alone or
\* disarms it.
LEMMA HeartbeatRecordFields ==
  ASSUME NEW h \in Heartbeats, NEW rec \in Record, NEW L \in Displays, NEW w \in Waits,
         RecordAfterHeartbeat(h, rec, L, w).armed
  PROVE  LET new == RecordAfterHeartbeat(h, rec, L, w)
         IN  /\ rec.armed
             /\ new.epoch = rec.epoch /\ new.gen = rec.gen /\ new.cols = rec.cols
  BY DEF RecordAfterHeartbeat, NoRecord, Record

\* What every heartbeat that is not ignored does to the books
LEMMA HeartbeatStep ==
  ASSUME AuthTypeOK, NEW h \in Heartbeats, Heartbeat(h)
  PROVE  \E w \in Waits :
           /\ Verdict(h.epoch, w) # "stale"
           /\ authEpoch' = h.epoch
           /\ policyGen' = GenAfterAdopt(h.epoch, w)
           /\ \A L \in Displays :
                records'[L].armed =>
                  LET rec == RecordsAfterAdopt(h.epoch, w)[L]
                  IN  /\ rec.armed
                      /\ records'[L].epoch = rec.epoch
                      /\ records'[L].gen = rec.gen
                      /\ records'[L].cols = rec.cols
           /\ UNCHANGED feedVars
<1>1. PICK w \in Waits :
        \/ StoppingHeartbeat(h, w)
        \/ OutdatedHeartbeat(h, w)
        \/ EvaluatedHeartbeat(h, w)
  BY DEF Heartbeat
<1> DEFINE recs == RecordsAfterAdopt(h.epoch, w)
<1>2. recs \in [Displays -> Record]
  BY AdoptType
<1>3. /\ Verdict(h.epoch, w) # "stale"
      /\ authEpoch' = h.epoch
      /\ policyGen' = GenAfterAdopt(h.epoch, w)
      /\ UNCHANGED feedVars
  BY <1>1 DEF StoppingHeartbeat, OutdatedHeartbeat, EvaluatedHeartbeat, Accepted
<1>4. ASSUME NEW L \in Displays, records'[L].armed
      PROVE  /\ recs[L].armed
             /\ records'[L].epoch = recs[L].epoch
             /\ records'[L].gen = recs[L].gen
             /\ records'[L].cols = recs[L].cols
  <2>0. recs[L] \in Record
    BY <1>2
  <2>1. CASE StoppingHeartbeat(h, w)
    <3>1. CASE recs[L].armed
      <4>1. records'[L] = [recs[L] EXCEPT !.stale = TRUE]
        BY <2>1, <3>1 DEF StoppingHeartbeat
      <4> QED BY <2>0, <3>1, <4>1 DEF Record
    <3>2. CASE ~recs[L].armed
      BY <1>4, <2>1, <3>2 DEF StoppingHeartbeat
    <3> QED BY <3>1, <3>2
  <2>2. CASE OutdatedHeartbeat(h, w)
    BY <1>4, <2>2 DEF OutdatedHeartbeat
  <2>3. CASE EvaluatedHeartbeat(h, w)
    <3>1. records'[L] = RecordAfterHeartbeat(h, recs[L], L, w)
      BY <2>3 DEF EvaluatedHeartbeat
    <3> QED BY <1>4, <2>0, <3>1, HeartbeatRecordFields
  <2> QED BY <1>1, <2>1, <2>2, <2>3
<1> QED BY <1>3, <1>4

\* RecordsOfCurrentEpoch holds for every instance: adoption and the order of
\* generations leave no armed record behind that another epoch, or a
\* generation the room has not applied, has set.
THEOREM CurrentEpoch == Spec => []RecordsOfCurrentEpoch
<1>1. Init => RecordsOfCurrentEpoch
  BY DEF Init, RecordsOfCurrentEpoch, Unarmed, NoRecord
<1>2. AuthTypeOK /\ RecordsOfCurrentEpoch /\ [Next]_vars => RecordsOfCurrentEpoch'
  <2> SUFFICES ASSUME AuthTypeOK, RecordsOfCurrentEpoch, [Next]_vars,
                      NEW L \in Displays, records'[L].armed
               PROVE  /\ records'[L].epoch = authEpoch'
                      /\ 1 <= records'[L].gen /\ records'[L].gen <= policyGen'
    BY DEF RecordsOfCurrentEpoch
  <2>1. ASSUME NEW bb \in Batches, PeerCtlBatch(bb)
        PROVE  /\ records'[L].epoch = authEpoch'
               /\ 1 <= records'[L].gen /\ records'[L].gen <= policyGen'
    <3>1. CASE UnstampedBatch(bb) \/ StaleEpochBatch(bb)
      BY <3>1 DEF UnstampedBatch, StaleEpochBatch, authVars, RecordsOfCurrentEpoch
    <3>2. CASE StaleGenerationBatch(bb)
      BY <3>2, AdoptKeepsCurrent DEF StaleGenerationBatch
    <3>3. CASE CurrentBatch(bb)
      <4> DEFINE recs == RecordsAfterAdopt(bb.epoch, 0)
      <4>1. recs \in [Displays -> Record] /\ GenAfterAdopt(bb.epoch, 0) \in 0 .. MaxGen
        BY AdoptType
      <4>2. PICK new \in Admissible(bb, recs) :
              records' = [M \in Displays |-> RecordAfterBatch(bb, recs, new, M)]
        BY <3>3 DEF CurrentBatch
      <4>3. records'[L] = RecordAfterBatch(bb, recs, new, L)
        BY <4>2
      <4>4. bb.gen \in Nat /\ bb.gen >= 1 /\ bb.gen > GenAfterAdopt(bb.epoch, 0)
        BY <3>3, <4>1, AuthorityAssumption DEF CurrentBatch, OutOfOrder, IsBatch, Gens
      <4>5. authEpoch' = bb.epoch /\ policyGen' = bb.gen
        BY <3>3 DEF CurrentBatch
      <4>6. CASE records'[L].epoch = bb.epoch /\ records'[L].gen = bb.gen
        BY <4>4, <4>5, <4>6
      <4>7. CASE recs[L].armed /\ records'[L].epoch = recs[L].epoch /\ records'[L].gen = recs[L].gen
        <5>1. recs[L].epoch = bb.epoch /\ 1 <= recs[L].gen /\ recs[L].gen <= GenAfterAdopt(bb.epoch, 0)
          BY <4>7, AdoptKeepsCurrent
        <5>2. recs[L].gen \in Nat
          BY <4>1, AuthorityAssumption DEF Record
        <5> QED BY <4>1, <4>4, <4>5, <4>7, <5>1, <5>2
      <4> QED BY <4>1, <4>3, <4>6, <4>7, BatchRecordFields
    <3> QED BY <2>1, <3>1, <3>2, <3>3 DEF PeerCtlBatch, UnadoptedBatch
  <2>2. ASSUME NEW h \in Heartbeats, Heartbeat(h)
        PROVE  /\ records'[L].epoch = authEpoch'
               /\ 1 <= records'[L].gen /\ records'[L].gen <= policyGen'
    <3>1. PICK w \in Waits :
            /\ authEpoch' = h.epoch
            /\ policyGen' = GenAfterAdopt(h.epoch, w)
            /\ RecordsAfterAdopt(h.epoch, w)[L].armed
            /\ records'[L].epoch = RecordsAfterAdopt(h.epoch, w)[L].epoch
            /\ records'[L].gen = RecordsAfterAdopt(h.epoch, w)[L].gen
      BY <2>2, HeartbeatStep
    <3> QED BY <3>1, AdoptKeepsCurrent
  <2>3. ASSUME NEW s \in Sessions, Join(s) \/ Leave(s)
        PROVE  /\ records'[L].epoch = authEpoch'
               /\ 1 <= records'[L].gen /\ records'[L].gen <= policyGen'
    BY <2>3 DEF Join, Leave, authVars, RecordsOfCurrentEpoch
  <2>4. CASE Tick
    <3>1. records'[L] = [records[L] EXCEPT !.age = Older(@)]
      BY <2>4 DEF Tick
    <3>2. records[L] \in Record
      BY DEF AuthTypeOK
    <3>3. /\ records'[L].armed = records[L].armed /\ records'[L].epoch = records[L].epoch
          /\ records'[L].gen = records[L].gen
      BY <3>1, <3>2 DEF Record
    <3> QED BY <2>4, <3>3 DEF Tick, RecordsOfCurrentEpoch
  <2>5. CASE UNCHANGED vars
    BY <2>5 DEF vars, RecordsOfCurrentEpoch
  <2> QED BY <2>1, <2>2, <2>3, <2>4, <2>5 DEF Next
<1> QED BY <1>1, <1>2, AuthTypeCorrect, PTL DEF Spec

\* A batch that follows the arming protocol takes a mirror of its base, or any
\* mirror if it is a replace, to the policy of its own generation.
LEMMA DisciplinedMirror ==
  ASSUME NEW bb \in Batches, Disciplined(bb), NEW recs \in [Displays -> Record],
         NEW L \in Displays, L \in Named(bb),
         bb.op = "replace" \/ Follows(bb, recs, L),
         recs[L].armed => /\ 1 <= recs[L].gen
                          /\ recs[L].cols = Policy[bb.epoch][L][recs[L].gen]
  PROVE  MirroredCols(bb, recs[L], L) = Policy[bb.epoch][L][bb.gen]
<1> DEFINE p == Policy[bb.epoch][L][bb.gen]
<1>1. bb.epoch \in Epochs /\ bb.gen \in Gens
  BY AuthorityAssumption DEF IsBatch, Disciplined, Epochs
<1>2. p \in Cols
  BY <1>1, AuthorityAssumption
<1>3. CASE bb.op = "replace"
  <2>1. L \in DOMAIN bb.excl /\ L \in DOMAIN bb.mute
    BY <1>3 DEF Disciplined, Named
  <2>2. bb.excl[L] = p.excl
    <3>1. bb["excl"][L] = Policy[bb.epoch][L][bb.gen]["excl"]
      BY <1>3 DEF Disciplined, Channels
    <3> QED BY <3>1
  <2>3. bb.mute[L] = p.mute
    <3>1. bb["mute"][L] = Policy[bb.epoch][L][bb.gen]["mute"]
      BY <1>3 DEF Disciplined, Channels
    <3> QED BY <3>1
  <2>4. /\ ColumnAfter(bb, "excl", L, recs[L].cols.excl) = p.excl
        /\ ColumnAfter(bb, "mute", L, recs[L].cols.mute) = p.mute
    BY <1>3, <2>1, <2>2, <2>3 DEF ColumnAfter, ApplyOp
  <2> QED BY <1>2, <2>4 DEF MirroredCols, Cols
<1>4. CASE bb.op # "replace"
  <2>1. /\ Follows(bb, recs, L) /\ recs[L].armed
        /\ recs[L].gen = bb.base[L]
        /\ recs[L].cols = Policy[bb.epoch][L][bb.base[L]]
        /\ bb.base[L] # 0
    BY <1>4 DEF Follows
  <2>2. ColumnAfter(bb, "excl", L, Policy[bb.epoch][L][bb.base[L]]["excl"]) = p["excl"]
    BY <1>4, <2>1 DEF Disciplined, Channels
  <2>3. ColumnAfter(bb, "mute", L, Policy[bb.epoch][L][bb.base[L]]["mute"]) = p["mute"]
    BY <1>4, <2>1 DEF Disciplined, Channels
  <2> QED BY <1>2, <2>1, <2>2, <2>3 DEF MirroredCols, Cols
<1> QED BY <1>3, <1>4

\* MirrorFaithful holds for every instance: with simulators that follow the
\* arming protocol, a record's columns are the policy of its generation.
THEOREM MirrorCorrect == Spec => []MirrorFaithful
<1>1. Init => MirrorFaithful
  BY DEF Init, MirrorFaithful, Unarmed, NoRecord
<1>2. AuthTypeOK /\ RecordsOfCurrentEpoch /\ MirrorFaithful /\ [Next]_vars => MirrorFaithful'
  <2> SUFFICES ASSUME AuthTypeOK, RecordsOfCurrentEpoch, MirrorFaithful, [Next]_vars,
                      \A b \in Batches : Disciplined(b),
                      NEW L \in Displays, records'[L].armed
               PROVE  records'[L].cols = Policy[authEpoch'][L][records'[L].gen]
    BY DEF MirrorFaithful
  <2>0. records[L].armed => records[L].cols = Policy[authEpoch][L][records[L].gen]
    BY DEF MirrorFaithful
  <2>1. ASSUME NEW bb \in Batches, PeerCtlBatch(bb)
        PROVE  records'[L].cols = Policy[authEpoch'][L][records'[L].gen]
    <3>1. CASE UnstampedBatch(bb) \/ StaleEpochBatch(bb)
      BY <2>0, <3>1 DEF UnstampedBatch, StaleEpochBatch, authVars
    <3>2. CASE StaleGenerationBatch(bb)
      BY <2>0, <3>2, AdoptKeepsCurrent DEF StaleGenerationBatch
    <3>3. CASE CurrentBatch(bb)
      <4> DEFINE recs == RecordsAfterAdopt(bb.epoch, 0)
      <4>1. recs \in [Displays -> Record]
        BY AdoptType
      <4>2. PICK new \in Admissible(bb, recs) :
              records' = [M \in Displays |-> RecordAfterBatch(bb, recs, new, M)]
        BY <3>3 DEF CurrentBatch
      <4>3. records'[L] = RecordAfterBatch(bb, recs, new, L)
        BY <4>2
      <4>4. authEpoch' = bb.epoch
        BY <3>3 DEF CurrentBatch
      <4>5. recs[L].armed => /\ 1 <= recs[L].gen
                             /\ recs[L].cols = Policy[bb.epoch][L][recs[L].gen]
        BY <2>0, AdoptKeepsCurrent
      <4>6. CASE /\ records'[L].gen = bb.gen
                 /\ records'[L].cols = MirroredCols(bb, recs[L], L)
                 /\ L \in Named(bb)
                 /\ bb.op = "replace" \/ Follows(bb, recs, L)
        BY <4>1, <4>4, <4>5, <4>6, DisciplinedMirror
      <4>7. CASE /\ recs[L].armed
                 /\ records'[L].gen = recs[L].gen
                 /\ records'[L].cols = recs[L].cols
        BY <4>4, <4>5, <4>7
      <4> QED BY <4>1, <4>3, <4>6, <4>7, BatchRecordFields
    <3> QED BY <2>1, <3>1, <3>2, <3>3 DEF PeerCtlBatch, UnadoptedBatch
  <2>2. ASSUME NEW h \in Heartbeats, Heartbeat(h)
        PROVE  records'[L].cols = Policy[authEpoch'][L][records'[L].gen]
    <3>1. PICK w \in Waits :
            /\ authEpoch' = h.epoch
            /\ RecordsAfterAdopt(h.epoch, w)[L].armed
            /\ records'[L].gen = RecordsAfterAdopt(h.epoch, w)[L].gen
            /\ records'[L].cols = RecordsAfterAdopt(h.epoch, w)[L].cols
      BY <2>2, HeartbeatStep
    <3> QED BY <2>0, <3>1, AdoptKeepsCurrent
  <2>3. ASSUME NEW s \in Sessions, Join(s) \/ Leave(s)
        PROVE  records'[L].cols = Policy[authEpoch'][L][records'[L].gen]
    BY <2>0, <2>3 DEF Join, Leave, authVars
  <2>4. CASE Tick
    <3>1. records'[L] = [records[L] EXCEPT !.age = Older(@)]
      BY <2>4 DEF Tick
    <3>2. records[L] \in Record
      BY DEF AuthTypeOK
    <3>3. /\ records'[L].armed = records[L].armed /\ records'[L].gen = records[L].gen
          /\ records'[L].cols = records[L].cols
      BY <3>1, <3>2 DEF Record
    <3> QED BY <2>0, <2>4, <3>3 DEF Tick
  <2>5. CASE UNCHANGED vars
    BY <2>0, <2>5 DEF vars
  <2> QED BY <2>1, <2>2, <2>3, <2>4, <2>5 DEF Next
<1> QED BY <1>1, <1>2, AuthTypeCorrect, CurrentEpoch, PTL DEF Spec

----------------------------------------------------------------------------
(* The mix.  A leave is over before its session joins again. *)

\* What the mix needs to know of memberships: a session in the room is not in
\* the middle of a leave.
FeedShape ==
  /\ member \subseteq Sessions
  /\ leaving \in [Sessions -> LeavePhases]
  /\ cols = [s \in Sessions |-> cols[s]]
  /\ \A s \in member : leaving[s] = "no"

\* A step of the authority either leaves the columns alone or applies a batch.
LEMMA BatchFeed ==
  ASSUME NEW bb \in Batches, PeerCtlBatch(bb)
  PROVE  UNCHANGED feedVars \/ \E skip : ApplyBatch(bb, skip)
  BY DEF PeerCtlBatch, UnadoptedBatch, UnstampedBatch, StaleEpochBatch, StaleGenerationBatch, CurrentBatch,
         RefusedBatch

\* A heartbeat leaves the columns alone.
LEMMA HeartbeatFeed ==
  ASSUME NEW h \in Heartbeats, Heartbeat(h)
  PROVE  UNCHANGED feedVars
  BY DEF Heartbeat, StoppingHeartbeat, OutdatedHeartbeat, EvaluatedHeartbeat

\* A join starts from the record's columns or from the deferred ones.
LEMMA JoinFeed ==
  ASSUME NEW s \in Sessions, Join(s)
  PROVE  \E c : JoinWith(s, c)
  BY DEF Join, JoinReplay

\* A session that joins again has finished its last leave.
LEMMA FeedShapeCorrect ==
  ASSUME ~OverlapRejoin
  PROVE  Spec => []FeedShape
<1>1. Init => FeedShape
  BY DEF Init, FeedInit, FeedShape, LeavePhases
<1>2. FeedShape /\ [Next]_vars => FeedShape'
  <2> SUFFICES ASSUME FeedShape, [Next]_vars
               PROVE  FeedShape'
    OBVIOUS
  <2>0. CASE UNCHANGED feedVars
    BY <2>0 DEF feedVars, FeedShape
  <2>1. ASSUME NEW bb \in Batches, PeerCtlBatch(bb)
        PROVE  FeedShape'
    <3>1. ASSUME NEW skip, ApplyBatch(bb, skip)
          PROVE  FeedShape'
      BY <3>1 DEF ApplyBatch, FeedShape
    <3> QED BY <2>0, <2>1, <3>1, BatchFeed
  <2>2. ASSUME NEW h \in Heartbeats, Heartbeat(h)
        PROVE  FeedShape'
    BY <2>0, <2>2, HeartbeatFeed
  <2>3. ASSUME NEW s \in Sessions, Join(s)
        PROVE  FeedShape'
    <3>1. PICK c : JoinWith(s, c)
      BY <2>3, JoinFeed
    <3> QED BY <3>1 DEF JoinWith, FeedShape
  <2>4. ASSUME NEW s \in Sessions, Leave(s)
        PROVE  FeedShape'
    <3>1. CASE LeaveStart(s)
      BY <3>1 DEF LeaveStart, FeedShape, LeavePhases
    <3>2. CASE LeaveRemove(s)
      BY <3>2 DEF LeaveRemove, FeedShape, LeavePhases
    <3>3. CASE LeaveReset(s)
      BY <3>3 DEF LeaveReset, FeedShape, LeavePhases
    <3> QED BY <2>4, <3>1, <3>2, <3>3 DEF Leave, LeaveStep
  <2>5. CASE Tick
    BY <2>0, <2>5 DEF Tick, feedVars
  <2>6. CASE UNCHANGED vars
    BY <2>0, <2>6 DEF vars, feedVars
  <2> QED BY <2>1, <2>2, <2>3, <2>4, <2>5, <2>6 DEF Next
<1> QED BY <1>1, <1>2, PTL DEF Spec

\* A batch in order does to the columns of a session what it does to the
\* mirror of the session's display.
LEMMA BatchMixesAsMirrored ==
  ASSUME AuthTypeOK, RecordsOfCurrentEpoch, Enforced,
         NEW bb \in Batches, Disciplined(bb), CurrentBatch(bb),
         NEW s \in Sessions, s \in Participants,
         records[DisplayOf[s]].armed => cols[s] = records[DisplayOf[s]].cols,
         records'[DisplayOf[s]].armed
  PROVE  cols'[s] = records'[DisplayOf[s]].cols
<1> DEFINE L == DisplayOf[s]
           recs == RecordsAfterAdopt(bb.epoch, 0)
           skip == Skip(bb, recs)
<1>1. L \in Displays
  BY FeedAssumption
<1>2. recs \in [Displays -> Record]
  BY AdoptType
<1>3. PICK new \in Admissible(bb, recs) :
        records' = [M \in Displays |-> RecordAfterBatch(bb, recs, new, M)]
  BY DEF CurrentBatch
<1>4. records'[L] = RecordAfterBatch(bb, recs, new, L)
  BY <1>1, <1>3
<1>5. cols'[s] = [excl |-> ChannelAfter(bb, "excl", skip, s),
                  mute |-> ChannelAfter(bb, "mute", skip, s)]
  BY DEF CurrentBatch, ApplyBatch
<1>6. recs[L].armed => cols[s] = recs[L].cols /\ recs[L].cols \in Cols
  <2>1. recs[L].armed => recs = records
    BY <1>1, AdoptKeepsCurrent
  <2>2. recs[L].cols \in Cols
    BY <1>1, <1>2 DEF Record
  <2> QED BY <2>1, <2>2
<1>7. CASE /\ records'[L].cols = MirroredCols(bb, recs[L], L)
           /\ L \in Named(bb)
           /\ bb.op = "replace" \/ Follows(bb, recs, L)
  <2>1. L \notin skip
    BY <1>7 DEF Skip
  <2>2. /\ ChannelAfter(bb, "excl", skip, s) = ColumnAfter(bb, "excl", L, cols[s]["excl"])
        /\ ChannelAfter(bb, "mute", skip, s) = ColumnAfter(bb, "mute", L, cols[s]["mute"])
    BY <2>1 DEF ChannelAfter, EntryApplies, ColumnAfter
  <2>3. CASE bb.op = "replace"
    <3>1. L \in DOMAIN bb.excl /\ L \in DOMAIN bb.mute
      BY <1>7, <2>3 DEF Disciplined, Named
    <3>2. \A c1, c2 : /\ ColumnAfter(bb, "excl", L, c1) = ColumnAfter(bb, "excl", L, c2)
                      /\ ColumnAfter(bb, "mute", L, c1) = ColumnAfter(bb, "mute", L, c2)
      BY <2>3, <3>1 DEF ColumnAfter, ApplyOp
    <3>3. /\ ChannelAfter(bb, "excl", skip, s) = ColumnAfter(bb, "excl", L, recs[L].cols.excl)
          /\ ChannelAfter(bb, "mute", skip, s) = ColumnAfter(bb, "mute", L, recs[L].cols.mute)
      BY <2>2, <3>2
    <3> QED BY <1>5, <1>7, <3>3 DEF MirroredCols
  <2>4. CASE Follows(bb, recs, L)
    BY <1>5, <1>6, <1>7, <2>2, <2>4 DEF MirroredCols, Follows
  <2> QED BY <1>7, <2>3, <2>4
<1>8. CASE /\ recs[L].armed
           /\ records'[L].cols = recs[L].cols
           /\ L \notin Named(bb) \/ (bb.op # "replace" /\ ~Follows(bb, recs, L))
  <2>1. L \notin Named(bb) \/ L \in skip
    BY <1>8 DEF Skip
  <2>2. /\ ChannelAfter(bb, "excl", skip, s) = cols[s]["excl"]
        /\ ChannelAfter(bb, "mute", skip, s) = cols[s]["mute"]
    BY <2>1 DEF ChannelAfter, EntryApplies, Named
  <2> QED BY <1>5, <1>6, <1>8, <2>2 DEF Cols
<1> QED BY <1>1, <1>2, <1>4, <1>7, <1>8, BatchRecordFields

\* MixFollowsRecord holds for every instance in which the simulators follow
\* the arming protocol and a leave ends before its session joins again.
THEOREM MixCorrect ==
  ASSUME \A b \in Batches : Disciplined(b), ~OverlapRejoin
  PROVE  Spec => []MixFollowsRecord
<1>1. Init => MixFollowsRecord
  BY FeedAssumption DEF Init, FeedInit, MixFollowsRecord, Unarmed, NoRecord, Participants
<1>2. AuthTypeOK /\ RecordsOfCurrentEpoch /\ FeedShape /\ MixFollowsRecord /\ [Next]_vars
        => MixFollowsRecord'
  <2> SUFFICES ASSUME AuthTypeOK, RecordsOfCurrentEpoch, FeedShape, MixFollowsRecord,
                      [Next]_vars, Enforced,
                      NEW s, s \in Participants', records'[DisplayOf[s]].armed
               PROVE  cols'[s] = records'[DisplayOf[s]].cols
    BY DEF MixFollowsRecord, Enforced
  <2> DEFINE L == DisplayOf[s]
  <2>0. s \in Participants /\ records[L].armed => cols[s] = records[L].cols
    BY DEF MixFollowsRecord
  <2>1. ASSUME NEW bb \in Batches, PeerCtlBatch(bb)
        PROVE  cols'[s] = records'[L].cols
    <3>1. UNCHANGED <<member, leaving>>
      BY <2>1, BatchFeed DEF ApplyBatch, feedVars
    <3>2. s \in Sessions /\ s \in Participants /\ L \in Displays
      BY <3>1, FeedAssumption DEF Participants, FeedShape
    <3>3. CASE StaleEpochBatch(bb)
      BY <2>0, <3>2, <3>3 DEF StaleEpochBatch, RefusedBatch, authVars, feedVars
    <3>4. CASE StaleGenerationBatch(bb)
      <4>1. records'[L] = RecordsAfterAdopt(bb.epoch, 0)[L] /\ cols' = cols
        BY <3>4 DEF StaleGenerationBatch, RefusedBatch, feedVars
      <4>2. records'[L] = records[L]
        BY <3>2, <4>1, AdoptKeepsCurrent
      <4> QED BY <2>0, <3>2, <4>1, <4>2
    <3>5. CASE CurrentBatch(bb)
      BY <2>0, <3>2, <3>5, BatchMixesAsMirrored
    <3> QED BY <2>1, <3>3, <3>4, <3>5 DEF PeerCtlBatch, UnadoptedBatch, UnstampedBatch, Disciplined
  <2>2. ASSUME NEW h \in Heartbeats, Heartbeat(h)
        PROVE  cols'[s] = records'[L].cols
    <3>1. cols' = cols /\ s \in Participants /\ s \in Sessions
      BY <2>2, HeartbeatFeed DEF feedVars, Participants, FeedShape
    <3>2. L \in Displays
      BY <3>1, FeedAssumption
    <3>3. PICK w \in Waits : /\ RecordsAfterAdopt(h.epoch, w)[L].armed
                             /\ records'[L].cols = RecordsAfterAdopt(h.epoch, w)[L].cols
      BY <2>2, <3>2, HeartbeatStep
    <3>4. RecordsAfterAdopt(h.epoch, w)[L] = records[L]
      BY <3>2, <3>3, AdoptKeepsCurrent
    <3> QED BY <2>0, <3>1, <3>3, <3>4
  <2>3. ASSUME NEW t \in Sessions, Join(t)
        PROVE  cols'[s] = records'[L].cols
    <3>1. records' = records
      BY <2>3 DEF Join, authVars
    <3>2. PICK c : JoinWith(t, c)
      BY <2>3, JoinFeed
    <3>3. CASE s # t
      <4>1. s \in Participants /\ cols'[s] = cols[s]
        BY <3>2, <3>3 DEF JoinWith, Participants, FeedShape
      <4> QED BY <2>0, <3>1, <4>1
    <3>4. CASE s = t
      <4>1. L \in Displays
        BY <3>4, FeedAssumption
      <4>2. records[L].armed /\ records[L].epoch = authEpoch
        BY <3>1, <4>1 DEF RecordsOfCurrentEpoch
      <4>3. JoinWith(t, records[L].cols)
        BY <2>3, <3>4, <4>2 DEF Join
      <4> QED BY <3>1, <3>4, <4>3 DEF JoinWith, FeedShape
    <3> QED BY <3>3, <3>4
  <2>4. ASSUME NEW t \in Sessions, Leave(t)
        PROVE  cols'[s] = records'[L].cols
    <3>1. records' = records
      BY <2>4 DEF Leave, authVars
    <3>2. s \in Participants /\ cols'[s] = cols[s]
      <4>1. CASE LeaveStart(t)
        BY <4>1 DEF LeaveStart, Participants, FeedShape, LeavePhases
      <4>2. CASE LeaveRemove(t)
        BY <4>2 DEF LeaveRemove, Participants, FeedShape, LeavePhases
      <4>3. CASE LeaveReset(t)
        BY <4>3 DEF LeaveReset, Participants, FeedShape, LeavePhases
      <4> QED BY <2>4, <4>1, <4>2, <4>3 DEF Leave, LeaveStep
    <3> QED BY <2>0, <3>1, <3>2
  <2>5. CASE Tick
    <3>1. s \in Participants /\ cols' = cols /\ L \in Displays
      BY <2>5, FeedAssumption DEF Tick, Participants, FeedShape
    <3>2. records'[L] = [records[L] EXCEPT !.age = Older(@)] /\ records[L] \in Record
      BY <2>5, <3>1 DEF Tick, AuthTypeOK
    <3>3. records'[L].armed = records[L].armed /\ records'[L].cols = records[L].cols
      BY <3>2 DEF Record
    <3> QED BY <2>0, <3>1, <3>3
  <2>6. CASE UNCHANGED vars
    BY <2>0, <2>6 DEF vars, Participants
  <2> QED BY <2>1, <2>2, <2>3, <2>4, <2>5, <2>6 DEF Next
<1> QED BY <1>1, <1>2, AuthTypeCorrect, CurrentEpoch, FeedShapeCorrect, PTL DEF Spec

\* Only an armed, fresh record of the epoch in force puts a display in row 4.
LEMMA RowFour ==
  ASSUME NEW L \in Displays, Row(L) = 4
  PROVE  records[L].armed /\ ~records[L].stale /\ ~(records[L].age > StaleWindow)
  BY DEF Row, VisRow

\* The fail-closed promise for every instance: what a listener is sent, the
\* authority in force allows, on the word of a fresh record at both ends.
THEOREM FailClosedCorrect ==
  ASSUME \A b \in Batches : Disciplined(b), ~OverlapRejoin
  PROVE  Spec => []HeardIsAllowed
<1>1. AuthTypeOK /\ FeedShape /\ MirrorFaithful /\ MixFollowsRecord => HeardIsAllowed
  <2> SUFFICES ASSUME AuthTypeOK, FeedShape, MirrorFaithful, MixFollowsRecord, Enforced,
                      NEW l \in Sessions, NEW s \in Sessions, Audible(l, s)
               PROVE  LET r == records[DisplayOf[l]]
                          p == Policy[authEpoch][DisplayOf[l]][r.gen]
                      IN  /\ DisplayOf[s] \notin p.excl \union p.mute
                          /\ r.age <= StaleWindow /\ records[DisplayOf[s]].age <= StaleWindow
                          /\ ~r.stale /\ ~records[DisplayOf[s]].stale
    BY DEF HeardIsAllowed
  <2> DEFINE L == DisplayOf[l]
             S == DisplayOf[s]
  <2>1. L \in Displays /\ S \in Displays
    BY FeedAssumption
  <2>2. Row(L) = 4 /\ Row(S) = 4
    BY DEF Audible, PairVisible
  <2>3. /\ records[L].armed /\ ~records[L].stale /\ ~(records[L].age > StaleWindow)
        /\ records[S].armed /\ ~records[S].stale /\ ~(records[S].age > StaleWindow)
    BY <2>1, <2>2, RowFour
  <2>4. records[L].age <= StaleWindow /\ records[S].age <= StaleWindow
    <3>1. records[L].age \in Int /\ records[S].age \in Int /\ StaleWindow \in Int
      BY <2>1, ClockAssumption DEF AuthTypeOK, Record, Ages
    <3> QED BY <2>3, <3>1
  <2>5. cols[l] = Policy[authEpoch][L][records[L].gen]
    BY <2>1, <2>3 DEF Audible, MixFollowsRecord, MirrorFaithful
  <2>6. S \notin cols[l].excl \union cols[l].mute
    BY DEF Audible
  <2> QED BY <2>3, <2>4, <2>5, <2>6
<1> QED BY <1>1, AuthTypeCorrect, FeedShapeCorrect, MirrorCorrect, MixCorrect, PTL

----------------------------------------------------------------------------
\* What a step may never do

\* A step is a message the authority check lets through, or it leaves the
\* epoch, the generations and the standing of every record alone.
LEMMA BooksStep ==
  ASSUME AuthTypeOK, [Next]_vars
  PROVE  \/ /\ authEpoch' = authEpoch /\ policyGen' = policyGen
            /\ \A L \in Displays :
                 /\ records'[L].armed = records[L].armed
                 /\ records'[L].stale = records[L].stale
                 /\ records'[L].gen = records[L].gen
         \/ \E bb \in Batches : StaleGenerationBatch(bb) \/ CurrentBatch(bb)
         \/ \E h \in Heartbeats : Heartbeat(h)
<1>1. ASSUME NEW bb \in Batches, PeerCtlBatch(bb)
      PROVE  StaleGenerationBatch(bb) \/ CurrentBatch(bb) \/ UNCHANGED authVars
  BY <1>1 DEF PeerCtlBatch, UnadoptedBatch, UnstampedBatch, StaleEpochBatch
<1>2. ASSUME NEW s \in Sessions, Join(s) \/ Leave(s) PROVE UNCHANGED authVars
  BY <1>2 DEF Join, Leave
<1>3. CASE Tick
  <2>1. ASSUME NEW L \in Displays
        PROVE  /\ records'[L].armed = records[L].armed
               /\ records'[L].stale = records[L].stale
               /\ records'[L].gen = records[L].gen
    <3>1. records'[L] = [records[L] EXCEPT !.age = Older(@)] /\ records[L] \in Record
      BY <1>3 DEF Tick, AuthTypeOK
    <3> QED BY <3>1 DEF Record
  <2> QED BY <1>3, <2>1 DEF Tick
<1>4. UNCHANGED vars => UNCHANGED authVars
  BY DEF vars, authVars
<1>5. CASE UNCHANGED authVars
  BY <1>5 DEF authVars
<1> QED BY <1>1, <1>2, <1>3, <1>4, <1>5 DEF Next

\* A message that is not refused as stale comes from a higher epoch, from the
\* one in force, or when the one in force has gone quiet.
LEMMA VerdictCases ==
  ASSUME AuthTypeOK, NEW e \in Epochs, NEW w \in Waits, Verdict(e, w) # "stale"
  PROVE  /\ e < authEpoch => AuthorityStale(authAge)
         /\ e = authEpoch => /\ Verdict(e, w) = "equal"
                             /\ RecordsAfterAdopt(e, w) = records
                             /\ GenAfterAdopt(e, w) = policyGen
<1>1. /\ e \in Nat /\ e >= 1 /\ authEpoch \in Nat /\ w \in Nat /\ authAge \in Nat
      /\ StaleWindow \in Nat
  BY AuthorityAssumption, ClockAssumption DEF AuthTypeOK, Epochs, Waits, Ages, Expired
<1>2. ASSUME e < authEpoch PROVE AuthorityStale(authAge)
  <2>1. AuthorityStale(authAge - w)
    BY <1>1, <1>2 DEF Verdict, EpochDecide
  <2> QED BY <1>1, <2>1 DEF AuthorityStale
<1>3. ASSUME e = authEpoch PROVE Verdict(e, w) = "equal"
  BY <1>1, <1>3 DEF Verdict, EpochDecide
<1> QED BY <1>2, <1>3 DEF RecordsAfterAdopt, GenAfterAdopt

\* The order a batch in the current epoch keeps
LEMMA BatchOrdered ==
  ASSUME AuthTypeOK, RecordsOfCurrentEpoch, NEW bb \in Batches,
         StaleGenerationBatch(bb) \/ CurrentBatch(bb)
  PROVE  /\ authEpoch' < authEpoch => AuthorityStale(authAge)
         /\ authEpoch' = authEpoch =>
              /\ policyGen' >= policyGen
              /\ CurrentBatch(bb) => policyGen' > policyGen
              /\ \A L \in Displays :
                   records[L].armed /\ records'[L].armed => records'[L].gen >= records[L].gen
<1>1. /\ bb.epoch \in Epochs /\ bb.gen \in Nat /\ 0 \in Waits /\ policyGen \in Nat
      /\ \A L \in Displays : records[L].gen \in Nat
  BY AuthorityAssumption, WindowFacts
     DEF StaleGenerationBatch, CurrentBatch, IsBatch, Epochs, Gens, AuthTypeOK, Record
<1>2. Verdict(bb.epoch, 0) # "stale" /\ authEpoch' = bb.epoch
  BY DEF StaleGenerationBatch, CurrentBatch
<1>3. authEpoch' < authEpoch => AuthorityStale(authAge)
  BY <1>1, <1>2, VerdictCases
<1>4. ASSUME authEpoch' = authEpoch
      PROVE  /\ policyGen' >= policyGen
             /\ CurrentBatch(bb) => policyGen' > policyGen
             /\ \A L \in Displays :
                  records[L].armed /\ records'[L].armed => records'[L].gen >= records[L].gen
  <2>1. RecordsAfterAdopt(bb.epoch, 0) = records /\ GenAfterAdopt(bb.epoch, 0) = policyGen
    BY <1>1, <1>2, <1>4, VerdictCases
  <2>2. CASE CurrentBatch(bb)
    <3>1. policyGen' = bb.gen /\ bb.gen > policyGen
      BY <1>1, <2>1, <2>2 DEF CurrentBatch, OutOfOrder
    <3>2. PICK new : records' = [L \in Displays |-> RecordAfterBatch(bb, records, new, L)]
      BY <2>1, <2>2 DEF CurrentBatch
    <3>3. ASSUME NEW L \in Displays, records[L].armed, records'[L].armed
          PROVE  records'[L].gen >= records[L].gen
      <4>1. records'[L].gen = bb.gen \/ records'[L].gen = records[L].gen
        BY <3>2, <3>3, BatchRecordFields DEF AuthTypeOK
      <4>2. records[L].gen <= policyGen
        BY <3>3 DEF RecordsOfCurrentEpoch
      <4> QED BY <1>1, <3>1, <4>1, <4>2
    <3> QED BY <1>1, <3>1, <3>3
  <2>3. CASE StaleGenerationBatch(bb)
    <3>1. policyGen' = policyGen /\ records' = records /\ ~(bb.gen > policyGen)
      BY <1>1, <2>1, <2>3 DEF StaleGenerationBatch, OutOfOrder
    <3>2. ~CurrentBatch(bb)
      BY <2>3 DEF StaleGenerationBatch, CurrentBatch
    <3> QED BY <1>1, <3>1, <3>2
  <2> QED BY <2>2, <2>3
<1> QED BY <1>3, <1>4

\* Authorities and generations are ordered: AuthorityOrdered holds for every
\* instance.
THEOREM AuthorityOrderedCorrect == Spec => AuthorityOrdered
<1> DEFINE Ordered ==
      /\ authEpoch' < authEpoch => AuthorityStale(authAge)
      /\ authEpoch' = authEpoch =>
           /\ policyGen' >= policyGen
           /\ \A L \in Displays :
                records[L].armed /\ records'[L].armed => records'[L].gen >= records[L].gen
<1>1. AuthTypeOK /\ RecordsOfCurrentEpoch /\ [Next]_vars => Ordered
  <2> SUFFICES ASSUME AuthTypeOK, RecordsOfCurrentEpoch, [Next]_vars PROVE Ordered
    OBVIOUS
  <2>0. /\ authEpoch \in Nat /\ policyGen \in Nat
        /\ \A L \in Displays : records[L].gen \in Nat
    BY AuthorityAssumption DEF AuthTypeOK, Record
  <2>1. CASE /\ authEpoch' = authEpoch /\ policyGen' = policyGen
             /\ \A L \in Displays : records'[L].gen = records[L].gen
    BY <2>0, <2>1
  <2>2. ASSUME NEW bb \in Batches, StaleGenerationBatch(bb) \/ CurrentBatch(bb)
        PROVE  Ordered
    BY <2>2, BatchOrdered
  <2>3. ASSUME NEW h \in Heartbeats, Heartbeat(h) PROVE Ordered
    <3>1. PICK w \in Waits :
            /\ Verdict(h.epoch, w) # "stale"
            /\ authEpoch' = h.epoch
            /\ policyGen' = GenAfterAdopt(h.epoch, w)
            /\ \A L \in Displays :
                 records'[L].armed => records'[L].gen = RecordsAfterAdopt(h.epoch, w)[L].gen
      BY <2>3, HeartbeatStep
    <3>2. h.epoch \in Epochs
      BY AuthorityAssumption DEF IsHeartbeat
    <3> QED BY <2>0, <3>1, <3>2, VerdictCases
  <2> QED BY <2>1, <2>2, <2>3, BooksStep
<1>2. AuthTypeOK /\ RecordsOfCurrentEpoch /\ [Next]_vars => [Ordered]_vars
  BY <1>1
<1> QED BY <1>2, AuthTypeCorrect, CurrentEpoch, PTL DEF Spec, AuthorityOrdered

\* A heartbeat does not clear a stale flag.
LEMMA HeartbeatKeepsStale ==
  ASSUME AuthTypeOK, RecordsOfCurrentEpoch, NEW h \in Heartbeats, Heartbeat(h),
         NEW L \in Displays, records'[L].armed, ~records[L].armed \/ records[L].stale
  PROVE  records'[L].stale
<1>1. PICK w \in Waits :
        \/ StoppingHeartbeat(h, w)
        \/ OutdatedHeartbeat(h, w)
        \/ EvaluatedHeartbeat(h, w)
  BY DEF Heartbeat
<1> DEFINE recs == RecordsAfterAdopt(h.epoch, w)
<1>2. recs \in [Displays -> Record]
  BY AdoptType
<1>3. recs[L] \in Record
  BY <1>2
<1>4. ASSUME recs[L].armed PROVE recs[L].stale
  BY <1>4, AdoptKeepsCurrent
<1>5. CASE StoppingHeartbeat(h, w)
  <2>1. records'[L] = IF recs[L].armed THEN [recs[L] EXCEPT !.stale = TRUE] ELSE recs[L]
    BY <1>5 DEF StoppingHeartbeat
  <2> QED BY <1>3, <2>1 DEF Record
<1>6. CASE OutdatedHeartbeat(h, w)
  BY <1>4, <1>6 DEF OutdatedHeartbeat
<1>7. CASE EvaluatedHeartbeat(h, w)
  <2>1. records'[L] = RecordAfterHeartbeat(h, recs[L], L, w)
    BY <1>7 DEF EvaluatedHeartbeat
  <2> QED BY <1>3, <1>4, <2>1 DEF RecordAfterHeartbeat, NoRecord, Record
<1> QED BY <1>1, <1>5, <1>6, <1>7

\* Of the batches, only a replace gives a record that is armed and not stale
\* to a listener that had none.
LEMMA BatchArms ==
  ASSUME AuthTypeOK, RecordsOfCurrentEpoch, NEW bb \in Batches,
         StaleGenerationBatch(bb) \/ CurrentBatch(bb),
         NEW L \in Displays, records'[L].armed, ~records'[L].stale,
         ~records[L].armed \/ records[L].stale
  PROVE  /\ CurrentBatch(bb) /\ bb.op = "replace" /\ L \in Named(bb)
         /\ records'[L].gen = bb.gen
<1> DEFINE recs == RecordsAfterAdopt(bb.epoch, 0)
<1>1. recs \in [Displays -> Record]
  BY AdoptType
<1>2. recs[L] \in Record
  BY <1>1
<1>3. ASSUME recs[L].armed PROVE recs[L].stale
  BY <1>3, AdoptKeepsCurrent
<1>4. CurrentBatch(bb)
  <2>1. ASSUME StaleGenerationBatch(bb) PROVE FALSE
    BY <1>3, <2>1 DEF StaleGenerationBatch
  <2> QED BY <2>1
<1>5. PICK new : records' = [M \in Displays |-> RecordAfterBatch(bb, recs, new, M)]
  BY <1>4 DEF CurrentBatch
<1>6. records'[L] = RecordAfterBatch(bb, recs, new, L)
  BY <1>5
<1>7. L \in Named(bb)
  BY <1>3, <1>6 DEF RecordAfterBatch
<1>8. bb.op = "replace"
  <2> SUFFICES ASSUME bb.op # "replace" PROVE FALSE
    OBVIOUS
  <2>1. CASE Follows(bb, recs, L)
    <3>1. records'[L] = AdvancedRecord(bb, recs[L], L)
      BY <1>6, <1>7, <2>1 DEF RecordAfterBatch
    <3>2. records'[L].stale = recs[L].stale
      BY <1>2, <3>1 DEF AdvancedRecord, Record
    <3> QED BY <1>3, <2>1, <3>2 DEF Follows
  <2>2. CASE ~Follows(bb, recs, L) /\ recs[L].armed
    <3>1. records'[L] = [recs[L] EXCEPT !.stale = TRUE]
      BY <1>6, <1>7, <2>2 DEF RecordAfterBatch
    <3> QED BY <1>2, <3>1 DEF Record
  <2>3. CASE ~Follows(bb, recs, L) /\ ~recs[L].armed
    BY <1>6, <1>7, <2>3 DEF RecordAfterBatch
  <2> QED BY <2>1, <2>2, <2>3
<1>9. records'[L].gen = bb.gen
  <2>1. records'[L] = ArmedRecord(bb, recs[L], L)
    BY <1>6, <1>7, <1>8 DEF RecordAfterBatch
  <2> QED BY <2>1 DEF ArmedRecord
<1> QED BY <1>4, <1>7, <1>8, <1>9

\* Only a replace of a new generation arms a listener or takes a stale mark
\* away: OnlyReplaceArms holds for every instance.
THEOREM OnlyReplaceArmsCorrect == Spec => OnlyReplaceArms
<1> DEFINE Rearmed(L) == /\ ~records[L].armed \/ records[L].stale
                         /\ records'[L].armed /\ ~records'[L].stale
           ByReplace(L) ==
             /\ records'[L].gen = policyGen'
             /\ authEpoch' # authEpoch \/ policyGen' > policyGen
             /\ \E b \in Batches : /\ b.op = "replace" /\ L \in Named(b)
                                   /\ b.epoch = authEpoch' /\ b.gen = policyGen'
<1>1. ASSUME AuthTypeOK, RecordsOfCurrentEpoch, [Next]_vars, NEW L \in Displays, Rearmed(L)
      PROVE  ByReplace(L)
  <2>1. ASSUME NEW h \in Heartbeats, Heartbeat(h) PROVE FALSE
    BY <1>1, <2>1, HeartbeatKeepsStale
  <2>2. PICK bb \in Batches : StaleGenerationBatch(bb) \/ CurrentBatch(bb)
    BY <1>1, <2>1, BooksStep
  <2>3. /\ CurrentBatch(bb) /\ bb.op = "replace" /\ L \in Named(bb)
        /\ records'[L].gen = bb.gen
    BY <1>1, <2>2, BatchArms
  <2>4. authEpoch' = bb.epoch /\ policyGen' = bb.gen
    BY <2>3 DEF CurrentBatch
  <2>5. authEpoch' = authEpoch => policyGen' > policyGen
    BY <1>1, <2>3, BatchOrdered
  <2> QED BY <2>3, <2>4, <2>5
<1>2. AuthTypeOK /\ RecordsOfCurrentEpoch /\ [Next]_vars
        => [\A L \in Displays : Rearmed(L) => ByReplace(L)]_vars
  BY <1>1
<1> QED BY <1>2, AuthTypeCorrect, CurrentEpoch, PTL DEF Spec, OnlyReplaceArms

\* The reply to a heartbeat names every listed listener that is silent after it.
THEOREM ReportsCorrect == Spec => HeartbeatReportsSilent
<1> DEFINE Reported(h, w) ==
      LET recs == RecordsAfterAdopt(h.epoch, w)
      IN  \A L \in DOMAIN h.listeners :
            \/ Row(L)' = 4
            \/ L \in ReportedStale(h, recs) \union ReportedUnarmed(h, recs)
<1>1. ASSUME AuthTypeOK, NEW h \in Heartbeats, NEW w \in Waits, EvaluatedHeartbeat(h, w)
      PROVE  Reported(h, w)
  <2> DEFINE recs == RecordsAfterAdopt(h.epoch, w)
  <2> SUFFICES ASSUME NEW L \in DOMAIN h.listeners,
                      L \notin ReportedStale(h, recs), L \notin ReportedUnarmed(h, recs)
               PROVE  Row(L)' = 4
    OBVIOUS
  <2>1. L \in Displays /\ h.epoch # 0
    BY AuthorityAssumption DEF IsHeartbeat, Epochs
  <2>2. recs[L] \in Record
    BY <1>1, <2>1, AdoptType
  <2>3. recs[L].armed /\ recs[L].epoch = h.epoch
    BY DEF ReportedUnarmed
  <2>4. h.listeners[L] = recs[L].gen /\ ~recs[L].stale
    BY <2>3 DEF ReportedStale
  <2>5. records'[L] = [recs[L] EXCEPT !.age = w]
    BY <1>1, <2>1, <2>3, <2>4 DEF EvaluatedHeartbeat, RecordAfterHeartbeat
  <2>6. /\ records'[L].armed /\ records'[L].epoch = h.epoch /\ ~records'[L].stale
        /\ records'[L].age = w
    BY <2>2, <2>3, <2>4, <2>5 DEF Record
  <2>7. authEpoch' = h.epoch /\ ~(w > StaleWindow)
    BY <1>1, WindowFacts, ClockAssumption DEF EvaluatedHeartbeat
  <2> QED BY <2>1, <2>6, <2>7 DEF Row, VisRow
<1>2. AuthTypeOK /\ [Next]_vars
        => [\A h \in Heartbeats, wait \in Waits : EvaluatedHeartbeat(h, wait)
              => Reported(h, wait)]_vars
  BY <1>1
<1> QED BY <1>2, AuthTypeCorrect, PTL DEF Spec, HeartbeatReportsSilent

\* A heartbeat that was built before the batch that set a listener's record spares that
\* listener: LateHeartbeatSpares holds for every instance.
THEOREM LateHeartbeatCorrect == Spec => LateHeartbeatSpares
<1> DEFINE Late(h, L) ==
             /\ records[L].armed /\ ~records[L].stale
             /\ h.epoch = authEpoch /\ ~h.stopping
             /\ 0 <= h.asOf /\ h.asOf < records[L].gen
             /\ Heartbeat(h)
           Spared(L) == records'[L].armed /\ ~records'[L].stale
<1>1. ASSUME AuthTypeOK, RecordsOfCurrentEpoch, NEW h \in Heartbeats, NEW L \in Displays, Late(h, L)
      PROVE  Spared(L)
  <2>1. PICK w \in Waits : \/ StoppingHeartbeat(h, w)
                           \/ OutdatedHeartbeat(h, w)
                           \/ EvaluatedHeartbeat(h, w)
    BY <1>1 DEF Heartbeat
  <2>2. h.epoch # 0 /\ h.asOf \in Int
    BY <1>1, AuthorityAssumption DEF IsHeartbeat, Epochs
  <2>3. authEpoch \in Nat
    BY <1>1, AuthorityAssumption DEF AuthTypeOK
  <2>4. Verdict(h.epoch, w) = "equal"
    BY <1>1, <2>2, <2>3 DEF Verdict, EpochDecide
  <2>5. GenAfterAdopt(h.epoch, w) = policyGen /\ RecordsAfterAdopt(h.epoch, w) = records
    BY <2>4 DEF GenAfterAdopt, RecordsAfterAdopt
  <2>6. records[L].gen <= policyGen /\ policyGen \in Int /\ records[L].gen \in Int
    BY <1>1, AuthorityAssumption DEF AuthTypeOK, Record, RecordsOfCurrentEpoch
  <2>7. h.asOf < policyGen
    BY <1>1, <2>2, <2>6
  <2>8. Outdated(h, w)
    BY <1>1, <2>5, <2>7 DEF Outdated
  <2>9. OutdatedHeartbeat(h, w)
    BY <1>1, <2>1, <2>8 DEF StoppingHeartbeat, EvaluatedHeartbeat
  <2> QED BY <1>1, <2>5, <2>9 DEF OutdatedHeartbeat
<1>2. AuthTypeOK /\ RecordsOfCurrentEpoch /\ [Next]_vars
        => [\A h \in Heartbeats, L \in Displays : Late(h, L) => Spared(L)]_vars
  BY <1>1
<1> QED BY <1>2, AuthTypeCorrect, CurrentEpoch, PTL DEF Spec, LateHeartbeatSpares

\* Without enforcement a batch is applied whole, whatever the check says of it.
LEMMA ShadowBatch ==
  ASSUME ~Enforced, NEW bb \in Batches, PeerCtlBatch(bb)
  PROVE  ApplyBatch(bb, {})
<1>1. Skip(bb, RecordsAfterAdopt(bb.epoch, 0)) = {}
  BY DEF Skip
<1> QED BY <1>1 DEF PeerCtlBatch, UnadoptedBatch, UnstampedBatch, StaleEpochBatch,
                    StaleGenerationBatch, CurrentBatch, RefusedBatch

\* Shadow mode ignores no batch either: ShadowApplies for every instance.
THEOREM ShadowAppliesCorrect == Spec => ShadowApplies
<1>1. [Next]_vars => [\A b \in Batches : ~Enforced /\ PeerCtlBatch(b) => ApplyBatch(b, {})]_vars
  BY ShadowBatch
<1> QED BY <1>1, PTL DEF Spec, ShadowApplies

\* Shadow mode changes nothing: with fail-closed off, or in a room that was
\* not declared, the room behaves as the feed without an authority does.
THEOREM ShadowRefinesFeed ==
  ASSUME ~Enforced
  PROVE  Spec => FeedSpec
<1>1. Init => FeedInit
  BY DEF Init
<1>2. [Next]_vars => [FeedNext]_feedVars
  <2> SUFFICES ASSUME [Next]_vars
               PROVE  FeedNext \/ UNCHANGED feedVars
    OBVIOUS
  <2>1. ASSUME NEW bb \in Batches, PeerCtlBatch(bb)
        PROVE  ApplyBatch(bb, {})
    BY <2>1, ShadowBatch
  <2>2. ASSUME NEW s \in Sessions, Join(s)
        PROVE  JoinReplay(s)
    BY <2>2 DEF Join
  <2>3. ASSUME NEW s \in Sessions, Leave(s)
        PROVE  LeaveStep(s)
    BY <2>3 DEF Leave
  <2>4. CASE Tick \/ UNCHANGED vars
    BY <2>4 DEF Tick, vars, feedVars
  <2> QED BY <2>1, <2>2, <2>3, <2>4, HeartbeatFeed DEF Next, FeedNext
<1> QED BY <1>1, <1>2, PTL DEF Spec, FeedSpec
=============================================================================
