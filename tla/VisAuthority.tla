----------------------------- MODULE VisAuthority -----------------------------
(***************************************************************************)
(* The visibility authority of one room (src/src/janus_slvoice.c): which   *)
(* simulator instance (epoch) speaks for the room, which of its policy     *)
(* generations the room has applied, and one record per listener display   *)
(* saying whether that listener is armed, at which generation, with which  *)
(* columns, and when this was last confirmed.  Batches and heartbeats      *)
(* reach the mixer over HTTP in separate flights, so any message may be    *)
(* delivered late, twice, out of order or never.                           *)
(*                                                                         *)
(* Every message is handled under one hold of room->mutex, hence is one    *)
(* step.  With fail-closed on, in a declared room, the authority decides   *)
(* what is applied; otherwise (shadow mode) it only keeps its books.       *)
(***************************************************************************)
EXTENDS ColumnFeed, VisRules

CONSTANTS
  MaxEpoch,      \* largest room_epoch (2^64 - 1 on the wire)
  MaxGen,        \* largest policy_generation (2^32 - 1 on the wire)
  MaxRecords,    \* SLV_VIS_MAX_RECORDS
  FailClosed,    \* JS_VIS_FAIL_CLOSED
  VisDeclared,   \* the room was created with vis_authority
  Heartbeats,    \* the heartbeat entries for this room a simulator may send
  Policy         \* Policy[e][L][g]: the columns simulator e holds for L at
                 \* its generation g

Epochs == 1 .. MaxEpoch

Gens == 1 .. MaxGen

\* A batch as slv_visbatch_parse leaves it.  epoch 0: no authority stamp.
\* base: the generation the simulator believes the mixer holds for the
\* listener; 0 stands for a missing one, which no record can match.
IsBatch(b) ==
  /\ b.epoch \in 0 .. MaxEpoch
  /\ b.gen \in Gens
  /\ b.op \in Ops
  /\ DOMAIN b.excl \subseteq Displays /\ DOMAIN b.mute \subseteq Displays
  /\ b.excl \in [DOMAIN b.excl -> SUBSET Displays]
  /\ b.mute \in [DOMAIN b.mute -> SUBSET Displays]
  /\ b.base \in [Displays -> 0 .. MaxGen]

\* One room's entry of a heartbeat.  asOf -1: the entry has none.
IsHeartbeat(h) ==
  /\ h.epoch \in Epochs
  /\ h.feedAge \in -1 .. StaleWindow + 1
  /\ h.stopping \in BOOLEAN
  /\ h.asOf \in -1 .. MaxGen
  /\ DOMAIN h.listeners \subseteq Displays
  /\ h.listeners \in [DOMAIN h.listeners -> 0 .. MaxGen]

ASSUME AuthorityAssumption ==
  /\ MaxEpoch \in Nat \ {0}
  /\ MaxGen \in Nat \ {0}
  /\ MaxRecords \in Nat \ {0}
  /\ FailClosed \in BOOLEAN /\ VisDeclared \in BOOLEAN
  /\ \A b \in Batches : IsBatch(b)
  /\ \A h \in Heartbeats : IsHeartbeat(h)
  /\ Policy \in [Epochs -> [Displays -> [Gens -> Cols]]]

\* What a batch turns a listener's column ch into
ColumnAfter(b, ch, L, col) ==
  IF L \in DOMAIN b[ch] THEN ApplyOp(b.op, col, b[ch][L]) ELSE col

\* What the arming protocol asks of a simulator: every batch is stamped; a
\* replace carries both columns of each listener it names, as they are at its
\* generation; an add or remove takes the columns of its base to those of its
\* generation.
Disciplined(b) ==
  /\ b.epoch # 0
  /\ b.op = "replace" => DOMAIN b.excl = DOMAIN b.mute
  /\ \A L \in Named(b), ch \in Channels :
       IF b.op = "replace"
       THEN b[ch][L] = Policy[b.epoch][L][b.gen][ch]
       ELSE b.base[L] # 0 =>
              ColumnAfter(b, ch, L, Policy[b.epoch][L][b.base[L]][ch])
                = Policy[b.epoch][L][b.gen][ch]

VARIABLES
  authEpoch,   \* room->vis_auth_epoch, 0: none
  authAge,     \* age of room->vis_auth_last_us
  policyGen,   \* room->vis_policy_gen
  records      \* room->vis_records

authVars == <<authEpoch, authAge, policyGen, records>>
vars == <<member, leaving, cols, deferred, authEpoch, authAge, policyGen, records>>

Record == [armed : BOOLEAN, epoch : 0 .. MaxEpoch, gen : 0 .. MaxGen,
           age : Ages, stale : BOOLEAN, cols : Cols]

NoRecord == [armed |-> FALSE, epoch |-> 0, gen |-> 0, age |-> Expired,
             stale |-> FALSE, cols |-> NoCols]

Unarmed == [L \in Displays |-> NoRecord]

AuthTypeOK ==
  /\ authEpoch \in 0 .. MaxEpoch
  /\ authAge \in Ages
  /\ policyGen \in 0 .. MaxGen
  /\ records \in [Displays -> Record]

Enforced == FailClosed /\ VisDeclared

Armed(recs) == {L \in Displays : recs[L].armed}

Row(L) == VisRow(records[L], authEpoch)

PairVisible(L, S) == Row(L) = 4 /\ Row(S) = 4

----------------------------------------------------------------------------
(* The adoption rule: what a message of epoch e makes of the room's books, *)
(* judged at a clock reading that is wait ticks old.                        *)

Verdict(e, wait) == EpochDecide(authEpoch, authAge - wait, e)

\* (mutant) a new authority inherits the records of the old one
RecordsAfterAdopt_kept(e, wait) == records

RecordsAfterAdopt(e, wait) == IF Verdict(e, wait) = "equal" THEN records ELSE Unarmed

GenAfterAdopt(e, wait) == IF Verdict(e, wait) = "equal" THEN policyGen ELSE 0

----------------------------------------------------------------------------
(* peer_ctl_batch *)

\* Does an add or remove follow on from the record the room holds for L?
Follows(b, recs, L) ==
  recs[L].armed /\ recs[L].epoch = b.epoch /\ b.base[L] = recs[L].gen

MirroredCols(b, rec, L) ==
  [excl |-> ColumnAfter(b, "excl", L, rec.cols.excl),
   mute |-> ColumnAfter(b, "mute", L, rec.cols.mute)]

ArmedRecord(b, rec, L) ==
  [armed |-> TRUE, epoch |-> b.epoch, gen |-> b.gen, age |-> 0, stale |-> FALSE,
   cols |-> MirroredCols(b, rec, L)]

\* (mutant) an accepted delta clears the stale flag
AdvancedRecord_clearsStale(b, rec, L) ==
  [rec EXCEPT !.gen = b.gen, !.age = 0, !.stale = FALSE, !.cols = MirroredCols(b, rec, L)]

\* An accepted delta advances and confirms the record; a stale flag stays.
AdvancedRecord(b, rec, L) ==
  [rec EXCEPT !.gen = b.gen, !.age = 0, !.cols = MirroredCols(b, rec, L)]

\* (mutant) any delta advances an armed record, whatever its base
RecordAfterBatch_anyBase(b, recs, new, L) ==
  IF L \notin Named(b) THEN recs[L]
  ELSE IF b.op = "replace"
       THEN IF recs[L].armed \/ L \in new THEN ArmedRecord(b, recs[L], L) ELSE recs[L]
  ELSE IF recs[L].armed THEN AdvancedRecord(b, recs[L], L)
  ELSE recs[L]

RecordAfterBatch(b, recs, new, L) ==
  IF L \notin Named(b) THEN recs[L]
  ELSE IF b.op = "replace"
       THEN IF recs[L].armed \/ L \in new THEN ArmedRecord(b, recs[L], L) ELSE recs[L]
  ELSE IF Follows(b, recs, L) THEN AdvancedRecord(b, recs[L], L)
  ELSE IF recs[L].armed THEN [recs[L] EXCEPT !.stale = TRUE]
  ELSE recs[L]

\* Which unarmed listeners a replace may arm.  A full table turns the rest
\* away; which ones is the hash table's iteration order.
Admissible(b, recs) ==
  LET wanted == Named(b) \ Armed(recs)
      free   == MaxRecords - Cardinality(Armed(recs))
  IN  IF b.op # "replace" THEN {{}}
      ELSE IF Cardinality(wanted) <= free THEN {wanted}
      ELSE {new \in SUBSET wanted : Cardinality(new) = free}

\* (mutant) entries that do not follow on are refused in shadow mode too
Skip_always(b, recs) ==
  IF b.op = "replace" THEN {} ELSE {L \in Named(b) : ~Follows(b, recs, L)}

\* Listeners whose entries fail-closed keeps out of the mix
Skip(b, recs) ==
  IF Enforced /\ b.op # "replace"
  THEN {L \in Named(b) : ~Follows(b, recs, L)}
  ELSE {}

UnstampedBatch(b) ==
  /\ b.epoch = 0
  /\ ApplyBatch(b, {})
  /\ UNCHANGED authVars

\* (mutant) refused in shadow mode too
RefusedBatch_always(b) == UNCHANGED feedVars

\* Refused whole under fail-closed, applied as before otherwise
RefusedBatch(b) ==
  IF Enforced THEN UNCHANGED feedVars ELSE ApplyBatch(b, {})

StaleEpochBatch(b) ==
  /\ b.epoch # 0
  /\ Verdict(b.epoch, 0) = "stale"
  /\ RefusedBatch(b)
  /\ UNCHANGED authVars

OutOfOrder(b) == b.gen <= GenAfterAdopt(b.epoch, 0)

\* Out of order.  The message still counts as a sign of life.
StaleGenerationBatch(b) ==
  /\ b.epoch # 0
  /\ Verdict(b.epoch, 0) # "stale"
  /\ OutOfOrder(b)
  /\ authEpoch' = b.epoch
  /\ authAge' = 0
  /\ policyGen' = GenAfterAdopt(b.epoch, 0)
  /\ records' = RecordsAfterAdopt(b.epoch, 0)
  /\ RefusedBatch(b)

CurrentBatch(b) ==
  LET recs == RecordsAfterAdopt(b.epoch, 0)
  IN  /\ b.epoch # 0
      /\ Verdict(b.epoch, 0) # "stale"
      /\ ~OutOfOrder(b)
      /\ authEpoch' = b.epoch
      /\ authAge' = 0
      /\ policyGen' = b.gen
      /\ \E new \in Admissible(b, recs) :
           records' = [L \in Displays |-> RecordAfterBatch(b, recs, new, L)]
      /\ ApplyBatch(b, Skip(b, recs))

\* The two early returns before the authority is adopted
UnadoptedBatch(b) == IF b.epoch = 0 THEN UnstampedBatch(b) ELSE StaleEpochBatch(b)

PeerCtlBatch(b) ==
  UnadoptedBatch(b) \/ StaleGenerationBatch(b) \/ CurrentBatch(b)

----------------------------------------------------------------------------
(* peer_ctl_heartbeat, one room's entry.  wait is the age of the clock     *)
(* reading the handler took before it got room->mutex.  A heartbeat that   *)
(* reports a feed past the window changes nothing unless it is a stop, and *)
(* a stale epoch changes nothing.                                          *)

Accepted(h, wait) ==
  /\ FeedLive(h.feedAge) \/ h.stopping
  /\ Verdict(h.epoch, wait) # "stale"

\* (mutant) a heartbeat is taken at its word, whenever it was built
Outdated_never(h, wait) == FALSE

Outdated(h, wait) == h.asOf >= 0 /\ h.asOf < GenAfterAdopt(h.epoch, wait)

\* Confirm a listed listener at the generation the room holds, mark any other
\* listed one stale, disarm the omitted ones.
RecordAfterHeartbeat(h, rec, L, wait) ==
  IF L \notin DOMAIN h.listeners THEN NoRecord
  ELSE IF ~rec.armed \/ rec.epoch # h.epoch THEN rec
  ELSE IF h.listeners[L] = rec.gen THEN [rec EXCEPT !.age = wait]
  ELSE [rec EXCEPT !.stale = TRUE]

\* (mutant) a record that is confirmed but stale is not reported
ReportedStale_onlyMismatch(h, recs) ==
  {L \in DOMAIN h.listeners :
     recs[L].armed /\ recs[L].epoch = h.epoch /\ h.listeners[L] # recs[L].gen}

\* The reply's stale_listeners and unarmed_listeners
ReportedStale(h, recs) ==
  {L \in DOMAIN h.listeners :
     /\ recs[L].armed /\ recs[L].epoch = h.epoch
     /\ h.listeners[L] # recs[L].gen \/ recs[L].stale}

ReportedUnarmed(h, recs) ==
  {L \in DOMAIN h.listeners : ~recs[L].armed \/ recs[L].epoch # h.epoch}

\* Graceful stop: stale at once, and a lower epoch may take the room over.
StoppingHeartbeat(h, wait) ==
  LET recs == RecordsAfterAdopt(h.epoch, wait)
  IN  /\ Accepted(h, wait)
      /\ h.stopping
      /\ authEpoch' = h.epoch
      /\ authAge' = Expired
      /\ policyGen' = GenAfterAdopt(h.epoch, wait)
      /\ records' = [L \in Displays |->
                       IF recs[L].armed THEN [recs[L] EXCEPT !.stale = TRUE] ELSE recs[L]]
      /\ UNCHANGED feedVars

\* Built before a batch that overtook it: a sign of life, nothing more.
OutdatedHeartbeat(h, wait) ==
  /\ Accepted(h, wait)
  /\ ~h.stopping
  /\ Outdated(h, wait)
  /\ authEpoch' = h.epoch
  /\ authAge' = wait
  /\ policyGen' = GenAfterAdopt(h.epoch, wait)
  /\ records' = RecordsAfterAdopt(h.epoch, wait)
  /\ UNCHANGED feedVars

EvaluatedHeartbeat(h, wait) ==
  LET recs == RecordsAfterAdopt(h.epoch, wait)
  IN  /\ Accepted(h, wait)
      /\ ~h.stopping
      /\ ~Outdated(h, wait)
      /\ authEpoch' = h.epoch
      /\ authAge' = wait
      /\ policyGen' = GenAfterAdopt(h.epoch, wait)
      /\ records' = [L \in Displays |-> RecordAfterHeartbeat(h, recs[L], L, wait)]
      /\ UNCHANGED feedVars

Heartbeat(h) ==
  \E wait \in Waits :
    \/ StoppingHeartbeat(h, wait)
    \/ OutdatedHeartbeat(h, wait)
    \/ EvaluatedHeartbeat(h, wait)

----------------------------------------------------------------------------
(* Joins, leaves and time *)

\* (mutant) a rejoining listener always starts from the deferred columns
Join_replaysOnly(s) ==
  JoinReplay(s) /\ UNCHANGED authVars

\* Under fail-closed a session whose display the current authority has armed
\* takes that authority's columns; any other replays what was deferred.
Join(s) ==
  LET r == records[DisplayOf[s]]
  IN  /\ IF Enforced /\ r.armed /\ r.epoch = authEpoch
         THEN JoinWith(s, r.cols)
         ELSE JoinReplay(s)
      /\ UNCHANGED authVars

Leave(s) == LeaveStep(s) /\ UNCHANGED authVars

Tick ==
  /\ authAge' = Older(authAge)
  /\ records' = [L \in Displays |-> [records[L] EXCEPT !.age = Older(@)]]
  /\ UNCHANGED <<member, leaving, cols, deferred, authEpoch, policyGen>>

AdminStep == (\E b \in Batches : PeerCtlBatch(b)) \/ (\E h \in Heartbeats : Heartbeat(h))

Init ==
  /\ FeedInit
  /\ authEpoch = 0
  /\ authAge = Expired
  /\ policyGen = 0
  /\ records = Unarmed

Next ==
  \/ \E b \in Batches : PeerCtlBatch(b)
  \/ \E h \in Heartbeats : Heartbeat(h)
  \/ \E s \in Sessions : Join(s) \/ Leave(s)
  \/ Tick

Spec == Init /\ [][Next]_vars

\* Time passes whatever the simulators and viewers do.
FairSpec == Spec /\ WF_vars(Tick)

----------------------------------------------------------------------------
(* What the tick makes of it *)

\* May session l be sent the voice of session s?  room_tick: the pair rule,
\* then the moderation mutes, then the exclusions.
Audible(l, s) ==
  /\ l \in Participants /\ s \in Participants /\ l # s
  /\ DisplayOf[s] \notin cols[l].excl \union cols[l].mute
  /\ Enforced => PairVisible(DisplayOf[l], DisplayOf[s])

----------------------------------------------------------------------------
(* Properties.  Keeping the books: *)

\* Every armed record belongs to the authority in force and was set by a
\* generation that authority has applied here: adoption wipes the records of
\* the previous epoch whatever message brings it, so no listener can be heard
\* on the word of a simulator that was replaced.
RecordsOfCurrentEpoch ==
  \A L \in Displays :
    records[L].armed => /\ records[L].epoch = authEpoch
                        /\ 1 <= records[L].gen /\ records[L].gen <= policyGen

\* With simulators that follow the arming protocol, the columns mirrored in
\* an armed record are exactly the policy of the authority in force at the
\* record's generation: lost, repeated and reordered batches can leave the
\* record behind or stale, but never with columns of two generations mixed.
MirrorFaithful ==
  (\A b \in Batches : Disciplined(b)) =>
    \A L \in Displays :
      records[L].armed => records[L].cols = Policy[authEpoch][L][records[L].gen]

\* Under fail-closed, every session in the room whose display is armed mixes
\* with the columns of that record: joined before or after the arming,
\* through the deferred store or not, in the middle of a leave or not.
MixFollowsRecord ==
  \A s \in Participants :
    Enforced /\ records[DisplayOf[s]].armed =>
      cols[s] = records[DisplayOf[s]].cols

\* The fail-closed promise end to end: what a listener is sent, the authority
\* in force allows at the generation it last set for that listener, and both
\* ends of the pair stand confirmed within the window.
HeardIsAllowed ==
  \A l \in Sessions, s \in Sessions :
    LET r == records[DisplayOf[l]]
        p == Policy[authEpoch][DisplayOf[l]][r.gen]
    IN  Enforced /\ Audible(l, s) =>
          /\ DisplayOf[s] \notin p.excl \union p.mute
          /\ r.age <= StaleWindow /\ records[DisplayOf[s]].age <= StaleWindow
          /\ ~r.stale /\ ~records[DisplayOf[s]].stale

----------------------------------------------------------------------------
(* What a step may never do: *)

\* An authority is displaced by a lower epoch only after it went quiet for the
\* window or said it was stopping, and while it stays in force neither the
\* room's generation nor that of an armed record goes back.
AuthorityOrdered ==
  [][/\ authEpoch' < authEpoch => AuthorityStale(authAge)
     /\ authEpoch' = authEpoch =>
          /\ policyGen' >= policyGen
          /\ \A L \in Displays :
               records[L].armed /\ records'[L].armed =>
                 records'[L].gen >= records[L].gen]_vars

\* A listener that is not armed, or whose record is marked stale, comes back
\* only by a replace of a generation the room has not applied yet: neither a
\* heartbeat, nor a delta, nor the repetition of an old replace re-arms it.
OnlyReplaceArms ==
  [][\A L \in Displays :
       LET old == records[L]
           new == records'[L]
       IN  /\ ~old.armed \/ old.stale
           /\ new.armed /\ ~new.stale
           => /\ new.gen = policyGen'
              /\ authEpoch' # authEpoch \/ policyGen' > policyGen
              /\ \E b \in Batches : /\ b.op = "replace" /\ L \in Named(b)
                                    /\ b.epoch = authEpoch' /\ b.gen = policyGen']_vars

\* The reply to an evaluated heartbeat names every listed listener that is
\* silent: a simulator that re-arms what the reply names leaves nobody out.
HeartbeatReportsSilent ==
  [][\A h \in Heartbeats, wait \in Waits :
       EvaluatedHeartbeat(h, wait) =>
         LET recs == RecordsAfterAdopt(h.epoch, wait)
         IN  \A L \in DOMAIN h.listeners :
               \/ Row(L)' = 4
               \/ L \in ReportedStale(h, recs) \union ReportedUnarmed(h, recs)]_vars

\* A heartbeat that was built before the batch that set a listener's record, and
\* arrives after it, neither disarms that listener nor marks it stale, also
\* when it does not list the listener: peer_ctl_heartbeat compares the policy
\* generation it was built at with the room's.
LateHeartbeatSpares ==
  [][\A h \in Heartbeats, L \in Displays :
       /\ records[L].armed /\ ~records[L].stale
       /\ h.epoch = authEpoch /\ ~h.stopping
       /\ 0 <= h.asOf /\ h.asOf < records[L].gen
       /\ Heartbeat(h)
       => records'[L].armed /\ ~records'[L].stale]_vars

\* In shadow mode every batch that reaches the room is applied whole, also the
\* ones the authority check finds out of order, of a stale epoch or not
\* following on.
ShadowApplies ==
  [][\A b \in Batches : ~Enforced /\ PeerCtlBatch(b) => ApplyBatch(b, {})]_vars

----------------------------------------------------------------------------
(* What must happen: *)

\* Once no authority message is handled any more, every listener falls silent
\* for good: a crashed simulator cannot leave its last policy in force.
SilentWithoutAuthority ==
  <>[][~AdminStep]_vars => <>[](\A L \in Displays : Row(L) # 4)
=============================================================================
