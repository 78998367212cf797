------------------------------ MODULE JoinWindow ------------------------------
(***************************************************************************)
(* The join window: a batch can name a listener before that listener has   *)
(* joined.  ColumnFeed with two history variables that remember what the   *)
(* simulator has asked for each absent listener and whether the store was  *)
(* ever asked to hold more listeners than it can.  They observe the feed   *)
(* and do not influence it.                                                *)
(***************************************************************************)
EXTENDS ColumnFeed

\* A batch names displays: slv_visbatch_parse refuses one that does not parse.
ASSUME WindowAssumption ==
  /\ IsFiniteSet(Displays)
  /\ \A b \in Batches :
       /\ b.op \in Ops
       /\ \A ch \in Channels :
            /\ DOMAIN b[ch] \subseteq Displays
            /\ \A L \in DOMAIN b[ch] : b[ch][L] \subseteq Displays

VARIABLES
  intent,    \* the columns the batches have asked for an absent listener
  crowded    \* was the cap on deferred listeners ever exceeded?

windowVars == <<member, leaving, cols, deferred, intent, crowded>>

Waiting == {L \in Displays : intent[L] # NoCols}

IntentAfter(b, L) ==
  IF Present(L) THEN intent[L]
  ELSE [ch \in Channels |->
          IF L \in DOMAIN b[ch] THEN ApplyOp(b.op, intent[L][ch], b[ch][L])
          ELSE intent[L][ch]]

\* What a batch and a join make of the history
Asked(b) ==
  /\ intent' = [L \in Displays |-> IntentAfter(b, L)]
  /\ crowded' = (crowded \/ Cardinality(Waiting \union Named(b)) > MaxDeferred)

Arrived(s) ==
  /\ intent' = [intent EXCEPT ![DisplayOf[s]] = NoCols]
  /\ UNCHANGED crowded

Batch(b) == ApplyBatch(b, {}) /\ Asked(b)

WindowJoin(s) == JoinReplay(s) /\ Arrived(s)

WindowLeave(s) == LeaveStep(s) /\ UNCHANGED <<intent, crowded>>

WindowInit ==
  /\ FeedInit
  /\ intent = [L \in Displays |-> NoCols]
  /\ crowded = FALSE

WindowNext ==
  \/ \E b \in Batches : Batch(b)
  \/ \E s \in Sessions : WindowJoin(s) \/ WindowLeave(s)

WindowSpec == WindowInit /\ [][WindowNext]_windowVars

----------------------------------------------------------------------------

\* As long as the listeners waited for fit the store, it holds exactly what
\* the batches asked for each absent listener, however adds, removes and
\* replaces of the two channels were interleaved: slv_deferred_put merges by
\* operation, drops a record that became empty and creates none for nothing.
NothingLostBelowCap ==
  ~crowded => \A L \in Displays : ~Present(L) => Get(deferred, L) = intent[L]

\* Members, columns and records keep their types, and the store names a
\* listener once, keeps no empty record and stays within its cap, also while
\* one batch evicts and re-creates records.
StoreWellFormed ==
  /\ FeedTypeOK
  /\ Len(deferred) <= MaxDeferred
  /\ \A i, j \in DOMAIN deferred :
       deferred[i].listener = deferred[j].listener => i = j
  /\ \A i \in DOMAIN deferred : deferred[i].excl # {} \/ deferred[i].mute # {}

\* The deferred store is sound and, below its cap, loses nothing.
StoreKeeps == StoreWellFormed /\ NothingLostBelowCap

\* The first session of a display starts with exactly what was asked for the
\* display while it was absent, and with nothing of the room it was in before.
JoinGetsIntent ==
  [][\A s \in Sessions :
       /\ s \notin member /\ s \in member'
       /\ ~crowded /\ ~Present(DisplayOf[s])
       => cols'[s] = intent[DisplayOf[s]]]_windowVars

\* When the cap forces a loss, no listener loses its columns while one whose
\* record is older, and which the batch does not touch, keeps them.
OldestGoFirst ==
  [][\A b \in Batches, i, j \in DOMAIN deferred :
       /\ Batch(b) /\ i < j
       /\ deferred[i].listener \notin Named(b) /\ deferred[j].listener \notin Named(b)
       /\ Has(deferred', deferred[i].listener)
       => Has(deferred', deferred[j].listener)]_windowVars
=============================================================================
