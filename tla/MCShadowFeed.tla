----------------------------- MODULE MCShadowFeed -----------------------------
(***************************************************************************)
(* The feed of a room whose authority is not enforced: VisAuthority with   *)
(* fail-closed off, and JoinWindow's history of what was asked for absent  *)
(* listeners beside it.  Three agents, a store for two listeners, two      *)
(* sessions, and batches of every operation in either channel or both,     *)
(* some without a stamp, the others of two simulators.                     *)
(***************************************************************************)
EXTENDS VisAuthority, JoinWindow, TLC

CONSTANTS ann, bob, cat, s1, s2

DisplayOfSession == [s \in Sessions |-> IF s = s2 THEN bob ELSE ann]

Stamped(e, g, op, excl, mute) ==
  [epoch |-> e, gen |-> g, op |-> op, excl |-> excl, mute |-> mute,
   base |-> [L \in Displays |-> g - 1]]

\* The second simulator's replace arms ann or bob, not both, so that its
\* remove follows on for one of them; the first simulator's add is then stale.
FeedBatches ==
  { Stamped(0, 1, "add", bob :> {cat}, cat :> {ann}),
    Stamped(0, 1, "replace", bob :> {}, bob :> {}),
    Stamped(1, 1, "add", ann :> {bob}, <<>>),
    Stamped(2, 1, "replace", ann :> {} @@ bob :> {}, ann :> {cat}),
    Stamped(2, 2, "remove", ann :> {bob} @@ bob :> {cat}, ann :> {cat}) }

FeedHeartbeats ==
  { [epoch |-> 2, feedAge |-> 0, stopping |-> FALSE, asOf |-> 1, listeners |-> bob :> 1] }

NoPolicy == [e \in Epochs |-> [L \in Displays |-> [g \in Gens |-> NoCols]]]

history == <<intent, crowded>>

ShadowInit == Init /\ WindowInit

ShadowNext ==
  \/ \E b \in Batches : PeerCtlBatch(b) /\ Asked(b)
  \/ \E s \in Sessions : Join(s) /\ Arrived(s)
  \/ \E s \in Sessions : Leave(s) /\ UNCHANGED history
  \/ \E h \in Heartbeats : Heartbeat(h) /\ UNCHANGED history
  \/ Tick /\ UNCHANGED history

ShadowSpec == ShadowInit /\ [][ShadowNext]_<<vars, history>>
=============================================================================
