---------------------------- MODULE MCVisAuthority ----------------------------
(***************************************************************************)
(* Small instances of VisAuthority for TLC: up to three agents and three   *)
(* sessions, two simulator instances and the messages they can have sent.  *)
(* Every message of a set can be delivered at any time, any number of      *)
(* times and in any order.                                                 *)
(***************************************************************************)
EXTENDS VisAuthority, TLC

CONSTANTS
  ann, bob, cat, \* agents
  s1, s2, s3     \* sessions: s1 and s3 are ann's, s2 is bob's

\* What each simulator wants of ann, by generation; the others hear
\* everybody.
AnnsColumns ==
  << << [excl |-> {}, mute |-> {bob}],
        [excl |-> {bob}, mute |-> {bob}],
        [excl |-> {bob}, mute |-> {}] >>,
     << [excl |-> {}, mute |-> {}],
        [excl |-> {bob}, mute |-> {}],
        [excl |-> {bob}, mute |-> {bob}] >> >>

TwoPolicies ==
  [e \in Epochs |->
     [L \in Displays |-> [g \in Gens |-> IF L = ann THEN AnnsColumns[e][g] ELSE NoCols]]]

DisplayOfSession == [s \in Sessions |-> IF s = s2 THEN bob ELSE ann]

\* A replace of both columns of the listeners in ls
Snapshot(e, g, ls) ==
  [epoch |-> e, gen |-> g, op |-> "replace",
   excl |-> [L \in ls |-> TwoPolicies[e][L][g].excl],
   mute |-> [L \in ls |-> TwoPolicies[e][L][g].mute],
   base |-> [L \in Displays |-> 0]]

\* A delta of one of ann's channels that follows on from generation from
Delta(e, g, op, ch, from) ==
  [epoch |-> e, gen |-> g, op |-> op,
   excl |-> IF ch = "excl" THEN ann :> {bob} ELSE <<>>,
   mute |-> IF ch = "mute" THEN ann :> {bob} ELSE <<>>,
   base |-> [L \in Displays |-> IF L = ann THEN from ELSE 0]]

Beat(e, asOf, ls) ==
  [epoch |-> e, feedAge |-> 0, stopping |-> FALSE, asOf |-> asOf, listeners |-> ls]

Starved(e, ls) ==
  [epoch |-> e, feedAge |-> StaleWindow + 1, stopping |-> FALSE, asOf |-> -1, listeners |-> ls]

Stop(e) ==
  [epoch |-> e, feedAge |-> StaleWindow + 1, stopping |-> TRUE, asOf |-> -1, listeners |-> <<>>]

\* Two simulators, three generations, every op
ArmingBatches ==
  { Snapshot(1, 1, Displays), Delta(1, 2, "add", "excl", 1),
    Delta(1, 3, "remove", "mute", 2), Snapshot(1, 3, {ann}), Snapshot(2, 1, {ann}) }

ArmingHeartbeats ==
  { Beat(1, 1, ann :> 1 @@ bob :> 1), Beat(1, 3, ann :> 3),
    Starved(1, ann :> 1 @@ bob :> 1), Stop(2) }
=============================================================================
