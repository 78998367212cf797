------------------------------ MODULE MCPresence ------------------------------
(***************************************************************************)
(* Presence for TLC: the viewer of ann's session and a session of bob that *)
(* it is told of, which has no data channel of its own; the batches hide,  *)
(* show, mute and unmute bob for ann.                                      *)
(***************************************************************************)
EXTENDS Presence, TLC

CONSTANTS ann, bob, s1, s2

DisplayOfSession ==
  [s \in Sessions |-> IF s = s1 THEN ann ELSE bob]

Entry(op, excl, mute) == [op |-> op, excl |-> excl, mute |-> mute]

ColumnBatches ==
  { Entry("add", ann :> {bob}, <<>>), Entry("replace", ann :> {}, <<>>),
    Entry("add", <<>>, ann :> {bob}), Entry("remove", <<>>, ann :> {bob}) }

Columns == { [excl |-> {bob}, mute |-> {}] }
=============================================================================
