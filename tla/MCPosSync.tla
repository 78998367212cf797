------------------------------ MODULE MCPosSync ------------------------------
(***************************************************************************)
(* PosSync for TLC: a participant that moves, and an agent that is named   *)
(* and takes up room in the store.                                         *)
(***************************************************************************)
EXTENDS PosSync

CONSTANTS a, b

FullAndPartial ==
  { [names |-> {a}, full |-> FALSE], [names |-> {a, b}, full |-> FALSE],
    [names |-> {a, b}, full |-> TRUE] }
=============================================================================
