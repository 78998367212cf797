--------------------------------- MODULE MCTick ---------------------------------
(***************************************************************************)
(* What a room's tick does for one source and for one listener: the pull   *)
(* from the source's jitter buffer and the listener's mix.  They share the *)
(* tick thread and no state, so either is checked while the other rests in *)
(* its initial state.                                                      *)
(*                                                                         *)
(* The jitter buffer has the proportions of the code in small: a sequence  *)
(* space of several rings, a ring larger than the largest lead.  The mix   *)
(* has the sources of a room with one participant more than it can hold at *)
(* a time; between them the distances cover both sides of the band and     *)
(* both its edges.  The merge of sessions is checked on all walks of up to *)
(* three.                                                                  *)
(***************************************************************************)
EXTENDS JitterBuffer, PairMix

CONSTANTS s1, s2, s3, s4, ann, bob, cat, dan

FourSources == <<s1, s2, s3, s4>>
OwnAgent == [s \in Range(Order) |-> CASE s = s1 -> ann [] s = s2 -> bob [] s = s3 -> cat [] OTHER -> dan]

Places ==
  [s \in Range(Order) |-> CASE s = s1 -> {1, 3, 4} [] s = s2 -> {2, 4} [] s = s3 -> {2} [] OTHER -> {4}]

\* The viewer mutes ann and sets bob's gain, in one message and for a table of one
OwnControls ==
  { <<[agent |-> ann, mute |-> "on"], [agent |-> bob, mute |-> "keep"]>>,
    <<[agent |-> ann, mute |-> "off"]>> }

Everybody == {ann, bob, cat, dan, Me}
SomeStanding == {Everybody, Everybody \ {ann}, Everybody \ {Me}}

\* One reason at a time for not hearing a source (bound)
OneReason ==
  Cardinality(modMuted) + Cardinality(excluded) + Cardinality({x \in DOMAIN ctl : ctl[x]})
    + Cardinality(Everybody \ standing) <= 1

TickInit == JitterInit /\ Init

TickNext ==
  \/ Init /\ JitterNext /\ UNCHANGED pairVars
  \/ JitterInit /\ Next /\ UNCHANGED jitterVars

TickSpec == TickInit /\ [][TickNext]_<<jitterVars, pairVars>> /\ WF_jitterVars(Pull)
=============================================================================
