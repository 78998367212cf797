-------------------------------- MODULE DotMerge --------------------------------
(***************************************************************************)
(* How the sender collapses the sessions of a room into one speaker dot    *)
(* per display (src/src/janus_slvoice.c): it walks room->participants in   *)
(* the hash table's order, which is none, and merges sessions that share a *)
(* display, as an orphaned handle and the one that replaced it do.  The    *)
(* whole walk holds room->mutex, so it is a function of the sessions it    *)
(* visits, in the order it visits them.                                    *)
(***************************************************************************)
EXTENDS Integers, FiniteSetsExt, SequencesExt

CONSTANTS
  Shown,      \* displays of the sessions
  Levels,     \* values of power_p
  MaxVisited  \* bound on the sessions of a walk

ASSUME DotMergeAssumption == Levels \subseteq Nat /\ MaxVisited \in Nat

\* A session as the walk sees it: power_p, vad and webrtc_up
Visited == [display : Shown, p : Levels, v : BOOLEAN, up : BOOLEAN]

\* The walk's tables: the batch and dot_up, whether the winner is live
NoDots == <<>>

PutDot(dots, s, dot) == [d \in DOMAIN dots \union {s.display} |-> IF d = s.display THEN dot ELSE dots[d]]

Merged_last(dots, s) ==  \* (mutant) the last session of a display wins
  PutDot(dots, s, [p |-> s.p, v |-> s.v, up |-> s.up])

\* A live session replaces a downed winner; equals take the louder level and either's voice; a
\* downed session never replaces a live one.
Merged(dots, s) ==
  IF s.display \notin DOMAIN dots \/ (s.display \in DOMAIN dots /\ s.up /\ ~dots[s.display].up)
  THEN PutDot(dots, s, [p |-> s.p, v |-> s.v, up |-> s.up])
  ELSE LET was == dots[s.display]
       IN  IF s.up # was.up THEN dots
           ELSE PutDot(dots, s, [p |-> Max({s.p, was.p}), v |-> was.v \/ s.v, up |-> was.up])

Walk(sessions) ==
  LET after[i \in 0 .. Len(sessions)] ==
        IF i = 0 THEN NoDots ELSE Merged(after[i - 1], sessions[i])
  IN  after[Len(sessions)]

----------------------------------------------------------------------------

\* The sessions that speak for a display: the live ones, or all when none is live.
Voices(sessions, d) ==
  LET all == {s \in Range(sessions) : s.display = d}
      live == {s \in all : s.up}
  IN  IF live # {} THEN live ELSE all

\* The dot of every display shows the loudest of its voices, speaking if one of them is.
WalkedRight(sessions) ==
  LET dots == Walk(sessions)
  IN  /\ DOMAIN dots = {s.display : s \in Range(sessions)}
      /\ \A d \in DOMAIN dots :
           /\ dots[d].p = Max({s.p : s \in Voices(sessions, d)})
           /\ dots[d].v = (\E s \in Voices(sessions, d) : s.v)

\* The lengths of the walks that go wrong
WrongWalks ==
  {n \in 0 .. MaxVisited : \E sessions \in [1 .. n -> Visited] : ~WalkedRight(sessions)}
=============================================================================
