------------------------------- MODULE VisRules -------------------------------
(***************************************************************************)
(* The pure rules of the visibility authority (src/src/visauth.h): the     *)
(* epoch adoption rule, the listener rows, and when a heartbeat counts as  *)
(* live.  The code compares monotonic timestamps with a staleness window;  *)
(* here a timestamp is its age, a number of clock ticks that saturates     *)
(* where every later reading of it is past the window.                     *)
(***************************************************************************)
EXTENDS Integers

CONSTANTS
  StaleWindow,   \* JS_VIS_STALE_MS, in ticks of the model's clock
  MaxLockWait    \* how old a message's clock reading can be when it is used:
                 \* a heartbeat reads the clock before it gets room->mutex

ASSUME ClockAssumption ==
  /\ StaleWindow \in Nat \ {0}
  /\ MaxLockWait \in 0 .. StaleWindow

\* Past the window for every reading of the clock.  Also the age of an
\* authority whose last_accept_us is 0: none yet, or one that said it was
\* stopping.
Expired == StaleWindow + MaxLockWait + 1

Ages == 0 .. Expired

\* How late a clock reading can be used
Waits == 0 .. MaxLockWait

\* A tick later
Older(age) == IF age = Expired THEN Expired ELSE age + 1

AuthorityStale(age) == age > StaleWindow

\* (mutant) a lower epoch is adopted although the stored authority is fresh
EpochDecide_anyEpoch(stored, age, incoming) ==
  IF stored = 0 \/ incoming > stored THEN "adopt"
  ELSE IF incoming = stored THEN "equal"
  ELSE "takeover"

EpochDecide(stored, age, incoming) ==
  IF stored = 0 \/ incoming > stored THEN "adopt"
  ELSE IF incoming = stored THEN "equal"
  ELSE IF AuthorityStale(age) THEN "takeover"
  ELSE "stale"

\* (mutant) the stale flag of a record is not looked at
VisRow_ignoresStale(rec, authEpoch) ==
  IF ~rec.armed THEN 1
  ELSE IF authEpoch = 0 \/ rec.epoch # authEpoch THEN 2
  ELSE IF rec.age > StaleWindow THEN 3
  ELSE 4

\* (mutant) a record never ages out
VisRow_noWindow(rec, authEpoch) ==
  IF ~rec.armed THEN 1
  ELSE IF authEpoch = 0 \/ rec.epoch # authEpoch THEN 2
  ELSE IF rec.stale THEN 3
  ELSE 4

\* Which row of the listener rule a display stands in.  Only row 4 hears and
\* is heard.
VisRow(rec, authEpoch) ==
  IF ~rec.armed THEN 1
  ELSE IF authEpoch = 0 \/ rec.epoch # authEpoch THEN 2
  ELSE IF rec.stale \/ rec.age > StaleWindow THEN 3
  ELSE 4

\* A heartbeat is live unless it reports a feed older than the window; no
\* age, or a negative one, counts as live.
FeedLive(feedAge) == feedAge < 0 \/ feedAge <= StaleWindow
=============================================================================
