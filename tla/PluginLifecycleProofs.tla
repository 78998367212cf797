------------------------- MODULE PluginLifecycleProofs -------------------------
(***************************************************************************)
(* What starting and stopping the plugin guarantees for every set of       *)
(* rooms, of configured rooms and of callbacks, any number of starts and   *)
(* any length of the queue.                                                *)
(*                                                                         *)
(* The argument: where init or the teardown is (phase) decides which flags *)
(* are up, which tables are there and which threads can exist; rooms_mutex *)
(* ties the thread that holds it to its program counter, and a tick thread *)
(* to a listed room (InPhase).  NothingLive follows at once.  A callback   *)
(* that the core runs to its end before destroy runs only while the plugin *)
(* is up (CallbacksInside), which NoUseAfterDrop needs as well.            *)
(***************************************************************************)
EXTENDS PluginLifecycle, TLAPS

\* The phases before destroy or a failed start, and those of the teardown.
Starting == {"loaded", "handler", "sender", "up"}
Stopping == {"wake", "joinHandler", "joinSender", "dropSessions", "dropRooms", "dropMessages",
             "dropGateway", "flags", "lastFlag"}
Phases == {"down", "stop"} \union Starting \union Stopping

\* The phases in which the table of rooms is there.
WithRooms ==
  Starting \union {"stop", "wake", "joinHandler", "joinSender", "dropSessions", "dropRooms"}

PluginTypeOK ==
  /\ phase \in Phases
  /\ handler \in {"none", "check", "pop", "room", "reply", "done"}
  /\ sender \in {"none", "check", "pass", "done"}
  /\ ticker \in [Rooms -> {"none", "check", "tick", "done"}]
  /\ core \in [Callbacks -> {"out", "sessions", "messages", "gateway"}]
  /\ listed \subseteq Rooms
  /\ closing \in Rooms \union {Nobody}
  /\ lock \in {Nobody, "handler", "sender", "teardown"}

\* The flags and the tables of each phase.
FlagsInPhase ==
  /\ initialized <=> phase \in (Phases \ {"down", "loaded", "lastFlag"})
  /\ stopping <=> phase \in Stopping
  /\ phase \in Starting \union {"stop", "wake", "joinHandler", "joinSender", "dropSessions"}
       => "sessions" \in tables
  /\ phase \in WithRooms => "rooms" \in tables
  /\ phase \in WithRooms \union {"dropMessages"} => "messages" \in tables
  /\ phase \in (WithRooms \union {"dropMessages", "dropGateway"}) \ {"loaded"}
       => "gateway" \in tables

\* The threads of each phase, the holder of rooms_mutex, and the rooms.
ThreadsInPhase ==
  /\ handler # "none" => phase \in {"sender", "up", "stop", "wake", "joinHandler"}
  /\ sender # "none" => phase \in {"up", "stop", "wake", "joinHandler", "joinSender"}
  /\ lock = "handler" => handler \in {"room", "reply"}
  /\ lock = "sender" => sender = "pass"
  /\ lock = "teardown" => phase = "dropRooms"
  /\ closing # Nobody => lock # Nobody /\ closing \in listed
  /\ listed # {} => phase \in WithRooms
  /\ \A r \in Rooms : ticker[r] # "none" => r \in listed

InPhase == PluginTypeOK /\ FlagsInPhase /\ ThreadsInPhase

\* Before the first init nothing is there.
LEMMA InitInPhase == Init => InPhase
  BY PluginAssumption DEF Init, InPhase, PluginTypeOK, FlagsInPhase, ThreadsInPhase, Phases,
     Starting, Stopping, WithRooms

\* The steps of init and of the teardown, up to the locks.
LEMMA PhaseStep ==
  ASSUME InPhase,
         \/ StartSteps \/ Destroy
         \/ RaiseStopping \/ WakeHandler \/ JoinHandler \/ JoinSender \/ DropSessions
         \/ DropRooms \/ DropMessages \/ DropGateway \/ LowerFlags
  PROVE  InPhase'
<1> USE DEF InPhase, PluginTypeOK, FlagsInPhase, ThreadsInPhase, Phases, Starting, Stopping,
            WithRooms, flagVars, threadVars, roomVars
<1>1. CASE Load
  BY <1>1, PluginAssumption DEF Load, AllTables
<1>2. CASE Announce
  BY <1>2 DEF Announce
<1>3. CASE StartHandler
  BY <1>3 DEF StartHandler
<1>4. CASE StartSender
  BY <1>4 DEF StartSender
<1>5. CASE Destroy
  BY <1>5 DEF Destroy
<1>6. CASE RaiseStopping
  BY <1>6 DEF RaiseStopping
<1>7. CASE WakeHandler
  BY <1>7 DEF WakeHandler
<1>8. CASE JoinHandler
  BY <1>8 DEF JoinHandler
<1>9. CASE JoinSender
  BY <1>9 DEF JoinSender
<1>10. CASE DropSessions
  BY <1>10 DEF DropSessions
<1>11. CASE DropRooms
  BY <1>11, PluginAssumption DEF DropRooms
<1>12. CASE DropMessages
  BY <1>12 DEF DropMessages
<1>13. CASE DropGateway
  BY <1>13 DEF DropGateway
<1>14. CASE LowerFlags
  BY <1>14 DEF LowerFlags
<1> QED BY <1>1, <1>2, <1>3, <1>4, <1>5, <1>6, <1>7, <1>8, <1>9, <1>10, <1>11, <1>12, <1>13,
           <1>14 DEF StartSteps

\* The steps under rooms_mutex, whoever holds it.
LEMMA LockStep ==
  ASSUME InPhase, NEW t \in {"handler", "sender", "teardown"},
         \/ Lock(t) \/ JoinTicker(t) \/ Unlock
         \/ \E r \in Rooms : StopRoom(t, r) \/ CreateRoom(r)
  PROVE  InPhase'
<1> USE DEF InPhase, PluginTypeOK, FlagsInPhase, ThreadsInPhase
<1>1. CASE Lock(t)
  BY <1>1, PluginAssumption DEF Lock, Wants, threadVars, flagVars
<1>2. ASSUME NEW r \in Rooms, StopRoom(t, r) PROVE InPhase'
  BY <1>2, PluginAssumption DEF StopRoom, threadVars, flagVars
<1>3. CASE JoinTicker(t)
  BY <1>3, PluginAssumption DEF JoinTicker, threadVars, flagVars
<1>4. ASSUME NEW r \in Rooms, CreateRoom(r) PROVE InPhase'
  BY <1>4, PluginAssumption DEF CreateRoom, threadVars, flagVars, WithRooms, Starting
<1>5. CASE Unlock
  BY <1>5, PluginAssumption DEF Unlock, threadVars, flagVars
<1> QED BY <1>1, <1>2, <1>3, <1>4, <1>5

\* The steps of the threads and of the core's callbacks.
LEMMA ThreadStep ==
  ASSUME InPhase,
         \/ HandlerCheck \/ HandlerPop \/ SenderCheck
         \/ \E r \in Rooms : Ticker(r)
         \/ \E c \in Callbacks : Enter(c) \/ Return(c)
  PROVE  InPhase'
<1> USE DEF InPhase, PluginTypeOK, FlagsInPhase, ThreadsInPhase, flagVars, roomVars
<1>1. CASE HandlerCheck
  BY <1>1 DEF HandlerCheck
<1>2. CASE HandlerPop
  BY <1>2 DEF HandlerPop
<1>3. CASE SenderCheck
  BY <1>3 DEF SenderCheck
<1>4. ASSUME NEW r \in Rooms, Ticker(r) PROVE InPhase'
  BY <1>4 DEF Ticker
<1>5. ASSUME NEW c \in Callbacks, Enter(c) PROVE InPhase'
  BY <1>5 DEF Enter
<1>6. ASSUME NEW c \in Callbacks, Return(c) PROVE InPhase'
  BY <1>6 DEF Return
<1> QED BY <1>1, <1>2, <1>3, <1>4, <1>5, <1>6

\* The phase decides the flags, the tables and the threads, in every reachable state.
THEOREM PhaseCorrect == PluginSpec => []InPhase
<1>1. InPhase /\ [Next]_pluginVars => InPhase'
  <2> SUFFICES ASSUME InPhase, [Next]_pluginVars PROVE InPhase'
    OBVIOUS
  <2>1. CASE StartSteps \/ Destroy
    BY <2>1, PhaseStep
  <2>2. CASE TeardownSteps
    BY <2>2, PhaseStep, LockStep DEF TeardownSteps
  <2>3. CASE HandlerSteps \/ SenderSteps \/ Unlock
    BY <2>3, LockStep, ThreadStep DEF HandlerSteps, SenderSteps
  <2>4. CASE \E r \in Rooms : StopRoom("handler", r) \/ StopRoom("sender", r) \/ CreateRoom(r)
    BY <2>4, LockStep
  <2>5. CASE \/ \E r \in Rooms : Ticker(r)
             \/ \E c \in Callbacks : Enter(c) \/ Return(c)
    BY <2>5, ThreadStep
  <2>6. CASE UNCHANGED pluginVars
    BY <2>6 DEF pluginVars, flagVars, InPhase, PluginTypeOK, FlagsInPhase, ThreadsInPhase
  <2> QED BY <2>1, <2>2, <2>3, <2>4, <2>5, <2>6 DEF Next
<1> QED BY <1>1, InitInPhase, PTL DEF PluginSpec

\* When the teardown is over, after a destroy as after an init that failed half way, nothing of
\* the plugin is live, whichever callbacks were still running.
THEOREM NothingLiveCorrect == PluginSpec => []NothingLive
<1>1. InPhase => NothingLive
  BY DEF InPhase, PluginTypeOK, FlagsInPhase, ThreadsInPhase, NothingLive, Phases, Starting,
         Stopping, WithRooms
<1> QED BY <1>1, PhaseCorrect, PTL

\* A callback that is past its check of the flags runs while the plugin is up.
CallbacksInside == \A c \in Callbacks : core[c] # "out" => phase = "up"

\* If the core lets its callbacks return before it calls destroy, and makes none before init has
\* returned, they run only while the plugin is up.
LEMMA CallbacksCorrect ==
  ASSUME ~Overlap
  PROVE  PluginSpec => []CallbacksInside
<1>1. Init => CallbacksInside
  BY DEF Init, CallbacksInside
<1>2. InPhase /\ CallbacksInside /\ [Next]_pluginVars => CallbacksInside'
  <2> SUFFICES ASSUME InPhase, CallbacksInside, [Next]_pluginVars PROVE CallbacksInside'
    OBVIOUS
  <2>1. ASSUME NEW c \in Callbacks, Enter(c) PROVE CallbacksInside'
    <3>1. phase = "up"
      BY <2>1 DEF Enter, Live, InPhase, PluginTypeOK, FlagsInPhase, Phases, Starting, Stopping
    <3> QED BY <2>1, <3>1 DEF Enter, CallbacksInside
  <2>2. ASSUME NEW c \in Callbacks, Return(c) PROVE CallbacksInside'
    BY <2>2 DEF Return, CallbacksInside, InPhase, PluginTypeOK
  <2>3. CASE Destroy
    BY <2>3 DEF Destroy, CallbacksInside
  <2>4. CASE StartSteps
    BY <2>4 DEF StartSteps, Load, Announce, StartHandler, StartSender, CallbacksInside
  <2>5. CASE \/ RaiseStopping \/ WakeHandler \/ JoinHandler \/ JoinSender \/ DropSessions
             \/ DropRooms \/ DropMessages \/ DropGateway \/ LowerFlags
    BY <2>5 DEF RaiseStopping, WakeHandler, JoinHandler, JoinSender, DropSessions, DropRooms,
                DropMessages, DropGateway, LowerFlags, CallbacksInside
  <2>6. CASE UNCHANGED <<phase, core>>
    BY <2>6 DEF CallbacksInside
  <2>7. \/ \E t \in {"handler", "sender", "teardown"} :
              Lock(t) \/ JoinTicker(t) \/ \E r \in Rooms : StopRoom(t, r)
        \/ HandlerCheck \/ HandlerPop \/ SenderCheck \/ Unlock
        \/ \E r \in Rooms : CreateRoom(r) \/ Ticker(r)
        \/ UNCHANGED pluginVars
        => UNCHANGED <<phase, core>>
    BY DEF Lock, JoinTicker, StopRoom, HandlerCheck, HandlerPop, SenderCheck, Unlock,
           CreateRoom, Ticker, pluginVars
  <2> QED BY <2>1, <2>2, <2>3, <2>4, <2>5, <2>6, <2>7
             DEF Next, TeardownSteps, HandlerSteps, SenderSteps
<1> QED BY <1>1, <1>2, PhaseCorrect, PTL DEF PluginSpec

\* Nobody uses a table that is not there: not the threads, not a tick, and not a callback that got
\* past the flags, as long as the core has none running when it calls destroy.
THEOREM NoUseCorrect ==
  ASSUME ~Overlap
  PROVE  PluginSpec => []NoUseAfterDrop
<1>1. InPhase /\ CallbacksInside => NoUseAfterDrop
  <2> SUFFICES ASSUME InPhase, CallbacksInside PROVE NoUseAfterDrop
    OBVIOUS
  <2> USE DEF InPhase, PluginTypeOK, FlagsInPhase, ThreadsInPhase, Phases, Starting, Stopping,
              WithRooms
  <2>1. handler \notin {"none", "done"} => {"messages", "rooms", "gateway"} \subseteq tables
    OBVIOUS
  <2>2. sender \notin {"none", "done"} => {"rooms", "gateway"} \subseteq tables
    OBVIOUS
  <2>3. phase # "loaded" => \A r \in Rooms : ticker[r] = "tick" => "gateway" \in tables
    OBVIOUS
  <2>4. \A c \in Callbacks : core[c] # "out" => core[c] \in tables
    BY DEF CallbacksInside
  <2> QED BY <2>1, <2>2, <2>3, <2>4 DEF NoUseAfterDrop
<1> QED BY <1>1, PhaseCorrect, CallbacksCorrect, PTL
=============================================================================
