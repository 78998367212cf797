---------------------------- MODULE PluginLifecycle ----------------------------
(***************************************************************************)
(* Starting and stopping the plugin (src/src/janus_slvoice.c).  init makes *)
(* the tables, the configured rooms with their tick threads, the handler   *)
(* and the sender; the teardown, shared by destroy and by an init that     *)
(* could not start a thread, ends the threads and drops the tables while   *)
(* rooms are being created and destroyed and messages still come in.       *)
(*                                                                         *)
(* What a thread does with a message or a room is left to the other        *)
(* modules: here it is the flags it reads, the lock it takes, the thread   *)
(* it joins and the table it uses.  The core's callbacks read the flags    *)
(* once, on entry.                                                         *)
(***************************************************************************)
EXTENDS Integers, FiniteSets, Sequences

CONSTANTS
  Rooms,       \* room objects
  StaticRooms, \* the rooms of the configuration file
  Callbacks,   \* threads of the core that may be inside a callback at a time
  Nobody,      \* no thread, no room
  MaxQueue,    \* bound on the messages waiting
  MaxStarts,   \* bound on the calls of init
  Overlap      \* may a callback be past its check of the flags when the teardown begins?

ASSUME PluginAssumption ==
  /\ StaticRooms \subseteq Rooms /\ Nobody \notin Rooms \union {"handler", "sender", "teardown"}
  /\ {MaxQueue, MaxStarts} \subseteq Nat /\ Overlap \in BOOLEAN

VARIABLES
  phase,       \* where init or the teardown is; "down" and "up" between them
  starts,      \* calls of init so far
  initialized, \* the two flags
  stopping,
  tables,      \* which of sessions, rooms, messages and gateway are set
  queue,       \* messages
  handler,     \* the handler thread
  sender,      \* the sender thread
  ticker,      \* each room's tick thread
  running,     \* rooms with tick_running set
  listed,      \* the rooms in `rooms`
  lock,        \* who holds rooms_mutex
  closing,     \* the room its holder is tearing down
  core         \* what each callback is about to use, "out" if it is not running

flagVars == <<initialized, stopping>>
threadVars == <<handler, sender, ticker>>
roomVars == <<ticker, running, listed, lock, closing>>
pluginVars == <<phase, starts, flagVars, tables, queue, handler, sender, ticker,
                running, listed, lock, closing, core>>

AllTables == {"sessions", "rooms", "messages", "gateway"}
Live == initialized /\ ~stopping

----------------------------------------------------------------------------
(* init                                                                     *)

\* The tables, and the static rooms with their tick threads; one whose thread
\* cannot start is skipped.
Load ==
  /\ phase = "down" /\ starts < MaxStarts /\ ~stopping
  /\ starts' = starts + 1
  /\ tables' = AllTables \ {"gateway"}
  /\ queue' = <<>>
  /\ \E started \in SUBSET StaticRooms :
       /\ listed' = started /\ running' = started
       /\ ticker' = [r \in Rooms |-> IF r \in started THEN "check" ELSE ticker[r]]
  /\ phase' = "loaded"
  /\ UNCHANGED <<flagVars, handler, sender, lock, closing, core>>

Announce ==
  /\ phase = "loaded"
  /\ tables' = tables \union {"gateway"}
  /\ initialized' = TRUE
  /\ phase' = "handler"
  /\ UNCHANGED <<starts, stopping, queue, handler, sender, roomVars, core>>

\* g_thread_try_new may fail; init then tears down what there is.
StartHandler ==
  /\ phase = "handler"
  /\ \/ handler' = "check" /\ phase' = "sender"
     \/ handler' = "none" /\ phase' = "stop"
  /\ UNCHANGED <<starts, flagVars, tables, queue, sender, roomVars, core>>

StartSender_returns ==  \* (mutant) a failure only lowers the flag and returns
  /\ phase = "sender"
  /\ \/ sender' = "check" /\ phase' = "up" /\ UNCHANGED initialized
     \/ sender' = "none" /\ phase' = "down" /\ initialized' = FALSE
  /\ UNCHANGED <<starts, stopping, tables, queue, handler, roomVars, core>>

StartSender ==
  /\ phase = "sender"
  /\ \/ sender' = "check" /\ phase' = "up"
     \/ sender' = "none" /\ phase' = "stop"
  /\ UNCHANGED <<starts, flagVars, tables, queue, handler, roomVars, core>>

----------------------------------------------------------------------------
(* The teardown                                                             *)

Destroy ==
  /\ phase = "up" /\ initialized
  /\ Overlap \/ \A c \in Callbacks : core[c] = "out"
  /\ phase' = "stop"
  /\ UNCHANGED <<starts, flagVars, tables, queue, handler, sender, roomVars, core>>

RaiseStopping ==
  /\ phase = "stop"
  /\ stopping' = TRUE
  /\ phase' = "wake"
  /\ UNCHANGED <<starts, initialized, tables, queue, handler, sender, roomVars, core>>

WakeHandler_never ==  \* (mutant) the exit message is not pushed
  /\ phase = "wake"
  /\ phase' = "joinHandler"
  /\ UNCHANGED <<starts, flagVars, tables, queue, handler, sender, roomVars, core>>

WakeHandler ==
  /\ phase = "wake"
  /\ queue' = Append(queue, "exit")
  /\ phase' = "joinHandler"
  /\ UNCHANGED <<starts, flagVars, tables, handler, sender, roomVars, core>>

JoinHandler ==
  /\ phase = "joinHandler" /\ handler \in {"none", "done"}
  /\ handler' = "none"
  /\ phase' = "joinSender"
  /\ UNCHANGED <<starts, flagVars, tables, queue, sender, roomVars, core>>

JoinSender ==
  /\ phase = "joinSender" /\ sender \in {"none", "done"}
  /\ sender' = "none"
  /\ phase' = "dropSessions"
  /\ UNCHANGED <<starts, flagVars, tables, queue, handler, roomVars, core>>

DropSessions ==
  /\ phase = "dropSessions"
  /\ tables' = tables \ {"sessions"}
  /\ phase' = "dropRooms"
  /\ UNCHANGED <<starts, flagVars, queue, handler, sender, roomVars, core>>

DropRooms ==
  /\ phase = "dropRooms" /\ lock = "teardown" /\ listed = {}
  /\ tables' = tables \ {"rooms"}
  /\ lock' = Nobody
  /\ phase' = "dropMessages"
  /\ UNCHANGED <<starts, flagVars, queue, threadVars, running, listed, closing, core>>

DropMessages ==
  /\ phase = "dropMessages"
  /\ tables' = tables \ {"messages"}
  /\ queue' = <<>>
  /\ phase' = "dropGateway"
  /\ UNCHANGED <<starts, flagVars, handler, sender, roomVars, core>>

DropGateway ==
  /\ phase = "dropGateway"
  /\ tables' = tables \ {"gateway"}
  /\ phase' = "flags"
  /\ UNCHANGED <<starts, flagVars, queue, handler, sender, roomVars, core>>

LowerFlags_swapped ==  \* (mutant) stopping goes down first
  /\ \/ phase = "flags" /\ stopping' = FALSE /\ phase' = "lastFlag" /\ UNCHANGED initialized
     \/ phase = "lastFlag" /\ initialized' = FALSE /\ phase' = "down" /\ UNCHANGED stopping
  /\ UNCHANGED <<starts, tables, queue, handler, sender, roomVars, core>>

LowerFlags ==
  /\ \/ phase = "flags" /\ initialized' = FALSE /\ phase' = "lastFlag" /\ UNCHANGED stopping
     \/ phase = "lastFlag" /\ stopping' = FALSE /\ phase' = "down" /\ UNCHANGED initialized
  /\ UNCHANGED <<starts, tables, queue, handler, sender, roomVars, core>>

----------------------------------------------------------------------------
(* rooms_mutex and the rooms under it                                       *)

\* Who is about to take the lock.
Wants(t) ==
  CASE t = "handler" -> handler = "room"
    [] t = "sender" -> sender = "pass"
    [] OTHER -> phase = "dropRooms"

Lock(t) ==
  /\ Wants(t) /\ lock = Nobody
  /\ lock' = t
  /\ UNCHANGED <<phase, starts, flagVars, tables, queue, threadVars, running, listed, closing, core>>

\* A room's teardown: the flag, then the wait for the tick thread with the lock held.  The
\* plugin's own and the sweep may visit every room, a request one.
StopRoom(t, r) ==
  /\ lock = t /\ closing = Nobody /\ r \in listed
  /\ t = "handler" => handler = "room"
  /\ closing' = r
  /\ running' = running \ {r}
  /\ UNCHANGED <<phase, starts, flagVars, tables, queue, threadVars, listed, lock, core>>

JoinTicker(t) ==
  /\ lock = t /\ closing # Nobody /\ ticker[closing] = "done"
  /\ ticker' = [ticker EXCEPT ![closing] = "none"]
  /\ listed' = listed \ {closing}
  /\ closing' = Nobody
  /\ handler' = IF t = "handler" THEN "reply" ELSE handler
  /\ UNCHANGED <<phase, starts, flagVars, tables, queue, sender, running, lock, core>>

\* create: the room and its tick thread, one to a request.
CreateRoom(r) ==
  /\ lock = "handler" /\ closing = Nobody /\ handler = "room"
  /\ r \notin listed /\ ticker[r] = "none"
  /\ listed' = listed \union {r} /\ running' = running \union {r}
  /\ ticker' = [ticker EXCEPT ![r] = "check"]
  /\ handler' = "reply"
  /\ UNCHANGED <<phase, starts, flagVars, tables, queue, sender, lock, closing, core>>

Unlock ==
  /\ lock \in {"handler", "sender"} /\ closing = Nobody
  /\ lock' = Nobody
  /\ handler' = IF lock = "handler" THEN "check" ELSE handler
  /\ sender' = IF lock = "sender" THEN "check" ELSE sender
  /\ UNCHANGED <<phase, starts, flagVars, tables, queue, ticker, running, listed, closing, core>>

----------------------------------------------------------------------------
(* The threads                                                              *)

HandlerCheck ==
  /\ handler = "check"
  /\ handler' = IF Live THEN "pop" ELSE "done"
  /\ UNCHANGED <<phase, starts, flagVars, tables, queue, sender, roomVars, core>>

\* g_async_queue_pop blocks; a message may need the rooms.
HandlerPop ==
  /\ handler = "pop" /\ queue # <<>>
  /\ queue' = Tail(queue)
  /\ handler' \in IF Head(queue) = "exit" THEN {"done"} ELSE {"check", "room"}
  /\ UNCHANGED <<phase, starts, flagVars, tables, sender, roomVars, core>>

\* One sleep, then the flags again before the pass over the rooms.
SenderCheck ==
  /\ sender = "check"
  /\ sender' = IF Live THEN "pass" ELSE "done"
  /\ UNCHANGED <<phase, starts, flagVars, tables, queue, handler, roomVars, core>>

Ticker(r) ==
  /\ \/ /\ ticker[r] = "check"
        /\ ticker' = [ticker EXCEPT ![r] = IF r \in running /\ ~stopping THEN "tick" ELSE "done"]
     \/ ticker[r] = "tick" /\ ticker' = [ticker EXCEPT ![r] = "check"]
  /\ UNCHANGED <<phase, starts, flagVars, tables, queue, handler, sender, running, listed, lock,
                 closing, core>>

\* A callback of the core: refused, or on its way to the table it uses.  A plugin whose init has
\* not returned gets none.
Enter(c) ==
  /\ core[c] = "out" /\ Live
  /\ Overlap \/ phase \notin {"handler", "sender", "stop"}
  /\ \E use \in {"sessions", "messages", "gateway"} : core' = [core EXCEPT ![c] = use]
  /\ UNCHANGED <<phase, starts, flagVars, tables, queue, handler, sender, roomVars>>

\* handle_message hands its message to the handler.
Return(c) ==
  /\ core[c] # "out"
  /\ \/ core[c] = "messages" /\ Len(queue) < MaxQueue /\ queue' = Append(queue, "request")
     \/ core[c] # "messages" /\ UNCHANGED queue
  /\ core' = [core EXCEPT ![c] = "out"]
  /\ UNCHANGED <<phase, starts, flagVars, tables, handler, sender, roomVars>>

Init ==
  /\ phase = "down" /\ starts = 0
  /\ initialized = FALSE /\ stopping = FALSE
  /\ tables = {} /\ queue = <<>>
  /\ handler = "none" /\ sender = "none"
  /\ ticker = [r \in Rooms |-> "none"]
  /\ running = {} /\ listed = {} /\ lock = Nobody /\ closing = Nobody
  /\ core = [c \in Callbacks |-> "out"]

StartSteps == Load \/ Announce \/ StartHandler \/ StartSender

TeardownSteps ==
  \/ RaiseStopping \/ WakeHandler \/ JoinHandler \/ JoinSender \/ DropSessions
  \/ DropRooms \/ DropMessages \/ DropGateway \/ LowerFlags
  \/ Lock("teardown") \/ (\E r \in Rooms : StopRoom("teardown", r)) \/ JoinTicker("teardown")

HandlerSteps == HandlerCheck \/ HandlerPop \/ Lock("handler") \/ JoinTicker("handler")

SenderSteps == SenderCheck \/ Lock("sender") \/ JoinTicker("sender")

Next ==
  \/ StartSteps \/ Destroy \/ TeardownSteps \/ HandlerSteps \/ SenderSteps \/ Unlock
  \/ \E r \in Rooms : StopRoom("handler", r) \/ StopRoom("sender", r) \/ CreateRoom(r) \/ Ticker(r)
  \/ \E c \in Callbacks : Enter(c) \/ Return(c)

PluginSpec == Init /\ [][Next]_pluginVars

\* Threads run, a lock that is free is taken, callbacks return.
PluginFairSpec ==
  /\ PluginSpec
  /\ WF_pluginVars(TeardownSteps)
  /\ WF_pluginVars(HandlerSteps) /\ WF_pluginVars(SenderSteps) /\ WF_pluginVars(Unlock)
  /\ \A r \in Rooms : WF_pluginVars(Ticker(r))
  /\ \A c \in Callbacks : WF_pluginVars(Return(c))

----------------------------------------------------------------------------
(* Properties.                                                              *)

\* When the teardown is over, after a destroy as after an init that failed half way, no thread
\* is left, no room is listed, nobody holds the lock and both flags are down (the teardown's own
\* promise: "nothing live").
NothingLive ==
  phase = "down" =>
    /\ handler = "none" /\ sender = "none"
    /\ \A r \in Rooms : ticker[r] = "none"
    /\ listed = {} /\ lock = Nobody /\ ~initialized /\ ~stopping

\* Nobody uses a table that is not there: not the threads, not a tick of a room once the plugin
\* is announced, and not a callback of the core that begins after destroy has begun.  One that
\* was past its check of the flags before that (Overlap) the code leaves to the core.
NoUseAfterDrop ==
  /\ handler \notin {"none", "done"} => {"messages", "rooms", "gateway"} \subseteq tables
  /\ sender \notin {"none", "done"} => {"rooms", "gateway"} \subseteq tables
  /\ phase # "loaded" => \A r \in Rooms : ticker[r] = "tick" => "gateway" \in tables
  /\ \A c \in Callbacks : core[c] # "out" => core[c] \in tables

\* Shutdown ends: whatever the threads were doing, the joins of the handler, of the sender and,
\* with rooms_mutex held, of every tick thread come back.
ShutdownEnds == phase = "stop" ~> phase = "down"
=============================================================================
