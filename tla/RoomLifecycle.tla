---------------------------- MODULE RoomLifecycle ----------------------------
(***************************************************************************)
(* Rooms, sessions and who is in what, at the granularity of the locks     *)
(* (src/src/janus_slvoice.c).  One room number; every create makes a new   *)
(* room object.  The threads:                                              *)
(*                                                                         *)
(*   "handler"   the one handler thread: create, destroy, join, leave      *)
(*   "sender"    the sender thread's sweep of empty rooms                  *)
(*   a session   the Janus core calling hangup_media, destroy_session and  *)
(*               setup_media for that handle                               *)
(*   a room      the room's tick thread, reaping joins that got no media   *)
(*                                                                         *)
(* A step is one hold of a lock.  A thread holds rooms_mutex exactly while *)
(* it tears a room down, so the pc says who holds it.  A user_id is drawn  *)
(* at random at every join; here it is the number of the session's joins.  *)
(***************************************************************************)
EXTENDS Integers, FiniteSets

CONSTANTS
  Sessions,      \* plugin sessions (Janus handles)
  Rooms,         \* room objects: each is created at most once
  NoRoom, NoSession,
  Capacity,      \* slv_room_size
  Grace,         \* slv_empty_room_grace_s, in clock ticks
  MediaTimeout,  \* slv_join_media_timeout_s, in clock ticks
  MaxJoins       \* bound: joins of one session

ASSUME LifecycleAssumption ==
  /\ NoRoom \notin Rooms /\ NoSession \notin Sessions
  /\ IsFiniteSet(Sessions) /\ IsFiniteSet(Rooms)
  /\ Sessions \intersect Rooms = {} /\ {"handler", "sender"} \intersect (Sessions \union Rooms) = {}
  /\ Capacity \in Nat \ {0} /\ Grace \in Nat \ {0} /\ MediaTimeout \in Nat \ {0}
  /\ MaxJoins \in Nat

VARIABLES
  table,       \* the room of the number in `rooms`, or NoRoom
  born,        \* room objects created so far
  permanent,   \* of those, the permanent ones
  destroyed,   \* rooms with the destroyed flag set
  ticking,     \* rooms whose tick thread runs
  refs,        \* room->ref, by room
  parts,       \* room->participants: pairs of a session and its user_id
  emptyAge,    \* age of room->empty_since, -1: zero
  sroom,       \* session->room
  uid,         \* session->user_id
  media,       \* session->media_ready
  up,          \* session->webrtc_up
  seen,        \* session->media_seen
  joinAge,     \* age of session->join_ts, -1: zero
  gone,        \* sessions with the destroyed flag set
  proc,        \* what each thread is doing
  overlapped   \* history: two threads have worked on one session at the same time

roomVars == <<table, born, permanent, destroyed, ticking, refs, parts, emptyAge>>
sessVars == <<sroom, uid, media, up, seen, joinAge, gone>>
vars == <<table, born, permanent, destroyed, ticking, refs, parts, emptyAge,
          sroom, uid, media, up, seen, joinAge, gone, proc, overlapped>>

Threads == {"handler", "sender"} \union Sessions \union Rooms

JoinPCs == {"joining", "admitted", "committed", "notify"}
LeavePCs == {"leave", "left", "unlisted", "free"}
TeardownPCs == {"stopping", "evicting"}
ReapPCs == {"reap", "reaped"}
PCs == {"idle"} \union JoinPCs \union LeavePCs \union TeardownPCs \union ReapPCs

Idle == [pc |-> "idle", s |-> NoSession, room |-> NoRoom, uid |-> 0, last |-> FALSE]

Proc == [pc : PCs, s : Sessions \union {NoSession}, room : Rooms \union {NoRoom},
         uid : 0 .. MaxJoins, last : BOOLEAN]

TypeOK ==
  /\ table \in Rooms \union {NoRoom}
  /\ born \subseteq Rooms /\ permanent \subseteq born /\ destroyed \subseteq born
  /\ ticking \subseteq born
  /\ refs \in [Rooms -> Int]
  /\ parts \in [Rooms -> SUBSET (Sessions \X (1 .. MaxJoins))]
  /\ emptyAge \in [Rooms -> -1 .. Grace]
  /\ sroom \in [Sessions -> Rooms \union {NoRoom}]
  /\ uid \in [Sessions -> 0 .. MaxJoins]
  /\ media \subseteq Sessions /\ up \subseteq Sessions /\ seen \subseteq Sessions
  /\ joinAge \in [Sessions -> -1 .. MediaTimeout]
  /\ gone \subseteq Sessions
  /\ proc \in [Threads -> Proc]
  /\ overlapped \in BOOLEAN

Doing(t, pc) == proc[t].pc = pc

Goto(t, pc) == proc' = [proc EXCEPT ![t].pc = pc]

Finish(t) == proc' = [proc EXCEPT ![t] = Idle]

RoomsMutexFree == \A t \in {"handler", "sender"} : proc[t].pc \notin TeardownPCs

\* Is a thread in the middle of something with this session?  A reap that has
\* only collected it will check again.
Busy(s) == \E t \in Threads : proc[t].s = s /\ proc[t].pc \notin {"idle", "reap"}

\* A thread starts on the session, whoever else is at work on it: the code has no
\* lock over a whole join, leave or call of the core.
Touch(s) == overlapped' = (overlapped \/ Busy(s))

----------------------------------------------------------------------------
(* create *)

\* A room is born empty, so its grace clock starts; the table and the tick
\* thread hold a reference each.
CreateRoom(r, perm) ==
  /\ Doing("handler", "idle") /\ RoomsMutexFree
  /\ table = NoRoom /\ r \notin born
  /\ table' = r
  /\ born' = born \union {r}
  /\ permanent' = IF perm THEN permanent \union {r} ELSE permanent
  /\ ticking' = ticking \union {r}
  /\ refs' = [refs EXCEPT ![r] = 2]
  /\ emptyAge' = [emptyAge EXCEPT ![r] = IF perm THEN -1 ELSE 0]
  /\ UNCHANGED <<destroyed, parts, proc>> /\ UNCHANGED <<sessVars, overlapped>>

\* The number is taken (486): an empty room's grace clock starts again.
CreateExists ==
  /\ Doing("handler", "idle") /\ RoomsMutexFree
  /\ table # NoRoom /\ table \notin permanent
  /\ emptyAge[table] # -1 /\ parts[table] = {}
  /\ emptyAge' = [emptyAge EXCEPT ![table] = 0]
  /\ UNCHANGED <<table, born, permanent, destroyed, ticking, refs, parts, proc>>
  /\ UNCHANGED <<sessVars, overlapped>>

----------------------------------------------------------------------------
(* Tearing a room down: the destroy request and the empty-room sweep *)

DestroyRequest ==
  /\ Doing("handler", "idle") /\ RoomsMutexFree
  /\ table # NoRoom
  /\ destroyed' = destroyed \union {table}
  /\ proc' = [proc EXCEPT !["handler"] = [Idle EXCEPT !.pc = "stopping", !.room = table]]
  /\ UNCHANGED <<table, born, permanent, ticking, refs, parts, emptyAge>>
  /\ UNCHANGED <<sessVars, overlapped>>

\* (mutant) a zero empty_since counts as long ago, and occupancy is not read
Sweep_anyRoom ==
  /\ Doing("sender", "idle") /\ RoomsMutexFree
  /\ table # NoRoom /\ table \notin permanent /\ table \notin destroyed
  /\ emptyAge[table] \in {-1, Grace}
  /\ destroyed' = destroyed \union {table}
  /\ proc' = [proc EXCEPT !["sender"] = [Idle EXCEPT !.pc = "stopping", !.room = table]]
  /\ UNCHANGED <<table, born, permanent, ticking, refs, parts, emptyAge>>
  /\ UNCHANGED <<sessVars, overlapped>>

\* The verdict and the destroyed flag are taken together under room->mutex.
Sweep ==
  /\ Doing("sender", "idle") /\ RoomsMutexFree
  /\ table # NoRoom /\ table \notin permanent /\ table \notin destroyed
  /\ emptyAge[table] >= Grace /\ parts[table] = {}
  /\ destroyed' = destroyed \union {table}
  /\ proc' = [proc EXCEPT !["sender"] = [Idle EXCEPT !.pc = "stopping", !.room = table]]
  /\ UNCHANGED <<table, born, permanent, ticking, refs, parts, emptyAge>>
  /\ UNCHANGED <<sessVars, overlapped>>

\* room_stop: waits for the tick thread, which first ends the reap it is in
StopTicker(t) ==
  /\ Doing(t, "stopping")
  /\ Doing(proc[t].room, "idle")
  /\ ticking' = ticking \ {proc[t].room}
  /\ refs' = [refs EXCEPT ![proc[t].room] = @ - 1]
  /\ Goto(t, "evicting")
  /\ UNCHANGED <<table, born, permanent, destroyed, parts, emptyAge>>
  /\ UNCHANGED <<sessVars, overlapped>>

Members(r) == {s \in Sessions : sroom[s] = r /\ \E n \in 1 .. MaxJoins : <<s, n>> \in parts[r]}

\* (mutant) the reference of every participant is dropped, also of one whose
\* leave has taken it over
Evict_everyRef(t) ==
  LET r == proc[t].room
  IN  /\ Doing(t, "evicting")
      /\ sroom' = [s \in Sessions |-> IF s \in Members(r) THEN NoRoom ELSE sroom[s]]
      /\ refs' = [refs EXCEPT ![r] = @ - Cardinality(parts[r]) - 1]
      /\ parts' = [parts EXCEPT ![r] = {}]
      /\ table' = NoRoom
      /\ Finish(t)
      /\ UNCHANGED <<born, permanent, destroyed, ticking, emptyAge,
                     uid, media, up, seen, joinAge, gone, overlapped>>

\* (mutant) the stragglers keep their room pointer, and its reference
Evict_keepsPointers(t) ==
  /\ Doing(t, "evicting")
  /\ refs' = [refs EXCEPT ![proc[t].room] = @ - 1]
  /\ parts' = [parts EXCEPT ![proc[t].room] = {}]
  /\ table' = NoRoom
  /\ Finish(t)
  /\ UNCHANGED <<born, permanent, destroyed, ticking, emptyAge>>
  /\ UNCHANGED <<sessVars, overlapped>>

\* The stragglers still pointing here are evicted, with their references; the
\* room leaves the table, whose reference goes last.
Evict(t) ==
  LET r == proc[t].room
  IN  /\ Doing(t, "evicting")
      /\ sroom' = [s \in Sessions |-> IF s \in Members(r) THEN NoRoom ELSE sroom[s]]
      /\ refs' = [refs EXCEPT ![r] = @ - Cardinality(Members(r)) - 1]
      /\ parts' = [parts EXCEPT ![r] = {}]
      /\ table' = NoRoom
      /\ Finish(t)
      /\ UNCHANGED <<born, permanent, destroyed, ticking, emptyAge,
                     uid, media, up, seen, joinAge, gone, overlapped>>

----------------------------------------------------------------------------
(* join, on the handler thread *)

\* Not already in a room, and the number names a live room: take a reference.
JoinStart(s) ==
  /\ Doing("handler", "idle") /\ RoomsMutexFree
  /\ s \notin gone /\ sroom[s] = NoRoom /\ uid[s] < MaxJoins /\ Touch(s)
  /\ table # NoRoom /\ table \notin destroyed
  /\ refs' = [refs EXCEPT ![table] = @ + 1]
  /\ proc' = [proc EXCEPT !["handler"] =
                 [Idle EXCEPT !.pc = "joining", !.s = s, !.room = table]]
  /\ UNCHANGED <<table, born, permanent, destroyed, ticking, parts, emptyAge>>
  /\ UNCHANGED sessVars

\* No offer, a capability refused, a full room, or a failed negotiation.
JoinRefuse ==
  /\ proc["handler"].pc \in {"joining", "admitted"}
  /\ refs' = [refs EXCEPT ![proc["handler"].room] = @ - 1]
  /\ Finish("handler")
  /\ UNCHANGED <<table, born, permanent, destroyed, ticking, parts, emptyAge>>
  /\ UNCHANGED <<sessVars, overlapped>>

JoinAdmit ==
  /\ Doing("handler", "joining")
  /\ Cardinality(parts[proc["handler"].room]) < Capacity
  /\ Goto("handler", "admitted")
  /\ UNCHANGED roomVars /\ UNCHANGED <<sessVars, overlapped>>

\* (mutant) the media clock is not started
JoinCommit_noClock ==
  LET s == proc["handler"].s
  IN  /\ Doing("handler", "admitted")
      /\ sroom' = [sroom EXCEPT ![s] = proc["handler"].room]
      /\ uid' = [uid EXCEPT ![s] = @ + 1]
      /\ seen' = IF s \in up THEN seen \union {s} ELSE seen \ {s}
      /\ media' \in {media, media \union {s}}
      /\ proc' = [proc EXCEPT !["handler"].pc = "committed", !["handler"].uid = uid[s] + 1]
      /\ UNCHANGED roomVars /\ UNCHANGED <<up, joinAge, gone, overlapped>>

\* The reference passes to the session; its media clock starts, its codecs and
\* buffers are allocated (a failure is not fatal: the participant is silent).
JoinCommit ==
  LET s == proc["handler"].s
  IN  /\ Doing("handler", "admitted")
      /\ sroom' = [sroom EXCEPT ![s] = proc["handler"].room]
      /\ uid' = [uid EXCEPT ![s] = @ + 1]
      /\ joinAge' = [joinAge EXCEPT ![s] = 0]
      /\ seen' = IF s \in up THEN seen \union {s} ELSE seen \ {s}
      /\ media' \in {media, media \union {s}}
      /\ proc' = [proc EXCEPT !["handler"].pc = "committed", !["handler"].uid = uid[s] + 1]
      /\ UNCHANGED roomVars /\ UNCHANGED <<up, gone, overlapped>>

\* (mutant) the destroyed flag is not looked at again
JoinInsert_unchecked ==
  LET p == proc["handler"]
  IN  /\ Doing("handler", "committed")
      /\ parts' = [parts EXCEPT ![p.room] = @ \union {<<p.s, p.uid>>}]
      /\ emptyAge' = [emptyAge EXCEPT ![p.room] = -1]
      /\ Goto("handler", "notify")
      /\ UNCHANGED <<table, born, permanent, destroyed, ticking, refs>>
      /\ UNCHANGED <<sessVars, overlapped>>

\* A join cancels the grace destroy.
JoinInsert ==
  LET p == proc["handler"]
  IN  /\ Doing("handler", "committed") /\ p.room \notin destroyed
      /\ parts' = [parts EXCEPT ![p.room] = @ \union {<<p.s, p.uid>>}]
      /\ emptyAge' = [emptyAge EXCEPT ![p.room] = -1]
      /\ Goto("handler", "notify")
      /\ UNCHANGED <<table, born, permanent, destroyed, ticking, refs>>
      /\ UNCHANGED <<sessVars, overlapped>>

\* The room was destroyed since the lookup: membership is undone (485).
JoinUndo ==
  LET p == proc["handler"]
  IN  /\ Doing("handler", "committed") /\ p.room \in destroyed
      /\ sroom' = [sroom EXCEPT ![p.s] = IF @ = p.room THEN NoRoom ELSE @]
      /\ media' = media \ {p.s}
      /\ refs' = [refs EXCEPT ![p.room] = @ - 1]
      /\ Finish("handler")
      /\ UNCHANGED <<table, born, permanent, destroyed, ticking, parts, emptyAge,
                     uid, up, seen, joinAge, gone, overlapped>>

\* The "j" presence, through a room pointer borrowed from the session.
JoinNotify ==
  /\ Doing("handler", "notify")
  /\ Finish("handler")
  /\ UNCHANGED roomVars /\ UNCHANGED <<sessVars, overlapped>>

----------------------------------------------------------------------------
(* Leaving: one routine for the leave request, a hangup, the destruction of *)
(* the session and the reap                                                 *)

\* (mutant) the media is freed before the participant is out of the room
TakeOut_freesFirst(t, s, last) ==
  /\ sroom' = [sroom EXCEPT ![s] = NoRoom]
  /\ media' = media \ {s}
  /\ proc' = [proc EXCEPT ![t] =
                 [pc |-> IF sroom[s] = NoRoom THEN "free" ELSE "left",
                  s |-> s, room |-> sroom[s], uid |-> uid[s], last |-> last]]

\* Whoever finds the session in a room takes over its reference.
TakeOut(t, s, last) ==
  /\ sroom' = [sroom EXCEPT ![s] = NoRoom]
  /\ proc' = [proc EXCEPT ![t] =
                 [pc |-> IF sroom[s] = NoRoom THEN "free" ELSE "left",
                  s |-> s, room |-> sroom[s], uid |-> uid[s], last |-> last]]
  /\ UNCHANGED media

\* (mutant) an emptied room gets no grace clock
Unlist_noClock(t) ==
  LET p == proc[t]
  IN  /\ Doing(t, "left")
      /\ parts' = [parts EXCEPT ![p.room] = @ \ {<<p.s, p.uid>>}]
      /\ Goto(t, "unlisted")
      /\ UNCHANGED <<table, born, permanent, destroyed, ticking, refs, emptyAge>>
      /\ UNCHANGED <<sessVars, overlapped>>

\* Out of the participants; the last one out starts the grace clock.
Unlist(t) ==
  LET p == proc[t]
  IN  /\ Doing(t, "left")
      /\ parts' = [parts EXCEPT ![p.room] = @ \ {<<p.s, p.uid>>}]
      /\ emptyAge' = [emptyAge EXCEPT ![p.room] =
                        IF p.room \notin permanent /\ parts'[p.room] = {} THEN 0 ELSE @]
      /\ Goto(t, "unlisted")
      /\ UNCHANGED <<table, born, permanent, destroyed, ticking, refs>>
      /\ UNCHANGED <<sessVars, overlapped>>

DropRef(t) ==
  /\ Doing(t, "unlisted")
  /\ refs' = [refs EXCEPT ![proc[t].room] = @ - 1]
  /\ Goto(t, "free")
  /\ UNCHANGED <<table, born, permanent, destroyed, ticking, parts, emptyAge>>
  /\ UNCHANGED <<sessVars, overlapped>>

\* media_free; destroy_session then retires the session itself.
FreeMedia(t) ==
  /\ Doing(t, "free")
  /\ media' = media \ {proc[t].s}
  /\ gone' = IF proc[t].last THEN gone \union {proc[t].s} ELSE gone
  /\ Finish(t)
  /\ UNCHANGED roomVars /\ UNCHANGED <<sroom, uid, up, seen, joinAge, overlapped>>

LeaveRequest(s) ==
  /\ Doing("handler", "idle") /\ s \notin gone /\ sroom[s] # NoRoom /\ Touch(s)
  /\ proc' = [proc EXCEPT !["handler"] = [Idle EXCEPT !.pc = "leave", !.s = s]]
  /\ UNCHANGED roomVars /\ UNCHANGED sessVars

LeaveTakeOut ==
  /\ Doing("handler", "leave")
  /\ TakeOut("handler", proc["handler"].s, FALSE)
  /\ UNCHANGED roomVars /\ UNCHANGED <<uid, up, seen, joinAge, gone, overlapped>>

HangupMedia(s) ==
  /\ Doing(s, "idle") /\ s \notin gone /\ Touch(s)
  /\ up' = up \ {s}
  /\ TakeOut(s, s, FALSE)
  /\ UNCHANGED roomVars /\ UNCHANGED <<uid, seen, joinAge, gone>>

DestroySession(s) ==
  /\ Doing(s, "idle") /\ s \notin gone /\ Touch(s)
  /\ TakeOut(s, s, TRUE)
  /\ UNCHANGED roomVars /\ UNCHANGED <<uid, up, seen, joinAge, gone>>

----------------------------------------------------------------------------
(* Media up, and the reap of joins that got none *)

SetupMedia(s) ==
  /\ Doing(s, "idle") /\ s \notin gone /\ Touch(s)
  /\ up' = up \union {s} /\ seen' = seen \union {s}
  /\ UNCHANGED roomVars /\ UNCHANGED <<sroom, uid, media, joinAge, gone, proc>>

\* Under room->mutex the tick only picks the session out; it remembers join_ts
\* (here: which join it was).  The tick_running of a room being torn down is
\* already clear.
ReapCollect(r, s) ==
  /\ r \in ticking \ destroyed /\ Doing(r, "idle")
  /\ \E n \in 1 .. MaxJoins : <<s, n>> \in parts[r]
  /\ joinAge[s] = MediaTimeout /\ s \notin seen /\ s \notin gone
  /\ proc' = [proc EXCEPT ![r] =
                 [Idle EXCEPT !.pc = "reap", !.s = s, !.room = r, !.uid = uid[s]]]
  /\ UNCHANGED roomVars /\ UNCHANGED <<sessVars, overlapped>>

StillWithoutMedia(r) ==
  LET s == proc[r].s
  IN  sroom[s] = r /\ uid[s] = proc[r].uid /\ joinAge[s] # -1 /\ s \notin seen /\ s \notin gone

\* The lock was let go in between, so the verdict is taken again.
ReapCheck(r) ==
  /\ Doing(r, "reap")
  /\ IF StillWithoutMedia(r)
       THEN /\ joinAge' = [joinAge EXCEPT ![proc[r].s] = -1]
            /\ Goto(r, "reaped")
            /\ Touch(proc[r].s)
       ELSE /\ Finish(r)
            /\ UNCHANGED <<joinAge, overlapped>>
  /\ UNCHANGED roomVars /\ UNCHANGED <<sroom, uid, media, up, seen, gone>>

\* media_gone
ReapTakeOut(r) ==
  /\ Doing(r, "reaped")
  /\ up' = up \ {proc[r].s}
  /\ TakeOut(r, proc[r].s, FALSE)
  /\ UNCHANGED roomVars /\ UNCHANGED <<uid, seen, joinAge, gone, overlapped>>

----------------------------------------------------------------------------
Older(age, limit) == IF age \in 0 .. limit - 1 THEN age + 1 ELSE age

\* Time passes (it saturates where nothing looks any further).
Clock ==
  /\ emptyAge' = [r \in Rooms |-> Older(emptyAge[r], Grace)]
  /\ joinAge' = [s \in Sessions |-> Older(joinAge[s], MediaTimeout)]
  /\ <<emptyAge', joinAge'>> # <<emptyAge, joinAge>>
  /\ UNCHANGED <<table, born, permanent, destroyed, ticking, refs, parts,
                 sroom, uid, media, up, seen, gone, proc, overlapped>>

Init ==
  /\ table = NoRoom
  /\ born = {} /\ permanent = {} /\ destroyed = {} /\ ticking = {}
  /\ refs = [r \in Rooms |-> 0]
  /\ parts = [r \in Rooms |-> {}]
  /\ emptyAge = [r \in Rooms |-> -1]
  /\ sroom = [s \in Sessions |-> NoRoom]
  /\ uid = [s \in Sessions |-> 0]
  /\ media = {} /\ up = {} /\ seen = {} /\ gone = {}
  /\ joinAge = [s \in Sessions |-> -1]
  /\ proc = [t \in Threads |-> Idle]
  /\ overlapped = FALSE

\* A thread that has started something goes on with it.
JoinStep == JoinRefuse \/ JoinAdmit \/ JoinCommit \/ JoinInsert \/ JoinUndo \/ JoinNotify

LeaveStep(t) == Unlist(t) \/ DropRef(t) \/ FreeMedia(t)

TeardownStep(t) == StopTicker(t) \/ Evict(t)

ReapStep(r) == ReapCheck(r) \/ ReapTakeOut(r)

Request ==
  \/ \E r \in Rooms, perm \in BOOLEAN : CreateRoom(r, perm)
  \/ CreateExists
  \/ DestroyRequest
  \/ \E s \in Sessions : JoinStart(s) \/ LeaveRequest(s)

CoreCall(s) == HangupMedia(s) \/ DestroySession(s) \/ SetupMedia(s)

Next ==
  \/ Request
  \/ JoinStep
  \/ LeaveTakeOut
  \/ \E t \in Threads : LeaveStep(t)
  \/ Sweep
  \/ \E t \in {"handler", "sender"} : TeardownStep(t)
  \/ \E s \in Sessions : CoreCall(s)
  \/ \E r \in Rooms, s \in Sessions : ReapCollect(r, s)
  \/ \E r \in Rooms : ReapStep(r)
  \/ Clock

Spec == Init /\ [][Next]_vars

\* What the scheduler owes: a thread that is in the middle of something goes on,
\* the sender keeps sweeping, the rooms keep ticking, and time passes.  Nobody
\* owes a request or a call of the core.
Fairness ==
  /\ WF_vars(JoinStep) /\ WF_vars(LeaveTakeOut)
  /\ \A t \in Threads : WF_vars(LeaveStep(t))
  /\ \A t \in {"handler", "sender"} : WF_vars(TeardownStep(t))
  /\ WF_vars(Sweep)
  /\ \A r \in Rooms, s \in Sessions : WF_vars(ReapCollect(r, s))
  /\ \A r \in Rooms : WF_vars(ReapStep(r))
  /\ WF_vars(Clock)

FairSpec == Spec /\ Fairness

----------------------------------------------------------------------------
(* Safety *)

\* A thread that owns a reference of its own: a join before it commits, a leave
\* that took the session out and has not dropped the room yet.
Holds(t, r) ==
  /\ proc[t].room = r
  /\ proc[t].pc \in {"joining", "admitted", "left", "unlisted"}

Holders(r) ==
  Cardinality({s \in Sessions : sroom[s] = r}) + Cardinality({t \in Threads : Holds(t, r)})
  + (IF table = r THEN 1 ELSE 0) + (IF r \in ticking THEN 1 ELSE 0)

\* room->ref counts exactly the table, the tick thread, the sessions pointing at
\* the room and the threads that own a reference in passing: leave_room,
\* room_teardown_locked and the undone join never drop one twice or lose one.
RefsExact == \A r \in Rooms : refs[r] = Holders(r)

\* The leave that is about to remove the row.
Leaving(t, s, r, n) ==
  proc[t].pc = "left" /\ proc[t].s = s /\ proc[t].room = r /\ proc[t].uid = n

\* Every row of room->participants is a session that is in the room under that
\* user_id, or whose leave_room is about to remove the row.
ParticipantsBacked ==
  \A r \in Rooms, s \in Sessions, n \in 1 .. MaxJoins : <<s, n>> \in parts[r] =>
    \/ sroom[s] = r /\ uid[s] = n
    \/ \E t \in Threads : Leaving(t, s, r, n)

\* A session that destroy_session has retired is in no room's participants: the
\* tick never meets freed memory.
RowsAlive ==
  \A r \in Rooms, s \in Sessions, n \in 1 .. MaxJoins : <<s, n>> \in parts[r] => s \notin gone

\* As long as a session has one thread at a time, references are exact, rows are
\* backed and destroy_session leaves no freed memory in the participants.
SoloBooks == ~overlapped => RefsExact /\ ParticipantsBacked /\ RowsAlive

\* Capacity is checked and the participant inserted under two different holds of
\* room->mutex, with the negotiation in between; the room still never overfills,
\* even by a session that is in it twice.
CapacityRespected == \A r \in Rooms : Cardinality(parts[r]) <= Capacity

\* A session whose room pointer is set is in that room's participants, except
\* while its own join is between the commit and the insert.
MembersListed ==
  \A s \in Sessions : sroom[s] # NoRoom =>
    \/ <<s, uid[s]>> \in parts[sroom[s]]
    \/ Doing("handler", "committed") /\ proc["handler"].s = s

\* An empty room that is not permanent has its grace clock running, whichever
\* path emptied it: no room ticks for ever with nobody in it.
EmptyHasClock ==
  \A r \in (born \ permanent) \ destroyed : parts[r] = {} => emptyAge[r] # -1

\* The books of a room in every interleaving, also of threads that work on the
\* same session at once: capacity, listing and the grace clock.
RoomBooks == TypeOK /\ CapacityRespected /\ MembersListed /\ EmptyHasClock

\* The sweep never takes a room from under a session that has joined it; a join
\* still before its insert finds out and undoes itself.
SweepSparesJoined ==
  [][\A r \in destroyed' \ destroyed :
       Doing("sender", "stopping")' => \A s \in Sessions :
         sroom[s] = r => Doing("handler", "committed") /\ proc["handler"].s = s]_vars

\* The codecs and buffers of a session are never freed while a tick can reach
\* it: media_free comes after the removal from the participants on every path
\* (one thread at a time for a session).
MediaFreedUnlisted ==
  [][~overlapped' => \A s \in media \ media', r \in Rooms, n \in 1 .. MaxJoins :
        <<s, n>> \notin parts[r]]_vars

----------------------------------------------------------------------------
(* Liveness *)

\* Every room that is destroyed is freed: the tick thread ends, the stragglers
\* are evicted and joins in flight let go, so the last reference is dropped (one
\* thread at a time for a session).
RoomsFreed == []<>(overlapped \/ \A r \in destroyed : refs[r] = 0)

\* A room that is not permanent does not stay empty: the sweep takes it, unless
\* somebody joins or a create for its number starts its clock again.
EmptyRoomsSwept ==
  []<>~(/\ table # NoRoom /\ table \notin permanent \union destroyed
        /\ parts[table] = {} /\ emptyAge[table] # 0)

\* A joined session whose media never comes up does not stay in its room: the
\* tick reaps it (one thread at a time for a session).
NoMediaReaped ==
  \A s \in Sessions : []<>(sroom[s] = NoRoom \/ s \in seen \/ overlapped)
=============================================================================
