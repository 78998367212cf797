-------------------------- MODULE RoomLifecycleProofs --------------------------
(***************************************************************************)
(* What the room and session books guarantee for every set of sessions and *)
(* rooms, every room size, and every interleaving of the handler, the      *)
(* sender, the core's callbacks and the tick threads.                      *)
(*                                                                         *)
(* The argument is in three layers, each inductive given the ones below:   *)
(* Typed says where each thread is; Books says what the room locks         *)
(* guarantee however the threads interleave; SoloInv says what in addition *)
(* holds as long as no two threads have worked on one session at once.     *)
(***************************************************************************)
EXTENDS RoomLifecycle, FiniteSetTheorems, TLAPS

\* What each program counter says of the thread that is there, and of the room
\* it works on.  A thread is in a teardown only with rooms_mutex, so at most one
\* is, and it is the table's room that goes.
Placed ==
  /\ table # NoRoom => table \in born
  /\ \A s \in Sessions : sroom[s] # NoRoom => sroom[s] \in born
  /\ \A t \in Threads :
       LET p == proc[t]
       IN  /\ p.room # NoRoom => p.room \in born
           /\ p.pc \in (PCs \ {"idle"}) \ TeardownPCs => p.s \in Sessions
           /\ p.pc \in (JoinPCs \union TeardownPCs \union {"left", "unlisted"}) => p.room \in Rooms
           /\ p.pc \in JoinPCs \union {"leave"} => t = "handler"
           /\ p.pc \in TeardownPCs => t \in {"handler", "sender"}
  /\ proc["handler"].pc \in {"joining", "admitted"} => uid[proc["handler"].s] < MaxJoins
  /\ proc["handler"].pc = "committed" => proc["handler"].uid \in 1 .. MaxJoins

\* A room in teardown is the table's, and ticks until its thread was waited for.
TeardownShape ==
  /\ \A t \in {"handler", "sender"} :
       proc[t].pc \in TeardownPCs => proc[t].room = table /\ table \in destroyed
  /\ \A t \in {"handler", "sender"} : proc[t].pc = "stopping" => table \in ticking
  /\ proc["handler"].pc \in TeardownPCs => proc["sender"].pc \notin TeardownPCs
  /\ RoomsMutexFree /\ table # NoRoom => table \in ticking

\* What the handler knows of the join it is in.
JoinShape ==
  LET p == proc["handler"]
  IN  /\ p.pc \in {"joining", "admitted"} => sroom[p.s] = NoRoom
      /\ p.pc \in {"admitted", "committed"} => Cardinality(parts[p.room]) < Capacity
      /\ p.pc = "committed" =>
           /\ p.uid = uid[p.s] /\ sroom[p.s] \in {NoRoom, p.room}
           /\ \A r \in Rooms : <<p.s, p.uid>> \notin parts[r]

\* Rows are of joins that were, and a leave removes a row of a join that is over.
RowShape ==
  /\ \A r \in Rooms, s \in Sessions, n \in 1 .. MaxJoins : <<s, n>> \in parts[r] => n <= uid[s]
  /\ \A t \in Threads :
       LET p == proc[t]
       IN  p.pc = "left" => /\ p.uid <= uid[p.s]
                            /\ sroom[p.s] = NoRoom \/ p.uid < uid[p.s]

\* The thread is at work on a session.
At(t) == proc[t].pc \notin {"idle", "reap"} /\ proc[t].s \in Sessions

\* One thread at a time for a session.
OneThread == \A t, u \in Threads : At(t) /\ At(u) /\ proc[t].s = proc[u].s => t = u

\* What the one thread then knows: a join that has committed still has its room,
\* a joiner is not retired, and a session that was taken out stays out.
SoloView ==
  /\ proc["handler"].pc = "committed" => sroom[proc["handler"].s] = proc["handler"].room
  /\ proc["handler"].pc \in {"joining", "admitted", "committed"} => proc["handler"].s \notin gone
  /\ \A t \in Threads : proc[t].pc \in {"left", "unlisted", "free"} => sroom[proc[t].s] = NoRoom

Solo == OneThread /\ SoloView /\ RefsExact /\ ParticipantsBacked /\ RowsAlive

SoloInv == ~overlapped => Solo
----------------------------------------------------------------------------
\* The threads

\* No session or room has the name of the handler or the sender, or of the other.
LEMMA ThreadNames ==
  /\ "handler" \in Threads /\ "sender" \in Threads
  /\ Sessions \subseteq Threads /\ Rooms \subseteq Threads
  /\ \A t \in Sessions \union Rooms : t # "handler" /\ t # "sender"
  /\ \A s \in Sessions : s \notin Rooms
  BY LifecycleAssumption DEF Threads

\* The bounds are numbers.
LEMMA Numbers ==
  /\ Capacity \in Nat /\ Capacity >= 1 /\ Grace \in Nat /\ Grace >= 1
  /\ MediaTimeout \in Nat /\ MediaTimeout >= 1 /\ MaxJoins \in Nat
  BY LifecycleAssumption

\* What an idle thread looks like.
LEMMA IdleFacts ==
  /\ Idle \in Proc
  /\ Idle.pc = "idle" /\ Idle.s = NoSession /\ Idle.room = NoRoom /\ Idle.uid = 0
<1>1. "idle" \in PCs /\ 0 \in 0 .. MaxJoins
  BY Numbers DEF PCs
<1> QED BY <1>1 DEF Idle, Proc

\* A thread that goes on changes its program counter and nothing else.
LEMMA GotoEffect ==
  ASSUME proc \in [Threads -> Proc], NEW t \in Threads, NEW pc \in PCs, Goto(t, pc)
  PROVE  /\ proc' \in [Threads -> Proc]
         /\ proc'[t].pc = pc /\ proc'[t].s = proc[t].s /\ proc'[t].room = proc[t].room
         /\ proc'[t].uid = proc[t].uid /\ proc'[t].last = proc[t].last
         /\ \A u \in Threads : u # t => proc'[u] = proc[u]
<1>1. proc[t] \in Proc
  OBVIOUS
<1>2. proc' = [proc EXCEPT ![t] = [proc[t] EXCEPT !.pc = pc]]
  BY DEF Goto
<1>3. [proc[t] EXCEPT !.pc = pc] \in Proc
  BY <1>1 DEF Proc
<1>4. proc'[t] = [proc[t] EXCEPT !.pc = pc] /\ \A u \in Threads : u # t => proc'[u] = proc[u]
  BY <1>2
<1>5. proc' \in [Threads -> Proc]
  BY <1>2, <1>3
<1> QED BY <1>1, <1>4, <1>5 DEF Proc

\* A thread that has finished is idle.
LEMMA FinishEffect ==
  ASSUME proc \in [Threads -> Proc], NEW t \in Threads, Finish(t)
  PROVE  /\ proc' \in [Threads -> Proc] /\ proc'[t] = Idle
         /\ \A u \in Threads : u # t => proc'[u] = proc[u]
  BY IdleFacts DEF Finish

\* A thread that starts on something.
LEMMA StartEffect ==
  ASSUME proc \in [Threads -> Proc], NEW t \in Threads, NEW p \in Proc,
         proc' = [proc EXCEPT ![t] = p]
  PROVE  /\ proc' \in [Threads -> Proc] /\ proc'[t] = p
         /\ \A u \in Threads : u # t => proc'[u] = proc[u]
  OBVIOUS

\* What the thread that takes a session out is left with.
LEMMA TakeOutEffect ==
  ASSUME TypeOK, NEW t \in Threads, NEW s \in Sessions, NEW last \in BOOLEAN, TakeOut(t, s, last)
  PROVE  /\ proc' \in [Threads -> Proc]
         /\ proc'[t].pc = IF sroom[s] = NoRoom THEN "free" ELSE "left"
         /\ proc'[t].s = s /\ proc'[t].room = sroom[s] /\ proc'[t].uid = uid[s]
         /\ proc'[t].last = last
         /\ \A u \in Threads : u # t => proc'[u] = proc[u]
         /\ sroom' \in [Sessions -> Rooms \union {NoRoom}]
         /\ sroom'[s] = NoRoom /\ \A v \in Sessions : v # s => sroom'[v] = sroom[v]
<1> DEFINE p == [pc |-> IF sroom[s] = NoRoom THEN "free" ELSE "left",
                 s |-> s, room |-> sroom[s], uid |-> uid[s], last |-> last]
<1>1. sroom[s] \in Rooms \union {NoRoom} /\ uid[s] \in 0 .. MaxJoins
  BY DEF TypeOK
<1>2. p \in Proc
  BY <1>1 DEF Proc, PCs, LeavePCs
<1>3. proc \in [Threads -> Proc] /\ proc' = [proc EXCEPT ![t] = p]
  BY DEF TypeOK, TakeOut
<1>4. /\ proc' \in [Threads -> Proc] /\ proc'[t] = p
      /\ \A u \in Threads : u # t => proc'[u] = proc[u]
  BY <1>2, <1>3, StartEffect
<1>5. /\ sroom' \in [Sessions -> Rooms \union {NoRoom}]
      /\ sroom'[s] = NoRoom /\ \A v \in Sessions : v # s => sroom'[v] = sroom[v]
  BY DEF TakeOut, TypeOK
<1> QED BY <1>4, <1>5
----------------------------------------------------------------------------
\* Types

\* A reference more or less is still a number.
LEMMA DropOne ==
  ASSUME refs \in [Rooms -> Int], NEW q \in Rooms,
         refs' = [refs EXCEPT ![q] = @ - 1] \/ refs' = [refs EXCEPT ![q] = @ + 1]
  PROVE  refs' \in [Rooms -> Int]
<1>1. refs[q] - 1 \in Int /\ refs[q] + 1 \in Int
  OBVIOUS
<1> QED BY <1>1

Typed == TypeOK /\ Placed

\* The requests
LEMMA RequestTyped ==
  ASSUME Typed, Request
  PROVE  Typed'
<1> USE ThreadNames, IdleFacts, Numbers DEF Typed
<1>0. TypeOK /\ Placed /\ proc \in [Threads -> Proc]
  BY DEF TypeOK
<1>1. ASSUME NEW r \in Rooms, NEW perm \in BOOLEAN, CreateRoom(r, perm) PROVE Typed'
  <2>1. TypeOK'
    BY <1>0, <1>1 DEF CreateRoom, TypeOK, sessVars
  <2>2. Placed'
    BY <1>0, <1>1 DEF CreateRoom, TypeOK, Placed, sessVars
  <2> QED BY <2>1, <2>2
<1>2. CASE CreateExists
  <2>1. table \in Rooms
    BY <1>0, <1>2 DEF CreateExists, TypeOK
  <2>2. TypeOK'
    BY <1>0, <1>2, <2>1 DEF CreateExists, TypeOK, sessVars
  <2>3. Placed'
    BY <1>0, <1>2 DEF CreateExists, Placed, sessVars
  <2> QED BY <2>2, <2>3
<1>3. CASE DestroyRequest
  <2> DEFINE p == [Idle EXCEPT !.pc = "stopping", !.room = table]
  <2>1. table \in Rooms /\ table \in born
    BY <1>0, <1>3 DEF DestroyRequest, TypeOK, Placed
  <2>2. p \in Proc /\ p.pc = "stopping" /\ p.room = table
    BY <2>1 DEF Proc, PCs, TeardownPCs
  <2>3. /\ proc' \in [Threads -> Proc] /\ proc'["handler"] = p
        /\ \A u \in Threads : u # "handler" => proc'[u] = proc[u]
    BY <1>0, <1>3, <2>2, StartEffect DEF DestroyRequest
  <2>4. TypeOK'
    BY <1>0, <1>3, <2>1, <2>3 DEF DestroyRequest, TypeOK, sessVars
  <2> HIDE DEF p
  <2>5. Placed'
    BY <1>0, <1>3, <2>1, <2>2, <2>3
       DEF DestroyRequest, Placed, sessVars, PCs, JoinPCs, LeavePCs, TeardownPCs, ReapPCs
  <2> QED BY <2>4, <2>5
<1>4. ASSUME NEW s \in Sessions, JoinStart(s) PROVE Typed'
  <2> DEFINE p == [Idle EXCEPT !.pc = "joining", !.s = s, !.room = table]
  <2>1. table \in Rooms /\ table \in born
    BY <1>0, <1>4 DEF JoinStart, TypeOK, Placed
  <2>2. p \in Proc /\ p.pc = "joining" /\ p.s = s /\ p.room = table
    BY <2>1 DEF Proc, PCs, JoinPCs
  <2>3. /\ proc' \in [Threads -> Proc] /\ proc'["handler"] = p
        /\ \A u \in Threads : u # "handler" => proc'[u] = proc[u]
    BY <1>0, <1>4, <2>2, StartEffect DEF JoinStart
  <2>4. overlapped' \in BOOLEAN
    BY <1>4, SMT DEF JoinStart, Touch
  <2>5. TypeOK'
    BY <1>0, <1>4, <2>1, <2>3, <2>4 DEF JoinStart, TypeOK, sessVars
  <2> HIDE DEF p
  <2>6. Placed'
    BY <1>0, <1>4, <2>1, <2>2, <2>3
       DEF JoinStart, Placed, sessVars, PCs, JoinPCs, LeavePCs, TeardownPCs, ReapPCs
  <2> QED BY <2>5, <2>6
<1>5. ASSUME NEW s \in Sessions, LeaveRequest(s) PROVE Typed'
  <2> DEFINE p == [Idle EXCEPT !.pc = "leave", !.s = s]
  <2>2. p \in Proc /\ p.pc = "leave" /\ p.s = s /\ p.room = NoRoom
    BY DEF Proc, PCs, LeavePCs
  <2>3. /\ proc' \in [Threads -> Proc] /\ proc'["handler"] = p
        /\ \A u \in Threads : u # "handler" => proc'[u] = proc[u]
    BY <1>0, <1>5, <2>2, StartEffect DEF LeaveRequest
  <2>4. overlapped' \in BOOLEAN
    BY <1>5, SMT DEF LeaveRequest, Touch
  <2>5. TypeOK'
    BY <1>0, <1>5, <2>3, <2>4 DEF LeaveRequest, TypeOK, sessVars, roomVars
  <2> HIDE DEF p
  <2>6. Placed'
    BY <1>0, <1>5, <2>2, <2>3
       DEF LeaveRequest, Placed, sessVars, roomVars, PCs, JoinPCs, LeavePCs, TeardownPCs, ReapPCs
  <2> QED BY <2>5, <2>6
<1> QED BY <1>1, <1>2, <1>3, <1>4, <1>5 DEF Request

\* The steps of a teardown, and the sweep that starts one
LEMMA TeardownTyped ==
  ASSUME Typed, Sweep \/ \E t \in {"handler", "sender"} : TeardownStep(t)
  PROVE  Typed'
<1> USE ThreadNames, IdleFacts, Numbers DEF Typed
<1>0. TypeOK /\ Placed /\ proc \in [Threads -> Proc]
  BY DEF TypeOK
<1>1. CASE Sweep
  <2> DEFINE p == [Idle EXCEPT !.pc = "stopping", !.room = table]
  <2>1. table \in Rooms /\ table \in born
    BY <1>0, <1>1 DEF Sweep, TypeOK, Placed
  <2>2. p \in Proc /\ p.pc = "stopping" /\ p.room = table
    BY <2>1 DEF Proc, PCs, TeardownPCs
  <2>3. /\ proc' \in [Threads -> Proc] /\ proc'["sender"] = p
        /\ \A u \in Threads : u # "sender" => proc'[u] = proc[u]
    BY <1>0, <1>1, <2>2, StartEffect DEF Sweep
  <2>4. TypeOK'
    BY <1>0, <1>1, <2>1, <2>3 DEF Sweep, TypeOK, sessVars
  <2> HIDE DEF p
  <2>5. Placed'
    BY <1>0, <1>1, <2>1, <2>2, <2>3
       DEF Sweep, Placed, sessVars, PCs, JoinPCs, LeavePCs, TeardownPCs, ReapPCs
  <2> QED BY <2>4, <2>5
<1>2. ASSUME NEW t \in {"handler", "sender"}, StopTicker(t) PROVE Typed'
  <2>1. t \in Threads /\ proc[t].pc = "stopping" /\ proc[t].room \in Rooms
    BY <1>0, <1>2 DEF StopTicker, Doing, Placed, TeardownPCs
  <2>2. "evicting" \in PCs
    BY DEF PCs, TeardownPCs
  <2>3. /\ proc' \in [Threads -> Proc]
        /\ proc'[t].pc = "evicting" /\ proc'[t].s = proc[t].s /\ proc'[t].room = proc[t].room
        /\ \A u \in Threads : u # t => proc'[u] = proc[u]
    BY <1>0, <1>2, <2>1, <2>2, GotoEffect DEF StopTicker
  <2>4. refs' \in [Rooms -> Int]
    <3>1. refs' = [refs EXCEPT ![proc[t].room] = @ - 1] /\ refs \in [Rooms -> Int]
      BY <1>0, <1>2 DEF StopTicker, TypeOK
    <3> QED BY <2>1, <3>1, DropOne
  <2>5. TypeOK'
    BY <1>0, <1>2, <2>1, <2>3, <2>4 DEF StopTicker, TypeOK, sessVars
  <2>6. Placed'
    BY <1>0, <1>2, <2>1, <2>3
       DEF StopTicker, Placed, sessVars, PCs, JoinPCs, LeavePCs, TeardownPCs, ReapPCs
  <2> QED BY <2>5, <2>6
<1>3. ASSUME NEW t \in {"handler", "sender"}, Evict(t) PROVE Typed'
  <2>1. t \in Threads /\ proc[t].pc = "evicting" /\ proc[t].room \in Rooms
    BY <1>0, <1>3 DEF Evict, Doing, Placed, TeardownPCs
  <2>2. /\ proc' \in [Threads -> Proc] /\ proc'[t] = Idle
        /\ \A u \in Threads : u # t => proc'[u] = proc[u]
    BY <1>0, <1>3, <2>1, FinishEffect DEF Evict
  <2>3. IsFiniteSet(Members(proc[t].room)) /\ Cardinality(Members(proc[t].room)) \in Nat
    BY LifecycleAssumption, FS_Subset, FS_CardinalityType DEF Members
  <2>4. refs' \in [Rooms -> Int]
    <3> DEFINE n == refs[proc[t].room] - Cardinality(Members(proc[t].room)) - 1
    <3>1. refs' = [refs EXCEPT ![proc[t].room] = n] /\ refs \in [Rooms -> Int]
      BY <1>0, <1>3 DEF Evict, TypeOK
    <3>2. refs[proc[t].room] \in Int
      BY <2>1, <3>1
    <3>3. n \in Int
      BY <2>3, <3>2
    <3> QED BY <3>1, <3>3
  <2>5. TypeOK'
    BY <1>0, <1>3, <2>1, <2>2, <2>4 DEF Evict, TypeOK
  <2>6. Placed'
    BY <1>0, <1>3, <2>1, <2>2
       DEF Evict, Placed, TypeOK, PCs, JoinPCs, LeavePCs, TeardownPCs, ReapPCs
  <2> QED BY <2>5, <2>6
<1> QED BY <1>1, <1>2, <1>3 DEF TeardownStep
\* The steps of a join
LEMMA JoinTyped ==
  ASSUME Typed, JoinStep
  PROVE  Typed'
<1> USE ThreadNames, IdleFacts, Numbers DEF Typed
<1> DEFINE h == "handler"
<1>0. TypeOK /\ Placed /\ proc \in [Threads -> Proc]
  BY DEF TypeOK
<1>1. ASSUME proc[h].pc \in JoinPCs
      PROVE  proc[h].s \in Sessions /\ proc[h].room \in Rooms /\ proc[h].room \in born
  <2>1. proc[h].pc \in (PCs \ {"idle"}) \ TeardownPCs
    BY <1>1 DEF PCs, JoinPCs, TeardownPCs
  <2>2. NoRoom \notin Rooms
    BY LifecycleAssumption
  <2> QED BY <1>0, <1>1, <2>1, <2>2 DEF Placed
<1>2. CASE JoinRefuse
  <2>1. proc[h].room \in Rooms
    BY <1>1, <1>2 DEF JoinRefuse, JoinPCs
  <2>2. /\ proc' \in [Threads -> Proc] /\ proc'[h] = Idle
        /\ \A u \in Threads : u # h => proc'[u] = proc[u]
    BY <1>0, <1>2, FinishEffect DEF JoinRefuse
  <2>3. refs' \in [Rooms -> Int]
    BY <1>0, <1>2, <2>1, DropOne DEF JoinRefuse, TypeOK
  <2>4. TypeOK'
    BY <1>0, <1>2, <2>2, <2>3 DEF JoinRefuse, TypeOK, sessVars
  <2>5. Placed'
    BY <1>0, <1>2, <2>2
       DEF JoinRefuse, Placed, sessVars, PCs, JoinPCs, LeavePCs, TeardownPCs, ReapPCs
  <2> QED BY <2>4, <2>5
<1>3. CASE JoinAdmit
  <2>1. proc[h].s \in Sessions /\ proc[h].room \in Rooms
    BY <1>1, <1>3 DEF JoinAdmit, Doing, JoinPCs
  <2>2. /\ proc' \in [Threads -> Proc] /\ proc'[h].pc = "admitted"
        /\ proc'[h].s = proc[h].s /\ proc'[h].room = proc[h].room
        /\ \A u \in Threads : u # h => proc'[u] = proc[u]
    BY <1>0, <1>3, GotoEffect DEF JoinAdmit, PCs, JoinPCs
  <2>3. TypeOK'
    BY <1>0, <1>3, <2>2 DEF JoinAdmit, TypeOK, sessVars, roomVars
  <2>4. Placed'
    BY <1>0, <1>3, <2>1, <2>2
       DEF JoinAdmit, Doing, Placed, sessVars, roomVars, PCs, JoinPCs, LeavePCs, TeardownPCs, ReapPCs
  <2> QED BY <2>3, <2>4
<1>4. CASE JoinNotify
  <2>1. /\ proc' \in [Threads -> Proc] /\ proc'[h] = Idle
        /\ \A u \in Threads : u # h => proc'[u] = proc[u]
    BY <1>0, <1>4, FinishEffect DEF JoinNotify
  <2>2. TypeOK'
    BY <1>0, <1>4, <2>1 DEF JoinNotify, TypeOK, sessVars, roomVars
  <2>3. Placed'
    BY <1>0, <1>4, <2>1
       DEF JoinNotify, Placed, sessVars, roomVars, PCs, JoinPCs, LeavePCs, TeardownPCs, ReapPCs
  <2> QED BY <2>2, <2>3
<1>5. CASE JoinUndo
  <2>1. proc[h].s \in Sessions /\ proc[h].room \in Rooms
    BY <1>1, <1>5 DEF JoinUndo, Doing, JoinPCs
  <2>2. /\ proc' \in [Threads -> Proc] /\ proc'[h] = Idle
        /\ \A u \in Threads : u # h => proc'[u] = proc[u]
    BY <1>0, <1>5, FinishEffect DEF JoinUndo
  <2>3. refs' \in [Rooms -> Int]
    BY <1>0, <1>5, <2>1, DropOne DEF JoinUndo, TypeOK
  <2>4. TypeOK'
    BY <1>0, <1>5, <2>1, <2>2, <2>3 DEF JoinUndo, TypeOK
  <2>5. Placed'
    BY <1>0, <1>5, <2>1, <2>2
       DEF JoinUndo, Placed, TypeOK, PCs, JoinPCs, LeavePCs, TeardownPCs, ReapPCs
  <2> QED BY <2>4, <2>5
<1>6. CASE JoinCommit
  <2> DEFINE s == proc[h].s
             p == [proc[h] EXCEPT !.pc = "committed", !.uid = uid[s] + 1]
  <2>1. s \in Sessions /\ proc[h].room \in Rooms /\ proc[h].room \in born
    BY <1>1, <1>6 DEF JoinCommit, Doing, JoinPCs
  <2>2. uid[s] \in Nat /\ uid[s] + 1 \in 1 .. MaxJoins /\ uid[s] + 1 \in 0 .. MaxJoins
    BY <1>0, <1>6, <2>1 DEF JoinCommit, Doing, Placed, TypeOK
  <2>3. proc[h] \in Proc
    BY <1>0
  <2>4. /\ p \in Proc /\ p.pc = "committed" /\ p.s = s /\ p.room = proc[h].room
        /\ p.uid = uid[s] + 1
    BY <2>2, <2>3 DEF Proc, PCs, JoinPCs
  <2>5. proc' = [proc EXCEPT ![h] = p]
    BY <1>6 DEF JoinCommit
  <2>6. /\ proc' \in [Threads -> Proc] /\ proc'[h] = p
        /\ \A u \in Threads : u # h => proc'[u] = proc[u]
    BY <1>0, <2>4, <2>5, StartEffect
  <2> HIDE DEF p
  <2>7. uid' \in [Sessions -> 0 .. MaxJoins]
    BY <1>0, <1>6, <2>2 DEF JoinCommit, TypeOK
  <2>8. joinAge' \in [Sessions -> -1 .. MediaTimeout] /\ sroom' \in [Sessions -> Rooms \union {NoRoom}]
    BY <1>0, <1>6, <2>1 DEF JoinCommit, TypeOK
  <2>9. TypeOK'
    BY <1>0, <1>6, <2>1, <2>6, <2>7, <2>8 DEF JoinCommit, TypeOK, roomVars
  <2>10. Placed'
    BY <1>0, <1>6, <2>1, <2>2, <2>4, <2>6
       DEF JoinCommit, Placed, TypeOK, roomVars, PCs, JoinPCs, LeavePCs, TeardownPCs, ReapPCs
  <2> QED BY <2>9, <2>10
<1>7. CASE JoinInsert
  <2>1. proc[h].s \in Sessions /\ proc[h].room \in Rooms /\ proc[h].uid \in 1 .. MaxJoins
    BY <1>0, <1>1, <1>7 DEF JoinInsert, Doing, JoinPCs, Placed
  <2>2. /\ proc' \in [Threads -> Proc] /\ proc'[h].pc = "notify"
        /\ proc'[h].s = proc[h].s /\ proc'[h].room = proc[h].room
        /\ \A u \in Threads : u # h => proc'[u] = proc[u]
    BY <1>0, <1>7, GotoEffect DEF JoinInsert, PCs, JoinPCs
  <2>3. parts' \in [Rooms -> SUBSET (Sessions \X (1 .. MaxJoins))]
    BY <1>0, <1>7, <2>1 DEF JoinInsert, TypeOK
  <2>4. TypeOK'
    BY <1>0, <1>7, <2>1, <2>2, <2>3 DEF JoinInsert, TypeOK, sessVars
  <2>5. Placed'
    BY <1>0, <1>7, <2>1, <2>2
       DEF JoinInsert, Placed, sessVars, PCs, JoinPCs, LeavePCs, TeardownPCs, ReapPCs
  <2> QED BY <2>4, <2>5
<1> QED BY <1>2, <1>3, <1>4, <1>5, <1>6, <1>7 DEF JoinStep

\* A thread that leaves knows its session, and its room until it drops it.
LEMMA LeaverFacts ==
  ASSUME Typed, NEW t \in Threads
  PROVE  /\ proc[t].pc \in LeavePCs \union ReapPCs => proc[t].s \in Sessions
         /\ proc[t].pc \in {"left", "unlisted"} => proc[t].room \in Rooms
  BY DEF Typed, Placed, PCs, LeavePCs, ReapPCs, TeardownPCs

\* The steps of a leave, by whichever thread
LEMMA LeaveTyped ==
  ASSUME Typed, NEW t \in Threads, LeaveStep(t)
  PROVE  Typed'
<1> USE ThreadNames, IdleFacts, Numbers DEF Typed
<1>0. TypeOK /\ Placed /\ proc \in [Threads -> Proc]
  BY DEF TypeOK
<1>1. CASE Unlist(t)
  <2>1. proc[t].pc = "left" /\ proc[t].s \in Sessions /\ proc[t].room \in Rooms
    BY <1>1, LeaverFacts DEF Unlist, Doing, LeavePCs
  <2>2. /\ proc' \in [Threads -> Proc] /\ proc'[t].pc = "unlisted"
        /\ proc'[t].s = proc[t].s /\ proc'[t].room = proc[t].room
        /\ \A u \in Threads : u # t => proc'[u] = proc[u]
    BY <1>0, <1>1, GotoEffect DEF Unlist, PCs, LeavePCs
  <2>3. parts' \in [Rooms -> SUBSET (Sessions \X (1 .. MaxJoins))]
    BY <1>0, <1>1, <2>1 DEF Unlist, TypeOK
  <2>4. emptyAge' \in [Rooms -> -1 .. Grace]
    BY <1>0, <1>1, <2>1 DEF Unlist, TypeOK
  <2>5. TypeOK'
    BY <1>0, <1>1, <2>2, <2>3, <2>4 DEF Unlist, TypeOK, sessVars
  <2>6. Placed'
    BY <1>0, <1>1, <2>1, <2>2
       DEF Unlist, Placed, sessVars, PCs, JoinPCs, LeavePCs, TeardownPCs, ReapPCs
  <2> QED BY <2>5, <2>6
<1>2. CASE DropRef(t)
  <2>1. proc[t].pc = "unlisted" /\ proc[t].s \in Sessions /\ proc[t].room \in Rooms
    BY <1>2, LeaverFacts DEF DropRef, Doing, LeavePCs
  <2>2. /\ proc' \in [Threads -> Proc] /\ proc'[t].pc = "free"
        /\ proc'[t].s = proc[t].s /\ proc'[t].room = proc[t].room
        /\ \A u \in Threads : u # t => proc'[u] = proc[u]
    BY <1>0, <1>2, GotoEffect DEF DropRef, PCs, LeavePCs
  <2>3. refs' \in [Rooms -> Int]
    BY <1>0, <1>2, <2>1, DropOne DEF DropRef, TypeOK
  <2>4. TypeOK'
    BY <1>0, <1>2, <2>2, <2>3 DEF DropRef, TypeOK, sessVars
  <2>5. Placed'
    BY <1>0, <1>2, <2>1, <2>2
       DEF DropRef, Placed, sessVars, PCs, JoinPCs, LeavePCs, TeardownPCs, ReapPCs
  <2> QED BY <2>4, <2>5
<1>3. CASE FreeMedia(t)
  <2>1. proc[t].pc = "free" /\ proc[t].s \in Sessions
    BY <1>3, LeaverFacts DEF FreeMedia, Doing, LeavePCs
  <2>2. /\ proc' \in [Threads -> Proc] /\ proc'[t] = Idle
        /\ \A u \in Threads : u # t => proc'[u] = proc[u]
    BY <1>0, <1>3, FinishEffect DEF FreeMedia
  <2>3. TypeOK'
    BY <1>0, <1>3, <2>1, <2>2 DEF FreeMedia, TypeOK, roomVars
  <2>4. Placed'
    BY <1>0, <1>3, <2>2
       DEF FreeMedia, Placed, roomVars, PCs, JoinPCs, LeavePCs, TeardownPCs, ReapPCs
  <2> QED BY <2>3, <2>4
<1> QED BY <1>1, <1>2, <1>3 DEF LeaveStep

\* The steps that take a session out of its room, or only look at it
LEMMA TakeOutTyped ==
  ASSUME Typed, NEW t \in Threads, NEW s \in Sessions, NEW last \in BOOLEAN, TakeOut(t, s, last),
         UNCHANGED roomVars, UNCHANGED <<uid, seen, joinAge, gone>>,
         up' \in {up, up \ {s}}, overlapped' \in BOOLEAN,
         proc[t].pc \in {"idle", "leave", "reaped"}
  PROVE  Typed'
<1> USE ThreadNames, Numbers DEF Typed
<1>0. TypeOK /\ Placed /\ proc \in [Threads -> Proc]
  BY DEF TypeOK
<1>1. /\ proc' \in [Threads -> Proc]
      /\ proc'[t].pc = IF sroom[s] = NoRoom THEN "free" ELSE "left"
      /\ proc'[t].s = s /\ proc'[t].room = sroom[s]
      /\ \A u \in Threads : u # t => proc'[u] = proc[u]
      /\ sroom' \in [Sessions -> Rooms \union {NoRoom}]
      /\ sroom'[s] = NoRoom /\ \A v \in Sessions : v # s => sroom'[v] = sroom[v]
  BY <1>0, TakeOutEffect
<1>2. TypeOK'
  BY <1>0, <1>1 DEF TakeOut, TypeOK, roomVars
<1>3. sroom[s] # NoRoom => sroom[s] \in Rooms /\ sroom[s] \in born
  BY <1>0 DEF Placed, TypeOK
<1>4. Placed'
  BY <1>0, <1>1, <1>3 DEF Placed, roomVars, PCs, JoinPCs, LeavePCs, TeardownPCs, ReapPCs
<1> QED BY <1>2, <1>4

\* The core's calls, the reap and the clock
LEMMA OtherTyped ==
  ASSUME Typed,
         \/ LeaveTakeOut \/ Clock
         \/ \E s \in Sessions : CoreCall(s)
         \/ \E r \in Rooms, s \in Sessions : ReapCollect(r, s)
         \/ \E r \in Rooms : ReapStep(r)
  PROVE  Typed'
<1> USE ThreadNames, IdleFacts, Numbers
<1>0. TypeOK /\ Placed /\ proc \in [Threads -> Proc] /\ overlapped \in BOOLEAN
  BY DEF Typed, TypeOK
<1>t. ASSUME NEW s, Touch(s) PROVE overlapped' \in BOOLEAN
  BY <1>t, SMT DEF Touch
<1>1. CASE LeaveTakeOut
  <2>1. proc["handler"].s \in Sessions /\ proc["handler"].pc = "leave"
    BY <1>1, LeaverFacts DEF LeaveTakeOut, Doing, LeavePCs
  <2> QED BY <1>0, <1>1, <2>1, TakeOutTyped DEF LeaveTakeOut
<1>2. ASSUME NEW s \in Sessions, HangupMedia(s) \/ DestroySession(s) PROVE Typed'
  <2>1. overlapped' \in BOOLEAN /\ proc[s].pc = "idle"
    BY <1>2, <1>t DEF HangupMedia, DestroySession, Doing
  <2>2. CASE HangupMedia(s)
    BY <2>1, <2>2, TakeOutTyped DEF HangupMedia
  <2>3. CASE DestroySession(s)
    BY <2>1, <2>3, TakeOutTyped DEF DestroySession
  <2> QED BY <1>2, <2>2, <2>3
<1>3. ASSUME NEW s \in Sessions, SetupMedia(s) PROVE Typed'
  <2>1. overlapped' \in BOOLEAN
    BY <1>3, <1>t DEF SetupMedia
  <2>2. TypeOK' /\ Placed'
    BY <1>0, <1>3, <2>1 DEF SetupMedia, TypeOK, Placed, roomVars
  <2> QED BY <2>2 DEF Typed
<1>4. ASSUME NEW r \in Rooms, NEW s \in Sessions, ReapCollect(r, s) PROVE Typed'
  <2> DEFINE p == [Idle EXCEPT !.pc = "reap", !.s = s, !.room = r, !.uid = uid[s]]
  <2>1. r \in born /\ uid[s] \in 0 .. MaxJoins
    BY <1>0, <1>4 DEF ReapCollect, TypeOK
  <2>2. p \in Proc /\ p.pc = "reap" /\ p.s = s /\ p.room = r
    BY <2>1 DEF Proc, PCs, ReapPCs
  <2>3. /\ proc' \in [Threads -> Proc] /\ proc'[r] = p
        /\ \A u \in Threads : u # r => proc'[u] = proc[u]
    BY <1>0, <1>4, <2>2, StartEffect DEF ReapCollect
  <2>4. TypeOK'
    BY <1>0, <1>4, <2>3 DEF ReapCollect, TypeOK, sessVars, roomVars
  <2> HIDE DEF p
  <2>5. UNCHANGED roomVars /\ UNCHANGED sessVars
    BY <1>4 DEF ReapCollect
  <2>6. Placed'
    BY <1>0, <2>1, <2>2, <2>3, <2>5
       DEF Placed, sessVars, roomVars, PCs, JoinPCs, LeavePCs, TeardownPCs, ReapPCs
  <2> QED BY <2>4, <2>6 DEF Typed
<1>5. ASSUME NEW r \in Rooms, ReapCheck(r) PROVE Typed'
  <2>1. proc[r].s \in Sessions /\ proc[r].pc = "reap"
    BY <1>5, LeaverFacts DEF ReapCheck, Doing, ReapPCs
  <2>2. CASE StillWithoutMedia(r)
    <3>1. /\ proc' \in [Threads -> Proc] /\ proc'[r].pc = "reaped"
          /\ proc'[r].s = proc[r].s /\ proc'[r].room = proc[r].room
          /\ \A u \in Threads : u # r => proc'[u] = proc[u]
      BY <1>0, <1>5, <2>2, GotoEffect DEF ReapCheck, PCs, ReapPCs
    <3>2. overlapped' \in BOOLEAN
      BY <1>5, <2>2, <1>t DEF ReapCheck
    <3>3. joinAge' \in [Sessions -> -1 .. MediaTimeout]
      BY <1>0, <1>5, <2>1, <2>2 DEF ReapCheck, TypeOK
    <3>4. TypeOK'
      BY <1>0, <1>5, <3>1, <3>2, <3>3 DEF ReapCheck, TypeOK, roomVars
    <3>5. Placed'
      BY <1>0, <1>5, <2>1, <3>1
         DEF ReapCheck, Placed, roomVars, PCs, JoinPCs, LeavePCs, TeardownPCs, ReapPCs
    <3> QED BY <3>4, <3>5 DEF Typed
  <2>3. CASE ~StillWithoutMedia(r)
    <3>1. /\ proc' \in [Threads -> Proc] /\ proc'[r] = Idle
          /\ \A u \in Threads : u # r => proc'[u] = proc[u]
      BY <1>0, <1>5, <2>3, FinishEffect DEF ReapCheck
    <3>2. TypeOK'
      BY <1>0, <1>5, <2>3, <3>1 DEF ReapCheck, TypeOK, roomVars
    <3>3. Placed'
      BY <1>0, <1>5, <3>1
         DEF ReapCheck, Placed, roomVars, PCs, JoinPCs, LeavePCs, TeardownPCs, ReapPCs
    <3> QED BY <3>2, <3>3 DEF Typed
  <2> QED BY <2>2, <2>3
<1>6. ASSUME NEW r \in Rooms, ReapTakeOut(r) PROVE Typed'
  <2>1. proc[r].s \in Sessions /\ proc[r].pc = "reaped"
    BY <1>6, LeaverFacts DEF ReapTakeOut, Doing, ReapPCs
  <2> QED BY <1>0, <1>6, <2>1, TakeOutTyped DEF ReapTakeOut
<1>7. CASE Clock
  <2>1. \A age \in -1 .. Grace : Older(age, Grace) \in -1 .. Grace
    BY DEF Older
  <2>2. \A age \in -1 .. MediaTimeout : Older(age, MediaTimeout) \in -1 .. MediaTimeout
    BY DEF Older
  <2>3. emptyAge' \in [Rooms -> -1 .. Grace] /\ joinAge' \in [Sessions -> -1 .. MediaTimeout]
    BY <1>0, <1>7, <2>1, <2>2 DEF Clock, TypeOK
  <2>4. TypeOK'
    BY <1>0, <1>7, <2>3 DEF Clock, TypeOK
  <2>5. Placed'
    BY <1>0, <1>7 DEF Clock, Placed
  <2> QED BY <2>4, <2>5 DEF Typed
<1> QED BY <1>1, <1>2, <1>3, <1>4, <1>5, <1>6, <1>7 DEF CoreCall, ReapStep

\* The books are well typed, and every thread is where its program counter says.
THEOREM TypedCorrect == Spec => []Typed
<1>1. Init => Typed
  <2> SUFFICES ASSUME Init PROVE Typed
    OBVIOUS
  <2>1. TypeOK
    <3>1. 0 \in 0 .. MaxJoins /\ -1 \in -1 .. Grace /\ -1 \in -1 .. MediaTimeout
      BY Numbers
    <3>2. /\ refs \in [Rooms -> Int] /\ emptyAge \in [Rooms -> -1 .. Grace]
          /\ joinAge \in [Sessions -> -1 .. MediaTimeout] /\ uid \in [Sessions -> 0 .. MaxJoins]
      BY <3>1 DEF Init
    <3>3. /\ parts \in [Rooms -> SUBSET (Sessions \X (1 .. MaxJoins))]
          /\ sroom \in [Sessions -> Rooms \union {NoRoom}] /\ proc \in [Threads -> Proc]
      BY IdleFacts DEF Init
    <3> QED BY <3>2, <3>3 DEF Init, TypeOK
  <2>2. Placed
    BY IdleFacts, ThreadNames DEF Init, Placed, PCs, JoinPCs, LeavePCs, TeardownPCs, ReapPCs
  <2> QED BY <2>1, <2>2 DEF Typed
<1>2. Typed /\ [Next]_vars => Typed'
  <2> SUFFICES ASSUME Typed, [Next]_vars PROVE Typed'
    OBVIOUS
  <2>1. CASE UNCHANGED vars
    BY <2>1 DEF vars, Typed, TypeOK, Placed
  <2> QED BY <2>1, RequestTyped, TeardownTyped, JoinTyped, LeaveTyped, OtherTyped DEF Next
<1> QED BY <1>1, <1>2, PTL DEF Spec
----------------------------------------------------------------------------
\* The books of the rooms, in every interleaving

Shapes == TeardownShape /\ JoinShape /\ RowShape

Books == Shapes /\ CapacityRespected /\ MembersListed /\ EmptyHasClock

\* The participants of a room are finitely many.
LEMMA RowsFinite ==
  ASSUME TypeOK, NEW r \in Rooms
  PROVE  IsFiniteSet(parts[r]) /\ Cardinality(parts[r]) \in Nat
<1>1. IsFiniteSet(Sessions) /\ IsFiniteSet(1 .. MaxJoins)
  BY LifecycleAssumption, FS_Interval
<1>2. IsFiniteSet(Sessions \X (1 .. MaxJoins))
  BY <1>1, FS_Product
<1>3. parts[r] \in SUBSET (Sessions \X (1 .. MaxJoins))
  BY DEF TypeOK
<1> QED BY <1>2, <1>3, FS_Subset, FS_CardinalityType

\* The program counters the books speak of
Special == {"joining", "admitted", "committed", "left"} \union TeardownPCs

\* Steps that change none of the books, and whose threads come from and go to
\* program counters the books do not speak of
LEMMA FrameBooks ==
  ASSUME Typed, Books,
         UNCHANGED <<table, born, permanent, destroyed, ticking, parts, sroom, uid>>,
         \A r \in Rooms : emptyAge'[r] = -1 => emptyAge[r] = -1,
         \A t \in Threads : \/ proc'[t] = proc[t]
                            \/ /\ proc'[t].pc \notin Special
                               /\ proc[t].pc \notin TeardownPCs \union {"committed"}
  PROVE  Books'
<1> USE ThreadNames
<1>0. TypeOK /\ Placed /\ TeardownShape /\ JoinShape /\ RowShape
      /\ CapacityRespected /\ MembersListed /\ EmptyHasClock
  BY DEF Typed, Books, Shapes
<1>1. TeardownShape'
  BY <1>0 DEF TeardownShape, RoomsMutexFree, Special, TeardownPCs
<1>2. JoinShape'
  BY <1>0 DEF JoinShape, Special, TeardownPCs
<1>3. RowShape'
  BY <1>0 DEF RowShape, Special
<1>4. CapacityRespected'
  BY <1>0 DEF CapacityRespected
<1>5. MembersListed'
  BY <1>0 DEF MembersListed, Doing
<1>6. EmptyHasClock'
  BY <1>0 DEF EmptyHasClock, TypeOK
<1> QED BY <1>1, <1>2, <1>3, <1>4, <1>5, <1>6 DEF Books, Shapes

\* The steps the frame covers
LEMMA QuietBooks ==
  ASSUME Typed, Books,
         \/ CreateExists \/ JoinRefuse \/ JoinNotify \/ Clock
         \/ \E s \in Sessions : LeaveRequest(s) \/ SetupMedia(s)
         \/ \E t \in Threads : DropRef(t) \/ FreeMedia(t)
         \/ \E r \in Rooms, s \in Sessions : ReapCollect(r, s)
         \/ \E r \in Rooms : ReapCheck(r)
         \/ UNCHANGED vars
  PROVE  Books'
<1> USE ThreadNames, IdleFacts, Numbers
<1>0. TypeOK /\ Placed /\ proc \in [Threads -> Proc]
  BY DEF Typed, TypeOK
<1> DEFINE Framed(t) == \/ proc'[t] = proc[t]
                        \/ /\ proc'[t].pc \notin Special
                           /\ proc[t].pc \notin TeardownPCs \union {"committed"}
           Kept == UNCHANGED <<table, born, permanent, destroyed, ticking, parts, sroom, uid>>
           Aged == \A r \in Rooms : emptyAge'[r] = -1 => emptyAge[r] = -1
<1>1. CASE CreateExists
  <2>1. Kept /\ proc' = proc
    BY <1>1 DEF CreateExists, sessVars
  <2>2. Aged
    BY <1>0, <1>1 DEF CreateExists, TypeOK
  <2> QED BY <2>1, <2>2, FrameBooks
<1>2. CASE JoinRefuse
  <2>1. proc'["handler"] = Idle /\ \A u \in Threads : u # "handler" => proc'[u] = proc[u]
    BY <1>0, <1>2, FinishEffect DEF JoinRefuse
  <2>2. proc["handler"].pc \in {"joining", "admitted"} /\ Kept /\ emptyAge' = emptyAge
    BY <1>2 DEF JoinRefuse, sessVars
  <2>3. \A t \in Threads : Framed(t)
    BY <2>1, <2>2 DEF Special, TeardownPCs
  <2> QED BY <2>2, <2>3, FrameBooks
<1>3. CASE JoinNotify
  <2>1. proc'["handler"] = Idle /\ \A u \in Threads : u # "handler" => proc'[u] = proc[u]
    BY <1>0, <1>3, FinishEffect DEF JoinNotify
  <2>2. proc["handler"].pc = "notify" /\ Kept /\ emptyAge' = emptyAge
    BY <1>3 DEF JoinNotify, Doing, sessVars, roomVars
  <2>3. \A t \in Threads : Framed(t)
    BY <2>1, <2>2 DEF Special, TeardownPCs
  <2> QED BY <2>2, <2>3, FrameBooks
<1>4. CASE Clock
  <2>1. Kept /\ proc' = proc
    BY <1>4 DEF Clock
  <2>2. \A age \in -1 .. Grace : Older(age, Grace) = -1 => age = -1
    BY DEF Older
  <2>3. Aged
    BY <1>0, <1>4, <2>2 DEF Clock, TypeOK
  <2> QED BY <2>1, <2>3, FrameBooks
<1>5. ASSUME NEW s \in Sessions, LeaveRequest(s) PROVE Books'
  <2>1. proc' = [proc EXCEPT !["handler"] = [Idle EXCEPT !.pc = "leave", !.s = s]]
    BY <1>5 DEF LeaveRequest
  <2>2. /\ proc'["handler"].pc = "leave"
        /\ \A u \in Threads : u # "handler" => proc'[u] = proc[u]
    BY <1>0, <2>1 DEF Idle
  <2>3. proc["handler"].pc = "idle" /\ Kept /\ emptyAge' = emptyAge
    BY <1>5 DEF LeaveRequest, Doing, sessVars, roomVars
  <2>4. \A t \in Threads : Framed(t)
    BY <2>2, <2>3 DEF Special, TeardownPCs
  <2> QED BY <2>3, <2>4, FrameBooks
<1>6. ASSUME NEW s \in Sessions, SetupMedia(s) PROVE Books'
  <2>1. Kept /\ proc' = proc /\ emptyAge' = emptyAge
    BY <1>6 DEF SetupMedia, roomVars
  <2> QED BY <2>1, FrameBooks
<1>7. ASSUME NEW t \in Threads, DropRef(t) PROVE Books'
  <2>1. proc'[t].pc = "free" /\ \A u \in Threads : u # t => proc'[u] = proc[u]
    BY <1>0, <1>7, GotoEffect DEF DropRef, PCs, LeavePCs
  <2>2. proc[t].pc = "unlisted" /\ Kept /\ emptyAge' = emptyAge
    BY <1>7 DEF DropRef, Doing, sessVars
  <2>3. \A u \in Threads : Framed(u)
    BY <2>1, <2>2 DEF Special, TeardownPCs
  <2> QED BY <2>2, <2>3, FrameBooks
<1>8. ASSUME NEW t \in Threads, FreeMedia(t) PROVE Books'
  <2>1. proc'[t] = Idle /\ \A u \in Threads : u # t => proc'[u] = proc[u]
    BY <1>0, <1>8, FinishEffect DEF FreeMedia
  <2>2. proc[t].pc = "free" /\ Kept /\ emptyAge' = emptyAge
    BY <1>8 DEF FreeMedia, Doing, roomVars
  <2>3. \A u \in Threads : Framed(u)
    BY <2>1, <2>2 DEF Special, TeardownPCs
  <2> QED BY <2>2, <2>3, FrameBooks
<1>9. ASSUME NEW r \in Rooms, NEW s \in Sessions, ReapCollect(r, s) PROVE Books'
  <2>1. proc' = [proc EXCEPT ![r] =
                   [Idle EXCEPT !.pc = "reap", !.s = s, !.room = r, !.uid = uid[s]]]
    BY <1>9 DEF ReapCollect
  <2>2. proc'[r].pc = "reap" /\ \A u \in Threads : u # r => proc'[u] = proc[u]
    BY <1>0, <2>1 DEF Idle
  <2>3. proc[r].pc = "idle" /\ Kept /\ emptyAge' = emptyAge
    BY <1>9 DEF ReapCollect, Doing, sessVars, roomVars
  <2>4. \A t \in Threads : Framed(t)
    BY <2>2, <2>3 DEF Special, TeardownPCs
  <2> QED BY <2>3, <2>4, FrameBooks
<1>10. ASSUME NEW r \in Rooms, ReapCheck(r) PROVE Books'
  <2>1. Goto(r, "reaped") \/ Finish(r)
    BY <1>10 DEF ReapCheck
  <2>2. proc'[r].pc \in {"reaped", "idle"} /\ \A u \in Threads : u # r => proc'[u] = proc[u]
    BY <1>0, <2>1, GotoEffect, FinishEffect DEF PCs, ReapPCs
  <2>3. proc[r].pc = "reap" /\ Kept /\ emptyAge' = emptyAge
    BY <1>10 DEF ReapCheck, Doing, roomVars
  <2>4. \A t \in Threads : Framed(t)
    BY <2>2, <2>3 DEF Special, TeardownPCs
  <2> QED BY <2>3, <2>4, FrameBooks
<1>11. CASE UNCHANGED vars
  <2>1. Kept /\ proc' = proc /\ emptyAge' = emptyAge
    BY <1>11 DEF vars
  <2> QED BY <2>1, FrameBooks
<1> QED BY <1>1, <1>2, <1>3, <1>4, <1>5, <1>6, <1>7, <1>8, <1>9, <1>10, <1>11

\* A thread takes rooms_mutex and flags the table's room.
LEMMA BeginTeardownBooks ==
  ASSUME Typed, Books, NEW t \in {"handler", "sender"}, proc[t].pc = "idle",
         RoomsMutexFree, table # NoRoom,
         destroyed' = destroyed \union {table},
         proc' = [proc EXCEPT ![t] = [Idle EXCEPT !.pc = "stopping", !.room = table]],
         UNCHANGED <<table, born, permanent, ticking, parts, emptyAge, sroom, uid>>
  PROVE  Books'
<1> USE ThreadNames
<1>0. TypeOK /\ Placed /\ TeardownShape /\ JoinShape /\ RowShape
      /\ CapacityRespected /\ MembersListed /\ EmptyHasClock /\ proc \in [Threads -> Proc]
  BY DEF Typed, Books, Shapes, TypeOK
<1>1. /\ proc'[t].pc = "stopping" /\ proc'[t].room = table
      /\ \A u \in Threads : u # t => proc'[u] = proc[u]
  BY <1>0 DEF Idle
<1>2. TeardownShape'
  BY <1>0, <1>1 DEF TeardownShape, RoomsMutexFree, TeardownPCs
<1>3. JoinShape'
  BY <1>0, <1>1 DEF JoinShape
<1>4. RowShape'
  BY <1>0, <1>1 DEF RowShape
<1>5. CapacityRespected'
  BY <1>0 DEF CapacityRespected
<1>6. MembersListed'
  BY <1>0, <1>1 DEF MembersListed, Doing
<1>7. EmptyHasClock'
  BY <1>0 DEF EmptyHasClock
<1> QED BY <1>2, <1>3, <1>4, <1>5, <1>6, <1>7 DEF Books, Shapes

\* Creating a room and tearing one down
LEMMA TeardownBooks ==
  ASSUME Typed, Books,
         \/ \E r \in Rooms, perm \in BOOLEAN : CreateRoom(r, perm)
         \/ DestroyRequest \/ Sweep
         \/ \E t \in {"handler", "sender"} : TeardownStep(t)
  PROVE  Books'
<1> USE ThreadNames, IdleFacts, Numbers
<1>0. TypeOK /\ Placed /\ TeardownShape /\ JoinShape /\ RowShape
      /\ CapacityRespected /\ MembersListed /\ EmptyHasClock /\ proc \in [Threads -> Proc]
  BY DEF Typed, Books, Shapes, TypeOK
<1>1. ASSUME NEW r \in Rooms, NEW perm \in BOOLEAN, CreateRoom(r, perm) PROVE Books'
  <2>1. UNCHANGED <<destroyed, parts, proc, sroom, uid>>
    BY <1>1 DEF CreateRoom, sessVars
  <2>2. TeardownShape'
    BY <1>1, <2>1 DEF TeardownShape, CreateRoom, RoomsMutexFree, TeardownPCs
  <2>3. JoinShape' /\ RowShape' /\ CapacityRespected' /\ MembersListed'
    BY <1>0, <2>1 DEF JoinShape, RowShape, CapacityRespected, MembersListed, Doing
  <2>4. EmptyHasClock'
    BY <1>0, <1>1, <2>1 DEF EmptyHasClock, CreateRoom, TypeOK
  <2> QED BY <2>2, <2>3, <2>4 DEF Books, Shapes
<1>2. CASE DestroyRequest
  BY <1>2, BeginTeardownBooks DEF DestroyRequest, Doing, sessVars
<1>3. CASE Sweep
  BY <1>3, BeginTeardownBooks DEF Sweep, Doing, sessVars
<1>4. ASSUME NEW t \in {"handler", "sender"}, StopTicker(t) PROVE Books'
  <2>1. /\ proc'[t].pc = "evicting" /\ proc'[t].room = proc[t].room
        /\ \A u \in Threads : u # t => proc'[u] = proc[u]
    BY <1>0, <1>4, GotoEffect DEF StopTicker, PCs, TeardownPCs
  <2>2. /\ proc[t].pc = "stopping" /\ ticking' = ticking \ {proc[t].room}
        /\ UNCHANGED <<table, born, permanent, destroyed, parts, emptyAge, sroom, uid>>
    BY <1>4 DEF StopTicker, Doing, sessVars
  <2>3. TeardownShape'
    BY <1>0, <2>1, <2>2 DEF TeardownShape, RoomsMutexFree, TeardownPCs
  <2>4. JoinShape' /\ RowShape'
    BY <1>0, <2>1, <2>2 DEF JoinShape, RowShape
  <2>5. CapacityRespected' /\ MembersListed' /\ EmptyHasClock'
    BY <1>0, <2>1, <2>2 DEF CapacityRespected, MembersListed, EmptyHasClock, Doing
  <2> QED BY <2>3, <2>4, <2>5 DEF Books, Shapes
<1>5. ASSUME NEW t \in {"handler", "sender"}, Evict(t) PROVE Books'
  <2> DEFINE q == proc[t].room
  <2>1. /\ proc'[t].pc = "idle" /\ \A u \in Threads : u # t => proc'[u] = proc[u]
    BY <1>0, <1>5, FinishEffect DEF Evict
  <2>2. /\ proc[t].pc = "evicting" /\ table' = NoRoom
        /\ UNCHANGED <<born, permanent, destroyed, ticking, emptyAge, uid>>
        /\ parts' = [parts EXCEPT ![q] = {}]
        /\ sroom' = [s \in Sessions |-> IF s \in Members(q) THEN NoRoom ELSE sroom[s]]
    BY <1>5 DEF Evict, Doing
  <2>3. q \in Rooms /\ q = table /\ q \in destroyed
    BY <1>0, <2>2 DEF Placed, TeardownShape, TeardownPCs
  <2>4. /\ parts'[q] = {} /\ \A r \in Rooms : r # q => parts'[r] = parts[r]
        /\ \A r \in Rooms : parts'[r] \subseteq parts[r]
    BY <1>0, <2>2, <2>3 DEF TypeOK
  <2>5. \A s \in Sessions : sroom'[s] \in {NoRoom, sroom[s]}
    BY <2>2
  <2>6. \A u \in {"handler", "sender"} : proc'[u].pc \notin TeardownPCs
    BY <1>0, <2>1, <2>2 DEF TeardownShape, TeardownPCs
  <2>7. TeardownShape'
    BY <2>2, <2>6 DEF TeardownShape, TeardownPCs
  <2>8. JoinShape'
    <3>1. CASE t = "handler"
      BY <2>1, <3>1 DEF JoinShape
    <3>2. CASE t = "sender"
      <4>1. proc'["handler"] = proc["handler"]
        BY <2>1, <3>2
      <4>2. proc["handler"].pc \in {"joining", "admitted", "committed"} =>
              proc["handler"].s \in Sessions /\ proc["handler"].room \in Rooms
        BY <1>0 DEF Placed, PCs, JoinPCs, TeardownPCs
      <4>3. Cardinality({}) < Capacity
        BY FS_EmptySet
      <4>4. proc["handler"].pc \in {"admitted", "committed"} =>
              Cardinality(parts'[proc["handler"].room]) < Capacity
        BY <1>0, <2>4, <4>2, <4>3 DEF JoinShape
      <4> QED BY <1>0, <2>2, <2>4, <2>5, <4>1, <4>2, <4>4 DEF JoinShape
    <3> QED BY <3>1, <3>2
  <2>9. RowShape'
    <3>1. \A u \in Threads : proc[u].pc = "left" => proc[u].s \in Sessions
      BY <1>0 DEF Placed, PCs, LeavePCs, TeardownPCs
    <3>2. \A u \in Threads : proc'[u].pc = "left" => proc'[u] = proc[u]
      BY <2>1
    <3> QED BY <1>0, <2>2, <2>4, <2>5, <3>1, <3>2 DEF RowShape
  <2>10. CapacityRespected'
    <3>1. Cardinality({}) <= Capacity
      BY FS_EmptySet
    <3> QED BY <1>0, <2>4, <3>1 DEF CapacityRespected
  <2>11. MembersListed'
    <3> SUFFICES ASSUME NEW s \in Sessions, sroom'[s] # NoRoom
                 PROVE  \/ <<s, uid[s]>> \in parts'[sroom'[s]]
                        \/ proc'["handler"].pc = "committed" /\ proc'["handler"].s = s
      BY <2>2 DEF MembersListed, Doing
    <3>1. sroom'[s] = sroom[s] /\ s \notin Members(q) /\ sroom[s] \in Rooms
      BY <1>0, <2>2 DEF TypeOK
    <3>2. CASE <<s, uid[s]>> \in parts[sroom[s]]
      <4>1. uid[s] \in 1 .. MaxJoins
        BY <1>0, <3>1, <3>2 DEF TypeOK
      <4>2. sroom[s] # q
        BY <3>1, <3>2, <4>1 DEF Members
      <4> QED BY <2>4, <3>1, <3>2, <4>2
    <3>3. CASE proc["handler"].pc = "committed" /\ proc["handler"].s = s
      <4>1. t # "handler"
        BY <2>2, <3>3
      <4> QED BY <2>1, <3>3, <4>1
    <3> QED BY <1>0, <3>1, <3>2, <3>3 DEF MembersListed, Doing
  <2>12. EmptyHasClock'
    BY <1>0, <2>2, <2>3, <2>4 DEF EmptyHasClock, TypeOK
  <2> QED BY <2>7, <2>8, <2>9, <2>10, <2>11, <2>12 DEF Books, Shapes
<1> QED BY <1>1, <1>2, <1>3, <1>4, <1>5 DEF TeardownStep

\* The joiner and its room
LEMMA JoinerFacts ==
  ASSUME Typed, proc["handler"].pc \in JoinPCs
  PROVE  proc["handler"].s \in Sessions /\ proc["handler"].room \in Rooms
  BY ThreadNames DEF Typed, Placed, PCs, JoinPCs, TeardownPCs

\* A join, from its lookup to its row: the capacity check is still good at the
\* insert because no other thread inserts, and the row is new because rows are
\* of joins that were.
LEMMA JoinBooks ==
  ASSUME Typed, Books,
         (\E s \in Sessions : JoinStart(s)) \/ JoinAdmit \/ JoinCommit \/ JoinInsert \/ JoinUndo
  PROVE  Books'
<1> USE ThreadNames, IdleFacts, Numbers
<1> DEFINE h == "handler"
<1>0. TypeOK /\ Placed /\ TeardownShape /\ JoinShape /\ RowShape
      /\ CapacityRespected /\ MembersListed /\ EmptyHasClock /\ proc \in [Threads -> Proc]
  BY DEF Typed, Books, Shapes, TypeOK
<1>t. ASSUME UNCHANGED <<table, destroyed, ticking>>,
             \A u \in Threads : u # h => proc'[u] = proc[u],
             proc[h].pc \notin TeardownPCs, proc'[h].pc \notin TeardownPCs
      PROVE  TeardownShape'
  BY <1>0, <1>t DEF TeardownShape, RoomsMutexFree, TeardownPCs
<1>l. \A u \in Threads : proc[u].pc = "left" => proc[u].s \in Sessions
  BY <1>0 DEF Placed, PCs, LeavePCs, TeardownPCs
<1>1. ASSUME NEW s \in Sessions, JoinStart(s) PROVE Books'
  <2>1. proc' = [proc EXCEPT ![h] = [Idle EXCEPT !.pc = "joining", !.s = s, !.room = table]]
    BY <1>1 DEF JoinStart
  <2>2. /\ proc'[h].pc = "joining" /\ proc'[h].s = s
        /\ \A u \in Threads : u # h => proc'[u] = proc[u]
    BY <1>0, <2>1 DEF Idle
  <2>3. /\ proc[h].pc = "idle" /\ sroom[s] = NoRoom
        /\ UNCHANGED <<table, born, permanent, destroyed, ticking, parts, emptyAge, sroom, uid>>
    BY <1>1 DEF JoinStart, Doing, sessVars
  <2>4. TeardownShape'
    BY <1>t, <2>2, <2>3 DEF TeardownPCs
  <2>5. JoinShape'
    BY <2>2, <2>3 DEF JoinShape
  <2>6. RowShape' /\ CapacityRespected'
    BY <1>0, <2>2, <2>3 DEF RowShape, CapacityRespected
  <2>7. MembersListed' /\ EmptyHasClock'
    BY <1>0, <2>2, <2>3 DEF MembersListed, EmptyHasClock, Doing
  <2> QED BY <2>4, <2>5, <2>6, <2>7 DEF Books, Shapes
<1>2. CASE JoinAdmit
  <2>1. /\ proc'[h].pc = "admitted" /\ proc'[h].s = proc[h].s /\ proc'[h].room = proc[h].room
        /\ \A u \in Threads : u # h => proc'[u] = proc[u]
    BY <1>0, <1>2, GotoEffect DEF JoinAdmit, PCs, JoinPCs
  <2>2. /\ proc[h].pc = "joining" /\ Cardinality(parts[proc[h].room]) < Capacity
        /\ UNCHANGED <<table, born, permanent, destroyed, ticking, parts, emptyAge, sroom, uid>>
    BY <1>2 DEF JoinAdmit, Doing, sessVars, roomVars
  <2>3. TeardownShape'
    BY <1>t, <2>1, <2>2 DEF TeardownPCs
  <2>4. JoinShape'
    BY <1>0, <2>1, <2>2 DEF JoinShape
  <2>5. RowShape' /\ CapacityRespected'
    BY <1>0, <2>1, <2>2 DEF RowShape, CapacityRespected
  <2>6. MembersListed' /\ EmptyHasClock'
    BY <1>0, <2>1, <2>2 DEF MembersListed, EmptyHasClock, Doing
  <2> QED BY <2>3, <2>4, <2>5, <2>6 DEF Books, Shapes
<1>3. CASE JoinCommit
  <2> DEFINE s == proc[h].s
             q == proc[h].room
             p == [proc[h] EXCEPT !.pc = "committed", !.uid = uid[s] + 1]
  <2>1. /\ proc[h].pc = "admitted"
        /\ UNCHANGED <<table, born, permanent, destroyed, ticking, parts, emptyAge>>
        /\ sroom' = [sroom EXCEPT ![s] = q] /\ uid' = [uid EXCEPT ![s] = @ + 1]
        /\ proc' = [proc EXCEPT ![h] = p]
    BY <1>3 DEF JoinCommit, Doing, roomVars
  <2>2. s \in Sessions /\ q \in Rooms
    BY <2>1, JoinerFacts DEF JoinPCs
  <2>3. proc[h] \in Proc /\ sroom \in [Sessions -> Rooms \union {NoRoom}] /\ uid \in [Sessions -> 0 .. MaxJoins]
    BY <1>0 DEF TypeOK
  <2>4. /\ proc'[h].pc = "committed" /\ proc'[h].s = s /\ proc'[h].room = q
        /\ proc'[h].uid = uid[s] + 1
        /\ \A u \in Threads : u # h => proc'[u] = proc[u]
    BY <1>0, <2>1, <2>3 DEF Proc
  <2>5. /\ sroom'[s] = q /\ uid'[s] = uid[s] + 1 /\ uid[s] \in Nat
        /\ \A v \in Sessions : v # s => sroom'[v] = sroom[v] /\ uid'[v] = uid[v]
    BY <2>1, <2>2, <2>3
  <2> HIDE DEF s, q, p
  <2>6. \A r \in Rooms : <<s, uid[s] + 1>> \notin parts[r]
    <3> SUFFICES ASSUME NEW r \in Rooms, <<s, uid[s] + 1>> \in parts[r] PROVE FALSE
      OBVIOUS
    <3>1. uid[s] + 1 \in 1 .. MaxJoins
      BY <1>0 DEF TypeOK
    <3>2. uid[s] + 1 <= uid[s]
      BY <1>0, <2>2, <3>1 DEF RowShape
    <3> QED BY <2>5, <3>2
  <2>7. TeardownShape'
    BY <1>t, <2>1, <2>4 DEF TeardownPCs
  <2>8. JoinShape'
    <3>1. Cardinality(parts[q]) < Capacity
      BY <1>0, <2>1 DEF JoinShape, q
    <3> QED BY <2>1, <2>2, <2>4, <2>5, <2>6, <3>1 DEF JoinShape
  <2>9. RowShape'
    <3>1. \A v \in Sessions : uid[v] \in Nat /\ uid'[v] \in Nat /\ uid[v] <= uid'[v]
      BY <2>3, <2>5, Numbers
    <3>2. ASSUME NEW r \in Rooms, NEW v \in Sessions, NEW n \in 1 .. MaxJoins, <<v, n>> \in parts'[r]
          PROVE  n <= uid'[v]
      <4>1. n <= uid[v]
        BY <1>0, <2>1, <3>2 DEF RowShape
      <4> QED BY <3>1, <4>1
    <3>3. ASSUME NEW u \in Threads, proc'[u].pc = "left"
          PROVE  /\ proc'[u].uid <= uid'[proc'[u].s]
                 /\ sroom'[proc'[u].s] = NoRoom \/ proc'[u].uid < uid'[proc'[u].s]
      <4>1. u # h /\ proc'[u] = proc[u]
        BY <2>4, <3>3
      <4>2. /\ proc[u].s \in Sessions /\ proc[u].uid <= uid[proc[u].s]
            /\ sroom[proc[u].s] = NoRoom \/ proc[u].uid < uid[proc[u].s]
        BY <1>0, <1>l, <3>3, <4>1 DEF RowShape
      <4>3. proc[u].uid \in Nat
        BY <1>0 DEF Proc
      <4>4. CASE proc[u].s = s
        BY <2>5, <4>1, <4>2, <4>3, <4>4
      <4>5. CASE proc[u].s # s
        BY <2>5, <4>1, <4>2, <4>5
      <4> QED BY <4>4, <4>5
    <3> QED BY <3>2, <3>3 DEF RowShape
  <2>10. CapacityRespected' /\ EmptyHasClock'
    BY <1>0, <2>1 DEF CapacityRespected, EmptyHasClock
  <2>11. MembersListed'
    BY <1>0, <2>1, <2>4, <2>5 DEF MembersListed, Doing
  <2> QED BY <2>7, <2>8, <2>9, <2>10, <2>11 DEF Books, Shapes
<1>4. CASE JoinInsert
  <2> DEFINE s == proc[h].s
             q == proc[h].room
             n == proc[h].uid
  <2>1. /\ proc[h].pc = "committed"
        /\ UNCHANGED <<table, born, permanent, destroyed, ticking, sroom, uid>>
        /\ parts' = [parts EXCEPT ![q] = @ \union {<<s, n>>}]
        /\ emptyAge' = [emptyAge EXCEPT ![q] = -1]
    BY <1>4 DEF JoinInsert, Doing, sessVars
  <2>2. /\ proc'[h].pc = "notify" /\ proc'[h].s = s
        /\ \A u \in Threads : u # h => proc'[u] = proc[u]
    BY <1>0, <1>4, GotoEffect DEF JoinInsert, PCs, JoinPCs
  <2>3. s \in Sessions /\ q \in Rooms /\ n = uid[s]
    BY <1>0, <2>1, JoinerFacts DEF JoinPCs, JoinShape
  <2>4. /\ parts'[q] = parts[q] \union {<<s, n>>}
        /\ \A r \in Rooms : r # q => parts'[r] = parts[r] /\ emptyAge'[r] = emptyAge[r]
    BY <1>0, <2>1, <2>3 DEF TypeOK
  <2>5. <<s, n>> \notin parts[q] /\ Cardinality(parts[q]) < Capacity /\ sroom[s] \in {NoRoom, q}
    BY <1>0, <2>1, <2>3 DEF JoinShape
  <2> HIDE DEF s, q, n
  <2>6. TeardownShape'
    BY <1>t, <2>1, <2>2 DEF TeardownPCs
  <2>7. JoinShape'
    BY <2>2 DEF JoinShape
  <2>8. RowShape'
    <3>1. ASSUME NEW r \in Rooms, NEW v \in Sessions, NEW m \in 1 .. MaxJoins, <<v, m>> \in parts'[r]
          PROVE  m <= uid[v]
      <4>1. CASE <<v, m>> \in parts[r]
        BY <1>0, <4>1 DEF RowShape
      <4>2. CASE <<v, m>> = <<s, n>>
        BY <2>3, <4>2
      <4> QED BY <2>4, <3>1, <4>1, <4>2
    <3>2. \A u \in Threads : proc'[u].pc = "left" => proc'[u] = proc[u]
      BY <2>2
    <3> QED BY <1>0, <2>1, <3>1, <3>2 DEF RowShape
  <2>9. CapacityRespected'
    <3>1. IsFiniteSet(parts[q]) /\ Cardinality(parts[q]) \in Nat
      BY <1>0, <2>3, RowsFinite
    <3>2. Cardinality(parts[q] \union {<<s, n>>}) = Cardinality(parts[q]) + 1
      BY <2>5, <3>1, FS_AddElement
    <3>3. Cardinality(parts'[q]) <= Capacity
      BY <2>4, <2>5, <3>1, <3>2
    <3> QED BY <1>0, <2>4, <3>3 DEF CapacityRespected
  <2>10. MembersListed'
    <3> SUFFICES ASSUME NEW v \in Sessions, sroom[v] # NoRoom
                 PROVE  <<v, uid[v]>> \in parts'[sroom[v]]
      BY <2>1 DEF MembersListed
    <3>1. sroom[v] \in Rooms
      BY <1>0 DEF TypeOK
    <3>2. CASE v = s
      BY <2>3, <2>4, <2>5, <3>2
    <3>3. CASE v # s
      <4>1. <<v, uid[v]>> \in parts[sroom[v]]
        BY <1>0, <3>3 DEF MembersListed, s
      <4> QED BY <2>4, <3>1, <4>1
    <3> QED BY <3>2, <3>3
  <2>11. EmptyHasClock'
    BY <1>0, <2>1, <2>3, <2>4 DEF EmptyHasClock, TypeOK
  <2> QED BY <2>6, <2>7, <2>8, <2>9, <2>10, <2>11 DEF Books, Shapes
<1>5. CASE JoinUndo
  <2> DEFINE s == proc[h].s
             q == proc[h].room
  <2>1. /\ proc[h].pc = "committed"
        /\ UNCHANGED <<table, born, permanent, destroyed, ticking, parts, emptyAge, uid>>
        /\ sroom' = [sroom EXCEPT ![s] = IF @ = q THEN NoRoom ELSE @]
    BY <1>5 DEF JoinUndo, Doing
  <2>2. proc'[h].pc = "idle" /\ \A u \in Threads : u # h => proc'[u] = proc[u]
    BY <1>0, <1>5, FinishEffect DEF JoinUndo
  <2>3. s \in Sessions /\ sroom[s] \in {NoRoom, q}
    BY <1>0, <2>1, JoinerFacts DEF JoinPCs, JoinShape
  <2>4. sroom'[s] = NoRoom /\ \A v \in Sessions : v # s => sroom'[v] = sroom[v]
    BY <1>0, <2>1, <2>3 DEF TypeOK
  <2>5. TeardownShape'
    BY <1>t, <2>1, <2>2 DEF TeardownPCs
  <2>6. JoinShape'
    BY <2>2 DEF JoinShape
  <2>7. RowShape'
    <3>1. \A u \in Threads : proc'[u].pc = "left" => proc'[u] = proc[u]
      BY <2>2
    <3>2. \A v \in Sessions : sroom'[v] \in {NoRoom, sroom[v]}
      BY <2>4
    <3> QED BY <1>0, <1>l, <2>1, <3>1, <3>2 DEF RowShape
  <2>8. CapacityRespected' /\ EmptyHasClock'
    BY <1>0, <2>1 DEF CapacityRespected, EmptyHasClock
  <2>9. MembersListed'
    BY <1>0, <2>1, <2>4 DEF MembersListed, Doing
  <2> QED BY <2>5, <2>6, <2>7, <2>8, <2>9 DEF Books, Shapes
<1> QED BY <1>1, <1>2, <1>3, <1>4, <1>5

\* Whoever takes the session out: its row stays until the same thread unlists it.
LEMMA TakeOutBooks ==
  ASSUME Typed, Books, NEW t \in Threads, NEW s \in Sessions, NEW last \in BOOLEAN, TakeOut(t, s, last),
         UNCHANGED roomVars, UNCHANGED uid,
         proc[t].pc \in {"idle", "leave", "reaped"}
  PROVE  Books'
<1> USE ThreadNames, Numbers
<1>0. TypeOK /\ Placed /\ TeardownShape /\ JoinShape /\ RowShape
      /\ CapacityRespected /\ MembersListed /\ EmptyHasClock /\ proc \in [Threads -> Proc]
  BY DEF Typed, Books, Shapes, TypeOK
<1>1. /\ proc'[t].pc = IF sroom[s] = NoRoom THEN "free" ELSE "left"
      /\ proc'[t].s = s /\ proc'[t].uid = uid[s]
      /\ \A u \in Threads : u # t => proc'[u] = proc[u]
      /\ sroom'[s] = NoRoom /\ \A v \in Sessions : v # s => sroom'[v] = sroom[v]
  BY <1>0, TakeOutEffect
<1>2. proc'[t].pc \in {"free", "left"}
  BY <1>1
<1>3. UNCHANGED <<table, born, permanent, destroyed, ticking, parts, emptyAge, uid>>
  BY DEF roomVars
<1>4. TeardownShape'
  BY <1>0, <1>1, <1>2, <1>3 DEF TeardownShape, RoomsMutexFree, TeardownPCs
<1>5. \A v \in Sessions : sroom'[v] \in {NoRoom, sroom[v]}
  BY <1>1
<1>6. JoinShape'
  <2>1. CASE t = "handler"
    BY <1>2, <2>1 DEF JoinShape
  <2>2. CASE t # "handler"
    <3>1. proc'["handler"] = proc["handler"]
      BY <1>1, <2>2
    <3>2. proc["handler"].pc \in {"joining", "admitted", "committed"} => proc["handler"].s \in Sessions
      BY JoinerFacts DEF JoinPCs
    <3> QED BY <1>0, <1>3, <1>5, <3>1, <3>2 DEF JoinShape
  <2> QED BY <2>1, <2>2
<1>7. RowShape'
  <2>1. \A u \in Threads : proc[u].pc = "left" => proc[u].s \in Sessions
    BY LeaverFacts DEF LeavePCs
  <2>2. uid[s] \in Nat
    BY <1>0 DEF TypeOK
  <2> QED BY <1>0, <1>1, <1>3, <1>5, <2>1, <2>2 DEF RowShape
<1>8. CapacityRespected' /\ EmptyHasClock'
  BY <1>0, <1>3 DEF CapacityRespected, EmptyHasClock
<1>9. MembersListed'
  <2> SUFFICES ASSUME NEW v \in Sessions, sroom'[v] # NoRoom
               PROVE  \/ <<v, uid[v]>> \in parts[sroom'[v]]
                      \/ proc'["handler"].pc = "committed" /\ proc'["handler"].s = v
    BY <1>3 DEF MembersListed, Doing
  <2>1. v # s /\ sroom'[v] = sroom[v]
    BY <1>1
  <2>2. proc["handler"].pc = "committed" => proc'["handler"] = proc["handler"]
    BY <1>1
  <2> QED BY <1>0, <2>1, <2>2 DEF MembersListed, Doing
<1> QED BY <1>4, <1>6, <1>7, <1>8, <1>9 DEF Books, Shapes

\* Leaving: the row that goes is never the one of a join that still stands.
LEMMA LeaveBooks ==
  ASSUME Typed, Books,
         \/ LeaveTakeOut
         \/ \E s \in Sessions : HangupMedia(s) \/ DestroySession(s)
         \/ \E r \in Rooms : ReapTakeOut(r)
         \/ \E t \in Threads : Unlist(t)
  PROVE  Books'
<1> USE ThreadNames, Numbers
<1>0. TypeOK /\ Placed /\ TeardownShape /\ JoinShape /\ RowShape
      /\ CapacityRespected /\ MembersListed /\ EmptyHasClock /\ proc \in [Threads -> Proc]
  BY DEF Typed, Books, Shapes, TypeOK
<1>1. CASE LeaveTakeOut
  <2>1. proc["handler"].s \in Sessions /\ proc["handler"].pc = "leave"
    BY <1>1, LeaverFacts DEF LeaveTakeOut, Doing, LeavePCs
  <2> QED BY <1>1, <2>1, TakeOutBooks DEF LeaveTakeOut
<1>2. ASSUME NEW s \in Sessions, HangupMedia(s) PROVE Books'
  BY <1>2, TakeOutBooks DEF HangupMedia, Doing
<1>3. ASSUME NEW s \in Sessions, DestroySession(s) PROVE Books'
  BY <1>3, TakeOutBooks DEF DestroySession, Doing
<1>4. ASSUME NEW r \in Rooms, ReapTakeOut(r) PROVE Books'
  <2>1. proc[r].s \in Sessions /\ proc[r].pc = "reaped"
    BY <1>4, LeaverFacts DEF ReapTakeOut, Doing, ReapPCs
  <2> QED BY <1>4, <2>1, TakeOutBooks DEF ReapTakeOut
<1>5. ASSUME NEW t \in Threads, Unlist(t) PROVE Books'
  <2> DEFINE s == proc[t].s
             q == proc[t].room
             n == proc[t].uid
  <2>1. /\ proc[t].pc = "left"
        /\ UNCHANGED <<table, born, permanent, destroyed, ticking, sroom, uid>>
        /\ parts' = [parts EXCEPT ![q] = @ \ {<<s, n>>}]
        /\ emptyAge' = [emptyAge EXCEPT ![q] = IF q \notin permanent /\ parts'[q] = {} THEN 0 ELSE @]
    BY <1>5 DEF Unlist, Doing, sessVars
  <2>2. /\ proc'[t].pc = "unlisted" /\ \A u \in Threads : u # t => proc'[u] = proc[u]
    BY <1>0, <1>5, GotoEffect DEF Unlist, PCs, LeavePCs
  <2>3. s \in Sessions /\ q \in Rooms
    BY <2>1, LeaverFacts DEF LeavePCs
  <2>4. /\ parts'[q] = parts[q] \ {<<s, n>>}
        /\ \A r \in Rooms : r # q => parts'[r] = parts[r] /\ emptyAge'[r] = emptyAge[r]
        /\ emptyAge'[q] = IF q \notin permanent /\ parts'[q] = {} THEN 0 ELSE emptyAge[q]
    BY <1>0, <2>1, <2>3 DEF TypeOK
  <2>5. sroom[s] = NoRoom \/ n < uid[s]
    BY <1>0, <2>1 DEF RowShape
  <2>6. n \in Nat /\ uid[s] \in Nat
    BY <1>0, <2>3 DEF TypeOK, Proc
  <2> HIDE DEF s, q, n
  <2>7. \A r \in Rooms : Cardinality(parts'[r]) \in Nat /\ Cardinality(parts'[r]) <= Cardinality(parts[r])
    <3> SUFFICES ASSUME NEW r \in Rooms
                 PROVE  Cardinality(parts'[r]) \in Nat /\ Cardinality(parts'[r]) <= Cardinality(parts[r])
      OBVIOUS
    <3>1. parts'[r] \subseteq parts[r]
      BY <2>4
    <3>2. IsFiniteSet(parts[r])
      BY <1>0, RowsFinite
    <3> QED BY <3>1, <3>2, FS_Subset, FS_CardinalityType
  <2>8. TeardownShape'
    BY <1>0, <2>1, <2>2 DEF TeardownShape, RoomsMutexFree, TeardownPCs
  <2>9. JoinShape'
    <3>1. CASE t = "handler"
      BY <2>2, <3>1 DEF JoinShape
    <3>2. CASE t # "handler"
      <4>1. proc'["handler"] = proc["handler"]
        BY <2>2, <3>2
      <4>2. proc["handler"].pc \in {"admitted", "committed"} => proc["handler"].room \in Rooms
        BY JoinerFacts DEF JoinPCs
      <4>3. proc["handler"].pc \in {"admitted", "committed"} =>
              Cardinality(parts'[proc["handler"].room]) < Capacity
        <5> SUFFICES ASSUME proc["handler"].pc \in {"admitted", "committed"}
                     PROVE  Cardinality(parts'[proc["handler"].room]) < Capacity
          OBVIOUS
        <5>1. proc["handler"].room \in Rooms /\ Cardinality(parts[proc["handler"].room]) < Capacity
          BY <1>0, <4>2 DEF JoinShape
        <5>2. Cardinality(parts[proc["handler"].room]) \in Nat
          BY <1>0, <5>1, RowsFinite
        <5> QED BY <2>7, <5>1, <5>2
      <4>4. \A r \in Rooms : parts'[r] \subseteq parts[r]
        BY <2>4
      <4> QED BY <1>0, <2>1, <4>1, <4>3, <4>4 DEF JoinShape
    <3> QED BY <3>1, <3>2
  <2>10. RowShape'
    <3>1. \A r \in Rooms : parts'[r] \subseteq parts[r]
      BY <2>4
    <3>2. \A u \in Threads : proc'[u].pc = "left" => proc'[u] = proc[u]
      BY <2>2
    <3> QED BY <1>0, <2>1, <3>1, <3>2 DEF RowShape
  <2>11. CapacityRespected'
    <3> SUFFICES ASSUME NEW r \in Rooms PROVE Cardinality(parts'[r]) <= Capacity
      BY DEF CapacityRespected
    <3>1. Cardinality(parts[r]) \in Nat /\ Cardinality(parts[r]) <= Capacity
      BY <1>0, RowsFinite DEF CapacityRespected
    <3> QED BY <2>7, <3>1
  <2>12. MembersListed'
    <3> SUFFICES ASSUME NEW v \in Sessions, sroom[v] # NoRoom
                 PROVE  \/ <<v, uid[v]>> \in parts'[sroom[v]]
                        \/ proc'["handler"].pc = "committed" /\ proc'["handler"].s = v
      BY <2>1 DEF MembersListed, Doing
    <3>1. CASE <<v, uid[v]>> \in parts[sroom[v]]
      <4>1. <<v, uid[v]>> # <<s, n>>
        <5>1. CASE v = s
          BY <2>5, <2>6, <5>1
        <5>2. CASE v # s
          BY <5>2
        <5> QED BY <5>1, <5>2
      <4>2. sroom[v] \in Rooms
        BY <1>0 DEF TypeOK
      <4> QED BY <2>4, <3>1, <4>1, <4>2
    <3>2. CASE proc["handler"].pc = "committed" /\ proc["handler"].s = v
      <4>1. proc'["handler"] = proc["handler"]
        BY <2>1, <2>2, <3>2
      <4> QED BY <3>2, <4>1
    <3> QED BY <1>0, <3>1, <3>2 DEF MembersListed, Doing
  <2>13. EmptyHasClock'
    BY <1>0, <2>1, <2>4 DEF EmptyHasClock, TypeOK
  <2> QED BY <2>8, <2>9, <2>10, <2>11, <2>12, <2>13 DEF Books, Shapes
<1> QED BY <1>1, <1>2, <1>3, <1>4, <1>5

\* The inductive step: one lemma per kind of step
LEMMA StepBooks ==
  ASSUME Typed, Books, [Next]_vars
  PROVE  Books'
<1>1. CASE Request
  BY <1>1, QuietBooks, TeardownBooks, JoinBooks DEF Request
<1>2. CASE JoinStep
  BY <1>2, QuietBooks, JoinBooks DEF JoinStep
<1>3. CASE LeaveTakeOut \/ \E t \in Threads : LeaveStep(t)
  BY <1>3, QuietBooks, LeaveBooks DEF LeaveStep
<1>4. CASE Sweep \/ \E t \in {"handler", "sender"} : TeardownStep(t)
  BY <1>4, TeardownBooks
<1>5. CASE \E s \in Sessions : CoreCall(s)
  BY <1>5, QuietBooks, LeaveBooks DEF CoreCall
<1>6. CASE \/ \E r \in Rooms, s \in Sessions : ReapCollect(r, s)
           \/ \E r \in Rooms : ReapStep(r)
  BY <1>6, QuietBooks, LeaveBooks DEF ReapStep
<1>7. CASE Clock \/ UNCHANGED vars
  BY <1>7, QuietBooks
<1> QED BY <1>1, <1>2, <1>3, <1>4, <1>5, <1>6, <1>7 DEF Next

\* The books are in order in every state the program can reach.
LEMMA BooksCorrect == Spec => []Books
<1>1. Init => Books
  <2> SUFFICES ASSUME Init PROVE Books
    OBVIOUS
  <2> USE ThreadNames, IdleFacts, Numbers
  <2>1. Cardinality({}) <= Capacity
    BY FS_EmptySet
  <2>2. \A t \in Threads : proc[t].pc = "idle"
    BY DEF Init
  <2>3. TeardownShape
    BY <2>2 DEF Init, TeardownShape, TeardownPCs
  <2>4. JoinShape /\ RowShape
    BY <2>2 DEF Init, JoinShape, RowShape
  <2>5. CapacityRespected /\ MembersListed /\ EmptyHasClock
    BY <2>1 DEF Init, CapacityRespected, MembersListed, EmptyHasClock
  <2> QED BY <2>3, <2>4, <2>5 DEF Books, Shapes
<1>2. Typed /\ Books /\ [Next]_vars => Books'
  BY StepBooks
<1> QED BY <1>1, <1>2, TypedCorrect, PTL DEF Spec

\* Whatever the threads do, also two of them on one session: the capacity check
\* of the join, taken under an earlier hold of room->mutex, is never overrun, a
\* session with a room pointer is in that room's participants (or its join is
\* about to insert it), and an empty room has its grace clock running.
THEOREM RoomBooksCorrect == Spec => []RoomBooks
<1>1. Typed /\ Books => RoomBooks
  BY DEF Typed, Books, RoomBooks
<1> QED BY <1>1, TypedCorrect, BooksCorrect, PTL

\* The sweep never flags a room that a session has joined: its verdict and the
\* flag are one hold of room->mutex, and every joined session has its row there.
THEOREM SweepSparesCorrect == Spec => SweepSparesJoined
<1> USE ThreadNames, IdleFacts
<1> DEFINE Spared == \A r \in destroyed' \ destroyed :
                       Doing("sender", "stopping")' => \A s \in Sessions :
                         sroom[s] = r => Doing("handler", "committed") /\ proc["handler"].s = s
<1>1. Typed /\ Books /\ [Next]_vars => [Spared]_vars
  <2> SUFFICES ASSUME Typed, Books, Next PROVE Spared
    OBVIOUS
  <2>0. proc \in [Threads -> Proc] /\ table \in Rooms \union {NoRoom} /\ MembersListed
    BY DEF Typed, TypeOK, Books
  <2>1. CASE Sweep
    <3>1. destroyed' = destroyed \union {table} /\ parts[table] = {} /\ table # NoRoom
      BY <2>1 DEF Sweep
    <3> QED BY <2>0, <3>1 DEF MembersListed
  <2>2. CASE DestroyRequest
    <3>1. proc["sender"].pc \notin TeardownPCs /\ proc'["sender"] = proc["sender"]
      BY <2>0, <2>2 DEF DestroyRequest, RoomsMutexFree
    <3> QED BY <3>1 DEF Doing, TeardownPCs
  <2>3. CASE destroyed' = destroyed
    BY <2>3
  <2>4. Sweep \/ DestroyRequest \/ destroyed' = destroyed
    BY DEF Next, Request, CreateRoom, CreateExists, JoinStart, LeaveRequest, JoinStep, JoinRefuse,
           JoinAdmit, JoinCommit, JoinInsert, JoinUndo, JoinNotify, LeaveTakeOut, LeaveStep, Unlist,
           DropRef, FreeMedia, TeardownStep, StopTicker, Evict, CoreCall, HangupMedia,
           DestroySession, SetupMedia, ReapCollect, ReapStep, ReapCheck, ReapTakeOut, Clock, roomVars
  <2> QED BY <2>1, <2>2, <2>3, <2>4
<1>2. Typed /\ Books /\ [Next]_vars =>
        [\A r \in destroyed' \ destroyed :
           Doing("sender", "stopping")' => \A s \in Sessions :
             sroom[s] = r => Doing("handler", "committed") /\ proc["handler"].s = s]_vars
  BY <1>1
<1> QED BY <1>2, TypedCorrect, BooksCorrect, PTL DEF Spec, SweepSparesJoined

----------------------------------------------------------------------------
\* The books of the sessions, as long as a session has one thread at a time

Pointers(r) == {s \in Sessions : sroom[s] = r}
Owners(r) == {t \in Threads : Holds(t, r)}

\* The two kinds of references that are counted are finitely many.
LEMMA CountsFinite ==
  ASSUME NEW r
  PROVE  /\ IsFiniteSet(Pointers(r)) /\ Cardinality(Pointers(r)) \in Nat
         /\ IsFiniteSet(Owners(r)) /\ Cardinality(Owners(r)) \in Nat
<1>1. IsFiniteSet(Sessions) /\ IsFiniteSet(Rooms)
  BY LifecycleAssumption
<1>2. IsFiniteSet({"handler"}) /\ IsFiniteSet({"sender"})
  BY FS_Singleton
<1>3. IsFiniteSet(Threads)
  <2>1. IsFiniteSet({"handler"} \union {"sender"})
    BY <1>2, FS_Union
  <2>2. IsFiniteSet(({"handler"} \union {"sender"}) \union Sessions)
    BY <1>1, <2>1, FS_Union
  <2>3. IsFiniteSet((({"handler"} \union {"sender"}) \union Sessions) \union Rooms)
    BY <1>1, <2>2, FS_Union
  <2>4. Threads = (({"handler"} \union {"sender"}) \union Sessions) \union Rooms
    BY DEF Threads
  <2> QED BY <2>3, <2>4
<1>4. Pointers(r) \subseteq Sessions /\ Owners(r) \subseteq Threads
  BY DEF Pointers, Owners
<1> QED BY <1>1, <1>3, <1>4, FS_Subset, FS_CardinalityType

\* A room nobody's counts of which changed.
LEMMA RefsKept ==
  ASSUME NEW r \in Rooms, refs[r] = Holders(r), refs'[r] = refs[r],
         Pointers(r)' = Pointers(r), Owners(r)' = Owners(r),
         table' = r <=> table = r, r \in ticking' <=> r \in ticking
  PROVE  refs'[r] = Holders(r)'
  BY DEF Holders, Pointers, Owners

\* No thread is at work on more sessions than before.
LEMMA OneThreadKept ==
  ASSUME OneThread, \A t \in Threads : At(t)' => At(t) /\ proc'[t].s = proc[t].s
  PROVE  OneThread'
  BY DEF OneThread

\* A thread starts on a session nobody is busy with.
LEMMA OneThreadStarts ==
  ASSUME Typed, OneThread, NEW t \in Threads, NEW s \in Sessions, ~Busy(s), proc'[t].s = s,
         \A u \in Threads : u # t => proc'[u] = proc[u]
  PROVE  OneThread'
<1>1. \A u \in Threads : u # t /\ At(u)' => At(u) /\ proc'[u].s = proc[u].s /\ proc[u].s # s
  BY DEF At, Busy
<1> QED BY <1>1 DEF OneThread

\* A joiner past its admission has no row yet, in any room.
LEMMA JoinerRowless ==
  ASSUME Typed, Books, Solo, proc["handler"].pc \in {"admitted", "committed"},
         NEW r \in Rooms, NEW n \in 1 .. MaxJoins
  PROVE  <<proc["handler"].s, n>> \notin parts[r]
<1> DEFINE s == proc["handler"].s
<1> USE ThreadNames
<1>1. s \in Sessions /\ At("handler")
  BY JoinerFacts DEF JoinPCs, At
<1> SUFFICES ASSUME <<s, n>> \in parts[r] PROVE FALSE
  OBVIOUS
<1>2. CASE sroom[s] = r /\ uid[s] = n
  <2>1. sroom[s] # NoRoom
    BY <1>2, LifecycleAssumption
  <2>2. proc["handler"].pc = "committed"
    BY <2>1 DEF Books, Shapes, JoinShape
  <2> QED BY <1>2, <2>2 DEF Books, Shapes, JoinShape
<1>3. ASSUME NEW t \in Threads, Leaving(t, s, r, n) PROVE FALSE
  <2>1. At(t) /\ proc[t].s = s /\ proc[t].pc = "left"
    BY <1>1, <1>3 DEF Leaving, At
  <2>2. t = "handler"
    BY <1>1, <2>1 DEF Solo, OneThread
  <2> QED BY <2>1, <2>2
<1> QED BY <1>1, <1>2, <1>3 DEF Solo, ParticipantsBacked

\* A leave that frees the session's media has left no row of it, in any room.
LEMMA LeaverRowless ==
  ASSUME Typed, Books, Solo, NEW t \in Threads, proc[t].pc \in {"unlisted", "free"},
         NEW r \in Rooms, NEW n \in 1 .. MaxJoins
  PROVE  <<proc[t].s, n>> \notin parts[r]
<1> DEFINE s == proc[t].s
<1>1. s \in Sessions /\ At(t) /\ sroom[s] = NoRoom
  BY LeaverFacts DEF LeavePCs, At, Solo, SoloView
<1> SUFFICES ASSUME <<s, n>> \in parts[r] PROVE FALSE
  OBVIOUS
<1>2. ~(sroom[s] = r /\ uid[s] = n)
  BY <1>1, LifecycleAssumption
<1>3. ASSUME NEW u \in Threads, Leaving(u, s, r, n) PROVE FALSE
  <2>1. At(u) /\ proc[u].s = s /\ proc[u].pc = "left"
    BY <1>1, <1>3 DEF Leaving, At
  <2>2. u = t
    BY <1>1, <2>1 DEF Solo, OneThread
  <2> QED BY <2>1, <2>2
<1> QED BY <1>1, <1>2, <1>3 DEF Solo, ParticipantsBacked

\* The program counters the sessions' books speak of
Tracked == {"joining", "admitted", "committed", "left", "unlisted", "free"}

\* Steps that change none of the sessions' books
LEMMA FrameSolo ==
  ASSUME Typed, Books, Solo, OneThread',
         UNCHANGED <<table, ticking, refs, parts, sroom, uid, gone>>,
         \A t \in Threads : \/ proc'[t] = proc[t]
                            \/ proc'[t].pc \notin Tracked /\ proc[t].pc \notin Tracked
  PROVE  Solo'
<1> USE ThreadNames
<1>1. SoloView'
  BY DEF Solo, SoloView, Tracked
<1>2. RefsExact'
  <2> SUFFICES ASSUME NEW r \in Rooms PROVE refs'[r] = Holders(r)'
    BY DEF RefsExact
  <2>1. Pointers(r)' = Pointers(r)
    BY DEF Pointers
  <2>2. Owners(r)' = Owners(r)
    BY DEF Owners, Holds, Tracked
  <2> QED BY <2>1, <2>2, RefsKept DEF Solo, RefsExact
<1>3. ParticipantsBacked'
  BY DEF Solo, ParticipantsBacked, Leaving, Tracked
<1>4. RowsAlive'
  BY DEF Solo, RowsAlive
<1> QED BY <1>1, <1>2, <1>3, <1>4 DEF Solo

\* The steps that frame covers
LEMMA QuietSolo ==
  ASSUME Typed, Books, Solo, ~overlapped',
         \/ CreateExists \/ DestroyRequest \/ Sweep \/ JoinNotify \/ Clock
         \/ \E s \in Sessions : LeaveRequest(s) \/ SetupMedia(s)
         \/ \E r \in Rooms, s \in Sessions : ReapCollect(r, s)
         \/ \E r \in Rooms : ReapCheck(r)
         \/ UNCHANGED vars
  PROVE  Solo'
<1> USE ThreadNames, IdleFacts
<1>0. proc \in [Threads -> Proc] /\ OneThread /\ NoSession \notin Sessions
  BY LifecycleAssumption DEF Typed, TypeOK, Solo
<1> DEFINE Framed(t) == \/ proc'[t] = proc[t]
                        \/ proc'[t].pc \notin Tracked /\ proc[t].pc \notin Tracked
           Kept == UNCHANGED <<table, ticking, refs, parts, sroom, uid, gone>>
<1>1. CASE CreateExists \/ Clock \/ UNCHANGED vars \/ \E s \in Sessions : SetupMedia(s)
  <2>1. Kept /\ proc' = proc
    BY <1>1 DEF CreateExists, Clock, vars, SetupMedia, sessVars, roomVars
  <2>2. OneThread'
    BY <1>0, <2>1 DEF OneThread, At
  <2> QED BY <2>1, <2>2, FrameSolo
<1>2. ASSUME NEW t \in {"handler", "sender"}, proc[t].pc = "idle", Kept,
             proc' = [proc EXCEPT ![t] = [Idle EXCEPT !.pc = "stopping", !.room = table]]
      PROVE  Solo'
  <2>1. /\ proc'[t].pc = "stopping" /\ proc'[t].s = NoSession
        /\ \A u \in Threads : u # t => proc'[u] = proc[u]
    BY <1>0, <1>2 DEF Idle
  <2>2. OneThread'
    BY <1>0, <2>1, OneThreadKept DEF At
  <2>3. \A u \in Threads : Framed(u)
    BY <1>2, <2>1 DEF Tracked
  <2> QED BY <1>2, <2>2, <2>3, FrameSolo
<1>3. CASE DestroyRequest
  BY <1>2, <1>3 DEF DestroyRequest, Doing, sessVars
<1>4. CASE Sweep
  BY <1>2, <1>4 DEF Sweep, Doing, sessVars
<1>5. CASE JoinNotify
  <2>1. proc'["handler"] = Idle /\ \A u \in Threads : u # "handler" => proc'[u] = proc[u]
    BY <1>0, <1>5, FinishEffect DEF JoinNotify
  <2>2. Kept /\ proc["handler"].pc = "notify"
    BY <1>5 DEF JoinNotify, Doing, sessVars, roomVars
  <2>3. OneThread'
    BY <1>0, <2>1, OneThreadKept DEF At
  <2>4. \A u \in Threads : Framed(u)
    BY <2>1, <2>2 DEF Tracked
  <2> QED BY <2>2, <2>3, <2>4, FrameSolo
<1>6. ASSUME NEW s \in Sessions, LeaveRequest(s) PROVE Solo'
  <2>1. proc' = [proc EXCEPT !["handler"] = [Idle EXCEPT !.pc = "leave", !.s = s]]
    BY <1>6 DEF LeaveRequest
  <2>2. /\ proc'["handler"].pc = "leave" /\ proc'["handler"].s = s
        /\ \A u \in Threads : u # "handler" => proc'[u] = proc[u]
    BY <1>0, <2>1 DEF Idle
  <2>3. Kept /\ proc["handler"].pc = "idle" /\ ~Busy(s)
    BY <1>6 DEF LeaveRequest, Doing, Touch, sessVars, roomVars
  <2>4. OneThread'
    BY <1>0, <2>2, <2>3, OneThreadStarts
  <2>5. \A u \in Threads : Framed(u)
    BY <2>2, <2>3 DEF Tracked
  <2> QED BY <2>3, <2>4, <2>5, FrameSolo
<1>7. ASSUME NEW r \in Rooms, NEW s \in Sessions, ReapCollect(r, s) PROVE Solo'
  <2>1. proc' = [proc EXCEPT ![r] =
                   [Idle EXCEPT !.pc = "reap", !.s = s, !.room = r, !.uid = uid[s]]]
    BY <1>7 DEF ReapCollect
  <2>2. proc'[r].pc = "reap" /\ \A u \in Threads : u # r => proc'[u] = proc[u]
    BY <1>0, <2>1 DEF Idle
  <2>3. Kept /\ proc[r].pc = "idle"
    BY <1>7 DEF ReapCollect, Doing, sessVars, roomVars
  <2>4. OneThread'
    BY <1>0, <2>2, OneThreadKept DEF At
  <2>5. \A u \in Threads : Framed(u)
    BY <2>2, <2>3 DEF Tracked
  <2> QED BY <2>3, <2>4, <2>5, FrameSolo
<1>8. ASSUME NEW r \in Rooms, ReapCheck(r) PROVE Solo'
  <2>1. Kept /\ proc[r].pc = "reap" /\ proc[r].s \in Sessions
    BY <1>8, LeaverFacts DEF ReapCheck, Doing, roomVars, ReapPCs
  <2>2. CASE StillWithoutMedia(r)
    <3>1. /\ proc'[r].pc = "reaped" /\ proc'[r].s = proc[r].s
          /\ \A u \in Threads : u # r => proc'[u] = proc[u]
      BY <1>0, <1>8, <2>2, GotoEffect DEF ReapCheck, PCs, ReapPCs
    <3>2. ~Busy(proc[r].s)
      BY <1>8, <2>2 DEF ReapCheck, Touch
    <3>3. OneThread'
      BY <1>0, <2>1, <3>1, <3>2, OneThreadStarts
    <3>4. \A u \in Threads : Framed(u)
      BY <2>1, <3>1 DEF Tracked
    <3> QED BY <2>1, <3>3, <3>4, FrameSolo
  <2>3. CASE ~StillWithoutMedia(r)
    <3>1. proc'[r] = Idle /\ \A u \in Threads : u # r => proc'[u] = proc[u]
      BY <1>0, <1>8, <2>3, FinishEffect DEF ReapCheck
    <3>2. OneThread'
      BY <1>0, <3>1, OneThreadKept DEF At
    <3>3. \A u \in Threads : Framed(u)
      BY <2>1, <3>1 DEF Tracked
    <3> QED BY <2>1, <3>2, <3>3, FrameSolo
  <2> QED BY <2>2, <2>3
<1> QED BY <1>1, <1>3, <1>4, <1>5, <1>6, <1>7, <1>8

\* Creating a room and tearing it down: the table's and the tick thread's
\* references come and go with them, and an eviction drops one for each pointer.
LEMMA TeardownSolo ==
  ASSUME Typed, Books, Solo, ~overlapped',
         \/ \E r \in Rooms, perm \in BOOLEAN : CreateRoom(r, perm)
         \/ \E t \in {"handler", "sender"} : TeardownStep(t)
  PROVE  Solo'
<1> USE ThreadNames, IdleFacts
<1>0. /\ proc \in [Threads -> Proc] /\ NoRoom \notin Rooms /\ refs \in [Rooms -> Int]
      /\ table \in Rooms \union {NoRoom} /\ sroom \in [Sessions -> Rooms \union {NoRoom}]
      /\ parts \in [Rooms -> SUBSET (Sessions \X (1 .. MaxJoins))]
      /\ OneThread /\ SoloView /\ RefsExact /\ ParticipantsBacked /\ RowsAlive
  BY LifecycleAssumption DEF Typed, TypeOK, Solo
<1>1. ASSUME NEW r \in Rooms, NEW perm \in BOOLEAN, CreateRoom(r, perm) PROVE Solo'
  <2>1. /\ UNCHANGED <<parts, proc, sroom, uid, gone>> /\ table = NoRoom /\ table' = r /\ r \notin born
        /\ ticking' = ticking \union {r} /\ refs' = [refs EXCEPT ![r] = 2]
    BY <1>1 DEF CreateRoom, sessVars
  <2>2. OneThread' /\ SoloView' /\ ParticipantsBacked' /\ RowsAlive'
    BY <1>0, <2>1 DEF OneThread, At, SoloView, ParticipantsBacked, Leaving, RowsAlive
  <2>3. RefsExact'
    <3> SUFFICES ASSUME NEW q \in Rooms PROVE refs'[q] = Holders(q)'
      BY DEF RefsExact
    <3>1. Pointers(q)' = Pointers(q) /\ Owners(q)' = Owners(q)
      BY <2>1 DEF Pointers, Owners, Holds
    <3>2. CASE q # r
      <4>1. refs'[q] = refs[q] /\ (table' = q <=> table = q) /\ (q \in ticking' <=> q \in ticking)
        BY <1>0, <2>1, <3>2
      <4> QED BY <1>0, <3>1, <4>1, RefsKept DEF RefsExact
    <3>3. CASE q = r
      <4>1. Pointers(q) = {} /\ Owners(q) = {}
        BY <1>0, <2>1, <3>3 DEF Pointers, Owners, Holds, Typed, Placed
      <4>2. Cardinality(Pointers(q)') = 0 /\ Cardinality(Owners(q)') = 0
        BY <3>1, <4>1, FS_EmptySet
      <4>3. refs'[q] = 2 /\ table' = q /\ q \in ticking'
        BY <1>0, <2>1, <3>3
      <4> QED BY <4>2, <4>3 DEF Holders, Pointers, Owners
    <3> QED BY <3>2, <3>3
  <2> QED BY <2>2, <2>3 DEF Solo
<1>2. ASSUME NEW t \in {"handler", "sender"}, StopTicker(t) PROVE Solo'
  <2> DEFINE q == proc[t].room
  <2>1. /\ proc'[t].pc = "evicting" /\ proc'[t].s = proc[t].s /\ proc'[t].room = proc[t].room
        /\ \A u \in Threads : u # t => proc'[u] = proc[u]
    BY <1>0, <1>2, GotoEffect DEF StopTicker, PCs, TeardownPCs
  <2>2. /\ proc[t].pc = "stopping" /\ ticking' = ticking \ {q} /\ refs' = [refs EXCEPT ![q] = @ - 1]
        /\ UNCHANGED <<table, parts, sroom, uid, gone>>
    BY <1>2 DEF StopTicker, Doing, sessVars
  <2>3. q \in Rooms /\ q \in ticking
    BY <2>2 DEF Typed, Placed, Books, Shapes, TeardownShape, TeardownPCs
  <2> HIDE DEF q
  <2>4. OneThread'
    BY <1>0, <2>1, <2>2, OneThreadKept DEF At
  <2>5. SoloView' /\ ParticipantsBacked' /\ RowsAlive'
    <3>1. SoloView' /\ RowsAlive'
      BY <1>0, <2>1, <2>2 DEF SoloView, RowsAlive
    <3>2. ASSUME NEW u \in Threads, NEW s, NEW r, NEW n, Leaving(u, s, r, n)
          PROVE  Leaving(u, s, r, n)'
      <4>1. u # t
        BY <2>2, <3>2 DEF Leaving
      <4> QED BY <2>1, <3>2, <4>1 DEF Leaving
    <3>3. ParticipantsBacked'
      BY <1>0, <2>2, <3>2 DEF ParticipantsBacked
    <3> QED BY <3>1, <3>3
  <2>6. RefsExact'
    <3> SUFFICES ASSUME NEW r \in Rooms PROVE refs'[r] = Holders(r)'
      BY DEF RefsExact
    <3>1. Pointers(r)' = Pointers(r) /\ Owners(r)' = Owners(r)
      BY <2>1, <2>2 DEF Pointers, Owners, Holds
    <3>2. CASE r # q
      <4>1. refs'[r] = refs[r] /\ (r \in ticking' <=> r \in ticking)
        BY <1>0, <2>2, <3>2
      <4> QED BY <1>0, <2>2, <3>1, <4>1, RefsKept DEF RefsExact
    <3>3. CASE r = q
      <4>1. refs'[r] = refs[r] - 1 /\ r \in ticking /\ r \notin ticking'
        BY <1>0, <2>2, <2>3, <3>3
      <4>2. refs[r] = Cardinality(Pointers(r)) + Cardinality(Owners(r)) + (IF table = r THEN 1 ELSE 0) + 1
        BY <1>0, <4>1 DEF RefsExact, Holders, Pointers, Owners
      <4>3. Holders(r)' = Cardinality(Pointers(r)) + Cardinality(Owners(r)) + (IF table = r THEN 1 ELSE 0) + 0
        BY <2>2, <3>1, <4>1 DEF Holders, Pointers, Owners
      <4>4. Cardinality(Pointers(r)) \in Nat /\ Cardinality(Owners(r)) \in Nat
        BY CountsFinite
      <4> QED BY <4>1, <4>2, <4>3, <4>4
    <3> QED BY <3>2, <3>3
  <2> QED BY <2>4, <2>5, <2>6 DEF Solo
<1>3. ASSUME NEW t \in {"handler", "sender"}, Evict(t) PROVE Solo'
  <2> DEFINE q == proc[t].room
             M == Members(q)
  <2>1. proc'[t] = Idle /\ \A u \in Threads : u # t => proc'[u] = proc[u]
    BY <1>0, <1>3, FinishEffect DEF Evict
  <2>2. /\ proc[t].pc = "evicting" /\ table' = NoRoom /\ UNCHANGED <<ticking, uid, gone>>
        /\ parts' = [parts EXCEPT ![q] = {}]
        /\ refs' = [refs EXCEPT ![q] = @ - Cardinality(M) - 1]
        /\ sroom' = [s \in Sessions |-> IF s \in M THEN NoRoom ELSE sroom[s]]
    BY <1>3 DEF Evict, Doing
  <2>3. q \in Rooms /\ q = table
    BY <2>2 DEF Typed, Placed, Books, Shapes, TeardownShape, TeardownPCs
  <2>4. M \subseteq Pointers(q)
    BY DEF Members, Pointers
  <2>5. \A s \in Sessions : proc["handler"].pc = "committed" /\ proc["handler"].s = s => s \notin M
    BY <2>3, JoinerRowless DEF Members
  <2> HIDE DEF q, M
  <2>6. /\ parts'[q] = {} /\ \A r \in Rooms : r # q => parts'[r] = parts[r]
    BY <1>0, <2>2, <2>3
  <2>7. OneThread'
    BY <1>0, <2>1, OneThreadKept DEF At
  <2>8. SoloView'
    <3>1. \A u \in Threads : proc'[u].pc \in Tracked => proc'[u] = proc[u] /\ proc[u].s \in Sessions
      BY <2>1 DEF Tracked, Typed, Placed, PCs, JoinPCs, LeavePCs, TeardownPCs
    <3> QED BY <1>0, <2>2, <2>5, <3>1 DEF SoloView, Tracked
  <2>9. ParticipantsBacked'
    <3> SUFFICES ASSUME NEW r \in Rooms, NEW s \in Sessions, NEW n \in 1 .. MaxJoins,
                        <<s, n>> \in parts'[r]
                 PROVE  \/ sroom'[s] = r /\ uid[s] = n
                        \/ \E u \in Threads : Leaving(u, s, r, n)'
      BY <2>2 DEF ParticipantsBacked
    <3>1. r # q /\ <<s, n>> \in parts[r]
      BY <2>6
    <3>2. CASE sroom[s] = r /\ uid[s] = n
      <4>1. s \notin M
        BY <2>4, <3>1, <3>2 DEF Pointers
      <4> QED BY <2>2, <3>2, <4>1
    <3>3. ASSUME NEW u \in Threads, Leaving(u, s, r, n) PROVE Leaving(u, s, r, n)'
      BY <2>1, <2>2, <3>3 DEF Leaving
    <3> QED BY <1>0, <3>1, <3>2, <3>3 DEF ParticipantsBacked
  <2>10. RowsAlive'
    BY <1>0, <2>2, <2>6 DEF RowsAlive
  <2>11. RefsExact'
    <3> SUFFICES ASSUME NEW r \in Rooms PROVE refs'[r] = Holders(r)'
      BY DEF RefsExact
    <3>1. Owners(r)' = Owners(r)
      BY <2>1, <2>2 DEF Owners, Holds
    <3>2. CASE r # q
      <4>1. Pointers(r)' = Pointers(r)
        BY <1>0, <2>2, <2>4, <3>2 DEF Pointers
      <4>2. refs'[r] = refs[r] /\ (table' = r <=> table = r)
        BY <1>0, <2>2, <2>3, <3>2
      <4> QED BY <1>0, <2>2, <3>1, <4>1, <4>2, RefsKept DEF RefsExact
    <3>3. CASE r = q
      <4>1. Pointers(r)' = Pointers(r) \ M
        BY <1>0, <2>2, <2>4, <3>3 DEF Pointers
      <4>2. IsFiniteSet(Pointers(r)) /\ Cardinality(Pointers(r)) \in Nat /\ Cardinality(Owners(r)) \in Nat
        BY CountsFinite
      <4>3. IsFiniteSet(M) /\ Cardinality(M) \in Nat /\ Pointers(r) \intersect M = M
        BY <2>4, <3>3, <4>2, FS_Subset, FS_CardinalityType
      <4>4. Cardinality(Pointers(r) \ M) = Cardinality(Pointers(r)) - Cardinality(M)
        BY <4>2, <4>3, FS_Difference
      <4>5. refs'[r] = refs[r] - Cardinality(M) - 1 /\ table = r /\ table' # r
        BY <1>0, <2>2, <2>3, <3>3
      <4>6. refs[r] = Cardinality(Pointers(r)) + Cardinality(Owners(r)) + 1 + (IF r \in ticking THEN 1 ELSE 0)
        BY <1>0, <4>5 DEF RefsExact, Holders, Pointers, Owners
      <4>7. Holders(r)' = Cardinality(Pointers(r) \ M) + Cardinality(Owners(r)) + 0 + (IF r \in ticking THEN 1 ELSE 0)
        BY <2>2, <3>1, <4>1, <4>5 DEF Holders, Pointers, Owners
      <4> QED BY <4>2, <4>3, <4>4, <4>5, <4>6, <4>7
    <3> QED BY <3>2, <3>3
  <2> QED BY <2>7, <2>8, <2>9, <2>10, <2>11 DEF Solo
<1> QED BY <1>1, <1>2, <1>3 DEF TeardownStep

Bit(b) == IF b THEN 1 ELSE 0

\* One thread moves: the owners of a room change by that thread.
LEMMA OwnerCount ==
  ASSUME NEW t \in Threads, NEW r, \A u \in Threads : u # t => proc'[u] = proc[u]
  PROVE  Cardinality(Owners(r)') = Cardinality(Owners(r)) + Bit(Holds(t, r)') - Bit(Holds(t, r))
<1>1. IsFiniteSet(Owners(r)) /\ Cardinality(Owners(r)) \in Nat
  BY CountsFinite
<1>2. t \in Owners(r) <=> Holds(t, r)
  BY DEF Owners
<1>3. CASE Holds(t, r)' <=> Holds(t, r)
  <2>1. Owners(r)' = Owners(r)
    BY <1>3 DEF Owners, Holds
  <2>2. Bit(Holds(t, r)') = Bit(Holds(t, r)) /\ Bit(Holds(t, r)) \in Int
    BY <1>3 DEF Bit
  <2> QED BY <1>1, <2>1, <2>2
<1>4. CASE Holds(t, r)' /\ ~Holds(t, r)
  <2>1. Owners(r)' = Owners(r) \union {t}
    BY <1>4 DEF Owners, Holds
  <2>2. Cardinality(Owners(r) \union {t}) = Cardinality(Owners(r)) + 1
    BY <1>1, <1>2, <1>4, FS_AddElement
  <2> QED BY <1>1, <1>4, <2>1, <2>2 DEF Bit
<1>5. CASE ~Holds(t, r)' /\ Holds(t, r)
  <2>1. Owners(r)' = Owners(r) \ {t}
    BY <1>5 DEF Owners, Holds
  <2>2. Cardinality(Owners(r) \ {t}) = Cardinality(Owners(r)) - 1
    BY <1>1, <1>2, <1>5, FS_RemoveElement
  <2> QED BY <1>1, <1>5, <2>1, <2>2 DEF Bit
<1> QED BY <1>3, <1>4, <1>5

\* One session moves: the pointers at a room change by that session.
LEMMA PointerCount ==
  ASSUME NEW s \in Sessions, NEW r, \A v \in Sessions : v # s => sroom'[v] = sroom[v]
  PROVE  Cardinality(Pointers(r)') = Cardinality(Pointers(r)) + Bit(sroom'[s] = r) - Bit(sroom[s] = r)
<1>1. IsFiniteSet(Pointers(r)) /\ Cardinality(Pointers(r)) \in Nat
  BY CountsFinite
<1>2. s \in Pointers(r) <=> sroom[s] = r
  BY DEF Pointers
<1>3. CASE sroom'[s] = r <=> sroom[s] = r
  <2>1. Pointers(r)' = Pointers(r)
    BY <1>3 DEF Pointers
  <2>2. Bit(sroom'[s] = r) = Bit(sroom[s] = r) /\ Bit(sroom[s] = r) \in Int
    BY <1>3 DEF Bit
  <2> QED BY <1>1, <2>1, <2>2
<1>4. CASE sroom'[s] = r /\ sroom[s] # r
  <2>1. Pointers(r)' = Pointers(r) \union {s}
    BY <1>4 DEF Pointers
  <2>2. Cardinality(Pointers(r) \union {s}) = Cardinality(Pointers(r)) + 1
    BY <1>1, <1>2, <1>4, FS_AddElement
  <2> QED BY <1>1, <1>4, <2>1, <2>2 DEF Bit
<1>5. CASE sroom'[s] # r /\ sroom[s] = r
  <2>1. Pointers(r)' = Pointers(r) \ {s}
    BY <1>5 DEF Pointers
  <2>2. Cardinality(Pointers(r) \ {s}) = Cardinality(Pointers(r)) - 1
    BY <1>1, <1>2, <1>5, FS_RemoveElement
  <2> QED BY <1>1, <1>5, <2>1, <2>2 DEF Bit
<1> QED BY <1>3, <1>4, <1>5

\* The bookkeeping rule of a step of one thread on one session: the count of a
\* room changes by what the thread and the session's pointer hold more or less.
LEMMA RefsStep ==
  ASSUME RefsExact, NEW t \in Threads, NEW s \in Sessions,
         \A u \in Threads : u # t => proc'[u] = proc[u],
         \A v \in Sessions : v # s => sroom'[v] = sroom[v],
         UNCHANGED <<table, ticking>>,
         \A r \in Rooms : refs'[r] = refs[r] + (Bit(Holds(t, r)') - Bit(Holds(t, r)))
                                             + (Bit(sroom'[s] = r) - Bit(sroom[s] = r))
  PROVE  RefsExact'
<1> SUFFICES ASSUME NEW r \in Rooms PROVE refs'[r] = Holders(r)'
  BY DEF RefsExact
<1>1. Cardinality(Owners(r)') = Cardinality(Owners(r)) + Bit(Holds(t, r)') - Bit(Holds(t, r))
  BY OwnerCount
<1>2. Cardinality(Pointers(r)') = Cardinality(Pointers(r)) + Bit(sroom'[s] = r) - Bit(sroom[s] = r)
  BY PointerCount
<1>3. Cardinality(Owners(r)) \in Nat /\ Cardinality(Pointers(r)) \in Nat
  BY CountsFinite
<1>4. /\ Bit(Holds(t, r)') \in Int /\ Bit(Holds(t, r)) \in Int
      /\ Bit(sroom'[s] = r) \in Int /\ Bit(sroom[s] = r) \in Int
  BY DEF Bit
<1>5. refs[r] = Cardinality(Pointers(r)) + Cardinality(Owners(r))
                + (IF table = r THEN 1 ELSE 0) + (IF r \in ticking THEN 1 ELSE 0)
  BY DEF RefsExact, Holders, Pointers, Owners
<1>6. Holders(r)' = Cardinality(Pointers(r)') + Cardinality(Owners(r)')
                    + (IF table = r THEN 1 ELSE 0) + (IF r \in ticking THEN 1 ELSE 0)
  BY DEF Holders, Pointers, Owners
<1>7. refs'[r] = refs[r] + (Bit(Holds(t, r)') - Bit(Holds(t, r)))
                         + (Bit(sroom'[s] = r) - Bit(sroom[s] = r))
  OBVIOUS
<1> QED BY <1>1, <1>2, <1>3, <1>4, <1>5, <1>6, <1>7

\* A leave that is about to remove its row is disturbed by no other thread.
LEMMA LeavingKept ==
  ASSUME NEW t \in Threads, proc[t].pc # "left", \A u \in Threads : u # t => proc'[u] = proc[u],
         NEW u \in Threads, NEW s, NEW r, NEW n, Leaving(u, s, r, n)
  PROVE  Leaving(u, s, r, n)'
<1>1. u # t
  BY DEF Leaving
<1> QED BY <1>1 DEF Leaving

\* A join with its session to itself: the thread's reference becomes the
\* session's, and its row is backed from the insert on.
LEMMA JoinSolo ==
  ASSUME Typed, Books, Solo, ~overlapped',
         \/ \E s \in Sessions : JoinStart(s)
         \/ JoinRefuse \/ JoinAdmit \/ JoinCommit \/ JoinInsert \/ JoinUndo
  PROVE  Solo'
<1> USE ThreadNames, IdleFacts
<1> DEFINE h == "handler"
<1>0. /\ proc \in [Threads -> Proc] /\ NoRoom \notin Rooms /\ refs \in [Rooms -> Int]
      /\ table \in Rooms \union {NoRoom} /\ sroom \in [Sessions -> Rooms \union {NoRoom}]
      /\ parts \in [Rooms -> SUBSET (Sessions \X (1 .. MaxJoins))] /\ uid \in [Sessions -> 0 .. MaxJoins]
      /\ OneThread /\ SoloView /\ RefsExact /\ ParticipantsBacked /\ RowsAlive
  BY LifecycleAssumption DEF Typed, TypeOK, Solo
<1>b. ASSUME UNCHANGED <<parts, sroom, uid>>, proc[h].pc # "left",
             \A u \in Threads : u # h => proc'[u] = proc[u]
      PROVE  ParticipantsBacked'
  <2>1. \A u \in Threads, s \in Sessions, r \in Rooms, n \in 1 .. MaxJoins :
          Leaving(u, s, r, n) => Leaving(u, s, r, n)'
    BY <1>b, LeavingKept
  <2> QED BY <1>0, <1>b, <2>1 DEF ParticipantsBacked
<1>i. \A r \in Rooms : refs[r] \in Int
  BY <1>0
<1>1. ASSUME NEW s \in Sessions, JoinStart(s) PROVE Solo'
  <2>1. proc' = [proc EXCEPT ![h] = [Idle EXCEPT !.pc = "joining", !.s = s, !.room = table]]
    BY <1>1 DEF JoinStart
  <2>2. /\ proc'[h].pc = "joining" /\ proc'[h].s = s /\ proc'[h].room = table
        /\ \A u \in Threads : u # h => proc'[u] = proc[u]
    BY <1>0, <2>1 DEF Idle
  <2>3. /\ proc[h].pc = "idle" /\ s \notin gone /\ ~Busy(s) /\ table \in Rooms
        /\ refs' = [refs EXCEPT ![table] = @ + 1]
        /\ UNCHANGED <<table, ticking, parts, sroom, uid, gone>>
    BY <1>0, <1>1 DEF JoinStart, Doing, Touch, sessVars
  <2>4. OneThread'
    BY <1>0, <2>2, <2>3, OneThreadStarts
  <2>5. SoloView' /\ RowsAlive'
    BY <1>0, <2>2, <2>3 DEF SoloView, RowsAlive
  <2>6. ParticipantsBacked'
    BY <1>b, <2>2, <2>3
  <2>7. RefsExact'
    <3>1. \A r \in Rooms : /\ Bit(Holds(h, r)') = Bit(r = table) /\ Bit(Holds(h, r)) = 0
                           /\ refs'[r] = refs[r] + Bit(r = table)
                           /\ Bit(sroom'[s] = r) - Bit(sroom[s] = r) = 0
      BY <1>0, <1>i, <2>2, <2>3 DEF Bit, Holds
    <3>2. \A r \in Rooms : Bit(r = table) \in Int
      BY DEF Bit
    <3>3. \A r \in Rooms : refs'[r] = refs[r] + (Bit(Holds(h, r)') - Bit(Holds(h, r)))
                                             + (Bit(sroom'[s] = r) - Bit(sroom[s] = r))
      BY <1>i, <3>1, <3>2
    <3> QED BY <1>0, <2>2, <2>3, <3>3, RefsStep
  <2> QED BY <2>4, <2>5, <2>6, <2>7 DEF Solo
<1> DEFINE s == proc[h].s
           q == proc[h].room
<1>2. CASE JoinRefuse
  <2>1. proc'[h] = Idle /\ \A u \in Threads : u # h => proc'[u] = proc[u]
    BY <1>0, <1>2, FinishEffect DEF JoinRefuse
  <2>2. /\ proc[h].pc \in {"joining", "admitted"} /\ refs' = [refs EXCEPT ![q] = @ - 1]
        /\ UNCHANGED <<table, ticking, parts, sroom, uid, gone>>
    BY <1>2 DEF JoinRefuse, sessVars
  <2>3. s \in Sessions /\ q \in Rooms
    BY <2>2, JoinerFacts DEF JoinPCs
  <2>4. OneThread'
    BY <1>0, <2>1, OneThreadKept DEF At
  <2>5. SoloView' /\ RowsAlive'
    BY <1>0, <2>1, <2>2 DEF SoloView, RowsAlive
  <2>6. ParticipantsBacked'
    BY <1>b, <2>1, <2>2
  <2>7. RefsExact'
    <3>1. \A r \in Rooms : /\ Bit(Holds(h, r)) = Bit(r = q) /\ Bit(Holds(h, r)') = 0
                           /\ refs'[r] = refs[r] - Bit(r = q)
                           /\ Bit(sroom'[s] = r) - Bit(sroom[s] = r) = 0
      BY <1>0, <1>i, <2>1, <2>2, <2>3 DEF Bit, Holds
    <3>2. \A r \in Rooms : Bit(r = q) \in Int
      BY DEF Bit
    <3>3. \A r \in Rooms : refs'[r] = refs[r] + (Bit(Holds(h, r)') - Bit(Holds(h, r)))
                                             + (Bit(sroom'[s] = r) - Bit(sroom[s] = r))
      BY <1>i, <3>1, <3>2
    <3> HIDE DEF s
    <3> QED BY <1>0, <2>1, <2>2, <2>3, <3>3, RefsStep
  <2> QED BY <2>4, <2>5, <2>6, <2>7 DEF Solo
<1>3. CASE JoinAdmit
  <2>1. /\ proc'[h].pc = "admitted" /\ proc'[h].s = proc[h].s /\ proc'[h].room = proc[h].room
        /\ \A u \in Threads : u # h => proc'[u] = proc[u]
    BY <1>0, <1>3, GotoEffect DEF JoinAdmit, PCs, JoinPCs
  <2>2. proc[h].pc = "joining" /\ UNCHANGED <<table, ticking, refs, parts, sroom, uid, gone>>
    BY <1>3 DEF JoinAdmit, Doing, sessVars, roomVars
  <2>3. s \in Sessions
    BY <2>2, JoinerFacts DEF JoinPCs
  <2>4. OneThread'
    BY <1>0, <2>1, <2>2, OneThreadKept DEF At
  <2>5. SoloView' /\ RowsAlive'
    BY <1>0, <2>1, <2>2 DEF SoloView, RowsAlive
  <2>6. ParticipantsBacked'
    BY <1>b, <2>1, <2>2
  <2>7. RefsExact'
    <3> SUFFICES ASSUME NEW r \in Rooms PROVE refs'[r] = Holders(r)'
      BY DEF RefsExact
    <3>1. Pointers(r)' = Pointers(r) /\ Owners(r)' = Owners(r)
      BY <2>1, <2>2 DEF Pointers, Owners, Holds
    <3> QED BY <1>0, <2>2, <3>1, RefsKept DEF RefsExact
  <2> QED BY <2>4, <2>5, <2>6, <2>7 DEF Solo
<1>4. CASE JoinCommit
  <2> DEFINE p == [proc[h] EXCEPT !.pc = "committed", !.uid = uid[s] + 1]
  <2>1. /\ proc[h].pc = "admitted" /\ UNCHANGED <<table, ticking, refs, parts, gone>>
        /\ sroom' = [sroom EXCEPT ![s] = q] /\ uid' = [uid EXCEPT ![s] = @ + 1]
        /\ proc' = [proc EXCEPT ![h] = p]
    BY <1>4 DEF JoinCommit, Doing, roomVars
  <2>2. s \in Sessions /\ q \in Rooms /\ sroom[s] = NoRoom
    BY <2>1, JoinerFacts DEF JoinPCs, Books, Shapes, JoinShape
  <2>3. proc[h] \in Proc
    BY <1>0
  <2>4. /\ proc'[h].pc = "committed" /\ proc'[h].s = s /\ proc'[h].room = q
        /\ \A u \in Threads : u # h => proc'[u] = proc[u]
    BY <1>0, <2>1, <2>3 DEF Proc
  <2>5. /\ sroom'[s] = q
        /\ \A v \in Sessions : v # s => sroom'[v] = sroom[v] /\ uid'[v] = uid[v]
    BY <1>0, <2>1, <2>2
  <2>6. \A r \in Rooms, n \in 1 .. MaxJoins : <<s, n>> \notin parts[r]
    BY <2>1, JoinerRowless
  <2>7. \A u \in Threads : At(u) /\ proc[u].s = s => u = h
    <3>1. At(h)
      BY <2>1, <2>2 DEF At
    <3> QED BY <1>0, <3>1 DEF OneThread
  <2>8. s \notin gone
    BY <1>0, <2>1 DEF SoloView
  <2>9. OneThread'
    BY <1>0, <2>1, <2>4, OneThreadKept DEF At
  <2> HIDE DEF s, q, p
  <2>10. SoloView'
    <3>1. ASSUME NEW u \in Threads, proc'[u].pc \in {"left", "unlisted", "free"}
          PROVE  sroom'[proc'[u].s] = NoRoom
      <4>1. u # h /\ proc'[u] = proc[u] /\ proc[u].s \in Sessions
        BY <2>4, <3>1, LeaverFacts DEF LeavePCs
      <4>2. proc[u].s # s
        BY <2>7, <3>1, <4>1 DEF At
      <4> QED BY <1>0, <2>5, <3>1, <4>1, <4>2 DEF SoloView
    <3> QED BY <2>1, <2>4, <2>5, <2>8, <3>1 DEF SoloView
  <2>11. ParticipantsBacked'
    <3>1. \A u \in Threads, v \in Sessions, r \in Rooms, n \in 1 .. MaxJoins :
            Leaving(u, v, r, n) => Leaving(u, v, r, n)'
      BY <2>1, <2>4, LeavingKept
    <3> QED BY <1>0, <2>1, <2>5, <2>6, <3>1 DEF ParticipantsBacked
  <2>12. RowsAlive'
    BY <1>0, <2>1 DEF RowsAlive
  <2>13. RefsExact'
    <3>1. \A r \in Rooms : /\ Bit(Holds(h, r)) = Bit(r = q) /\ Bit(Holds(h, r)') = 0
                           /\ Bit(sroom'[s] = r) = Bit(r = q) /\ Bit(sroom[s] = r) = 0
      BY <1>0, <2>1, <2>2, <2>4, <2>5 DEF Bit, Holds, q
    <3>2. \A r \in Rooms : Bit(r = q) \in Int
      BY DEF Bit
    <3>3. \A r \in Rooms : refs'[r] = refs[r] + (Bit(Holds(h, r)') - Bit(Holds(h, r)))
                                             + (Bit(sroom'[s] = r) - Bit(sroom[s] = r))
      BY <1>i, <2>1, <3>1, <3>2
    <3> QED BY <1>0, <2>1, <2>2, <2>4, <2>5, <3>3, RefsStep
  <2> QED BY <2>9, <2>10, <2>11, <2>12, <2>13 DEF Solo
<1>5. CASE JoinInsert
  <2> DEFINE n == proc[h].uid
  <2>1. /\ proc[h].pc = "committed" /\ UNCHANGED <<table, ticking, refs, sroom, uid, gone>>
        /\ parts' = [parts EXCEPT ![q] = @ \union {<<s, n>>}]
    BY <1>5 DEF JoinInsert, Doing, sessVars
  <2>2. /\ proc'[h].pc = "notify" /\ proc'[h].s = s /\ proc'[h].room = q
        /\ \A u \in Threads : u # h => proc'[u] = proc[u]
    BY <1>0, <1>5, GotoEffect DEF JoinInsert, PCs, JoinPCs
  <2>3. s \in Sessions /\ q \in Rooms /\ n = uid[s] /\ sroom[s] = q /\ s \notin gone
    BY <1>0, <2>1, JoinerFacts DEF JoinPCs, Books, Shapes, JoinShape, SoloView
  <2>4. /\ parts'[q] = parts[q] \union {<<s, n>>}
        /\ \A r \in Rooms : r # q => parts'[r] = parts[r]
    BY <1>0, <2>1, <2>3
  <2>5. OneThread'
    BY <1>0, <2>1, <2>2, OneThreadKept DEF At
  <2>6. SoloView'
    BY <1>0, <2>1, <2>2 DEF SoloView
  <2>7. RefsExact'
    <3> SUFFICES ASSUME NEW r \in Rooms PROVE refs'[r] = Holders(r)'
      BY DEF RefsExact
    <3>1. Pointers(r)' = Pointers(r) /\ Owners(r)' = Owners(r)
      BY <2>1, <2>2 DEF Pointers, Owners, Holds
    <3> QED BY <1>0, <2>1, <3>1, RefsKept DEF RefsExact
  <2> HIDE DEF s, q, n
  <2>8. ParticipantsBacked'
    <3>1. \A u \in Threads, v \in Sessions, r \in Rooms, m \in 1 .. MaxJoins :
            Leaving(u, v, r, m) => Leaving(u, v, r, m)'
      BY <2>1, <2>2, LeavingKept
    <3> SUFFICES ASSUME NEW r \in Rooms, NEW v \in Sessions, NEW m \in 1 .. MaxJoins,
                        <<v, m>> \in parts'[r]
                 PROVE  \/ sroom[v] = r /\ uid[v] = m
                        \/ \E u \in Threads : Leaving(u, v, r, m)'
      BY <2>1 DEF ParticipantsBacked
    <3>2. CASE <<v, m>> \in parts[r]
      BY <1>0, <3>1, <3>2 DEF ParticipantsBacked
    <3>3. CASE r = q /\ <<v, m>> = <<s, n>>
      BY <2>3, <3>3
    <3> QED BY <2>4, <3>2, <3>3
  <2>9. RowsAlive'
    <3> SUFFICES ASSUME NEW r \in Rooms, NEW v \in Sessions, NEW m \in 1 .. MaxJoins,
                        <<v, m>> \in parts'[r]
                 PROVE  v \notin gone
      BY <2>1 DEF RowsAlive
    <3>1. CASE <<v, m>> \in parts[r]
      BY <1>0, <3>1 DEF RowsAlive
    <3>2. CASE <<v, m>> = <<s, n>>
      BY <2>3, <3>2
    <3> QED BY <2>4, <3>1, <3>2
  <2> QED BY <2>5, <2>6, <2>7, <2>8, <2>9 DEF Solo
<1>6. CASE JoinUndo
  <2>1. /\ proc[h].pc = "committed" /\ UNCHANGED <<table, ticking, parts, uid, gone>>
        /\ sroom' = [sroom EXCEPT ![s] = IF @ = q THEN NoRoom ELSE @]
        /\ refs' = [refs EXCEPT ![q] = @ - 1]
    BY <1>6 DEF JoinUndo, Doing
  <2>2. proc'[h] = Idle /\ \A u \in Threads : u # h => proc'[u] = proc[u]
    BY <1>0, <1>6, FinishEffect DEF JoinUndo
  <2>3. s \in Sessions /\ q \in Rooms /\ sroom[s] = q
    BY <1>0, <2>1, JoinerFacts DEF JoinPCs, SoloView
  <2>4. sroom'[s] = NoRoom /\ \A v \in Sessions : v # s => sroom'[v] = sroom[v]
    BY <1>0, <2>1, <2>3
  <2>5. \A r \in Rooms, n \in 1 .. MaxJoins : <<s, n>> \notin parts[r]
    BY <2>1, JoinerRowless
  <2>6. OneThread'
    BY <1>0, <2>2, OneThreadKept DEF At
  <2>7. RefsExact'
    <3>1. \A r \in Rooms : /\ Bit(Holds(h, r)) = 0 /\ Bit(Holds(h, r)') = 0
                           /\ refs'[r] = refs[r] - Bit(r = q)
                           /\ Bit(sroom'[s] = r) = 0 /\ Bit(sroom[s] = r) = Bit(r = q)
      BY <1>0, <1>i, <2>1, <2>2, <2>3, <2>4 DEF Bit, Holds
    <3>2. \A r \in Rooms : Bit(r = q) \in Int
      BY DEF Bit
    <3>3. \A r \in Rooms : refs'[r] = refs[r] + (Bit(Holds(h, r)') - Bit(Holds(h, r)))
                                             + (Bit(sroom'[s] = r) - Bit(sroom[s] = r))
      BY <1>i, <3>1, <3>2
    <3> HIDE DEF s
    <3> QED BY <1>0, <2>1, <2>2, <2>3, <2>4, <3>3, RefsStep
  <2> HIDE DEF s, q
  <2>8. SoloView'
    <3>1. \A u \in Threads : proc'[u].pc \in {"left", "unlisted", "free"} =>
            proc'[u] = proc[u] /\ proc[u].s \in Sessions
      BY <2>2, LeaverFacts DEF LeavePCs
    <3>2. \A v \in Sessions : sroom'[v] \in {NoRoom, sroom[v]}
      BY <2>4
    <3> QED BY <1>0, <2>1, <2>2, <3>1, <3>2 DEF SoloView
  <2>9. ParticipantsBacked'
    <3>1. \A u \in Threads, v \in Sessions, r \in Rooms, m \in 1 .. MaxJoins :
            Leaving(u, v, r, m) => Leaving(u, v, r, m)'
      BY <2>1, <2>2, LeavingKept
    <3> QED BY <1>0, <2>1, <2>4, <2>5, <3>1 DEF ParticipantsBacked
  <2>10. RowsAlive'
    BY <1>0, <2>1 DEF RowsAlive
  <2> QED BY <2>6, <2>7, <2>8, <2>9, <2>10 DEF Solo
<1> QED BY <1>1, <1>2, <1>3, <1>4, <1>5, <1>6

\* Whoever takes the session out, alone with it: the session's reference becomes
\* the thread's, and its row is backed by the leave until it goes.
LEMMA TakeOutSolo ==
  ASSUME Typed, Books, Solo, NEW t \in Threads, NEW s \in Sessions, NEW last \in BOOLEAN,
         TakeOut(t, s, last), UNCHANGED roomVars, UNCHANGED <<uid, gone>>,
         proc[t].pc \in {"idle", "leave", "reaped"},
         \A u \in Threads : u # t /\ At(u) => proc[u].s # s
  PROVE  Solo'
<1> USE ThreadNames
<1>0. /\ proc \in [Threads -> Proc] /\ NoRoom \notin Rooms /\ refs \in [Rooms -> Int] /\ TypeOK
      /\ sroom \in [Sessions -> Rooms \union {NoRoom}]
      /\ OneThread /\ SoloView /\ RefsExact /\ ParticipantsBacked /\ RowsAlive
  BY LifecycleAssumption DEF Typed, TypeOK, Solo
<1>1. /\ proc'[t].pc = IF sroom[s] = NoRoom THEN "free" ELSE "left"
      /\ proc'[t].s = s /\ proc'[t].room = sroom[s] /\ proc'[t].uid = uid[s]
      /\ \A u \in Threads : u # t => proc'[u] = proc[u]
      /\ sroom'[s] = NoRoom /\ \A v \in Sessions : v # s => sroom'[v] = sroom[v]
  BY <1>0, TakeOutEffect
<1>2. UNCHANGED <<table, ticking, refs, parts, uid, gone>>
  BY DEF roomVars
<1>3. proc'[t].pc \in {"free", "left"}
  BY <1>1
<1>4. OneThread'
  BY <1>0, <1>1 DEF OneThread, At
<1>5. SoloView'
  <2>1. proc'["handler"].pc \in {"joining", "admitted", "committed"} =>
          /\ proc'["handler"] = proc["handler"]
          /\ proc["handler"].s \in Sessions /\ proc["handler"].s # s
    BY <1>1, <1>3, JoinerFacts DEF JoinPCs, At
  <2>2. \A u \in Threads : u # t /\ proc'[u].pc \in {"left", "unlisted", "free"} =>
          proc'[u] = proc[u] /\ proc[u].s \in Sessions
    BY <1>1, LeaverFacts DEF LeavePCs
  <2>3. \A v \in Sessions : sroom[v] = NoRoom => sroom'[v] = NoRoom
    BY <1>1
  <2> QED BY <1>0, <1>1, <1>2, <2>1, <2>2, <2>3 DEF SoloView
<1>6. ParticipantsBacked'
  <2>1. \A u \in Threads, v \in Sessions, r \in Rooms, m \in 1 .. MaxJoins :
          Leaving(u, v, r, m) => Leaving(u, v, r, m)'
    BY <1>1, LeavingKept
  <2> SUFFICES ASSUME NEW r \in Rooms, NEW v \in Sessions, NEW m \in 1 .. MaxJoins,
                      <<v, m>> \in parts[r]
               PROVE  \/ sroom'[v] = r /\ uid[v] = m
                      \/ \E u \in Threads : Leaving(u, v, r, m)'
    BY <1>2 DEF ParticipantsBacked
  <2>2. CASE sroom[v] = r /\ uid[v] = m
    <3>1. CASE v = s
      <4>1. Leaving(t, v, r, m)'
        BY <1>0, <1>1, <2>2, <3>1 DEF Leaving
      <4> QED BY <4>1
    <3>2. CASE v # s
      BY <1>1, <2>2, <3>2
    <3> QED BY <3>1, <3>2
  <2> QED BY <1>0, <2>1, <2>2 DEF ParticipantsBacked
<1>7. RowsAlive'
  BY <1>0, <1>2 DEF RowsAlive
<1>8. RefsExact'
  <2>1. \A r \in Rooms : refs[r] \in Int
    BY <1>0
  <2>2. \A r \in Rooms : /\ Bit(Holds(t, r)) = 0 /\ Bit(Holds(t, r)') = Bit(sroom[s] = r)
                         /\ Bit(sroom'[s] = r) = 0
    BY <1>0, <1>1 DEF Bit, Holds
  <2>3. \A r \in Rooms : Bit(sroom[s] = r) \in Int
    BY DEF Bit
  <2>4. \A r \in Rooms : refs'[r] = refs[r] + (Bit(Holds(t, r)') - Bit(Holds(t, r)))
                                           + (Bit(sroom'[s] = r) - Bit(sroom[s] = r))
    BY <1>2, <2>1, <2>2, <2>3
  <2> QED BY <1>0, <1>1, <1>2, <2>4, RefsStep
<1> QED BY <1>4, <1>5, <1>6, <1>7, <1>8 DEF Solo

\* Leaving with the session to itself.
LEMMA LeaveSolo ==
  ASSUME Typed, Books, Solo, ~overlapped',
         \/ LeaveTakeOut
         \/ \E s \in Sessions : HangupMedia(s) \/ DestroySession(s)
         \/ \E r \in Rooms : ReapTakeOut(r)
         \/ \E t \in Threads : LeaveStep(t)
  PROVE  Solo'
<1> USE ThreadNames, IdleFacts
<1>0. /\ proc \in [Threads -> Proc] /\ NoRoom \notin Rooms /\ refs \in [Rooms -> Int]
      /\ parts \in [Rooms -> SUBSET (Sessions \X (1 .. MaxJoins))]
      /\ OneThread /\ SoloView /\ RefsExact /\ ParticipantsBacked /\ RowsAlive
  BY LifecycleAssumption DEF Typed, TypeOK, Solo
<1>1. CASE LeaveTakeOut
  <2>1. proc["handler"].s \in Sessions /\ proc["handler"].pc = "leave"
    BY <1>1, LeaverFacts DEF LeaveTakeOut, Doing, LeavePCs
  <2>2. \A u \in Threads : u # "handler" /\ At(u) => proc[u].s # proc["handler"].s
    <3>1. At("handler")
      BY <2>1 DEF At
    <3> QED BY <1>0, <3>1 DEF OneThread
  <2> DEFINE s == proc["handler"].s
  <2>3. /\ "handler" \in Threads /\ s \in Sessions /\ \A u \in Threads : u # "handler" /\ At(u) => proc[u].s # s
        /\ TakeOut("handler", s, FALSE) /\ UNCHANGED roomVars /\ UNCHANGED <<uid, gone>>
        /\ proc["handler"].pc \in {"idle", "leave", "reaped"}
    BY <1>1, <2>1, <2>2 DEF LeaveTakeOut
  <2> HIDE DEF s
  <2> QED BY <2>3, TakeOutSolo
<1>2. ASSUME NEW s \in Sessions, HangupMedia(s) \/ DestroySession(s) PROVE Solo'
  <2>1. proc[s].pc = "idle" /\ ~Busy(s)
    BY <1>2 DEF HangupMedia, DestroySession, Doing, Touch
  <2>2. \A u \in Threads : u # s /\ At(u) => proc[u].s # s
    BY <2>1 DEF At, Busy
  <2>3. CASE HangupMedia(s)
    BY <2>1, <2>2, <2>3, TakeOutSolo DEF HangupMedia
  <2>4. CASE DestroySession(s)
    BY <2>1, <2>2, <2>4, TakeOutSolo DEF DestroySession
  <2> QED BY <1>2, <2>3, <2>4
<1>3. ASSUME NEW r \in Rooms, ReapTakeOut(r) PROVE Solo'
  <2>1. proc[r].s \in Sessions /\ proc[r].pc = "reaped"
    BY <1>3, LeaverFacts DEF ReapTakeOut, Doing, ReapPCs
  <2>2. \A u \in Threads : u # r /\ At(u) => proc[u].s # proc[r].s
    <3>1. At(r)
      BY <2>1 DEF At
    <3> QED BY <1>0, <3>1 DEF OneThread
  <2> DEFINE s == proc[r].s
  <2>3. /\ r \in Threads /\ s \in Sessions /\ \A u \in Threads : u # r /\ At(u) => proc[u].s # s
        /\ TakeOut(r, s, FALSE) /\ UNCHANGED roomVars /\ UNCHANGED <<uid, gone>>
        /\ proc[r].pc \in {"idle", "leave", "reaped"}
    BY <1>3, <2>1, <2>2 DEF ReapTakeOut
  <2> HIDE DEF s
  <2> QED BY <2>3, TakeOutSolo, ZenonT(60)
<1>4. ASSUME NEW t \in Threads, Unlist(t) PROVE Solo'
  <2> DEFINE s == proc[t].s
             q == proc[t].room
             n == proc[t].uid
  <2>1. /\ proc[t].pc = "left" /\ UNCHANGED <<table, ticking, refs, sroom, uid, gone>>
        /\ parts' = [parts EXCEPT ![q] = @ \ {<<s, n>>}]
    BY <1>4 DEF Unlist, Doing, sessVars
  <2>2. /\ proc'[t].pc = "unlisted" /\ proc'[t].s = s /\ proc'[t].room = q
        /\ \A u \in Threads : u # t => proc'[u] = proc[u]
    BY <1>0, <1>4, GotoEffect DEF Unlist, PCs, LeavePCs
  <2>3. s \in Sessions /\ q \in Rooms
    BY <2>1, LeaverFacts DEF LeavePCs
  <2>4. /\ parts'[q] = parts[q] \ {<<s, n>>} /\ \A r \in Rooms : r # q => parts'[r] = parts[r]
    BY <1>0, <2>1, <2>3
  <2>5. OneThread'
    BY <1>0, <2>1, <2>2, OneThreadKept DEF At
  <2>6. SoloView'
    BY <1>0, <2>1, <2>2 DEF SoloView
  <2>7. RefsExact'
    <3> SUFFICES ASSUME NEW r \in Rooms PROVE refs'[r] = Holders(r)'
      BY DEF RefsExact
    <3>1. Pointers(r)' = Pointers(r) /\ Owners(r)' = Owners(r)
      BY <2>1, <2>2 DEF Pointers, Owners, Holds
    <3> QED BY <1>0, <2>1, <3>1, RefsKept DEF RefsExact
  <2>8. ParticipantsBacked'
    <3> SUFFICES ASSUME NEW r \in Rooms, NEW v \in Sessions, NEW m \in 1 .. MaxJoins,
                        <<v, m>> \in parts'[r]
                 PROVE  \/ sroom[v] = r /\ uid[v] = m
                        \/ \E u \in Threads : Leaving(u, v, r, m)'
      BY <2>1 DEF ParticipantsBacked
    <3>1. <<v, m>> \in parts[r] /\ ~(r = q /\ v = s /\ m = n)
      BY <2>4
    <3>2. ASSUME NEW u \in Threads, Leaving(u, v, r, m) PROVE Leaving(u, v, r, m)'
      <4>1. u # t
        BY <3>1, <3>2 DEF Leaving
      <4> QED BY <2>2, <3>2, <4>1 DEF Leaving
    <3> QED BY <1>0, <3>1, <3>2 DEF ParticipantsBacked
  <2>9. RowsAlive'
    <3>1. \A r \in Rooms : parts'[r] \subseteq parts[r]
      BY <2>4
    <3> QED BY <1>0, <2>1, <3>1 DEF RowsAlive
  <2> QED BY <2>5, <2>6, <2>7, <2>8, <2>9 DEF Solo
<1>5. ASSUME NEW t \in Threads, DropRef(t) PROVE Solo'
  <2> DEFINE s == proc[t].s
             q == proc[t].room
  <2>1. /\ proc[t].pc = "unlisted" /\ UNCHANGED <<table, ticking, parts, sroom, uid, gone>>
        /\ refs' = [refs EXCEPT ![q] = @ - 1]
    BY <1>5 DEF DropRef, Doing, sessVars
  <2>2. /\ proc'[t].pc = "free" /\ proc'[t].s = s /\ proc'[t].room = q
        /\ \A u \in Threads : u # t => proc'[u] = proc[u]
    BY <1>0, <1>5, GotoEffect DEF DropRef, PCs, LeavePCs
  <2>3. s \in Sessions /\ q \in Rooms
    BY <2>1, LeaverFacts DEF LeavePCs
  <2>4. OneThread'
    BY <1>0, <2>1, <2>2, OneThreadKept DEF At
  <2>5. SoloView' /\ RowsAlive'
    BY <1>0, <2>1, <2>2 DEF SoloView, RowsAlive
  <2>6. ParticipantsBacked'
    <3>1. \A u \in Threads, v \in Sessions, r \in Rooms, m \in 1 .. MaxJoins :
            Leaving(u, v, r, m) => Leaving(u, v, r, m)'
      BY <2>1, <2>2, LeavingKept
    <3> QED BY <1>0, <2>1, <3>1 DEF ParticipantsBacked
  <2>7. RefsExact'
    <3>1. \A r \in Rooms : refs[r] \in Int
      BY <1>0
    <3>2. \A r \in Rooms : /\ Bit(Holds(t, r)) = Bit(r = q) /\ Bit(Holds(t, r)') = 0
                           /\ refs'[r] = refs[r] - Bit(r = q)
                           /\ Bit(sroom'[s] = r) - Bit(sroom[s] = r) = 0
      BY <1>0, <2>1, <2>2, <2>3, <3>1 DEF Bit, Holds
    <3>3. \A r \in Rooms : Bit(r = q) \in Int
      BY DEF Bit
    <3>4. \A r \in Rooms : refs'[r] = refs[r] + (Bit(Holds(t, r)') - Bit(Holds(t, r)))
                                             + (Bit(sroom'[s] = r) - Bit(sroom[s] = r))
      BY <3>1, <3>2, <3>3
    <3> HIDE DEF s
    <3> QED BY <1>0, <2>1, <2>2, <2>3, <3>4, RefsStep
  <2> QED BY <2>4, <2>5, <2>6, <2>7 DEF Solo
<1>6. ASSUME NEW t \in Threads, FreeMedia(t) PROVE Solo'
  <2> DEFINE s == proc[t].s
  <2>1. /\ proc[t].pc = "free" /\ UNCHANGED <<table, ticking, refs, parts, sroom, uid>>
        /\ gone' \subseteq gone \union {s}
    BY <1>6 DEF FreeMedia, Doing, roomVars
  <2>2. proc'[t] = Idle /\ \A u \in Threads : u # t => proc'[u] = proc[u]
    BY <1>0, <1>6, FinishEffect DEF FreeMedia
  <2>3. s \in Sessions /\ At(t)
    BY <2>1, LeaverFacts DEF LeavePCs, At
  <2>4. \A r \in Rooms, n \in 1 .. MaxJoins : <<s, n>> \notin parts[r]
    BY <2>1, LeaverRowless
  <2>5. OneThread'
    BY <1>0, <2>2, OneThreadKept DEF At
  <2>6. SoloView'
    <3>1. \A u \in Threads : proc'[u].pc \in Tracked => proc'[u] = proc[u] /\ u # t
      BY <2>2 DEF Tracked
    <3>2. proc'["handler"].pc \in {"joining", "admitted", "committed"} => proc["handler"].s # s
      <4> SUFFICES ASSUME proc'["handler"].pc \in {"joining", "admitted", "committed"}
                   PROVE  proc["handler"].s # s
        OBVIOUS
      <4>1. t # "handler" /\ proc["handler"].pc \in {"joining", "admitted", "committed"}
        BY <3>1 DEF Tracked
      <4>2. At("handler")
        BY <4>1, JoinerFacts DEF JoinPCs, At
      <4> QED BY <1>0, <2>3, <4>1, <4>2 DEF OneThread
    <3> QED BY <1>0, <2>1, <3>1, <3>2 DEF SoloView, Tracked
  <2>7. ParticipantsBacked'
    <3>1. \A u \in Threads, v \in Sessions, r \in Rooms, m \in 1 .. MaxJoins :
            Leaving(u, v, r, m) => Leaving(u, v, r, m)'
      BY <2>1, <2>2, LeavingKept
    <3> QED BY <1>0, <2>1, <3>1 DEF ParticipantsBacked
  <2>8. RowsAlive'
    BY <1>0, <2>1, <2>4 DEF RowsAlive
  <2>9. RefsExact'
    <3> SUFFICES ASSUME NEW r \in Rooms PROVE refs'[r] = Holders(r)'
      BY DEF RefsExact
    <3>1. Pointers(r)' = Pointers(r) /\ Owners(r)' = Owners(r)
      BY <2>1, <2>2 DEF Pointers, Owners, Holds
    <3> QED BY <1>0, <2>1, <3>1, RefsKept DEF RefsExact
  <2> QED BY <2>5, <2>6, <2>7, <2>8, <2>9 DEF Solo
<1> QED BY <1>1, <1>2, <1>3, <1>4, <1>5, <1>6 DEF LeaveStep

\* The history only ever remembers.
LEMMA OverlapStays ==
  ASSUME overlapped, [Next]_vars
  PROVE  overlapped'
  BY DEF Next, Request, CreateRoom, CreateExists, DestroyRequest, JoinStart, LeaveRequest, JoinStep,
         JoinRefuse, JoinAdmit, JoinCommit, JoinInsert, JoinUndo, JoinNotify, LeaveTakeOut, LeaveStep,
         Unlist, DropRef, FreeMedia, Sweep, TeardownStep, StopTicker, Evict, CoreCall, HangupMedia,
         DestroySession, SetupMedia, ReapCollect, ReapStep, ReapCheck, ReapTakeOut, Clock, Touch, vars

\* The inductive step: one lemma per kind of step
LEMMA StepSolo ==
  ASSUME Typed, Books, SoloInv, [Next]_vars
  PROVE  SoloInv'
<1> SUFFICES ASSUME ~overlapped' PROVE Solo'
  BY DEF SoloInv
<1>0. Solo
  BY OverlapStays DEF SoloInv
<1>1. CASE Request
  BY <1>0, <1>1, QuietSolo, TeardownSolo, JoinSolo DEF Request
<1>2. CASE JoinStep
  BY <1>0, <1>2, QuietSolo, JoinSolo DEF JoinStep
<1>3. CASE LeaveTakeOut \/ \E t \in Threads : LeaveStep(t)
  BY <1>0, <1>3, LeaveSolo
<1>4. CASE Sweep \/ \E t \in {"handler", "sender"} : TeardownStep(t)
  BY <1>0, <1>4, QuietSolo, TeardownSolo
<1>5. CASE \E s \in Sessions : CoreCall(s)
  BY <1>0, <1>5, QuietSolo, LeaveSolo DEF CoreCall
<1>6. CASE \/ \E r \in Rooms, s \in Sessions : ReapCollect(r, s)
           \/ \E r \in Rooms : ReapStep(r)
  BY <1>0, <1>6, QuietSolo, LeaveSolo DEF ReapStep
<1>7. CASE Clock \/ UNCHANGED vars
  BY <1>0, <1>7, QuietSolo
<1> QED BY <1>1, <1>2, <1>3, <1>4, <1>5, <1>6, <1>7 DEF Next

\* The session books hold as long as a session has one thread at a time.
LEMMA SoloCorrect == Spec => []SoloInv
<1>1. Init => SoloInv
  <2> SUFFICES ASSUME Init PROVE Solo
    BY DEF SoloInv
  <2> USE ThreadNames, IdleFacts
  <2>1. \A t \in Threads : proc[t] = Idle
    BY DEF Init
  <2>2. OneThread /\ SoloView /\ ParticipantsBacked /\ RowsAlive
    BY <2>1 DEF Init, OneThread, At, SoloView, ParticipantsBacked, RowsAlive
  <2>3. RefsExact
    <3> SUFFICES ASSUME NEW r \in Rooms PROVE refs[r] = Holders(r)
      BY DEF RefsExact
    <3>1. Pointers(r) = {} /\ Owners(r) = {}
      BY <2>1, LifecycleAssumption DEF Init, Pointers, Owners, Holds
    <3>2. Cardinality(Pointers(r)) = 0 /\ Cardinality(Owners(r)) = 0
      BY <3>1, FS_EmptySet
    <3>3. refs[r] = 0 /\ table # r /\ r \notin ticking
      BY LifecycleAssumption DEF Init
    <3> QED BY <3>2, <3>3 DEF Holders, Pointers, Owners
  <2> QED BY <2>2, <2>3 DEF Solo
<1>2. Typed /\ Books /\ SoloInv /\ [Next]_vars => SoloInv'
  BY StepSolo
<1> QED BY <1>1, <1>2, TypedCorrect, BooksCorrect, PTL DEF Spec

\* As long as no two threads work on one session at once: room->ref counts the
\* table, the tick thread, the pointers and the references in passing exactly,
\* every row of room->participants is a member's or about to go, and none is of
\* a session destroy_session has retired.
THEOREM SoloBooksCorrect == Spec => []SoloBooks
<1>1. SoloInv => SoloBooks
  BY DEF SoloInv, Solo, SoloBooks
<1> QED BY <1>1, SoloCorrect, PTL

\* media_free comes after the removal from the participants on every path: the
\* undone join's session has no row yet, the leave's has none any more.
THEOREM MediaFreedCorrect == Spec => MediaFreedUnlisted
<1> USE ThreadNames
<1>1. Typed /\ Books /\ SoloInv /\ [Next]_vars =>
        [~overlapped' => \A s \in media \ media', r \in Rooms, n \in 1 .. MaxJoins :
           <<s, n>> \notin parts[r]]_vars
  <2> SUFFICES ASSUME Typed, Books, SoloInv, Next, ~overlapped',
                      NEW s \in media \ media', NEW r \in Rooms, NEW n \in 1 .. MaxJoins
               PROVE  <<s, n>> \notin parts[r]
    OBVIOUS
  <2>0. Solo
    BY OverlapStays DEF SoloInv
  <2>1. CASE JoinUndo
    <3>1. s = proc["handler"].s /\ proc["handler"].pc = "committed"
      BY <2>1 DEF JoinUndo, Doing
    <3> QED BY <2>0, <3>1, JoinerRowless
  <2>2. ASSUME NEW t \in Threads, FreeMedia(t) PROVE <<s, n>> \notin parts[r]
    <3>1. s = proc[t].s /\ proc[t].pc = "free"
      BY <2>2 DEF FreeMedia, Doing
    <3> QED BY <2>0, <3>1, LeaverRowless
  <2>3. JoinUndo \/ (\E t \in Threads : FreeMedia(t)) \/ media \subseteq media'
    BY DEF Next, Request, CreateRoom, CreateExists, DestroyRequest, JoinStart, LeaveRequest, JoinStep,
           JoinRefuse, JoinAdmit, JoinCommit, JoinInsert, JoinNotify, LeaveTakeOut, LeaveStep,
           Unlist, DropRef, Sweep, TeardownStep, StopTicker, Evict, CoreCall, HangupMedia, TakeOut,
           DestroySession, SetupMedia, ReapCollect, ReapStep, ReapCheck, ReapTakeOut, Clock, sessVars
  <2> QED BY <2>1, <2>2, <2>3
<1> QED BY <1>1, TypedCorrect, BooksCorrect, SoloCorrect, PTL DEF Spec, MediaFreedUnlisted
=============================================================================
