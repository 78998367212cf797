------------------------------ MODULE ColumnFeed ------------------------------
(***************************************************************************)
(* The visibility columns of one room as the feed without an authority     *)
(* sets them: peer_ctl_batch, the deferred store for listeners that have   *)
(* not joined yet, its replay at the join, and the reset at the leave      *)
(* (src/src/janus_slvoice.c).  A batch is applied under one hold of        *)
(* room->mutex and is therefore one step; a leave is three, because the    *)
(* code drops its locks between them:                                      *)
(*                                                                         *)
(*   LeaveStart   session->room := NULL            (session->mutex)        *)
(*   LeaveRemove  out of room->participants         (room->mutex)          *)
(*   LeaveReset   reset_room_state                  (session->mutex)       *)
(*                                                                         *)
(* A batch is a record [op, excl, mute, ...].  Each channel is a function  *)
(* from the listeners it names to their sets of sources, the JSON object   *)
(* of the wire.                                                            *)
(***************************************************************************)
EXTENDS Integers, Sequences, FiniteSets, SequencesExt, DeferredStore

CONSTANTS
  Displays,       \* agent UUIDs: what a column and a session's display name
  Sessions,       \* plugin sessions (Janus handles)
  DisplayOf,      \* the display each session joins with
  Batches,        \* the batches a simulator may send: each can arrive at any
                  \* time, any number of times, in any order, or never
  OverlapRejoin   \* may a session join while its previous leave is between
                  \* its first and its last step (another thread runs it)?

ASSUME FeedAssumption ==
  /\ DisplayOf \in [Sessions -> Displays]
  /\ OverlapRejoin \in BOOLEAN

VARIABLES
  member,     \* sessions whose room pointer names this room
  leaving,    \* how far a leave in progress has come, per session
  cols,       \* L->excluded and L->mod_muted, per session
  deferred    \* room->vis_deferred

feedVars == <<member, leaving, cols, deferred>>

Cols == [excl : SUBSET Displays, mute : SUBSET Displays]

LeavePhases == {"no", "pending", "removed"}

FeedTypeOK ==
  /\ member \subseteq Sessions
  /\ leaving \in [Sessions -> LeavePhases]
  /\ cols \in [Sessions -> Cols]
  /\ deferred \in Seq([listener : Displays, excl : SUBSET Displays, mute : SUBSET Displays])

\* room->participants: a leaving session is in it until LeaveRemove
Participants == member \union {s \in Sessions : leaving[s] = "pending"}

Present(L) == \E s \in Participants : DisplayOf[s] = L

Named(b) == DOMAIN b.excl \union DOMAIN b.mute

\* An entry names an avatar: it applies to every session with that display
\* unless the authority check refused it.
EntryApplies(b, ch, skip, s) ==
  s \in Participants /\ DisplayOf[s] \in DOMAIN b[ch] \ skip

ChannelAfter(b, ch, skip, s) ==
  IF EntryApplies(b, ch, skip, s)
  THEN ApplyOp(b.op, cols[s][ch], b[ch][DisplayOf[s]])
  ELSE cols[s][ch]

\* Entries whose listener is absent, in the order the batch carries them
DeferOrders(b, ch, skip) ==
  SetToSeqs({L \in DOMAIN b[ch] \ skip : ~Present(L)})

DeferChannel(st, b, ch, order) ==
  LET after[i \in 0 .. Len(order)] ==
        IF i = 0 THEN st
        ELSE Put(after[i - 1], order[i], b.op, b[ch][order[i]], ch)
  IN  after[Len(order)]

\* apply_visbatch_locked, then apply_mutebatch_locked
ApplyBatch(b, skip) ==
  /\ cols' = [s \in Sessions |->
                [excl |-> ChannelAfter(b, "excl", skip, s),
                 mute |-> ChannelAfter(b, "mute", skip, s)]]
  /\ \E eo \in DeferOrders(b, "excl", skip), mo \in DeferOrders(b, "mute", skip) :
       deferred' = DeferChannel(DeferChannel(deferred, b, "excl", eo), b, "mute", mo)
  /\ UNCHANGED <<member, leaving>>

\* The join commit: into room->participants, with the columns the session
\* starts with, under one hold of room->mutex.  (session->room is set just
\* before it; RoomLifecycle has that step apart.)
JoinWith(s, startCols) ==
  /\ s \notin member
  /\ leaving[s] = "no" \/ OverlapRejoin
  /\ member' = member \union {s}
  /\ cols' = [cols EXCEPT ![s] = startCols]
  /\ deferred' = ReplayDone(deferred, DisplayOf[s])
  /\ UNCHANGED leaving

\* What replay_deferred leaves in the session: the deferred sources are added
\* to whatever the session holds.
ReplayedCols(s) ==
  LET d == Get(deferred, DisplayOf[s])
  IN  [excl |-> cols[s].excl \union d.excl,
       mute |-> cols[s].mute \union d.mute]

JoinReplay(s) == JoinWith(s, ReplayedCols(s))

\* One leave of a session in flight at a time bounds the model.
LeaveStart(s) ==
  /\ s \in member
  /\ leaving[s] = "no"
  /\ member' = member \ {s}
  /\ leaving' = [leaving EXCEPT ![s] = "pending"]
  /\ UNCHANGED <<cols, deferred>>

LeaveRemove(s) ==
  /\ leaving[s] = "pending"
  /\ leaving' = [leaving EXCEPT ![s] = "removed"]
  /\ UNCHANGED <<member, cols, deferred>>

\* (mutant) the leave forgets the moderation-mute column
LeaveReset_keepsMute(s) ==
  /\ leaving[s] = "removed"
  /\ leaving' = [leaving EXCEPT ![s] = "no"]
  /\ cols' = [cols EXCEPT ![s] = [excl |-> {}, mute |-> cols[s].mute]]
  /\ UNCHANGED <<member, deferred>>

LeaveReset(s) ==
  /\ leaving[s] = "removed"
  /\ leaving' = [leaving EXCEPT ![s] = "no"]
  /\ cols' = [cols EXCEPT ![s] = NoCols]
  /\ UNCHANGED <<member, deferred>>

FeedInit ==
  /\ member = {}
  /\ leaving = [s \in Sessions |-> "no"]
  /\ cols = [s \in Sessions |-> NoCols]
  /\ deferred = <<>>

LeaveStep(s) == LeaveStart(s) \/ LeaveRemove(s) \/ LeaveReset(s)

FeedNext ==
  \/ \E b \in Batches : ApplyBatch(b, {})
  \/ \E s \in Sessions : JoinReplay(s) \/ LeaveStep(s)

FeedSpec == FeedInit /\ [][FeedNext]_feedVars
=============================================================================
