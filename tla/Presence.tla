------------------------------- MODULE Presence -------------------------------
(***************************************************************************)
(* The rosters the viewers see.  The mixer tells every viewer over its     *)
(* data channel who joins ("j"), who leaves ("l") and who is muted by a    *)
(* moderator ("m"): at a join and a leave, when a batch or an avatar's     *)
(* standing changes what a listener may see, and as a backlog when its     *)
(* data channel becomes writable and again when its own "j" proves that    *)
(* the viewer listens (src/src/janus_slvoice.c).  ColumnFeed is extended   *)
(* with the data channels, the standing of the displays under the          *)
(* visibility authority, and the rows each viewer ends up with.            *)
(*                                                                         *)
(* Each section under room->mutex is one step; relay_data is called inside *)
(* it and the channel keeps the order, so a frame takes effect in the step *)
(* that sends it.  A viewer drops what arrives before its observer is      *)
(* attached (external: modelled from the comments at incoming_data).       *)
(*                                                                         *)
(* The code leaves some of what a viewer knows to chance: what is said     *)
(* about a display whose "l" is out and which is still in the room, what   *)
(* changes between a loss of standing and the sender's pass that reports   *)
(* it, and the roster of a session that joins with its channel already     *)
(* proven.  All of it happens here.  The history variables untold and      *)
(* unmarked record for which displays it did, until a frame sets them      *)
(* right; they observe and do not influence.                               *)
(***************************************************************************)
EXTENDS ColumnFeed

CONSTANTS
  Enforced,       \* fail-closed is on and the room is declared
  AuthorityCols,  \* columns an armed display may be given at its join
  Viewers         \* the sessions whose PeerConnection may come up (bound)

ASSUME PresenceAssumption ==
  /\ Enforced \in BOOLEAN
  /\ AuthorityCols \subseteq Cols
  /\ Viewers \subseteq Sessions

VARIABLES
  announce,   \* sessions whose join the handler still has to announce
  said,       \* leaving sessions whose "l" has been pushed
  up,         \* sessions whose PeerConnection is up
  fence,      \* data_ready between its two locks: "no", "room" or "noroom"
  dcOpen,     \* session->dc_open
  confirmed,  \* session->backlog_confirmed
  attached,   \* viewers whose observer is attached (external)
  ownJoin,    \* viewers whose own "j" is on its way to the mixer
  ok,         \* displays that stand in row 4 (VisAuthority)
  okLast,     \* participants with vis_ok_last (the join sets it, nobody else's is read)
  rows,       \* the displays each viewer shows
  grey,       \* ... and those it shows as muted by a moderator
  untold,     \* history: displays whose row each viewer may have wrong
  unmarked    \* history: displays whose moderator mark it may have wrong

channelVars == <<up, fence, dcOpen, confirmed, attached, ownJoin>>
viewVars == <<rows, grey, untold, unmarked>>
presenceVars == <<feedVars, announce, said, channelVars, ok, okLast, viewVars>>

Visible(L, S) == Enforced => {L, S} \subseteq ok

\* ... as the sender last reported it to the viewer of session s
VisibleLast(s, p) == Enforced => {s, p} \subseteq okLast

Settled == \A p \in Participants : (p \in okLast) <=> (DisplayOf[p] \in ok)

\* The displays whose visibility to s has changed since the sender's last pass
Lagging(s) ==
  {DisplayOf[p] : p \in {q \in Participants :
     Visible(DisplayOf[s], DisplayOf[q]) # VisibleLast(s, q)}}

\* The displays in the room that have not been announced as gone
Staying == {DisplayOf[p] : p \in Participants \ said}

----------------------------------------------------------------------------
\* Frames

\* relay_json: what reaches viewer s while its channel is writable, as a set
\* of displays joined, joined and muted, left, muted and unmuted, in this
\* order; kept are the displays whose change of mute the pair rule keeps back
Frames == [j : SUBSET Displays, jm : SUBSET Displays, l : SUBSET Displays,
           m : SUBSET Displays, um : SUBSET Displays, kept : SUBSET Displays]

NoFrames == [j |-> {}, jm |-> {}, l |-> {}, m |-> {}, um |-> {}, kept |-> {}]

\* The viewer (external): a second "j" changes nothing, "m" needs a row
RowsAfter(s, f) == (rows[s] \union f.j) \ f.l

GreyAfter(s, f) ==
  LET shown == RowsAfter(s, f)
  IN  (((grey[s] \union f.jm \union f.m) \intersect shown)) \ f.um

\* A "j" or "l" settles whether there is a row, except a "j" for a display that
\* is announced as gone; lag are displays the step touched while they lagged.
UntoldAfter(s, f, lag) ==
  (untold[s] \ (f.j \union f.l)) \union (f.j \ Staying) \union lag

\* A frame with a mark settles the mark, and so does a "j" for a new row,
\* except when the display is muted already.
UnmarkedAfter(s, f, muted) ==
  LET new == f.j \ rows[s]
  IN  (unmarked[s] \ (new \union f.jm \union f.m \union f.um)) \union f.kept
        \union ((new \intersect muted) \ (f.jm \union f.m))

\* Frames to every session whose channel is in open and whose viewer listens
Relay(open, frames, lag) ==
  LET heard == open \intersect attached
  IN  /\ rows' = [s \in Sessions |->
                    IF s \in heard THEN RowsAfter(s, frames[s]) ELSE rows[s]]
      /\ grey' = [s \in Sessions |->
                    IF s \in heard THEN GreyAfter(s, frames[s]) ELSE grey[s]]
      /\ untold' = [s \in Sessions |->
                    IF s \in heard THEN UntoldAfter(s, frames[s], lag[s]) ELSE untold[s]]
      /\ unmarked' = [s \in Sessions |->
                    IF s \in heard THEN UnmarkedAfter(s, frames[s], cols'[s].mute)
                    ELSE unmarked[s]]

\* push_presence: everyone in the room but the subject's own display
Told(p, who) ==
  /\ p \in Participants
  /\ DisplayOf[p] # who
  /\ who \notin cols[p].excl
  /\ Visible(DisplayOf[p], who)

Push(who, kind) ==
  Relay(dcOpen,
        [p \in Sessions |->
           IF Told(p, who) THEN [NoFrames EXCEPT ![kind] = {who}] ELSE NoFrames],
        [p \in Sessions |-> Lagging(p) \intersect {who}])

\* send_join_backlog_locked, to one listener
Backlog(s) ==
  LET shown == {d \in {DisplayOf[p] : p \in Participants \ {s}} :
                  d \notin cols[s].excl /\ Visible(DisplayOf[s], d)}
  IN  [NoFrames EXCEPT !.j = shown, !.jm = shown \intersect cols[s].mute]

SendBacklog(s, open) ==
  Relay(open,
        [p \in Sessions |-> IF p = s THEN Backlog(s) ELSE NoFrames],
        [p \in Sessions |-> IF p = s THEN Lagging(s) \ cols[s].excl ELSE {}])

BatchFrames_noUnmute(b, s) ==  \* (mutant) lifting a mute tells nobody
  LET present == {DisplayOf[p] : p \in Participants}
      seen == {d \in Displays : Visible(DisplayOf[s], d)}
      excl == ChannelAfter(b, "excl", {}, s)
      mute == ChannelAfter(b, "mute", {}, s)
  IN  [NoFrames EXCEPT !.j = (cols[s].excl \ excl) \intersect present \intersect seen,
                       !.l = (excl \ cols[s].excl) \intersect present \intersect seen,
                       !.m = (mute \ cols[s].mute) \intersect seen,
                       !.kept = ((mute \ cols[s].mute) \union (cols[s].mute \ mute)) \ seen]

\* The transitions of a batch for listener s: sources that are present and
\* whose exclusion changed, sources whose moderation mute changed
BatchFrames(b, s) ==
  LET present == {DisplayOf[p] : p \in Participants}
      seen == {d \in Displays : Visible(DisplayOf[s], d)}
      excl == ChannelAfter(b, "excl", {}, s)
      mute == ChannelAfter(b, "mute", {}, s)
  IN  [NoFrames EXCEPT !.j = (cols[s].excl \ excl) \intersect present \intersect seen,
                       !.l = (excl \ cols[s].excl) \intersect present \intersect seen,
                       !.m = (mute \ cols[s].mute) \intersect seen,
                       !.um = (cols[s].mute \ mute) \intersect seen,
                       !.kept = ((mute \ cols[s].mute) \union (cols[s].mute \ mute)) \ seen]

\* The displays whose exclusion a batch changes for listener s
BatchTouches(b, s) ==
  LET excl == ChannelAfter(b, "excl", {}, s)
  IN  (excl \ cols[s].excl) \union (cols[s].excl \ excl)

\* vis_transitions_locked: pairs whose visibility changed since the last pass
StandingFrames(s) ==
  LET others == {p \in Participants : DisplayOf[p] \notin {DisplayOf[s]} \union cols[s].excl}
      before == {p \in others : {s, p} \subseteq okLast}
      after  == {p \in others : {DisplayOf[s], DisplayOf[p]} \subseteq ok}
  IN  [NoFrames EXCEPT !.j = {DisplayOf[p] : p \in after \ before},
                       !.l = {DisplayOf[p] : p \in before \ after}]

----------------------------------------------------------------------------
\* Joining and leaving

\* The viewer of s listens and its own "j" is in
Proven(s) == s \in attached \ ownJoin

\* The join arm up to its commit.  One handler thread: the previous join has
\* been announced.  Nothing is sent to the joiner itself: a viewer that has
\* proven its attachment on a writable channel is not told of the room.
Join(s) ==
  /\ announce = {}
  /\ \E c \in {ReplayedCols(s)} \union (IF Enforced THEN AuthorityCols ELSE {}) :
       JoinWith(s, c)
  /\ announce' = {s}
  /\ okLast' = IF DisplayOf[s] \in ok THEN okLast \union {s} ELSE okLast \ {s}
  /\ untold' = [untold EXCEPT ![s] = IF Proven(s) /\ s \in dcOpen THEN Displays ELSE rows[s]]
  /\ unmarked' = [unmarked EXCEPT ![s] = rows[s]]
  /\ UNCHANGED <<said, channelVars, ok, rows, grey>>

\* The deferred presence push after the reply
Announce(s) ==
  /\ s \in announce
  /\ UNCHANGED <<feedVars, said, channelVars, ok, okLast>>
  /\ Push(DisplayOf[s], "j")
  /\ announce' = announce \ {s}

\* A leave request or destroy_session: leave_room's first section.  The
\* viewer closes the conversation, its rows go with it (external).
Leave(s) ==
  /\ LeaveStart(s)
  /\ rows' = [rows EXCEPT ![s] = {}] /\ grey' = [grey EXCEPT ![s] = {}]
  /\ UNCHANGED <<announce, said, channelVars, ok, okLast, untold, unmarked>>

\* hangup_media and the reap: media_gone, up to leave_room's first section
Hangup(s) ==
  /\ s \in up
  /\ IF s \in member THEN LeaveStart(s) ELSE UNCHANGED feedVars
  /\ up' = up \ {s} /\ dcOpen' = dcOpen \ {s} /\ confirmed' = confirmed \ {s}
  /\ attached' = attached \ {s} /\ ownJoin' = ownJoin \ {s}
  /\ rows' = [rows EXCEPT ![s] = {}] /\ grey' = [grey EXCEPT ![s] = {}]
  /\ UNCHANGED <<announce, said, fence, ok, okLast, untold, unmarked>>

\* leave_room: the "l" ...
SayLeft(s) ==
  /\ leaving[s] = "pending" /\ s \notin said
  /\ UNCHANGED <<feedVars, announce, up, fence, dcOpen, attached, ownJoin, ok, okLast>>
  /\ Push(DisplayOf[s], "l")
  /\ said' = said \union {s}
  /\ confirmed' = confirmed \ {s}

\* ... the removal ...
RemoveLeft(s) ==
  /\ s \in said
  /\ LeaveRemove(s)
  /\ said' = said \ {s}
  /\ okLast' = okLast \ {s}
  /\ UNCHANGED <<announce, channelVars, ok, viewVars>>

\* ... and reset_room_state
ResetLeft(s) ==
  /\ LeaveReset(s)
  /\ confirmed' = confirmed \ {s}
  /\ UNCHANGED <<announce, said, up, fence, dcOpen, attached, ownJoin, ok, okLast, viewVars>>

----------------------------------------------------------------------------
\* The data channel

\* The PeerConnection comes up (external)
Connect(s) ==
  /\ s \in Viewers \ up
  /\ up' = up \union {s}
  /\ UNCHANGED <<feedVars, announce, said, fence, dcOpen, confirmed, attached, ownJoin, ok, okLast, viewVars>>

\* data_ready: the room is looked up under session->mutex ...
DataReady(s) ==
  /\ s \in up \ dcOpen /\ fence[s] = "no"
  /\ fence' = [fence EXCEPT ![s] = IF s \in member THEN "room" ELSE "noroom"]
  /\ UNCHANGED <<feedVars, announce, said, up, dcOpen, confirmed, attached, ownJoin, ok, okLast, viewVars>>

Fence_noBacklog(s) ==  \* (mutant) the first readiness sends no backlog
  /\ fence[s] # "no"
  /\ fence' = [fence EXCEPT ![s] = "no"]
  /\ dcOpen' = dcOpen \union {s}
  /\ UNCHANGED <<feedVars, announce, said, up, confirmed, attached, ownJoin, ok, okLast, viewVars>>

\* ... and under room->mutex the flag is raised and the backlog sent, once
Fence(s) ==
  /\ fence[s] # "no"
  /\ fence' = [fence EXCEPT ![s] = "no"]
  /\ dcOpen' = dcOpen \union {s}
  /\ UNCHANGED <<feedVars, announce, said, up, confirmed, attached, ownJoin, ok, okLast>>
  /\ IF fence[s] = "room" /\ s \notin dcOpen
     THEN SendBacklog(s, dcOpen')
     ELSE /\ untold' = [untold EXCEPT ![s] = IF Proven(s) THEN Displays ELSE @]
          /\ UNCHANGED <<rows, grey, unmarked>>

\* The viewer attaches its observer and then sends its own "j" (external)
Attach(s) ==
  /\ s \in up \ attached
  /\ attached' = attached \union {s}
  /\ ownJoin' = ownJoin \union {s}
  /\ UNCHANGED <<feedVars, announce, said, up, fence, dcOpen, confirmed, ok, okLast, viewVars>>

\* incoming_data with a "j": proof of attachment, the backlog is sent again
IncomingJoin(s) ==
  /\ s \in ownJoin
  /\ ownJoin' = ownJoin \ {s}
  /\ confirmed' = confirmed \union {s}
  /\ UNCHANGED <<feedVars, announce, said, up, fence, dcOpen, attached, ok, okLast>>
  /\ IF s \notin confirmed /\ s \in member
     THEN SendBacklog(s, dcOpen) ELSE UNCHANGED viewVars

----------------------------------------------------------------------------
\* Changes of what may be seen

BatchArrives(b) ==
  /\ ApplyBatch(b, {})
  /\ Relay(dcOpen, [s \in Sessions |-> BatchFrames(b, s)],
           [s \in Sessions |-> Lagging(s) \intersect BatchTouches(b, s)])
  /\ UNCHANGED <<announce, said, channelVars, ok, okLast>>

\* A display is armed, disarmed, or its record goes stale (VisAuthority)
StandingChanges(d) ==
  /\ Enforced
  /\ ok' = IF d \in ok THEN ok \ {d} ELSE ok \union {d}
  /\ UNCHANGED <<feedVars, announce, said, channelVars, okLast, viewVars>>

\* The sender's pass over the room, where it has something to tell
SenderPass ==
  /\ Enforced /\ ~Settled
  /\ UNCHANGED <<feedVars, announce, said, channelVars, ok>>
  /\ Relay(dcOpen,
           [s \in Sessions |-> IF s \in Participants THEN StandingFrames(s) ELSE NoFrames],
           [s \in Sessions |-> {}])
  /\ okLast' = (okLast \ Participants) \union {p \in Participants : DisplayOf[p] \in ok}

----------------------------------------------------------------------------

PresenceInit ==
  /\ FeedInit
  /\ announce = {} /\ said = {}
  /\ up = {} /\ fence = [s \in Sessions |-> "no"]
  /\ dcOpen = {} /\ confirmed = {} /\ attached = {} /\ ownJoin = {}
  /\ ok \in IF Enforced THEN {{}, Displays} ELSE {{}}
  /\ okLast = {}
  /\ rows = [s \in Sessions |-> {}] /\ grey = [s \in Sessions |-> {}]
  /\ untold = [s \in Sessions |-> {}] /\ unmarked = [s \in Sessions |-> {}]

SessionStep(s) ==
  \/ Join(s) \/ Announce(s) \/ Leave(s) \/ Hangup(s)
  \/ SayLeft(s) \/ RemoveLeft(s) \/ ResetLeft(s)
  \/ Connect(s) \/ DataReady(s) \/ Fence(s) \/ Attach(s) \/ IncomingJoin(s)

PresenceNext ==
  \/ \E s \in Sessions : SessionStep(s)
  \/ \E b \in Batches : BatchArrives(b)
  \/ \E d \in Displays : StandingChanges(d)
  \/ SenderPass

PresenceSpec == PresenceInit /\ [][PresenceNext]_presenceVars

----------------------------------------------------------------------------

\* A viewer in the room that listens, on a writable channel
Watching(s) == s \in member \intersect dcOpen /\ Proven(s)

\* The displays the viewer of s should show now
Roster(s) ==
  {d \in {DisplayOf[p] : p \in Participants} \ {DisplayOf[s]} :
     d \notin cols[s].excl /\ Visible(DisplayOf[s], d)}

\* A session of d is about to be announced, or on its way out
Moving(d) ==
  \E p \in Sessions :
    DisplayOf[p] = d /\ (p \in announce \/ leaving[p] = "pending")

PresenceTypeOK ==
  /\ announce \subseteq Sessions /\ said \subseteq Sessions
  /\ fence \in [Sessions -> {"no", "room", "noroom"}]
  /\ up \subseteq Sessions /\ dcOpen \subseteq Sessions
  /\ attached \subseteq up /\ ownJoin \subseteq attached /\ confirmed \subseteq attached \ ownJoin
  /\ ok \subseteq Displays /\ okLast \subseteq Sessions
  /\ rows \in [Sessions -> SUBSET Displays]
  /\ grey \in [Sessions -> SUBSET Displays]

\* Whoever is in the room and may be seen has a row with every viewer that
\* listens, unless its announcement is pending, it is on its way out, or the
\* viewer is untold of it.
NoMissingRow ==
  \A s \in Sessions : Watching(s) /\ Settled =>
    \A d \in Roster(s) \ untold[s] : d \in rows[s] \/ Moving(d)

\* A viewer shows nobody but itself who has left, whom its exclusion set hides,
\* or whom the authority hides, unless it is untold of it.
NoGhostRow ==
  \A s \in Sessions : Watching(s) /\ Settled =>
    \A d \in rows[s] \ ({DisplayOf[s]} \union untold[s]) : d \in Roster(s)

\* Once the sender has reported the standing of everybody, a viewer that listens
\* shows whom push_presence, the two backlogs, the batches and the sender's
\* passes should have told it of, whatever order joins, leaves, hangups, data
\* channels and changes of standing came in.  It can be wrong only about a
\* display in untold: one that a backlog or a batch named after its "l"
\* (leave_room says it before it removes the leaver), one that a frame
\* was or was not sent for between a change of its standing and the pass that
\* reports it, or any display for a session whose viewer had proven its
\* attachment before the session joined.  A later "j" or "l" settles it.
RosterExact == PresenceTypeOK /\ NoMissingRow /\ NoGhostRow

\* A viewer shows a row as muted by a moderator exactly if its session's
\* mod_muted names the display, whatever order backlogs, batches that mute or
\* unmute, and rows that come and go were in.  It can be wrong only about a
\* display in unmarked: one whose row came with a "j" that carries no mark
\* although the display is muted (push_presence, a batch that shows it again,
\* the sender's pass), or whose mute changed while the pair rule kept the
\* change from the viewer.  A later mark settles it.
GreyExact ==
  \A s \in member : \A d \in rows[s] \ unmarked[s] : d \in grey[s] <=> d \in cols[s].mute

\* "At least one of {push, backlog} delivers in every ordering" (data_ready) and
\* "the join-time roster and the data_ready backlog cover that ordering"
\* (incoming_data, of a "j" before the join): a viewer that listens is told of
\* everybody in the room.  A session that joins after its viewer proved its
\* attachment is told of nobody who was there before it.
FenceDelivers ==
  \A s \in Sessions : Watching(s) /\ Settled =>
    \A d \in Roster(s) : d \in rows[s] \/ Moving(d)
=============================================================================
