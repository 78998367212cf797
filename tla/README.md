# A verification project for legion-voice-mixer

`janus.plugin.slvoice` is a voice mixer for virtual-world regions, written as a
plugin of the Janus WebRTC gateway (`src/src/janus_slvoice.c` and a few small
libraries beside it). Viewers join a room, a 20 ms tick mixes for each of them
what the others say, and the region simulator tells the mixer who may hear and
see whom. This directory holds TLA+ models of its parts, TLC configurations
that check them on small instances, and TLAPS proofs for any size.

## The system

### Threads and locks

| thread | what it does |
| --- | --- |
| handler (one) | create, destroy, join, configure, leave, list requests, one message at a time |
| sender (one) | every 100 ms, with `rooms_mutex` held: the empty-room sweep (once a second), the dot batches, the visibility transitions |
| ticker (one per room) | every 20 ms, with `room->mutex` held: decode, mix, relay; afterwards the reap of joins that got no media |
| Janus core | create_session, setup_media, data_ready, incoming_rtp, incoming_data, hangup_media, destroy_session |
| admin API | peer_ctl_batch, peer_ctl_heartbeat, peer_pos from the simulator |

The lock order is `rooms_mutex`, `room->mutex`, `session->mutex`. Almost every
operation that spans a room and a session lets go of one lock before it takes
the next; those gaps are where the code is hard to test.

### Components

| component | state | operations | what makes it correct |
| --- | --- | --- | --- |
| visibility authority | per room: authority epoch and its last sign of life, policy generation, one record per listener display | peer_ctl_batch, peer_ctl_heartbeat, join | nothing is heard on the word of a replaced, silent or starved simulator; lost or reordered messages never mix two policies |
| columns | per session: excluded and mod_muted sources | batches, join, leave | they equal the record of the session's avatar; nothing is carried to the next room |
| deferred store | per room: columns for listeners that have not joined | put, replay, eviction | nothing is lost below the cap; the oldest go first |
| room lifecycle | `rooms`, reference count, destroyed flag, grace clock, tick thread | create, destroy, sweep, join's undo | the count is exact; an empty room goes; an occupied one does not; no deadlock |
| membership | `session->room`, `room->participants`, media, media clock | join, leave, hangup, destroy_session, reap | participants are live sessions; media is freed only out of the tick's reach |
| presence and roster | dc_open, backlog_confirmed, vis_ok_last; each viewer's rows | push_presence, backlog, transitions | every viewer ends with the rows of those present and visible to it |
| join capability | nonce store, knobs, last verdict | joincap_verify, the handler's replies | a token is accepted once, inside its window; a reply carries its own reason; switched off, it changes nothing |
| sim positions | store of points, epoch and sequence | peer_pos, the tick's comparison | the store is what the accepted requests say; an honest viewer is never out of place |
| jitter buffer | ring of packets, 16-bit cursors | insert, pull | each sequence number is played once, in order, across the wrap |
| cull hysteresis, own controls, dots | latches and own mutes per listener | tick, data channel, dot batch | no flapping; nobody past the cutoff is mixed; the dots follow the audio |
| plugin start and stop | initialized, stopping, tables, threads | init, destroy | shutdown ends every thread; a failed start leaves nothing behind |
| connectors | peer's session, recorder segments | join, rejoin, rotate | a lost peer rejoins; no segment is lost |
| container entrypoint | configuration files, probes | start-up scripts | (deployment) |

Behaviour that is hard to test is listed line by line under `hazards` in
`PROJECT.json`, with the properties that watch it.

## The modules

| module | models | checked by |
| --- | --- | --- |
| `DeferredStore` | `deferred.c`: the store as a sequence, oldest first | through `ColumnFeed` |
| `ColumnFeed` | batches, joins and leaves without an authority; also the abstract specification that shadow mode implements | through `VisAuthority`, `Presence` |
| `JoinWindow` | history variables for what the simulator asked of `ColumnFeed` | `ShadowFeed.cfg` |
| `VisRules` | `visauth.h`: the adoption rule, the listener rows, feed liveness | through `VisAuthority` |
| `VisAuthority`, `MCVisAuthority` | the authority of a room on top of `ColumnFeed` | `Authority.cfg` |
| `MCShadowFeed` | `VisAuthority` with enforcement off, `JoinWindow`'s history beside it | `ShadowFeed.cfg` |
| `VisAuthorityProofs` | theorems about `VisAuthority` | tlapm |
| `RoomLifecycle`, `MCRoomLifecycle` | rooms, sessions, threads and reference counts, one step per lock hold | `RoomBooks.cfg`, `LateInsert.cfg` |
| `RoomLifecycleProofs` | theorems about `RoomLifecycle` | tlapm |
| `Presence`, `MCPresence` | data channels, presence frames and each viewer's rows, on top of `ColumnFeed` | `RosterRows.cfg`, `ChannelFirst.cfg` |
| `PresenceProofs` | theorems about `Presence` | tlapm |
| `JoinCap`, `MCJoinCap` | `joincap.c` and the join arm of the handler around it | `JoinCap.cfg`, `CapStaleReason.cfg`, `SingleUse.cfg` |
| `JoinCapProofs` | theorems about `JoinCap`, the refinement of `PlainJoin` among them | tlapm |
| `PlainJoin` | abstract specification of a join without capabilities | through `JoinCap.cfg` |
| `JitterBuffer` | the ring of one participant and the tick's pulls | through `MCTick` |
| `JitterBufferProofs` | theorems about `JitterBuffer`, and the arithmetic of remainders they need | tlapm |
| `PairMix` | what one listener is mixed, its latches, own mutes and dots | through `MCTick` |
| `MCTick` | a tick's two halves, `JitterBuffer` for a source and `PairMix` for a listener | `Tick.cfg` |
| `DotMerge` | the merge of a room's sessions into one dot per display, as operators | through `PairMix` |
| `PassProofs` | theorems about what the passes compute: `JoinWindow`, `PairMix` and `DotMerge` | tlapm |
| `PosSync`, `MCPosSync` | `possync.c`, `peer_pos` and the tick's comparison | `Positions.cfg` |
| `PosSyncProofs` | theorems about `PosSync` | tlapm |
| `PluginLifecycle`, `MCPluginLifecycle` | init, teardown, the threads' flags and `rooms_mutex` | `Plugin.cfg` |
| `PluginLifecycleProofs` | theorems about `PluginLifecycle` | tlapm |

### Columns and the deferred store

A column is a set of displays. `ColumnFeed` has the sessions in the room
(`member`, and `leaving` for a leave in progress), their columns (`cols`) and
the store (`deferred`). `ApplyBatch` is one step because the code holds
`room->mutex` across both channels; entries for absent listeners are deposited
in any order, since the order is that of a JSON object. A leave is three steps
because `leave_room` lets go of its locks twice. `OverlapRejoin` says whether a
session may join in the middle of its own leave, which needs two threads on one
session.

### The authority

`VisAuthority` adds the room's books. Timestamps are ages that saturate once
nothing looks further (`VisRules`), so time can run on for ever in a finite
model. A heartbeat reads the clock before it waits for `room->mutex`; its
reading may be up to `MaxLockWait` ticks old when it is used, and batches that
were handled in between are younger. `Batches` and `Heartbeats` are the messages
simulators may have sent: each can be delivered at any time, any number of
times, or never, which covers loss, duplication, delay and reordering. One
action stands for each outcome the code has: unstamped, stale epoch, stale
generation and current batches; stopping, outdated and evaluated heartbeats
(a heartbeat that is refused or reports a starved feed changes nothing).
`Enforced` is fail-closed in a declared room.

`Disciplined` states what the arming protocol asks of a simulator, in terms of
a policy that gives each listener's columns at each generation. Properties that
are about what is heard assume it; the mixer cannot know better than its
simulator.

### Rooms and sessions

`RoomLifecycle` has one program counter per thread: the handler, the sender, the
core's thread of each session and each room's ticker. One room number is
enough, since rooms meet only through `rooms_mutex`; every create makes a new
room object, so a number can be created again while the old object still has
users. `rooms_mutex` is held exactly during a teardown, and `StopTicker` waits
for the ticker, which may be in the middle of a reap: a deadlock there would
show as a room that is never freed. Nothing in the code serialises the handler
with the core's callbacks or with the reap, so several threads may work on one
session at once. The history variable `overlapped` records that it happened:
`RoomBooks` (types, capacity, listing, grace clock), `SweepSparesJoined` and
`EmptyRoomsSwept` hold regardless, while `SoloBooks` (exact references, backed and
live rows), `MediaFreedUnlisted`, `RoomsFreed` and `NoMediaReaped` are stated for
behaviours without it. A teardown of the room counts as no overlap.

### Presence

`Presence` extends `ColumnFeed`: who is in the room and each session's columns
are its variables, and every step of the feed that the code follows with a frame
sends it in the same step, since `relay_data` is called under `room->mutex`. A
frame is a set of displays joined, joined and muted, left, muted or unmuted.
The channel of a session goes through `Connect`, `DataReady` (the room is looked
up under `session->mutex`), `Fence` (the flag and the backlog under
`room->mutex`), `Attach` and `IncomingJoin` (the viewer's own "j"). The viewer is
external: it drops frames before its observer is attached, ignores a second
join, greys only a row it has, and forgets its rows when it leaves. `ok` is what
`VisAuthority` makes of each display; here it changes freely.

The code leaves some of what a viewer knows to chance, and all of it can happen
in the model and in its run: other threads between the "l" of a leave and the
removal, changes between a change of standing and the sender's next pass, a
session that joins with its channel already up and its viewer proven (a leave
request keeps the PeerConnection). Two history variables record what it does to
a viewer and influence nothing:

- `untold`: a display named in a "j" after its own "l"; one whose exclusion a
  batch changed, or that a push or a backlog could have named, while its standing
  had changed and the pass had not been; every display, for a session that joined
  after its viewer's proof. A later "j" or "l" for the display takes it out.
- `unmarked`: a display that is muted and whose new row came with a "j" without a
  mark; one whose mute changed while the pair rule kept the change back. A later
  mark, or a new row, takes it out.

`RosterExact` and `GreyExact` say that a viewer has the wrong row or the wrong mark
for nobody else, in both directions; `FenceDelivers` is what the code's comments
say, without the exceptions of `untold`, and the run `channel_first` refutes it. The
properties speak of the rows of others: a batch that names a listener in its own
column is told to that listener like any other (`apply_visbatch_locked` has no
check for it), and then the viewer has a row of itself.

### Join capability

A token is a record of what the checks compare; whether its form decodes, its
signature is right and its fields are well formed are three Booleans of it. A
join is three steps, because the room's epoch is read under `room->mutex` and
the rest of the join follows without it: `BeginJoin`, `VerifyJoin` (the checks in
the code's order, the nonce store with its sweep, the refusal) and `FinishJoin`;
the verdict kept on the session is only reported and is left out. `knobs` holds the
two settings, whether capabilities are required and whether there is a key; Init
chooses them and nothing changes them. `reason` is the handler's variable that
outlives its message. `spent` and `again` are history. `PlainJoin` says what a join did before
there were capabilities, and `ShadowIsPlain` maps the detailed module to it
(`INSTANCE PlainJoin WITH code <- reply.code, strict <- Enforcing`): with the
requirement off, or on without a key, the checks change no answer and no
membership; with it on, the refusal of a capability is the only new answer.

### Jitter buffer

Packet number k carries sequence number k modulo `SeqSpace`; the code sees only
the wrapped number, the history variables the true one. `Send` and `Arrive` are
the network with its losses, duplicates and reordering up to `Late` behind the
newest, `Pull` is `jb_pull` in a tick, and a source that has sent nothing for
`Release` ticks is not pulled. `Empty` and
`Oversize` are the packets with no payload or with one that no slot can hold: `Insert`
moves the newest number and, for those, writes no slot. `Restart` frees the buffer; a leave keeps the
numbers, a lost PeerConnection clears them. `RingTurnsOver` and `Burst` are
assumptions about the stream: of the 512 packets of one turn of the numbers that
share a slot at least one arrives, and the stream runs ahead of the playout, and
packets arrive late, by less than half the number space. 20 ms packets only: one pull a tick.

### What is mixed and what is shown

`PairMix` has one listener and its sources. `Tick` walks them in the order of
`room->participants`, which `Order` fixes, applies the stages in the code's order
(fail-closed, moderation mute, own mute, exclusion, distance cull) and leaves
the table of latches with their stamps. `Dot` is what the sender later derives
from the tables alone. Distances are whole numbers; in the run they are inside the
band, on both its edges and on both its sides. `DotMerge` is the step before: the sessions of a room become one dot a
display, in the hash table's order, which is arbitrary here; it is a pure
algorithm and is compared with the result of every other order on all walks of up
to three sessions. The constraint `OneReason` allows one mute, exclusion or
loss of standing at a time, which keeps four sources in reach. `JitterBuffer` and
`PairMix` share the tick thread and no state, so `MCTick` runs either while the other
rests in its initial state.

### Positions

`PosSync` has two clocks' worth of staleness: the point the simulator sent and
the claim the viewer made. Participants move at most `Speed` a second in one
dimension and nobody lies, so whatever the comparison would correct is a false
alarm. A request arrives within `Delay`, never, or again later, and an instance is
announced to the room by its batches or heartbeats before its positions arrive.
`auth.lapsed` is history: the room's authority went stale at some time.

### Start and shutdown

`PluginLifecycle` has a phase for each statement of `init` and of the teardown
that another thread can see, the two flags, the tables, the message queue and
`rooms_mutex`. The handler and the sender create, destroy and sweep rooms under
that lock, and whoever tears a room down waits for its tick thread with the lock
held. `Overlap` says whether a callback of the core may be past its check of the
flags when the teardown begins; the code does not guard against it and relies on
the core to have ended its callbacks.

## The runs

| run | constants | shows |
| --- | --- | --- |
| `authority` | 3 agents, 3 sessions (2 of one agent), 2 epochs, 3 generations, 2 records, window 1 | the books stay consistent, what is heard is allowed, a late heartbeat undoes no newer batch, a silent authority silences everybody |
| `shadow_feed` | 3 agents, store for 2, 2 sessions, 1 record, stamped and plain batches, one-channel batches | the authority off: the room implements `ColumnFeed`, and every batch is applied whole (`ShadowApplies`; a batch that was ignored would be a mere stutter under the refinement); nothing asked for an absent listener is lost below the cap, the oldest go first above it |
| `room_books` | 2 room objects, 1 session, 2 joins, capacity 1 | exact counts, valid participants, the sweep spares joined sessions, rooms are freed and swept, joins without media reaped |
| `late_insert` | the same | violation, see below |
| `roster_rows` | a viewer and one other session, fail-closed, hide, show, mute and unmute batches | its rows are right but for `untold`, its marks but for `unmarked` |
| `channel_first` | the same without fail-closed | violation, see below |
| `join_cap` | 3 good tokens and one for each failing check, store for 2, skew 1, epochs 0 to 2, times 0 to 4, every setting of the knobs | a full store holds live nonces; nobody in a gated room without a token; refinement of `PlainJoin` |
| `cap_stale_reason` | the same | violation, see below |
| `single_use` | as `join_cap` | violation, see below |
| `tick` | 12 numbers, 4 slots, lag 1, lead 2, packets 10 to 24, one of them empty and two oversize; 4 sources for 3 places, distances across the band, table of 1 own mute, 3 ticks | order, concealment and latency across two wraps; the end of an utterance is played; the dots light who is mixed; the band and the cutoff; the eviction; the merge does not depend on the order |
| `positions` | 2 participants, store for 1, 2 instances, 2 requests between them, 3 acceptances, times 0 to 4 | the store is the log's, accepted once, no false alarm |
| `plugin` | 2 rooms, 2 callbacks, 2 starts | shutdown ends, nothing is left over, no table is used after it is gone |

Bounds. Two epochs are enough for both directions of a takeover, and
re-adoption makes longer chains of them out of the same two; three generations
give a delta, a gap and a repetition; two records for three agents and a store
for two listeners put both tables at their caps; the window needs one tick
inside and one past it. In `RoomLifecycle` the interesting interleavings are of
one session's threads with a teardown; the second room object is there for
re-creation, `MaxJoins` lets the session come back once, and with a capacity of
one a session that is in the room twice is what the capacity check has to stop.
Deadlock checking is off in the room runs because a room object is created once
and a session destroyed once, so every behaviour may come to rest; that no thread
gets stuck is what `RoomsFreed` says.

For the others: in `Presence` one session has a data channel and the other only joins,
leaves, stands and is hidden or muted; what a viewer is sent depends on its own
channel alone, so a second one adds states and no case. In `JoinCap` the tokens' windows end at different seconds, so
that the store of two is full, emptied in part and full again; the last second
passes the last window with its skew. In `JitterBuffer` what matters is the ratio
of number space, ring, lead and lag, kept as in the code (65536, 128, 16, 3
there): lag < lead < slots, slots divide the number space, and the stream is long
enough to wrap. `PairMix` needs three ticks: one that makes a latch, one that ages
it and one that meets it again; one source more than places forces the eviction.
`PosSync` bounds the time to two staleness periods. `PluginLifecycle` restarts
once, to see what a failed start leaves to the next. Deadlock checking is off
where a bound (packets, ticks, time, starts) ends every behaviour.

Fairness. In the authority only time is fair. In `RoomLifecycle` a thread that has
begun something goes on with it, the sender keeps sweeping, the tickers keep
ticking and time passes: all are loops or straight-line code that the operating
system schedules. No request and no call of the core is owed. In `JitterBuffer`
only the tick is fair. In `PluginLifecycle` threads run, a callback that was
entered returns, a held lock is released; nobody owes a shutdown.

### What disagrees with the repository's own words

Four runs expect a violation; `PROJECT.json` quotes both sides.

- `late_insert`: a session destroyed while its join is being inserted stays in the
  participants, although `destroy_session` means to take it out first.
- `channel_first`: the comments at `data_ready` and `incoming_data` say that push
  and backlog deliver in every ordering. A session that joins when its viewer has
  already proven its attachment is told of nobody who was there before it.
- `cap_stale_reason`: the reason of a refusal is never cleared and is added to
  later errors of other requests.
- `single_use`: a capability is to admit one join. The sweep forgets a nonce in the
  second exp + skew, in which the check still accepts its token, so that a second
  join with it succeeds. `ReplayCorrect` proves that it happens in no other second.

### Limits of what passes

The passing properties are stated for what the code keeps; these are the places
where a stronger statement would fail.

- Two threads on one session: a leave that ends after the same session's next
  join resets the new columns (`OverlapRejoin` set to TRUE breaks
  `MixFollowsRecord` and `JoinGetsIntent`); a join undone after a leave drops a
  second reference; media that comes up after the reap's last check is torn down all
  the same. The windows are short; this is what `overlapped` excludes.
- Rosters, rows (`untold`): a backlog or a batch between the "l" and the removal
  shows the leaver for good; an exclusion that arrives between the loss of standing
  and the sender's pass is told by neither; a push or a backlog in that time goes by
  the new standing and the pass by the old one; a session that joins with its channel
  confirmed gets no roster on it.
- Rosters, marks (`unmarked`): a muted source whose row appears by a "j" of
  push_presence, of a batch or of the sender's pass carries no mark of its mute. A
  mute that is lifted while the source has lost its standing is not told, and when
  the standing returns before the pass has taken the row away, the row stays grey.
- Rosters, the viewer's own display and two sessions to a display: the first is
  not in the properties, the second not in the run, and `RosterCorrect` assumes it
  away; `GreyCorrect` does not.
- Callbacks: `NoUseAfterDrop` is about callbacks that begin after the flags are
  lowered. One that is past its check of the flags when destroy begins may use a
  table that is gone (`Overlap`); the code relies on the core to have none.
- Audio: after a pause playout resumes without a reorder cushion; the eviction may
  take the latch of a source that is present but muted (the comment at 4252-4253 says
  "any displaced slot is a departed UUID"), and where sources leave and
  others come between two ticks, that of one which both ticks evaluate:
  `NoFlapInBand` is stated for ticks whose agents together fit the table. Two
  sessions of one avatar share a latch, and its dot can be dark while one of them
  is heard, so `PairMix` is checked with one session to an agent, and two of its
  theorems have that as a hypothesis. A packet that is late by a whole ring
  (128 packets, 2.5 s) takes the slot of the one that is due; `ConcealsCorrect`
  assumes there is none.
- Positions: `Arrives` takes for granted that an instance announces itself before
  its positions arrive, as the protocol has it (`mixer-feed-protocol.md`, 7.6). The
  mixer does not insist: a request with an epoch above the adopted one is accepted
  and leaves the authority as it is, so that after it a repeated request of the older
  instance would be accepted again, and `AcceptedOnce` with `NoFalseClamp` would fail.
  Once the authority has lapsed, requests of two instances in turn
  reset the sequence, hence the condition on `auth.lapsed`. The theorems about the
  order of requests also assume that every instance has an epoch or none has: a
  request without an epoch is not compared with the authority's, so one that comes
  beside those of an instance with an epoch may be taken again after each of them.

## The proofs

Eight modules hold theorems, all checked by tlapm to the last leaf. Each extends
the module it is about, so theorem and run speak of the same definitions; the
runs show the property on a small instance, the theorem for every value of the
constants. The assumptions on the constants are the named `ASSUME`s of the
modules, which TLC evaluates in every run: well-formed messages and tokens, caps
of at least one, finite sets of sessions, rooms, handles and agents, and names of
threads, of "no room" and of "nobody" that are not names of anything else. What a
theorem assumes beyond that is in its statement and below.

### The authority (`VisAuthorityProofs`)

For every number of agents, sessions, epochs, generations and messages, and every
window:

- `AuthTypeCorrect`: the books are well typed;
- `CurrentEpoch`: every armed record belongs to the authority in force and to a
  generation it has applied. Adoption wipes the records (`AdoptKeepsCurrent`),
  and no other step changes a record's epoch;
- `MirrorCorrect`: the columns in a record are the policy of one generation.
  It rests on `CurrentEpoch`, because a delta's base is a generation of the
  epoch in force, and on `DisciplinedMirror`;
- `MixCorrect`: sessions mix with their record's columns. It is
  not inductive by itself: the step needs `CurrentEpoch` (a join takes the
  columns of any armed record, which must therefore be of the epoch in force)
  and `FeedShape`, that a session in the room has no leave in progress whose
  reset is still to come. Batches change the two copies alike
  (`BatchMixesAsMirrored`). It is proved under the
  assumption that batches are `Disciplined` and that `OverlapRejoin` is false;
  with it TRUE, TLC finds a counterexample;
- `FailClosedCorrect`: what is heard is allowed, from the three above and the
  meaning of row 4 (`RowFour`);
- `AuthorityOrderedCorrect`: a lower epoch displaces an authority only after that
  was silent for the window or said it was stopping, and no generation goes back
  while an authority is in force;
- `OnlyReplaceArmsCorrect`: a listener that is unarmed or stale becomes audible
  only by a replace that names it, of a generation not applied yet;
- `ReportsCorrect`: the reply to a heartbeat names every silent listener it lists;
- `LateHeartbeatCorrect`: a heartbeat built before the batch that set a listener's
  record neither disarms the listener nor marks it stale, whenever it arrives;
- `ShadowRefinesFeed`: with enforcement off, `VisAuthority` implements
  `ColumnFeed`;
- `ShadowAppliesCorrect`: with enforcement off every batch is applied whole to
  every listener it names, which the refinement alone does not say because it
  lets a batch stutter.

### Rooms and sessions (`RoomLifecycleProofs`)

`Typed` adds to the types that each thread works on a session and a room that its
program counter allows. `Books` is the inductive invariant that holds in every
interleaving, two threads on one session included. Capacity, listing and grace
clock are not inductive alone: `TeardownShape` says that the room being torn down is
the one in the table and that only one thread is at it, `JoinShape` what the
handler still knows of a room whose lock it has released (there is a free place,
since only the handler inserts), `RowShape` that a row is never of a join that is
still to come, so that a late removal cannot hit the wrong one. From these:
`RoomBooksCorrect` and `SweepSparesCorrect`.

`SoloInv` is the same for behaviours in which no two threads have worked on one
session at once: then there is `OneThread` per session, which knows what it has
read (`SoloView`), and the count of references, the rows and their sessions are
exact. From it: `SoloBooksCorrect` and `MediaFreedCorrect`. The condition is part of
the properties (`overlapped`), and `late_insert` shows that it is needed.

### Presence (`PresenceProofs`)

`RosterCorrect` (`RosterExact`) assumes `Alone`, that no two sessions have one display
and a session leaves before it joins again; `GreyCorrect` (`GreyExact`) assumes the
second half. Every window described above is open in both. `RosterExact` speaks of
settled viewers, which no step preserves; the invariant `RosterInv` speaks of all.
Its `PairOK` compares a viewer's row for a session with whether it is `Listed`, which
goes by the standing of the sender's last pass (`okLast`) instead of the present one
(`ok`), and leaves out those whose "l" is out; when the two standings agree and nobody
moves, `Listed` is the roster. `SessionShape` and `ChannelsOK` say which combinations
of leave, announcement, channel and fence can be met. `Tells` and `Marks` say what a
set of frames must say of a row and of its mark for the invariant to be kept
(`RelayViews`, `RelayMarks`), and one lemma for each kind of step shows that what it
sends does.

### Join capability (`JoinCapProofs`)

`MirrorsSpent` is the strengthening: every spent token whose window is open with a
second to spare has its nonce in the store, with its own window's end as expiry,
and the store holds nothing else (`StoreMirror`). `FullStoreCorrect`
follows, and so does `ReplayCorrect`: a token is accepted a second time at most in the
second exp + skew, which is the exact extent of what `single_use` shows. `GateCorrect` needs `Paid`, which counts the join that is
past the gate and not yet in the room among the members. `ShadowCorrect` is the
refinement of `PlainJoin`, step by step.

### Positions (`PosSyncProofs`)

`StoreCorrect` has no condition: `LogOK` tells the requests of the log apart by
their sequence numbers, `StoreOK` names for every stored point the request it is
from. `OrderCorrect`, `OnceCorrect` and `ClampCorrect` assume that every instance has
an epoch or none has. `InOrder` relates the accepted requests to the authority's
epoch; `Tracks` bounds the distance between a participant, its points and its
claims by their ages, and that sum is what the tolerance has to cover.

### Jitter buffer (`JitterBufferProofs`)

The run has a number space of 12 and a ring of 4; the theorems have any, so also
65536 and 128. `Cursors` says that the wrapped cursors stand for the true ones and
that these are less than half the number space apart, `Ring` that a packet in the
ring is less than one turn old; hence the signed difference orders packets
(`DiffIs`) and an equal sequence number means the same packet (`SameRemainder`).
`PlaysInOrderCorrect` and `LatencyCorrect` follow. `ConcealsCorrect` needs `Waiting`, that
a packet due within the ring's length is in its slot, and that the network reorders by
less than that length. `RingTurnsOver` and `Burst` are guards of the model's source.

### Start and shutdown (`PluginLifecycleProofs`)

`InPhase` says which flags, tables, threads and locks go with each phase of init and
teardown; `NothingLiveCorrect` follows. `NoUseCorrect` adds `CallbacksInside` and assumes
`~Overlap`, that the core has ended its callbacks before it calls destroy.

### Deferred store, tick and dots (`PassProofs`)

These are about loops: a batch's deposits for its absent listeners, the tick's
sources, the sender's sessions. The models write each as a recursive function over
the positions of a sequence. `SetInduction` is induction with a set in the place of
a predicate, from the least element of a set of naturals (`LeastElement`);
`IteratesExist` says that such a function exists, so that its values are a run of
single steps (`DeferRun`, `PassRun`, `WalkRight`) and a fact about one step carries
to the end of the run.

- The deferred store. The theorems are about `WindowSpec`, which is `ColumnFeed` with
  the history of what was asked; the run has the same history beside `VisAuthority`,
  whose steps are those of `ColumnFeed` (`ShadowRefinesFeed`). `WindowInv` is the inductive invariant: the store is settled,
  agrees with what was asked below the cap, has nothing for a listener who is
  present, and a session through with its leave holds no columns.
  `ChannelDeferred` says what one channel of a batch does to a store, whatever the
  order of its listeners; the cap cannot be passed in the middle of a batch when
  the listeners waited for and named fit (`BatchPass`). From it `StoreKeepsAlways`,
  `OldestGoFirstAlways` and, with `~OverlapRejoin`, `JoinGetsIntentAlways`: a join
  in the middle of the same session's leave may meet the columns of its earlier stay.
- The tick. `PairInv` bounds the table of latches, its stamps and the sources of
  the room. `Stepped` says what one evaluation does to the table; a stamp of this
  tick is that of a source already visited (`RunStamps`), and since the room has
  fewer sources than the table has slots, no latch of this tick is evicted
  (`RunKeeps`). `HeardWithinCutoffAlways` has no condition. `DotsMatchMixAlways` and
  `NoFlapInBandAlways` assume `Alone`, that no two sessions in the room share an
  agent. The second counts: an evicted latch of the last tick would leave as many
  agents as slots, all of one of the two ticks, and the newcomer besides
  (`RunRemembers`).
- The dots. `RightFor` is the invariant of the walk: each display has the dot of its
  voices so far, and the dot knows whether it is of a live session. `EveryWalkRight`
  follows for every sequence of sessions and does not mention their order;
  `MergeIsOrderFreeAlways` is that for the sessions of the room.

The attempt to prove `NoFlapInBand` corrected it: with the earlier condition, at most
one newcomer to the table in a tick, TLC finds a counterexample once there are five
sources for a table of four.

### Only model-checked

- Liveness under fairness: `SilentWithoutAuthority`, `RoomsFreed`, `EmptyRoomsSwept`,
  `NoMediaReaped`, `PlayedOut`, `ShutdownEnds`.

Every safety property of a passing run is also a theorem. What the library's folds
compute (`FoldLeft` in `Control`, the viewer's adjustments) enters no theorem.

## Not modelled

Formatting, logging, counters and gauges; out-of-memory paths except the
allocation of codecs at a join; the contents of audio. In particular:

- the signal processing of the mix (encode, pan, falloff, gains, levels) is
  floating-point arithmetic; which pairs reach it is in `VisAuthority` and
  `PairMix`;
- the parsers of SLData, of batches and of positions, the SDP text, the redaction
  of addresses and the knobs are functions of their input without state. The
  models start from what they return; the interval check of a heartbeat and the
  hex form of an epoch belong here too;
- the echo mode of a session, which replaces its mix by its own voice;
- 10 ms packets, of which a tick pulls two, and what Opus makes of a packet;
- a display shared by two sessions in the run of `Presence` (`PairMix`, `DotMerge` and
  `VisAuthority` have it);
- the connectors in Python and the container's entrypoint: tools and deployment
  beside the plugin.

## Plan

1. Done: theorems for every safety property of the passing runs.
2. `SimFeed`: a simulator that sends, loses, retries and re-arms, composed with
   `VisAuthority`: after the losses end, every listener is audible again.
3. The connectors' rejoin loop.
