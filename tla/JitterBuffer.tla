----------------------------- MODULE JitterBuffer -----------------------------
(***************************************************************************)
(* The jitter buffer of one participant (src/src/janus_slvoice.c): RTP     *)
(* packets are put into a ring by sequence number as they arrive, and the  *)
(* room's tick pulls them in order a few packets behind the newest.        *)
(* Sequence numbers are counted modulo SeqSpace (2^16) and compared by     *)
(* signed difference.  Both operations run under session->mutex.           *)
(*                                                                         *)
(* Packet number k of the stream carries sequence number k % SeqSpace.     *)
(* The network loses, repeats and reorders packets.  The history variables *)
(* count packets without wrapping; the code never sees them.               *)
(***************************************************************************)
EXTENDS Integers

CONSTANTS
  SeqSpace,    \* 2^16
  Slots,       \* SLV_JB_SLOTS
  Lag,         \* SLV_JB_LAG
  MaxLead,     \* SLV_JB_MAX_LEAD
  FirstPacket, \* the stream's initial sequence number
  LastPacket,  \* the number of its last packet (bound)
  Empty,       \* packets without a payload
  Oversize,    \* packets whose payload exceeds SLV_JB_PAYLOAD_MAX
  Release,     \* ticks in SLV_VAD_RELEASE_MS: a source silent longer is not pulled
  Late,        \* how far behind the last sent packet one may still arrive
  Burst        \* how far the stream may run ahead of the playout

ASSUME JitterAssumption ==
  /\ {SeqSpace, Slots, Lag, MaxLead, FirstPacket, LastPacket, Release, Late, Burst} \subseteq Nat
  /\ SeqSpace % 2 = 0 /\ Slots > 0 /\ SeqSpace % Slots = 0
  /\ Lag <= MaxLead /\ MaxLead < Slots
  /\ Burst + 1 < SeqSpace \div 2 /\ Late + 1 < SeqSpace \div 2

NoPacket == -1

VARIABLES
  slot,       \* jb_seq and jb_len with the payload: [seq, packet] per slot
  have,       \* jb_have_first
  first,      \* jb_first_seq
  newest,     \* jb_newest
  primed,     \* jb_primed
  next,       \* jb_next
  quiet,      \* ticks since last_rtp_us
  sent,       \* the last packet the source has sent
  out,        \* what the last pull gave: [status, packet]
  top,        \* history: number of the newest packet inserted
  cursor,     \* history: number of the packet next stands for
  got         \* history: packets stored and not yet passed by the cursor

bufVars == <<slot, have, first, newest, primed, next>>
jitterVars == <<bufVars, quiet, sent, out, top, cursor, got>>

Seq16(k) == k % SeqSpace

Diff_unsigned(a, b) == Seq16(a - b)  \* (mutant) the difference is not signed

\* (int16_t)(a - b)
Diff(a, b) ==
  LET d == Seq16(a - b) IN IF d >= SeqSpace \div 2 THEN d - SeqSpace ELSE d

EmptySlots == [i \in 0 .. Slots - 1 |-> [seq |-> 0, packet |-> NoPacket]]

----------------------------------------------------------------------------

\* Every slot is written again before the sequence numbers come round: of the
\* SeqSpace \div Slots (512) packets of a lap that share it, one arrives.
RingTurnsOver ==
  \A i \in DOMAIN slot :
    slot[i].packet # NoPacket => sent + 1 - slot[i].packet < SeqSpace

\* The source sends its next packet.  While packets flow the tick pulls, so
\* the stream is never more than Burst ahead of the playout.
Send ==
  /\ sent < LastPacket
  /\ have => sent - cursor < Burst
  /\ RingTurnsOver
  /\ sent' = sent + 1
  /\ UNCHANGED <<bufVars, quiet, out, top, cursor, got>>

SlotsAfter_inOrder(k) ==  \* (mutant) a packet older than the newest is dropped
  IF have /\ Diff(Seq16(k), newest) < 0 THEN slot
  ELSE [slot EXCEPT ![Seq16(k) % Slots] = [seq |-> Seq16(k), packet |-> k]]

\* jb_insert: the packet goes into its slot whatever is in it
SlotsAfter(k) == [slot EXCEPT ![Seq16(k) % Slots] = [seq |-> Seq16(k), packet |-> k]]

\* jb_insert: a payload that is too long is not stored, but its packet counts
\* for the newest and the first
Insert(k) ==
  /\ slot' = IF k \in Oversize THEN slot ELSE SlotsAfter(k)
  /\ have' = TRUE
  /\ first' = IF have THEN first ELSE Seq16(k)
  /\ newest' = IF ~have \/ Diff(Seq16(k), newest) > 0 THEN Seq16(k) ELSE newest
  /\ top' = IF ~have \/ k > top THEN k ELSE top
  /\ cursor' = IF have THEN cursor ELSE k
  /\ got' = IF k \notin Oversize /\ k >= cursor' THEN got \union {k} ELSE got

\* incoming_rtp: a packet without a payload only shows that the source lives
Arrive(k) ==
  /\ k \in FirstPacket .. sent
  /\ k >= sent - Late
  /\ quiet' = 0
  /\ IF k \in Empty THEN UNCHANGED <<slot, have, first, newest, top, cursor, got>> ELSE Insert(k)
  /\ UNCHANGED <<primed, next, sent, out>>

\* Where the playout stands when a tick pulls: the first packet when playout
\* starts, the newest minus the lag after a long gap
Start == IF primed THEN next ELSE first

Position_noResync ==  \* (mutant) a long gap is not skipped
  Start

Position ==
  IF Diff(newest, Start) > MaxLead THEN Seq16(newest - Lag) ELSE Start

Ready_strict ==  \* (mutant) the newest packet itself is not played
  have /\ IF primed THEN Diff(newest, next) > 0 ELSE Diff(newest, first) >= Lag

\* Is there something to play?  Not before the first packet, while the first
\* cushion is filling, or when everything received has been played.
Ready == have /\ IF primed THEN Diff(newest, next) >= 0 ELSE Diff(newest, first) >= Lag

\* The tick decodes a source only for a while after its last packet
Active == quiet < Release

\* jb_pull with nothing to play
PullSilence ==
  /\ ~Ready
  /\ out' = [status |-> "silence", packet |-> NoPacket]
  /\ UNCHANGED <<bufVars, sent, top, cursor, got>>

\* Does the slot hold the packet that is due?
InSlot(at) == slot[at % Slots].packet # NoPacket /\ slot[at % Slots].seq = at

\* jb_pull with a frame to decode or one to conceal
PullFrame ==
  LET at == Position
      skipped == Diff(at, Start)
  IN  /\ Ready
      /\ primed' = TRUE
      /\ next' = Seq16(at + 1)
      /\ IF InSlot(at)
         THEN /\ out' = [status |-> "frame", packet |-> slot[at % Slots].packet]
              /\ slot' = [slot EXCEPT ![at % Slots].packet = NoPacket]
         ELSE /\ out' = [status |-> "plc", packet |-> NoPacket]
              /\ UNCHANGED slot
      /\ cursor' = cursor + skipped + 1
      /\ got' = {k \in got : k >= cursor'}
      /\ UNCHANGED <<have, first, newest, sent, top>>

\* media_free and, at the next join, media_alloc.  When the PeerConnection
\* goes (media_gone), the numbers and the time of the last packet are forgotten
\* as well; a leave request keeps them.
Restart ==
  /\ have
  /\ slot' = EmptySlots
  /\ have' = FALSE /\ primed' = FALSE
  /\ got' = {}
  /\ cursor' = FirstPacket /\ top' = FirstPacket
  /\ \/ first' = 0 /\ newest' = 0 /\ next' = 0 /\ quiet' = Release
     \/ UNCHANGED <<first, newest, next, quiet>>
  /\ out' = [status |-> "silence", packet |-> NoPacket]
  /\ UNCHANGED sent

JitterInit ==
  /\ slot = EmptySlots
  /\ have = FALSE /\ primed = FALSE
  /\ first = 0 /\ newest = 0 /\ next = 0 /\ quiet = Release
  /\ sent = FirstPacket - 1
  /\ out = [status |-> "silence", packet |-> NoPacket]
  /\ top = FirstPacket /\ cursor = FirstPacket /\ got = {}

\* tick_decode: one tick's pull
Pull ==
  /\ Active
  /\ quiet' = quiet + 1
  /\ PullSilence \/ PullFrame

JitterNext ==
  \/ Send
  \/ \E k \in FirstPacket .. LastPacket : Arrive(k)
  \/ Pull
  \/ Restart

JitterSpec == JitterInit /\ [][JitterNext]_jitterVars

\* The tick pulls until the source counts as silent
JitterFairSpec == JitterSpec /\ WF_jitterVars(Pull)

----------------------------------------------------------------------------

\* Whatever is lost, repeated or late, across every wrap of the sequence
\* number: a decoded frame is the packet the cursor stands for, and the cursor
\* only moves forward; no packet is played twice or after a later one.
PlaysInOrder ==
  [][ out'.status = "frame" /\ out' # out
      => /\ out'.packet = cursor' - 1
         /\ cursor' > cursor ]_jitterVars

\* The tick conceals a packet only if that packet is not there: one that
\* arrived in time is never overwritten by an older or newer one that shares
\* its slot.
ConcealsOnlyMissing ==
  [][ out'.status = "plc" /\ cursor' # cursor => (cursor' - 1) \notin got ]_jitterVars

\* After a long gap the playout does not trail: a pull leaves at most MaxLead
\* packets between the newest and the one it played.
LatencyBounded ==
  [][ primed' /\ cursor' # cursor => top' - (cursor' - 1) <= MaxLead ]_jitterVars

\* When the last packet of an utterance arrives with no more waiting than the
\* tick still pulls from a source that falls silent, everything is played or
\* concealed, unless the participant leaves first: the end of an utterance is
\* not left in the buffer to be heard at the start of the next.
PlayedOut ==
  (primed /\ quiet = 0 /\ top = LastPacket /\ LastPacket + 1 - cursor <= Release)
    ~> (cursor > LastPacket \/ ~have)
=============================================================================
