-------------------------------- MODULE JoinCap --------------------------------
(***************************************************************************)
(* The join capability (src/src/joincap.c and its use in the handler of    *)
(* src/src/janus_slvoice.c).  A simulator mints a signed token for one     *)
(* join; the mixer checks signature, context, time window and that its     *)
(* nonce was not spent before, and refuses a join in a gated room whose    *)
(* token fails, when the requirement is on.  There is one handler thread;  *)
(* the room's epoch is read under room->mutex before the token is checked, *)
(* so time passes, epochs are adopted and sessions leave in between.       *)
(*                                                                         *)
(* The signature is a field of the token (external: OpenSSL's HMAC).  The  *)
(* clock is time(NULL) and is assumed not to be set back.                  *)
(***************************************************************************)
EXTENDS Integers, FiniteSets

CONSTANTS
  Handles,     \* plugin sessions
  Rooms, NoRoom,
  Gated,       \* rooms with vis_declared or sim_created
  Caps,        \* the tokens in circulation
  NoCap, NoReq,
  Requests,    \* join requests: [handle, room, display, session, cap]
  Skew,        \* SLV_JOINCAP_SKEW_S
  MaxNonces,   \* SLV_JOINCAP_NONCE_MAX
  RoomSize,    \* slv_room_size
  MaxEpoch, MaxTime

\* A token is a string on the wire.  shape: the wire form decodes; signed: the
\* MAC is right; fields: the payload's eight fields have their form.
IsCap(c) ==
  /\ c.shape \in BOOLEAN /\ c.signed \in BOOLEAN /\ c.fields \in BOOLEAN
  /\ c.room \in Rooms
  /\ c.epoch \in 0 .. MaxEpoch
  /\ c.iat \in Nat /\ c.exp \in Nat

ASSUME JoinCapAssumption ==
  /\ IsFiniteSet(Handles)
  /\ Gated \subseteq Rooms /\ NoRoom \notin Rooms
  /\ NoCap \notin Caps /\ NoReq \notin Requests
  /\ \A c \in Caps : IsCap(c)
  /\ \A q \in Requests :
       q.handle \in Handles /\ q.room \in Rooms /\ q.cap \in Caps \union {NoCap}
  /\ Skew \in Nat /\ MaxNonces \in Nat \ {0} /\ RoomSize \in Nat \ {0}
  /\ MaxEpoch \in Nat /\ MaxTime \in Nat

Refusals ==
  {"cap_missing", "cap_malformed", "cap_bad_signature", "cap_wrong_agent",
   "cap_wrong_session", "cap_wrong_room", "cap_expired", "cap_replayed",
   "cap_replay_store_full", "cap_stale_generation"}

VARIABLES
  knobs,       \* JS_JOIN_CAP_REQUIRED, and is JS_JOIN_CAP_SECRET set? read once, at init
  now,         \* time(NULL), seconds
  authEpoch,   \* vis_auth_epoch of each room
  store,       \* slv_join_cap_nonces: [nonce, expires_at] entries
  job,         \* the join the handler is working on, or NoReq
  snapshot,    \* cap_epoch: the room's epoch as the join read it
  verdict,     \* cap_v of the join in progress, "pending" before the check
  member,      \* session->room
  reason,      \* error_reason, a variable of the handler's loop; "" is NULL
  reply,       \* the last reply: [code, reason]
  spent,       \* history: tokens whose nonce was taken
  again        \* history: <<token, time>> of every later time it was taken

capVars == <<knobs, now, authEpoch, store, job, snapshot, verdict, member,
             reason, reply, spent, again>>
handlerVars == <<job, snapshot, verdict, reason>>
storeVars == <<store, spent, again>>

\* janus_slvoice_joincap_load_knobs: nothing is enforced without a key
Enforcing == knobs.required /\ knobs.hasKey

Population(r) == Cardinality({h \in Handles : member[h] = r})

----------------------------------------------------------------------------
\* The checks, in the order the code makes them

\* slv_joincap_parse
Parse(c) ==
  IF ~c.shape THEN "cap_malformed"
  ELSE IF ~c.signed THEN "cap_bad_signature"
  ELSE IF ~c.fields \/ c.exp < c.iat THEN "cap_malformed"
  ELSE "ok"

\* slv_joincap_check
Check(c, q) ==
  IF c.agent # q.display THEN "cap_wrong_agent"
  ELSE IF c.session # q.session THEN "cap_wrong_session"
  ELSE IF c.room # q.room THEN "cap_wrong_room"
  ELSE IF now > c.exp + Skew \/ now < c.iat - Skew THEN "cap_expired"
  ELSE "ok"

Swept_none(st) == st  \* (mutant) expired entries are never dropped

\* slv_joincap_nonce_sweep
Swept(st) == {e \in st : e.expires_at > now}

\* slv_joincap_nonce_take: what it returns ...
NonceVerdict(c) ==
  IF \E e \in Swept(store) : e.nonce = c.nonce THEN "cap_replayed"
  ELSE IF Cardinality(Swept(store)) >= MaxNonces THEN "cap_replay_store_full"
  ELSE "ok"

\* ... and what it leaves in the store
StoreAfter(c) ==
  IF NonceVerdict(c) = "ok"
  THEN Swept(store) \union {[nonce |-> c.nonce, expires_at |-> c.exp + Skew]}
  ELSE Swept(store)

\* slv_joincap_generation
Generation(c, epoch) ==
  IF c.epoch # 0 /\ c.epoch < epoch THEN "cap_stale_generation" ELSE "ok"

\* Does the check get as far as the nonce store?
Presented(q) ==
  /\ q.cap # NoCap /\ knobs.hasKey
  /\ Parse(q.cap) = "ok" /\ Check(q.cap, q) = "ok"

\* janus_slvoice_joincap_verify
Verdict(q) ==
  IF q.cap = NoCap THEN "cap_missing"
  ELSE IF ~knobs.hasKey THEN "ok"
  ELSE IF Parse(q.cap) # "ok" THEN Parse(q.cap)
  ELSE IF Check(q.cap, q) # "ok" THEN Check(q.cap, q)
  ELSE IF NonceVerdict(q.cap) # "ok" THEN NonceVerdict(q.cap)
  ELSE Generation(q.cap, snapshot)

----------------------------------------------------------------------------

\* The respond: label.  error_reason goes into every error reply once set.
Respond(code, r) ==
  reply' = [code |-> code, reason |-> IF code = "ok" THEN "" ELSE r]

\* The start of the join arm: the early errors, or the snapshot of the room
BeginJoin(q) ==
  /\ job = NoReq
  /\ UNCHANGED <<knobs, now, authEpoch, member, reason, storeVars>>
  /\ \/ /\ member[q.handle] # NoRoom
        /\ Respond("already_joined", reason)
        /\ UNCHANGED <<job, snapshot, verdict>>
     \/ /\ member[q.handle] = NoRoom
        /\ \E code \in {"no_such_room", "invalid_sdp"} : Respond(code, reason)
        /\ UNCHANGED <<job, snapshot, verdict>>
     \/ /\ member[q.handle] = NoRoom
        /\ job' = q
        /\ snapshot' = authEpoch[q.room]
        /\ verdict' = "pending"
        /\ UNCHANGED reply

Refused_missing(q) ==  \* (mutant) a join without a token is let in
  Verdict(q) \notin {"ok", "cap_missing"} /\ Enforcing /\ q.room \in Gated

Refused_always(q) ==  \* (mutant) the requirement is not looked at
  Verdict(q) # "ok" /\ q.room \in Gated

\* Is the join answered with an error for its capability?
Refused(q) == Verdict(q) # "ok" /\ Enforcing /\ q.room \in Gated

\* What the check does to the nonce store, with its history
Spend(q) ==
  IF Presented(q)
  THEN /\ store' = StoreAfter(q.cap)
       /\ IF NonceVerdict(q.cap) = "ok"
          THEN /\ spent' = spent \union {q.cap}
               /\ again' = IF q.cap \in spent THEN again \union {<<q.cap, now>>} ELSE again
          ELSE UNCHANGED <<spent, again>>
  ELSE UNCHANGED storeVars

\* The capability gate of the join arm.  The nonce is spent whether or not the
\* join is refused; session->cap_verdict is only shown to administrators.
VerifyJoin ==
  /\ job # NoReq /\ verdict = "pending"
  /\ Spend(job)
  /\ IF Refused(job)
     THEN /\ reason' = Verdict(job)
          /\ Respond("join_cap", reason')
          /\ job' = NoReq
          /\ verdict' = "pending"
     ELSE verdict' = Verdict(job) /\ UNCHANGED <<job, reason, reply>>
  /\ UNCHANGED <<knobs, now, authEpoch, member, snapshot>>

\* The rest of the join arm: the room's size, the negotiation, a room that was
\* destroyed meanwhile, or membership
FinishJoin ==
  /\ job # NoReq /\ verdict # "pending"
  /\ UNCHANGED <<knobs, now, authEpoch, snapshot, reason, storeVars>>
  /\ job' = NoReq /\ verdict' = "pending"
  /\ \/ /\ Population(job.room) >= RoomSize
        /\ Respond("room_full", reason)
        /\ UNCHANGED member
     \/ /\ Population(job.room) < RoomSize
        /\ \E code \in {"invalid_sdp", "no_such_room"} : Respond(code, reason)
        /\ UNCHANGED member
     \/ /\ Population(job.room) < RoomSize
        /\ member' = [member EXCEPT ![job.handle] = job.room]
        /\ Respond("ok", "")

\* The other arms of the handler, as far as their replies go
OtherRequest ==
  /\ job = NoReq
  /\ \E code \in {"ok", "other"} : Respond(code, reason)
  /\ UNCHANGED <<knobs, now, authEpoch, member, handlerVars, storeVars>>

\* leave_room, from the handler or from another thread
Leave(h) ==
  /\ member[h] # NoRoom
  /\ member' = [member EXCEPT ![h] = NoRoom]
  /\ UNCHANGED <<knobs, now, authEpoch, reply, handlerVars, storeVars>>

\* The room adopts a newer epoch (VisAuthority).  In a room that is not gated the
\* verdict, and so the epoch, decides nothing.
Adopt(r) ==
  /\ authEpoch[r] < MaxEpoch
  /\ authEpoch' = [authEpoch EXCEPT ![r] = @ + 1]
  /\ UNCHANGED <<knobs, now, member, reply, handlerVars, storeVars>>

Second ==
  /\ now < MaxTime
  /\ now' = now + 1
  /\ UNCHANGED <<knobs, authEpoch, member, reply, handlerVars, storeVars>>

CapInit ==
  /\ knobs \in [required : BOOLEAN, hasKey : BOOLEAN]
  /\ now = 0
  /\ authEpoch = [r \in Rooms |-> 0]
  /\ store = {} /\ spent = {} /\ again = {}
  /\ job = NoReq /\ snapshot = 0 /\ verdict = "pending"
  /\ member = [h \in Handles |-> NoRoom]
  /\ reason = "" /\ reply = [code |-> "ok", reason |-> ""]

CapNext ==
  \/ \E q \in Requests : BeginJoin(q)
  \/ VerifyJoin \/ FinishJoin \/ OtherRequest \/ Second
  \/ \E h \in Handles : Leave(h)
  \/ \E r \in Gated : Adopt(r)

CapSpec == CapInit /\ [][CapNext]_capVars

\* With nothing enforced this is the handler without capabilities
Plain == INSTANCE PlainJoin WITH member <- member, code <- reply.code, strict <- Enforcing

----------------------------------------------------------------------------

\* Every variable holds what its declaration says, and the replay store stays
\* within its array: slv_joincap_nonce_take refuses at the cap.
TypeOK ==
  /\ knobs \in [required : BOOLEAN, hasKey : BOOLEAN]
  /\ now \in Nat
  /\ authEpoch \in [Rooms -> 0 .. MaxEpoch]
  /\ store \subseteq [nonce : {c.nonce : c \in Caps}, expires_at : Nat]
  /\ IsFiniteSet(store) /\ Cardinality(store) <= MaxNonces
  /\ job \in Requests \union {NoReq}
  /\ snapshot \in 0 .. MaxEpoch
  /\ verdict \in Refusals \union {"pending", "ok"}
  /\ member \in [Handles -> Rooms \union {NoRoom}]
  /\ reason \in Refusals \union {""}
  /\ spent \subseteq Caps /\ again \subseteq Caps \X Nat

\* "nonce is ... spent on first use" (docs/voice/mixer-feed-protocol.md): no
\* token passes slv_joincap_nonce_take twice.  The code does not keep this:
\* the sweep drops an entry when expires_at = exp + skew is now, and
\* slv_joincap_check still accepts the token in that second.
SingleUse == again = {}

\* How far single use goes: a token that is taken again is taken in the last
\* second in which slv_joincap_check accepts it at all, whatever other joins,
\* epochs and leaves come in between.
ReplayOnlyInLastSecond ==
  \A c \in Caps, t \in 0 .. MaxTime : <<c, t>> \in again => t = c.exp + Skew

\* With the requirement on, a gated room has at most as many members as tokens
\* for that room were spent, as long as no token was taken twice: no token
\* lets in a second session or a session of another room, even when members
\* leave, joins fail after their token was spent, or the store is full.
MembersHaveTokens ==
  (Enforcing /\ again = {}) =>
    \A r \in Gated : Population(r) <= Cardinality({c \in spent : c.room = r})

\* The state is well formed, the replay store within its cap, and every member
\* of a gated room is there on a token of its own.
GateHolds == TypeOK /\ MembersHaveTokens

\* A join is refused because of a full replay store only while that many spent
\* tokens could still be replayed: expired entries are swept first, so the cap
\* never holds up joins longer than it must.
FullOfLiveNonces ==
  [][VerifyJoin /\ Verdict(job) = "cap_replay_store_full"
       => Cardinality({c.nonce : c \in {d \in spent : d.exp + Skew > now}}) >= MaxNonces
    ]_capVars

\* "NULL for every error that had none" (the handler's comment at
\* error_reason): only a refusal for the capability carries a reason.
ReasonOnlyOnRefusal == reply.reason # "" => reply.code = "join_cap"

\* With the requirement off, or on without a key, a join is answered as if the
\* mixer knew of no capabilities; with both, the one difference is that a join
\* may be refused for its capability, which changes no membership.
ShadowIsPlain == Plain!PlainSpec
=============================================================================
