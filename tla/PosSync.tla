-------------------------------- MODULE PosSync --------------------------------
(***************************************************************************)
(* Positions reported by the simulator (src/src/possync.c and the peer_pos *)
(* request of src/src/janus_slvoice.c).  A simulator instance, told apart  *)
(* by its epoch, numbers its requests; the room stores the points and      *)
(* every tick compares each viewer's own claim with them.                  *)
(*                                                                         *)
(* Participants move in one dimension, at most Speed a second, and viewers *)
(* report where they are: nobody lies here, so every claim the comparison  *)
(* would correct is a false alarm.  Requests may be lost, overtaken and    *)
(* repeated; a first delivery takes at most Delay seconds.                 *)
(***************************************************************************)
EXTENDS Integers, FiniteSets, Sequences, FiniteSetsExt

CONSTANTS
  Agents,      \* whom a simulator may name
  Viewers,     \* those who are participants of the room
  Epochs,      \* the simulator instances, 0 for one that sends no room_epoch
  Kinds,       \* requests: [names, full], the agents named and whether it is a full one
  MaxSent,     \* bound on the requests sent
  StoreMax,    \* SLV_POS_STORE_MAX
  StaleAfter,  \* SLV_POS_STALE_MS
  Speed,       \* an entry's speed_cm_s, and how fast participants really move
  Tol,         \* an entry's tolerance_cm
  Delay,       \* how long a request takes at most
  Lag,         \* a viewer reports a new position within this time
  Span,        \* participants move within 0 .. Span (bound)
  MaxTime,     \* bound on the clock
  MaxAccepted  \* bound on the requests accepted

ASSUME PosSyncAssumption ==
  /\ IsFiniteSet(Agents) /\ Viewers \subseteq Agents /\ Epochs \subseteq Nat
  /\ \A k \in Kinds : k.names \subseteq Agents /\ k.full \in BOOLEAN
  /\ {MaxSent, StoreMax, StaleAfter, Speed, Tol, Delay, Lag, Span, MaxTime, MaxAccepted} \subseteq Nat
  /\ Tol >= Speed * Delay /\ Tol >= Speed * Lag

None == -1

VARIABLES
  now,       \* the monotonic clock
  where,     \* where each participant is; nobody looks where the other agents are
  claim,     \* last_data.sp: [at, when], at = None before the first
  sent,      \* the requests the simulators have sent
  store,     \* pos_store: agent -> [at, recv, seq]
  stats,     \* pos_stats: [have, epoch, seq]
  auth,      \* vis_auth_epoch, 0 with none, whether it is fresh, and (history) ever was not
  clamped,   \* whom the last tick found out of place (slv_pos_part_stats)
  accepted   \* history: the requests accepted, in order

posVars == <<now, where, claim, sent, store, stats, auth, clamped, accepted>>

NextSeq(e) == 1 + Cardinality({m \in sent : m.epoch = e})

----------------------------------------------------------------------------
(* The environment.                                                         *)

\* A participant moves a little, time passes.  A viewer keeps its claim up to date.
Second ==
  /\ now < MaxTime
  /\ \A a \in Viewers : claim[a].at # None => now + 1 - claim[a].when <= Lag
  /\ where' \in {w \in [Viewers -> 0 .. Span] :
                   \A a \in Viewers : w[a] - where[a] \in -Speed .. Speed}
  /\ now' = now + 1
  /\ UNCHANGED <<claim, sent, store, stats, auth, clamped, accepted>>

\* The viewer's SLData: the position is merged into last_data.
Claim(a) ==
  /\ claim[a] # [at |-> where[a], when |-> now]
  /\ claim' = [claim EXCEPT ![a] = [at |-> where[a], when |-> now]]
  /\ UNCHANGED <<now, where, sent, store, stats, auth, clamped, accepted>>

\* A simulator samples the participants it names.
Send(e) ==
  /\ Cardinality(sent) < MaxSent
  /\ \E k \in Kinds :
       sent' = sent \union {[epoch |-> e, seq |-> NextSeq(e), full |-> k.full,
                             at |-> [a \in k.names |-> IF a \in Viewers THEN where[a] ELSE 0], when |-> now]}
  /\ UNCHANGED <<now, where, claim, store, stats, auth, clamped, accepted>>

\* The room's authority, as VisAuthority has it: adopted by a batch or a heartbeat.
Adopt(e) ==
  /\ e # 0
  /\ e > auth.epoch \/ ~auth.fresh
  /\ auth' = [auth EXCEPT !.epoch = e, !.fresh = TRUE]
  /\ UNCHANGED <<now, where, claim, sent, store, stats, clamped, accepted>>

Lapse ==
  /\ auth.fresh
  /\ auth' = [auth EXCEPT !.fresh = FALSE, !.lapsed = TRUE]
  /\ UNCHANGED <<now, where, claim, sent, store, stats, clamped, accepted>>

----------------------------------------------------------------------------
(* The request.                                                             *)

Refusal_repeat(m) ==  \* (mutant) a repeated request is not late
  CASE m.epoch # 0 /\ auth.epoch # 0 /\ m.epoch < auth.epoch /\ auth.fresh -> "stale_epoch"
    [] stats.have /\ m.epoch = stats.epoch /\ m.seq < stats.seq -> "stale_seq"
    [] OTHER -> "none"

\* An older instance beside a fresh newer authority, a late or repeated request.
Refusal(m) ==
  CASE m.epoch # 0 /\ auth.epoch # 0 /\ m.epoch < auth.epoch /\ auth.fresh -> "stale_epoch"
    [] stats.have /\ m.epoch = stats.epoch /\ m.seq <= stats.seq -> "stale_seq"
    [] OTHER -> "none"

\* The points a request starts from: none when it is full, or another instance's first.
Base_mixed(m) == IF m.full THEN <<>> ELSE store  \* (mutant) points of two instances mix

Base(m) ==
  IF m.full \/ (stats.have /\ m.epoch # stats.epoch) THEN <<>> ELSE store

\* The agents of a request that get a slot: new ones only while there is room.  Which of several
\* new ones do depends on the order of the JSON object.
Fitting(base, m) ==
  LET new == DOMAIN m.at \ DOMAIN base
      room == StoreMax - Cardinality(DOMAIN base)
  IN  {(DOMAIN m.at \intersect DOMAIN base) \union fit :
         fit \in {f \in SUBSET new :
                    Cardinality(f) = IF Cardinality(new) <= room THEN Cardinality(new) ELSE room}}

Applied(base, m, fit) ==
  [a \in DOMAIN base \union fit |->
     IF a \in fit THEN [at |-> m.at[a], recv |-> now, seq |-> m.seq] ELSE base[a]]

Refused(m) ==
  /\ Refusal(m) # "none"
  /\ UNCHANGED posVars

Accept(m) ==
  /\ Refusal(m) = "none"
  /\ Len(accepted) < MaxAccepted
  /\ \E fit \in Fitting(Base(m), m) : store' = Applied(Base(m), m, fit)
  /\ stats' = [have |-> TRUE, epoch |-> m.epoch, seq |-> m.seq]
  /\ accepted' = Append(accepted, m)
  /\ UNCHANGED <<now, where, claim, sent, auth, clamped>>

\* On time, or once more later on; an instance announces itself to the room (a batch or a
\* heartbeat) before it sends positions.
Arrives(m) ==
  /\ m.when + Delay >= now \/ \E i \in DOMAIN accepted : accepted[i] = m
  /\ m.epoch # 0 => auth.epoch >= m.epoch

PeerPos == \E m \in sent : Arrives(m) /\ (Refused(m) \/ Accept(m))

----------------------------------------------------------------------------
(* The tick.                                                                *)

Abs(x) == IF x < 0 THEN -x ELSE x

Allowance_fixed(p) == Tol  \* (mutant) the tolerance does not grow with the point's age

\* slv_pos_tolerance_now
Allowance(p) == Tol + Speed * (now - p.recv)

\* slv_pos_observe: is the claim of a participant with a fresh point further off than allowed?
OutOfPlace(a) ==
  /\ a \in DOMAIN store /\ now - store[a].recv <= StaleAfter
  /\ claim[a].at # None
  /\ Abs(claim[a].at - store[a].at) > Allowance(store[a])

\* A room that never accepted a request is not observed.
Tick ==
  /\ stats.have
  /\ clamped' = {a \in Viewers : OutOfPlace(a)}
  /\ UNCHANGED <<now, where, claim, sent, store, stats, auth, accepted>>

Init ==
  /\ now = 0
  /\ where \in [Viewers -> 0 .. Span]
  /\ claim = [a \in Viewers |-> [at |-> None, when |-> 0]]
  /\ sent = {} /\ store = <<>> /\ accepted = <<>>
  /\ stats = [have |-> FALSE, epoch |-> 0, seq |-> 0]
  /\ auth = [epoch |-> 0, fresh |-> FALSE, lapsed |-> FALSE]
  /\ clamped = {}

Next ==
  \/ Second \/ Lapse \/ PeerPos \/ Tick
  \/ \E a \in Viewers : Claim(a)
  \/ \E e \in Epochs : Send(e) \/ Adopt(e)

PosSpec == Init /\ [][Next]_posVars

----------------------------------------------------------------------------
(* Properties.                                                              *)

\* Nobody who moves as the simulator allows and reports where it is is ever counted as
\* out of place: points are never older than the age the tolerance was grown for
\* (slv_pos_observe, slv_pos_tolerance_now, the sequence check of handle_peer_pos).  A room
\* whose authority lapsed may take an old request for a new one.
NoFalseClamp == ~auth.lapsed => clamped = {}

\* The requests of the instance the store belongs to, since the last change of instance.
Log ==
  {accepted[i] : i \in {i \in DOMAIN accepted :
     \A j \in i .. Len(accepted) : accepted[j].epoch = stats.epoch}}

LastFull == Max({m.seq : m \in {x \in Log : x.full}} \union {0})

Naming(a) == {m \in Log : m.seq >= LastFull /\ a \in DOMAIN m.at}

\* The store is what a reader of the log would reconstruct: for every participant the point of
\* the newest request that names it, none from before the last full one, none of another
\* instance; only a store at its limit may miss one (slv_pos_store_apply).
StoreIsLatest ==
  /\ Cardinality(DOMAIN store) <= StoreMax
  /\ \A a \in DOMAIN store :
       /\ Naming(a) # {}
       /\ store[a].seq = Max({m.seq : m \in Naming(a)})
       /\ \A m \in Naming(a) : m.seq = store[a].seq => store[a].at = m.at[a]
  /\ \A a \in Agents \ DOMAIN store :
       Naming(a) # {} => Cardinality(DOMAIN store) = StoreMax

\* A request takes effect at most once, and a repeated one is ignored for good, across a change
\* of instance too, as long as the room's authority never lapsed: the last sequence is kept for
\* one instance only, and it is the fresh authority that keeps the older ones out.
AcceptedOnce ==
  ~auth.lapsed => \A i, j \in DOMAIN accepted : accepted[i] = accepted[j] => i = j
=============================================================================
