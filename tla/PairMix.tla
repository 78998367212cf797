-------------------------------- MODULE PairMix --------------------------------
(***************************************************************************)
(* Which sources one listener hears, and which speaker dots it is shown    *)
(* (src/src/janus_slvoice.c).  The room's tick decides for every source    *)
(* whether it is mixed: the fail-closed rule, the simulator's moderation   *)
(* mutes, the viewer's own mutes, the simulator's exclusions, and last the *)
(* distance cull with its hysteresis table.  The sender derives the dots   *)
(* from the same tables afterwards, without repeating the tick's decision. *)
(*                                                                         *)
(* The tick and the sender hold room->mutex, so each is one step.  A       *)
(* source is a session; an agent (its display) is what the tables are      *)
(* keyed by, and two sessions of one agent overlap while a viewer logs in  *)
(* again.  The listener's PeerConnection is up and it is not in echo mode. *)
(* DotMerge is the sender's first pass: one dot per display from the       *)
(* sessions of the room.                                                   *)
(***************************************************************************)
EXTENDS DotMerge, FiniteSets

CONSTANTS
  Order,      \* the sessions of the sources, as room->participants iterates
  AgentOf,    \* the display each session joined with
  Me,         \* the listener
  Distances,  \* the distances each session may have from the listener (bound)
  Readd,      \* slv_spatial.readd_dist
  Cutoff,     \* slv_spatial.cutoff_dist
  MaxMix,     \* SLV_MAX_MIX: participants of a room, the listener included
  MaxAdj,     \* SLV_MAX_PEER_ADJ
  Spatial,    \* room->spatial_audio
  Enforced,   \* fail-closed in a room created with vis_authority
  Controls,   \* the viewer's per-source messages: sequences of [agent, mute]
  Moderated,  \* the agents the simulator may mute (bound)
  Excludable, \* the agents it may exclude (bound)
  Standings,  \* what the authority may make of the agents in row 4
  MaxTick     \* bound on room->tick_seq

Src == Range(Order)
Agents == {AgentOf[s] : s \in Src}
Nowhere == -1

ASSUME PairMixAssumption ==
  /\ Order \in Seq(Src)
  /\ Distances \in [Src -> SUBSET Nat] /\ {Readd, Cutoff, MaxTick, MaxMix, MaxAdj} \subseteq Nat
  /\ Readd < Cutoff  \* the settings are refused otherwise
  /\ MaxMix > 0 /\ Me \notin Agents
  /\ {Spatial, Enforced} \subseteq BOOLEAN
  /\ \A c \in Controls : \A i \in DOMAIN c :
       c[i].agent \in Agents /\ c[i].mute \in {"on", "off", "keep"}
  /\ Moderated \subseteq Agents /\ Excludable \subseteq Agents
  /\ Standings \subseteq SUBSET (Agents \union {Me})

VARIABLES
  present,    \* the sessions in room->participants beside the listener
  place,      \* each source's distance, Nowhere without "sp" and "lp"
  located,    \* the listener has sent its geometry
  ctl,        \* peer_ctl: agent -> muted by the viewer
  modMuted,   \* mod_muted
  excluded,   \* excluded
  standing,   \* the agents in row 4, the listener included
  hyst,       \* cull_hyst: [agent, culled, seen]
  tick        \* room->tick_seq

pairVars == <<present, place, located, ctl, modMuted, excluded, standing, hyst, tick>>

OwnMuted(a) == a \in DOMAIN ctl /\ ctl[a]

----------------------------------------------------------------------------
(* The viewer's controls.                                                   *)

\* One adjustment: found or added, and dropped when the table is full.
Adjusted(c, adj) ==
  IF adj.agent \notin DOMAIN c /\ Cardinality(DOMAIN c) >= MaxAdj THEN c
  ELSE [a \in DOMAIN c \union {adj.agent} |->
          IF a # adj.agent THEN c[a]
          ELSE IF adj.mute = "keep" THEN a \in DOMAIN c /\ c[a] ELSE adj.mute = "on"]

Control ==
  /\ \E msg \in Controls : ctl' = FoldLeft(Adjusted, ctl, msg)
  /\ UNCHANGED <<present, place, located, modMuted, excluded, standing, hyst, tick>>

----------------------------------------------------------------------------
(* The distance cull.                                                       *)

SlotsOf(h, a) == {k \in DOMAIN h : h[k].agent = a}

Latch_inverted(was, d) == IF was THEN ~(d > Readd) ELSE d > Cutoff  \* (mutant) un-culls past the re-add distance

\* The hysteresis of a pair that has a slot.
Latch(was, d) == IF was THEN ~(d < Readd) ELSE d > Cutoff

\* The slot the eviction takes: the first with the oldest stamp.
Victim(h) ==
  CHOOSE k \in DOMAIN h : \A j \in DOMAIN h :
    h[k].seen < h[j].seen \/ (h[k].seen = h[j].seen /\ k <= j)

Added_small(h, new) ==  \* (mutant) one slot short of the participants
  IF Len(h) < MaxMix - 1 THEN Append(h, new) ELSE [h EXCEPT ![Victim(h)] = new]

\* A slot for a pair that has none.
Added(h, new) ==
  IF Len(h) < MaxMix THEN Append(h, new) ELSE [h EXCEPT ![Victim(h)] = new]

\* The table after tick `now` evaluated agent a at distance d: a pair seen for the first time
\* has no band.
DistanceCull(h, a, d, now) ==
  LET own == SlotsOf(h, a)
  IN  IF own = {} THEN Added(h, [agent |-> a, culled |-> d > Cutoff, seen |-> now])
      ELSE [k \in DOMAIN h |->
              IF k \in own THEN [h[k] EXCEPT !.culled = Latch(@, d), !.seen = now] ELSE h[k]]

CulledIn(h, a) == \E k \in SlotsOf(h, a) : h[k].culled

----------------------------------------------------------------------------
(* The tick.                                                                *)

\* The stages before the distance cull: a pair they drop never reaches it.
Dropped(s) ==
  \/ Enforced /\ ~({Me, AgentOf[s]} \subseteq standing)
  \/ AgentOf[s] \in modMuted
  \/ OwnMuted(AgentOf[s])
  \/ AgentOf[s] \in excluded

\* The spatial stage applies to a pair with geometry on both sides.
Placed(s) == Spatial /\ located /\ place[s] # Nowhere

\* One source of the listener's pass, acc = [hyst, mixed] so far.
MixPair(acc, s) ==
  CASE s \notin present \/ Dropped(s) -> acc
    [] s \in present /\ ~Dropped(s) /\ ~Placed(s) -> [acc EXCEPT !.mixed = @ \union {s}]
    [] OTHER ->
         LET h == DistanceCull(acc.hyst, AgentOf[s], place[s], tick + 1)
         IN  [hyst |-> h,
              mixed |-> IF CulledIn(h, AgentOf[s]) THEN acc.mixed ELSE acc.mixed \union {s}]

\* The listener's pass: the table it leaves and the sources summed into the
\* frame the listener is sent.
Pass ==
  LET after[i \in 0 .. Len(Order)] ==
        IF i = 0 THEN [hyst |-> hyst, mixed |-> {}] ELSE MixPair(after[i - 1], Order[i])
  IN  after[Len(Order)]

Tick ==
  /\ tick < MaxTick
  /\ hyst' = Pass.hyst
  /\ tick' = tick + 1
  /\ UNCHANGED <<present, place, located, ctl, modMuted, excluded, standing>>

----------------------------------------------------------------------------
(* The dots.                                                                *)

Latched_stale(a) == CulledIn(hyst, a)  \* (mutant) any latch counts, old ones too

\* The last tick evaluated the pair and culled it.
Latched(a) == \E k \in SlotsOf(hyst, a) : hyst[k].culled /\ hyst[k].seen = tick

\* What the listener's batch says of an agent: its levels, {p:0,v:false}, nothing.
Dot(a) ==
  CASE \/ a \notin {AgentOf[s] : s \in present}
       \/ a \in excluded
       \/ Enforced /\ ~({Me, a} \subseteq standing) -> "absent"
    [] \/ a \in modMuted
       \/ OwnMuted(a)
       \/ Latched(a) -> "dark"
    [] OTHER -> "lit"

----------------------------------------------------------------------------
(* The room around the pair.                                                *)

SourceJoins(s) ==
  /\ s \notin present
  /\ Cardinality(present) < MaxMix - 1
  /\ present' = present \union {s}
  /\ UNCHANGED <<place, located, ctl, modMuted, excluded, standing, hyst, tick>>

\* Leaving resets the source's own geometry; the listener's tables stay.
SourceLeaves(s) ==
  /\ s \in present
  /\ present' = present \ {s}
  /\ place' = [place EXCEPT ![s] = Nowhere]
  /\ UNCHANGED <<located, ctl, modMuted, excluded, standing, hyst, tick>>

\* Geometry is merged into last_data: once sent it stays until the session leaves.
Move(s, d) ==
  /\ s \in present /\ place[s] # d
  /\ place' = [place EXCEPT ![s] = d]
  /\ UNCHANGED <<present, located, ctl, modMuted, excluded, standing, hyst, tick>>

Locate ==
  /\ ~located
  /\ located' = TRUE
  /\ UNCHANGED <<present, place, ctl, modMuted, excluded, standing, hyst, tick>>

\* peer_ctl_batch: one pair of the mute or of the visibility column.
ModMute(a) ==
  /\ modMuted' = IF a \in modMuted THEN modMuted \ {a} ELSE modMuted \union {a}
  /\ UNCHANGED <<present, place, located, ctl, excluded, standing, hyst, tick>>

Exclude(a) ==
  /\ excluded' = IF a \in excluded THEN excluded \ {a} ELSE excluded \union {a}
  /\ UNCHANGED <<present, place, located, ctl, modMuted, standing, hyst, tick>>

StandingChanges ==
  /\ Enforced
  /\ \E t \in Standings \ {standing} : standing' = t
  /\ UNCHANGED <<present, place, located, ctl, modMuted, excluded, hyst, tick>>

\* The listener leaves and comes back: the room's state is reset, the viewer's own kept.
Rejoin ==
  /\ excluded' = {} /\ modMuted' = {} /\ located' = FALSE
  /\ hyst' = <<>>
  /\ UNCHANGED <<present, place, ctl, standing, tick>>

Init ==
  /\ present = {}
  /\ place = [s \in Src |-> Nowhere] /\ located = FALSE
  /\ ctl = <<>> /\ modMuted = {} /\ excluded = {}
  /\ standing = Agents \union {Me}
  /\ hyst = <<>> /\ tick = 0

Next ==
  \/ \E s \in Src : SourceJoins(s) \/ SourceLeaves(s)
  \/ \E s \in Src : \E d \in Distances[s] : Move(s, d)
  \/ \E a \in Moderated : ModMute(a)
  \/ \E a \in Excludable : Exclude(a)
  \/ Locate \/ Control \/ StandingChanges \/ Rejoin \/ Tick

PairSpec == Init /\ [][Next]_pairVars

----------------------------------------------------------------------------
(* Properties.                                                              *)

\* A batch built right after a tick lights exactly the agents the tick mixed for the listener:
\* the dots follow the audio although the sender never sees the tick's decisions, only the
\* tables it left (dot_batch_for_listener_locked).
DotsMatchMix ==
  [][tick' # tick => \A a \in Agents :
       (Dot(a)' = "lit") <=> (\E s \in Pass.mixed : AgentOf[s] = a)]_pairVars

\* A source past the cutoff is never mixed, whatever its latch went through: the falloff
\* would take the power of a negative number and poison the frame (spatial_pair_locked).
HeardWithinCutoff ==
  [][tick' # tick => \A s \in Pass.mixed : Placed(s) => place[s] <= Cutoff]_pairVars

\* The agents whose distance the next tick evaluates, and those the last tick did.
Evaluated == {AgentOf[s] : s \in {t \in present : Placed(t) /\ ~Dropped(t)}}
Recent == {a \in Agents : \E k \in SlotsOf(hyst, a) : hyst[k].seen = tick}

\* Between two ticks that both evaluate a pair, its cull state only changes by crossing the
\* far edge of the band outwards or the near edge inwards: no flapping inside the band.  The
\* eviction never takes the latch from such a pair as long as the table has a slot for every
\* agent that one of the two ticks evaluates.
NoFlapInBand ==
  [][tick' # tick /\ Cardinality(Evaluated \union Recent) <= MaxMix =>
       \A s \in present : \A k \in SlotsOf(hyst, AgentOf[s]) :
         hyst[k].seen = tick /\ Placed(s) /\ ~Dropped(s) =>
           /\ CulledIn(hyst', AgentOf[s]) /\ ~hyst[k].culled => place[s] > Cutoff
           /\ ~CulledIn(hyst', AgentOf[s]) /\ hyst[k].culled => place[s] < Readd]_pairVars

\* In whatever order the sender walks the sessions of the room, the listener's among them, and
\* whichever of them share a display, a display's dot shows the loudest of its live sessions,
\* speaking if one of them is, and an orphan only when there is nobody else: the merge is
\* deterministic, as the comment at the sender's walk says.
MergeIsOrderFree == \A n \in WrongWalks : n > Cardinality(present) + 1
=============================================================================
