----------------------------- MODULE PresenceProofs -----------------------------
(***************************************************************************)
(* The rosters of Presence for any number of viewers, batches and changes  *)
(* of standing, in any order of joins, leaves, channels and passes.        *)
(***************************************************************************)
EXTENDS Presence, TLAPS

\* No avatar has two sessions, and a session leaves before it joins again.
Alone ==
  /\ ~OverlapRejoin
  /\ \A s, t \in Sessions : DisplayOf[s] = DisplayOf[t] => s = t

----------------------------------------------------------------------------
(* The inductive invariant.                                                 *)

\* A session in the room is not leaving it, and only one on its way out has
\* been reported gone.
SessionShape ==
  /\ member \subseteq Sessions
  /\ leaving \in [Sessions -> LeavePhases]
  /\ DOMAIN cols = Sessions
  /\ \A s \in member : leaving[s] = "no"
  /\ announce \subseteq Sessions
  /\ \A s \in said : s \in Sessions /\ leaving[s] = "pending"

\* A channel inside data_ready is not open yet.
ChannelsOK ==
  /\ fence \in [Sessions -> {"no", "room", "noroom"}]
  /\ up \subseteq Sessions /\ dcOpen \subseteq Sessions
  /\ attached \subseteq up /\ ownJoin \subseteq attached
  /\ confirmed \subseteq attached \ ownJoin
  /\ \A s \in Sessions : fence[s] # "no" => s \notin dcOpen

StandingOK == ok \subseteq Displays /\ okLast \subseteq Sessions

\* The displays anybody joins with
Known == {DisplayOf[p] : p \in Sessions}

\* A viewer shows avatars only, and nothing without an open channel it listens on.
RowsShape ==
  /\ rows \in [Sessions -> SUBSET Known] /\ grey \in [Sessions -> SUBSET Known]
  /\ DOMAIN untold = Sessions /\ DOMAIN unmarked = Sessions
  /\ \A s \in Sessions : grey[s] \subseteq rows[s]
  /\ \A s \in Sessions : rows[s] = {} \/ s \in dcOpen \intersect attached

\* By the sender's last pass the viewer of t should show p.
Listed(t, p) ==
  /\ p \in Participants \ said /\ p # t
  /\ DisplayOf[p] \notin cols[t].excl
  /\ VisibleLast(t, p)

\* Unless the viewer of t is untold of p, it shows p only if p is listed, and if it watches it
\* shows p once p has been announced.
PairOK(t, p) ==
  DisplayOf[p] \notin untold[t] =>
    /\ DisplayOf[p] \in rows[t] => Listed(t, p)
    /\ Watching(t) /\ Listed(t, p) /\ p \notin announce => DisplayOf[p] \in rows[t]

Views == \A t \in member : \A p \in Sessions \ {t} : PairOK(t, p)

----------------------------------------------------------------------------
(* What frames do to a viewer.                                              *)

\* Who is in the room is listed there, and everybody has a display.
LEMMA InRoom ==
  ASSUME SessionShape
  PROVE  /\ member \subseteq Participants /\ Participants \subseteq Sessions
         /\ \A s \in Sessions : DisplayOf[s] \in Displays
  BY FeedAssumption DEF SessionShape, Participants

\* The viewer of t gets the frames f, the step touches the lagging displays lag.
Sees(t, f, lag) ==
  /\ rows'[t] = (rows[t] \union f.j) \ f.l
  /\ grey'[t] = ((grey[t] \union f.jm \union f.m) \intersect rows'[t]) \ f.um
  /\ untold'[t] = (untold[t] \ (f.j \union f.l)) \union (f.j \ Staying) \union lag
  /\ unmarked'[t] =
       (unmarked[t] \ ((f.j \ rows[t]) \union f.jm \union f.m \union f.um)) \union f.kept
         \union (((f.j \ rows[t]) \intersect cols'[t].mute) \ (f.jm \union f.m))

SeesNothing(t) ==
  rows'[t] = rows[t] /\ grey'[t] = grey[t] /\ untold'[t] = untold[t] /\ unmarked'[t] = unmarked[t]

\* Frames reach the viewers that listen on an open channel, and nobody else.
LEMMA RelayFacts ==
  ASSUME NEW open, NEW frames, NEW lag, Relay(open, frames, lag)
  PROVE  /\ rows' = [t \in Sessions |-> rows'[t]] /\ grey' = [t \in Sessions |-> grey'[t]]
         /\ DOMAIN untold' = Sessions /\ DOMAIN unmarked' = Sessions
         /\ \A t \in Sessions :
              IF t \in open \intersect attached THEN Sees(t, frames[t], lag[t]) ELSE SeesNothing(t)
<1>1. /\ rows' = [t \in Sessions |-> rows'[t]] /\ grey' = [t \in Sessions |-> grey'[t]]
      /\ DOMAIN untold' = Sessions /\ DOMAIN unmarked' = Sessions
  BY DEF Relay
<1>2. ASSUME NEW t \in Sessions, t \in open \intersect attached PROVE Sees(t, frames[t], lag[t])
  <2>1. /\ rows'[t] = RowsAfter(t, frames[t]) /\ grey'[t] = GreyAfter(t, frames[t])
        /\ untold'[t] = UntoldAfter(t, frames[t], lag[t])
        /\ unmarked'[t] = UnmarkedAfter(t, frames[t], cols'[t].mute)
    BY <1>2 DEF Relay
  <2> QED BY <2>1 DEF Sees, RowsAfter, GreyAfter, UntoldAfter, UnmarkedAfter
<1>3. ASSUME NEW t \in Sessions, t \notin open \intersect attached PROVE SeesNothing(t)
  BY <1>3 DEF Relay, SeesNothing
<1> QED BY <1>1, <1>2, <1>3

\* Frames that join avatars only keep the shape of the rows.
LEMMA RelayRows ==
  ASSUME RowsShape, NEW frames, NEW lag, NEW open, Relay(open, frames, lag),
         open = dcOpen', dcOpen \subseteq dcOpen', attached' = attached,
         \A t \in Sessions : frames[t].j \subseteq Known
  PROVE  RowsShape'
<1>1. ASSUME NEW t \in Sessions
      PROVE  /\ rows'[t] \subseteq Known /\ grey'[t] \subseteq rows'[t]
             /\ rows'[t] = {} \/ t \in dcOpen' \intersect attached'
  <2>1. rows[t] \subseteq Known /\ grey[t] \subseteq rows[t]
        /\ (rows[t] = {} \/ t \in dcOpen \intersect attached)
    BY DEF RowsShape
  <2>2. CASE t \in open \intersect attached
    <3>1. Sees(t, frames[t], lag[t])
      BY <2>2, RelayFacts
    <3>2. frames[t].j \subseteq Known
      OBVIOUS
    <3> QED BY <2>1, <2>2, <3>1, <3>2 DEF Sees
  <2>3. CASE t \notin open \intersect attached
    <3>1. SeesNothing(t)
      BY <2>3, RelayFacts
    <3> QED BY <2>1, <3>1 DEF SeesNothing
  <2> QED BY <2>2, <2>3
<1>2. /\ rows' = [t \in Sessions |-> rows'[t]] /\ grey' = [t \in Sessions |-> grey'[t]]
      /\ DOMAIN untold' = Sessions /\ DOMAIN unmarked' = Sessions
  BY RelayFacts
<1>3. rows' \in [Sessions -> SUBSET Known] /\ grey' \in [Sessions -> SUBSET Known]
  BY <1>1, <1>2
<1>4. Known' = Known
  BY DEF Known
<1> QED BY <1>1, <1>2, <1>3, <1>4 DEF RowsShape

\* What the frames f have to say about the row of p.
Tells(t, p, f, lag) ==
  LET d == DisplayOf[p]
  IN  /\ d \in f.j /\ d \in Staying /\ d \notin lag => Listed(t, p)' /\ d \notin f.l
      /\ d \in f.l /\ d \notin lag => ~Listed(t, p)'
      /\ d \notin f.j \union f.l \union lag \union untold[t] =>
           /\ d \in rows[t] => Listed(t, p)'
           /\ Watching(t)' /\ Listed(t, p)' /\ p \notin announce' => d \in rows[t]

\* ... and about its mark.
Marks(t, f) ==
  LET old == cols[t].mute
      new == cols'[t].mute
  IN  /\ f.jm \union f.m \subseteq new
      /\ f.um \intersect (f.jm \union f.m \union new) = {}
      /\ \A d : d \notin f.jm \union f.m \union f.um \union f.kept => (d \in old <=> d \in new)

\* Frames that say it keep every viewer right.
LEMMA RelayViews ==
  ASSUME SessionShape, RowsShape, Views, NEW frames, NEW lag, NEW open, Relay(open, frames, lag),
         open = dcOpen', dcOpen \subseteq dcOpen', attached' = attached, member' = member,
         \A t \in member \intersect open \intersect attached :
           \A p \in Sessions \ {t} : Tells(t, p, frames[t], lag[t])
  PROVE  Views'
<1> SUFFICES ASSUME NEW t \in member, NEW p \in Sessions \ {t} PROVE PairOK(t, p)'
  BY DEF Views
<1> DEFINE d == DisplayOf[p]
<1>1. t \in Sessions
  BY DEF SessionShape
<1>2. CASE t \in open \intersect attached
  <2> DEFINE f == frames[t]
             l == lag[t]
  <2>1. Sees(t, f, l) /\ Tells(t, p, f, l)
    BY <1>1, <1>2, RelayFacts
  <2>2. /\ rows'[t] = (rows[t] \union f.j) \ f.l
        /\ untold'[t] = (untold[t] \ (f.j \union f.l)) \union (f.j \ Staying) \union l
    BY <2>1 DEF Sees
  <2>3. /\ d \in f.j /\ d \in Staying /\ d \notin l => Listed(t, p)' /\ d \notin f.l
        /\ d \in f.l /\ d \notin l => ~Listed(t, p)'
        /\ d \notin f.j \union f.l \union l \union untold[t] =>
             /\ d \in rows[t] => Listed(t, p)'
             /\ Watching(t)' /\ Listed(t, p)' /\ p \notin announce' => d \in rows[t]
    BY <2>1 DEF Tells
  <2> HIDE DEF f, l, d
  <2>4. d \notin untold'[t] =>
          /\ d \in rows'[t] => Listed(t, p)'
          /\ Watching(t)' /\ Listed(t, p)' /\ p \notin announce' => d \in rows'[t]
    BY <2>2, <2>3
  <2> QED BY <2>4 DEF PairOK, d
<1>3. CASE t \notin open \intersect attached
  <2>1. SeesNothing(t)
    BY <1>1, <1>3, RelayFacts
  <2>2. rows'[t] = {}
    BY <1>1, <1>3, <2>1 DEF SeesNothing, RowsShape
  <2>3. ~Watching(t)'
    BY <1>3 DEF Watching, Proven
  <2> QED BY <2>2, <2>3 DEF PairOK
<1> QED BY <1>2, <1>3

\* Frames that mark what is muted keep the marks of every viewer right.
LEMMA RelayMarks ==
  ASSUME SessionShape, RowsShape, GreyExact, NEW frames, NEW lag, NEW open,
         Relay(open, frames, lag), dcOpen \subseteq open, member' = member,
         \A t \in member : Marks(t, frames[t])
  PROVE  GreyExact'
<1> SUFFICES ASSUME NEW t \in member, NEW d \in rows'[t] \ unmarked'[t]
             PROVE  d \in grey'[t] <=> d \in cols'[t].mute
  BY DEF GreyExact
<1>1. t \in Sessions
  BY DEF SessionShape
<1>2. CASE t \in open \intersect attached
  <2> DEFINE f == frames[t]
             old == cols[t].mute
             new == cols'[t].mute
  <2>1. Sees(t, f, lag[t]) /\ Marks(t, f)
    BY <1>1, <1>2, RelayFacts
  <2>2. /\ rows'[t] = (rows[t] \union f.j) \ f.l
        /\ grey'[t] = ((grey[t] \union f.jm \union f.m) \intersect rows'[t]) \ f.um
        /\ unmarked'[t] =
             (unmarked[t] \ ((f.j \ rows[t]) \union f.jm \union f.m \union f.um)) \union f.kept
               \union (((f.j \ rows[t]) \intersect new) \ (f.jm \union f.m))
    BY <2>1 DEF Sees
  <2>3. /\ f.jm \union f.m \subseteq new /\ f.um \intersect (f.jm \union f.m \union new) = {}
        /\ d \notin f.jm \union f.m \union f.um \union f.kept => (d \in old <=> d \in new)
    BY <2>1 DEF Marks
  <2>4. grey[t] \subseteq rows[t] /\ (d \in rows[t] \ unmarked[t] => (d \in grey[t] <=> d \in old))
    BY <1>1 DEF RowsShape, GreyExact
  <2> HIDE DEF f, old, new
  <2>5. CASE d \in f.jm \union f.m \union f.um
    BY <2>2, <2>3, <2>5 DEF new
  <2>6. CASE d \notin f.jm \union f.m \union f.um /\ d \notin rows[t]
    BY <2>2, <2>4, <2>6 DEF new
  <2>7. CASE d \notin f.jm \union f.m \union f.um /\ d \in rows[t]
    <3>1. d \notin unmarked[t] /\ d \notin f.kept
      BY <2>2, <2>7
    <3>2. d \in grey'[t] <=> d \in grey[t]
      BY <2>2, <2>7
    <3> QED BY <2>3, <2>4, <2>7, <3>1, <3>2 DEF new
  <2> QED BY <2>5, <2>6, <2>7
<1>3. CASE t \notin open \intersect attached
  BY <1>1, <1>3, RelayFacts DEF SeesNothing, RowsShape
<1> QED BY <1>2, <1>3

\* A step that says nothing about p and leaves it listed as it was keeps its row right.
LEMMA TellsNothing ==
  ASSUME NEW t \in member, NEW p \in Sessions \ {t}, PairOK(t, p), NEW f, NEW lag,
         DisplayOf[p] \notin f.j \union f.l,
         Listed(t, p)' <=> Listed(t, p), Watching(t)' => Watching(t), p \in announce => p \in announce'
  PROVE  Tells(t, p, f, lag)
  BY DEF Tells, PairOK

\* The same for the whole room in a step without frames.
LEMMA QuietViews ==
  ASSUME Views, member' \subseteq member, announce \subseteq announce',
         \A t \in member' : /\ rows'[t] = rows[t] /\ untold'[t] = untold[t]
                            /\ Watching(t)' => Watching(t)
                            /\ \A p \in Sessions \ {t} : Listed(t, p)' <=> Listed(t, p)
  PROVE  Views'
  BY DEF Views, PairOK

\* Without a new member, a row or a mark there is nothing to keep right.
LEMMA QuietMarks ==
  ASSUME GreyExact, member' \subseteq member,
         \A t \in member' : /\ rows'[t] = rows[t] /\ grey'[t] = grey[t]
                            /\ unmarked'[t] = unmarked[t] /\ cols'[t] = cols[t]
  PROVE  GreyExact'
  BY DEF GreyExact
----------------------------------------------------------------------------
(* Sessions, channels and standing.                                         *)

\* A leave takes the session out of member, not yet out of the room.
LEMMA LeaveStarts ==
  ASSUME SessionShape, NEW s \in Sessions, LeaveStart(s)
  PROVE  /\ s \in member /\ leaving[s] = "no" /\ member' = member \ {s}
         /\ leaving' = [leaving EXCEPT ![s] = "pending"]
         /\ leaving'[s] = "pending" /\ \A t \in Sessions \ {s} : leaving'[t] = leaving[t]
         /\ cols' = cols /\ Participants' = Participants
<1>1. /\ s \in member /\ leaving[s] = "no" /\ member' = member \ {s} /\ cols' = cols
      /\ leaving' = [leaving EXCEPT ![s] = "pending"]
  BY DEF LeaveStart
<1>2. leaving'[s] = "pending" /\ \A t \in Sessions \ {s} : leaving'[t] = leaving[t]
  BY <1>1 DEF SessionShape
<1>3. Participants' = Participants
  BY <1>1, <1>2 DEF Participants, SessionShape
<1> QED BY <1>1, <1>2, <1>3

\* The removal takes it out of the room.
LEMMA LeaveRemoves ==
  ASSUME SessionShape, NEW s \in Sessions, LeaveRemove(s)
  PROVE  /\ s \notin member /\ leaving[s] = "pending" /\ member' = member /\ cols' = cols
         /\ leaving'[s] = "removed" /\ \A t \in Sessions \ {s} : leaving'[t] = leaving[t]
         /\ leaving' \in [Sessions -> LeavePhases]
         /\ Participants' = Participants \ {s}
<1>1. /\ leaving[s] = "pending" /\ member' = member /\ cols' = cols
      /\ leaving' = [leaving EXCEPT ![s] = "removed"]
  BY DEF LeaveRemove
<1>2. leaving'[s] = "removed" /\ \A t \in Sessions \ {s} : leaving'[t] = leaving[t]
  BY <1>1 DEF SessionShape
<1>3. s \notin member
  BY <1>1 DEF SessionShape
<1>4. Participants' = Participants \ {s}
  BY <1>1, <1>2, <1>3 DEF Participants, SessionShape
<1>5. leaving' \in [Sessions -> LeavePhases]
  BY <1>1 DEF SessionShape, LeavePhases
<1> QED BY <1>1, <1>2, <1>3, <1>4, <1>5

\* The reset touches a session that is out of the room.
LEMMA LeaveResets ==
  ASSUME SessionShape, NEW s \in Sessions, LeaveReset(s)
  PROVE  /\ s \notin member /\ leaving[s] = "removed" /\ member' = member
         /\ DOMAIN cols' = Sessions /\ \A t \in Sessions \ {s} : cols'[t] = cols[t]
         /\ leaving'[s] = "no" /\ \A t \in Sessions \ {s} : leaving'[t] = leaving[t]
         /\ leaving' \in [Sessions -> LeavePhases]
         /\ Participants' = Participants /\ s \notin Participants
<1>1. /\ leaving[s] = "removed" /\ member' = member /\ cols' = [cols EXCEPT ![s] = NoCols]
      /\ leaving' = [leaving EXCEPT ![s] = "no"]
  BY DEF LeaveReset
<1>2. leaving'[s] = "no" /\ \A t \in Sessions \ {s} : leaving'[t] = leaving[t]
  BY <1>1 DEF SessionShape
<1>3. s \notin member
  BY <1>1 DEF SessionShape
<1>4. Participants' = Participants /\ s \notin Participants
  BY <1>1, <1>2, <1>3 DEF Participants, SessionShape
<1>5. leaving' \in [Sessions -> LeavePhases]
  BY <1>1 DEF SessionShape, LeavePhases
<1>6. DOMAIN cols' = Sessions /\ \A t \in Sessions \ {s} : cols'[t] = cols[t]
  BY <1>1 DEF SessionShape
<1> QED BY <1>1, <1>2, <1>3, <1>4, <1>5, <1>6

\* A join adds the session to the room.
LEMMA JoinAdds ==
  ASSUME ~OverlapRejoin, SessionShape, NEW s \in Sessions, Join(s)
  PROVE  /\ s \notin member /\ leaving[s] = "no" /\ s \notin Participants
         /\ member' = member \union {s} /\ leaving' = leaving
         /\ DOMAIN cols' = Sessions /\ \A t \in Sessions \ {s} : cols'[t] = cols[t]
         /\ Participants' = Participants \union {s}
<1>1. /\ s \notin member /\ leaving[s] = "no" /\ member' = member \union {s} /\ leaving' = leaving
  BY DEF Join, JoinWith
<1>2. DOMAIN cols' = Sessions /\ \A t \in Sessions \ {s} : cols'[t] = cols[t]
  BY DEF Join, JoinWith, SessionShape
<1>3. s \notin Participants /\ Participants' = Participants \union {s}
  BY <1>1 DEF Participants
<1> QED BY <1>1, <1>2, <1>3

\* Sessions keep their shape.
LEMMA SessionStays ==
  ASSUME ~OverlapRejoin, SessionShape, [PresenceNext]_presenceVars
  PROVE  SessionShape'
<1>1. ASSUME NEW s \in Sessions, Join(s) PROVE SessionShape'
  <2>1. announce' = {s} /\ said' = said
    BY <1>1 DEF Join
  <2> QED BY <1>1, <2>1, JoinAdds DEF SessionShape
<1>2. ASSUME NEW s \in Sessions, LeaveStart(s), UNCHANGED <<announce, said>>
      PROVE  SessionShape'
  <2>1. leaving' \in [Sessions -> LeavePhases]
    BY <1>2, LeaveStarts DEF SessionShape, LeavePhases
  <2>2. /\ leaving[s] = "no" /\ member' = member \ {s} /\ cols' = cols
        /\ \A t \in Sessions \ {s} : leaving'[t] = leaving[t]
    BY <1>2, LeaveStarts
  <2>3. \A t \in said : t \in Sessions \ {s} /\ leaving[t] = "pending"
    BY <2>2 DEF SessionShape
  <2> QED BY <1>2, <2>1, <2>2, <2>3 DEF SessionShape
<1>3. ASSUME NEW s \in Sessions, RemoveLeft(s) PROVE SessionShape'
  <2>1. announce' = announce /\ said' = said \ {s} /\ LeaveRemove(s)
    BY <1>3 DEF RemoveLeft
  <2> QED BY <2>1, LeaveRemoves DEF SessionShape
<1>4. ASSUME NEW s \in Sessions, ResetLeft(s) PROVE SessionShape'
  <2>1. announce' = announce /\ said' = said /\ LeaveReset(s)
    BY <1>4 DEF ResetLeft
  <2> QED BY <2>1, LeaveResets DEF SessionShape
<1>5. ASSUME NEW s \in Sessions, SayLeft(s) PROVE SessionShape'
  <2>1. UNCHANGED feedVars /\ announce' = announce /\ said' = said \union {s} /\ leaving[s] = "pending"
    BY <1>5 DEF SayLeft
  <2> QED BY <2>1 DEF SessionShape, feedVars
<1>6. ASSUME NEW b \in Batches, BatchArrives(b) PROVE SessionShape'
  <2>1. UNCHANGED <<member, leaving, announce, said>> /\ DOMAIN cols' = Sessions
    BY <1>6 DEF BatchArrives, ApplyBatch
  <2> QED BY <2>1 DEF SessionShape
<1>7. CASE UNCHANGED <<feedVars, said>> /\ announce' \subseteq announce
  BY <1>7 DEF SessionShape, feedVars
<1>8. ASSUME NEW s \in Sessions, Leave(s) PROVE SessionShape'
  <2>1. LeaveStart(s) /\ UNCHANGED <<announce, said>>
    BY <1>8 DEF Leave
  <2> QED BY <2>1, <1>2
<1>9. ASSUME NEW s \in Sessions, Hangup(s) PROVE SessionShape'
  <2>1. UNCHANGED <<announce, said>> /\ (LeaveStart(s) \/ UNCHANGED feedVars)
    BY <1>9 DEF Hangup
  <2> QED BY <2>1, <1>2, <1>7
<1>10. ASSUME NEW s \in Sessions,
              Announce(s) \/ Connect(s) \/ DataReady(s) \/ Fence(s) \/ Attach(s) \/ IncomingJoin(s)
       PROVE  SessionShape'
  <2>1. UNCHANGED <<feedVars, said>> /\ announce' \subseteq announce
    BY <1>10 DEF Announce, Connect, DataReady, Fence, Attach, IncomingJoin
  <2> QED BY <2>1, <1>7
<1>11. ASSUME (\E d \in Displays : StandingChanges(d)) \/ SenderPass \/ UNCHANGED presenceVars
       PROVE  SessionShape'
  <2>1. UNCHANGED <<feedVars, said>> /\ announce' \subseteq announce
    BY <1>11 DEF StandingChanges, SenderPass, presenceVars
  <2> QED BY <2>1, <1>7
<1> QED BY <1>1, <1>3, <1>4, <1>5, <1>6, <1>8, <1>9, <1>10, <1>11 DEF PresenceNext, SessionStep

\* Channels open and close as they should.
LEMMA ChannelsStay ==
  ASSUME SessionShape, ChannelsOK, [PresenceNext]_presenceVars
  PROVE  ChannelsOK'
<1>1. CASE UNCHANGED channelVars
  BY <1>1 DEF ChannelsOK, channelVars
<1>2. ASSUME NEW s \in Sessions, Join(s) PROVE ChannelsOK'
  BY <1>1, <1>2 DEF Join
<1>3. ASSUME NEW s \in Sessions, Hangup(s) PROVE ChannelsOK'
  <2>1. /\ up' = up \ {s} /\ dcOpen' = dcOpen \ {s} /\ confirmed' = confirmed \ {s}
        /\ attached' = attached \ {s} /\ ownJoin' = ownJoin \ {s} /\ fence' = fence
    BY <1>3 DEF Hangup
  <2> QED BY <2>1 DEF ChannelsOK
<1>4. ASSUME NEW s \in Sessions, SayLeft(s) \/ ResetLeft(s) PROVE ChannelsOK'
  <2>1. confirmed' = confirmed \ {s} /\ UNCHANGED <<up, fence, dcOpen, attached, ownJoin>>
    BY <1>4 DEF SayLeft, ResetLeft, LeaveReset, feedVars
  <2> QED BY <2>1 DEF ChannelsOK
<1>5. ASSUME NEW s \in Sessions, Connect(s) PROVE ChannelsOK'
  <2>1. up' = up \union {s} /\ UNCHANGED <<fence, dcOpen, confirmed, attached, ownJoin>>
    BY <1>5 DEF Connect, feedVars
  <2> QED BY <2>1 DEF ChannelsOK
<1>6. ASSUME NEW s \in Sessions, DataReady(s) PROVE ChannelsOK'
  <2>1. /\ s \in up \ dcOpen
        /\ fence' = [fence EXCEPT ![s] = IF s \in member THEN "room" ELSE "noroom"]
        /\ UNCHANGED <<up, dcOpen, confirmed, attached, ownJoin>>
    BY <1>6 DEF DataReady, feedVars
  <2> QED BY <2>1 DEF ChannelsOK
<1>7. ASSUME NEW s \in Sessions, Fence(s) PROVE ChannelsOK'
  <2>1. /\ fence[s] # "no" /\ fence' = [fence EXCEPT ![s] = "no"] /\ dcOpen' = dcOpen \union {s}
        /\ UNCHANGED <<up, confirmed, attached, ownJoin>>
    BY <1>7 DEF Fence, feedVars
  <2> QED BY <2>1 DEF ChannelsOK
<1>8. ASSUME NEW s \in Sessions, Attach(s) PROVE ChannelsOK'
  <2>1. /\ s \in up \ attached /\ attached' = attached \union {s} /\ ownJoin' = ownJoin \union {s}
        /\ UNCHANGED <<up, fence, dcOpen, confirmed>>
    BY <1>8 DEF Attach, feedVars
  <2> QED BY <2>1 DEF ChannelsOK
<1>9. ASSUME NEW s \in Sessions, IncomingJoin(s) PROVE ChannelsOK'
  <2>1. /\ s \in ownJoin /\ ownJoin' = ownJoin \ {s} /\ confirmed' = confirmed \union {s}
        /\ UNCHANGED <<up, fence, dcOpen, attached>>
    BY <1>9 DEF IncomingJoin, feedVars
  <2> QED BY <2>1 DEF ChannelsOK
<1>10. ASSUME NEW s \in Sessions, Announce(s) \/ Leave(s) \/ RemoveLeft(s) PROVE ChannelsOK'
  <2>1. UNCHANGED channelVars
    BY <1>10 DEF Announce, Leave, LeaveStart, RemoveLeft, LeaveRemove, feedVars
  <2> QED BY <1>1, <2>1
<1>11. ASSUME \/ \E b \in Batches : BatchArrives(b)
              \/ \E d \in Displays : StandingChanges(d)
              \/ SenderPass \/ UNCHANGED presenceVars
       PROVE  ChannelsOK'
  <2>1. UNCHANGED channelVars
    BY <1>11 DEF BatchArrives, ApplyBatch, StandingChanges, SenderPass, presenceVars, feedVars
  <2> QED BY <1>1, <2>1
<1> QED BY <1>2, <1>3, <1>4, <1>5, <1>6, <1>7, <1>8, <1>9, <1>10, <1>11
        DEF PresenceNext, SessionStep

\* Standing is a set of displays, the last pass's one of sessions.
LEMMA StandingOKStays ==
  ASSUME SessionShape, StandingOK, [PresenceNext]_presenceVars
  PROVE  StandingOK'
<1>1. ASSUME NEW s \in Sessions, SessionStep(s) \/ SayLeft(s) \/ RemoveLeft(s) \/ ResetLeft(s)
      PROVE  ok' = ok /\ okLast' \subseteq okLast \union {s}
  BY <1>1 DEF SessionStep, Join, Announce, Leave, Hangup, Connect, DataReady, Fence, Attach,
              IncomingJoin, SayLeft, RemoveLeft, ResetLeft
<1>2. CASE SenderPass
  BY <1>2, InRoom DEF SenderPass, StandingOK
<1>3. ASSUME NEW d \in Displays, StandingChanges(d) PROVE StandingOK'
  BY <1>3 DEF StandingChanges, StandingOK
<1>4. ASSUME (\E b \in Batches : BatchArrives(b)) \/ UNCHANGED presenceVars PROVE StandingOK'
  BY <1>4 DEF BatchArrives, presenceVars, StandingOK
<1> QED BY <1>1, <1>2, <1>3, <1>4 DEF PresenceNext, StandingOK
----------------------------------------------------------------------------
(* The steps that send frames.                                              *)

\* The rows and marks of all viewers: the rows for avatars with one session each.
ViewInv == RowsShape /\ GreyExact /\ (Alone => Views)

\* What may be seen of p is what the last pass reported, unless p lags.
LEMMA LagFacts ==
  ASSUME NEW t, NEW p \in Participants, DisplayOf[p] \notin Lagging(t)
  PROVE  Visible(DisplayOf[t], DisplayOf[p]) <=> VisibleLast(t, p)
  BY DEF Lagging, Visible, VisibleLast

\* A display is in the room, or stays in it, if its one session does.
LEMMA AloneFacts ==
  ASSUME Alone, SessionShape, NEW p \in Sessions
  PROVE  /\ DisplayOf[p] \in Staying <=> p \in Participants \ said
         /\ DisplayOf[p] \in {DisplayOf[q] : q \in Participants} <=> p \in Participants
<1>1. Participants \subseteq Sessions
  BY InRoom
<1> QED BY <1>1 DEF Alone, Staying

JoinedFrame(who) == [NoFrames EXCEPT !["j"] = {who}]
LeftFrame(who) == [NoFrames EXCEPT !["l"] = {who}]

NoMarks(f) == f.jm = {} /\ f.m = {} /\ f.um = {} /\ f.kept = {}

\* What push_presence sends carries no mark.
LEMMA FrameFacts ==
  ASSUME NEW who
  PROVE  /\ NoFrames.j = {} /\ NoFrames.l = {} /\ NoMarks(NoFrames)
         /\ JoinedFrame(who).j = {who} /\ JoinedFrame(who).l = {} /\ NoMarks(JoinedFrame(who))
         /\ LeftFrame(who).j = {} /\ LeftFrame(who).l = {who} /\ NoMarks(LeftFrame(who))
  BY DEF NoFrames, JoinedFrame, LeftFrame, NoMarks

\* Where no mute changes, frames without a mark have none to tell.
LEMMA NoMarksTold ==
  ASSUME NEW t, NEW f, NoMarks(f), cols' = cols
  PROVE  Marks(t, f)
  BY DEF NoMarks, Marks

\* A session is announced.
LEMMA AnnounceViews ==
  ASSUME SessionShape, ViewInv, NEW s \in Sessions, Announce(s)
  PROVE  ViewInv'
<1> DEFINE who == DisplayOf[s]
           frames == [t \in Sessions |-> IF Told(t, who) THEN JoinedFrame(who) ELSE NoFrames]
           lag == [t \in Sessions |-> Lagging(t) \intersect {who}]
<1>1. /\ Relay(dcOpen, frames, lag) /\ announce' = announce \ {s}
      /\ UNCHANGED <<member, leaving, cols, said, dcOpen, attached, ownJoin, okLast>>
  BY DEF Announce, Push, JoinedFrame, feedVars, channelVars
<1>2. \A t \in Sessions :
        /\ frames[t].j = IF Told(t, who) THEN {who} ELSE {}
        /\ frames[t].l = {} /\ NoMarks(frames[t]) /\ lag[t] = Lagging(t) \intersect {who}
  BY FrameFacts
<1> HIDE DEF frames, lag
<1>3. RowsShape'
  <2>1. \A t \in Sessions : frames[t].j \subseteq Known
    BY <1>2 DEF Known
  <2> QED BY <1>1, <2>1, RelayRows DEF ViewInv
<1>4. GreyExact'
  <2>1. \A t \in member : Marks(t, frames[t])
    BY <1>1, <1>2, NoMarksTold DEF SessionShape
  <2> QED BY <1>1, <2>1, RelayMarks DEF ViewInv
<1>5. ASSUME Alone PROVE Views'
  <2>1. ASSUME NEW t \in member, NEW p \in Sessions \ {t} PROVE Tells(t, p, frames[t], lag[t])
    <3>1. PairOK(t, p) /\ t \in Sessions /\ t \in Participants
      BY <1>5, InRoom DEF ViewInv, Views
    <3>2. (Listed(t, p)' <=> Listed(t, p)) /\ (Watching(t)' <=> Watching(t))
      BY <1>1 DEF Listed, Watching, Proven, Participants, VisibleLast
    <3>3. CASE p # s
      <4>1. DisplayOf[p] # who /\ (p \in announce => p \in announce')
        BY <1>1, <1>5, <3>3 DEF Alone
      <4> QED BY <1>2, <3>1, <3>2, <4>1, TellsNothing
    <3>4. CASE p = s
      <4>1. DisplayOf[t] # who
        BY <1>5, <3>1, <3>4 DEF Alone
      <4>2. Told(t, who) <=> who \notin cols[t].excl /\ Visible(DisplayOf[t], who)
        BY <3>1, <4>1 DEF Told
      <4>3. s \in Participants /\ who \notin lag[t] =>
              (Visible(DisplayOf[t], who) <=> VisibleLast(t, s))
        BY <1>2, <3>1, LagFacts
      <4>4. who \in Staying <=> s \in Participants \ said
        BY <1>5, AloneFacts
      <4>5. Listed(t, s) <=> s \in Participants \ said /\ who \notin cols[t].excl /\ VisibleLast(t, s)
        BY <3>4 DEF Listed
      <4> QED BY <1>2, <3>1, <3>2, <3>4, <4>2, <4>3, <4>4, <4>5 DEF Tells, PairOK
    <3> QED BY <3>3, <3>4
  <2> QED BY <1>1, <1>5, <2>1, RelayViews DEF ViewInv
<1> QED BY <1>3, <1>4, <1>5 DEF ViewInv

\* The "l" of a leaving session takes its row away.
LEMMA SayLeftViews ==
  ASSUME SessionShape, ViewInv, NEW s \in Sessions, SayLeft(s)
  PROVE  ViewInv'
<1> DEFINE who == DisplayOf[s]
           frames == [t \in Sessions |-> IF Told(t, who) THEN LeftFrame(who) ELSE NoFrames]
           lag == [t \in Sessions |-> Lagging(t) \intersect {who}]
<1>1. /\ Relay(dcOpen, frames, lag) /\ said' = said \union {s} /\ s \notin said
      /\ UNCHANGED <<member, leaving, cols, announce, dcOpen, attached, ownJoin, okLast>>
  BY DEF SayLeft, Push, LeftFrame, feedVars
<1>2. \A t \in Sessions :
        /\ frames[t].l = IF Told(t, who) THEN {who} ELSE {}
        /\ frames[t].j = {} /\ NoMarks(frames[t]) /\ lag[t] = Lagging(t) \intersect {who}
  BY FrameFacts
<1> HIDE DEF frames, lag
<1>3. RowsShape'
  <2>1. \A t \in Sessions : frames[t].j \subseteq Known
    BY <1>2
  <2> QED BY <1>1, <2>1, RelayRows DEF ViewInv
<1>4. GreyExact'
  <2>1. \A t \in member : Marks(t, frames[t])
    BY <1>1, <1>2, NoMarksTold DEF SessionShape
  <2> QED BY <1>1, <2>1, RelayMarks DEF ViewInv
<1>5. ASSUME Alone PROVE Views'
  <2>1. ASSUME NEW t \in member, NEW p \in Sessions \ {t} PROVE Tells(t, p, frames[t], lag[t])
    <3>1. PairOK(t, p) /\ t \in Sessions /\ t \in Participants
      BY <1>5, InRoom DEF ViewInv, Views
    <3>2. /\ Listed(t, p)' <=> Listed(t, p) /\ p # s
          /\ Watching(t)' <=> Watching(t)
      BY <1>1 DEF Listed, Watching, Proven, Participants, VisibleLast
    <3>3. CASE p # s
      <4>1. DisplayOf[p] # who /\ (p \in announce => p \in announce')
        BY <1>1, <1>5, <3>3 DEF Alone
      <4> QED BY <1>2, <3>1, <3>2, <3>3, <4>1, TellsNothing
    <3>4. CASE p = s
      <4>1. DisplayOf[t] # who
        BY <1>5, <3>1, <3>4 DEF Alone
      <4>2. Told(t, who) <=> who \notin cols[t].excl /\ Visible(DisplayOf[t], who)
        BY <3>1, <4>1 DEF Told
      <4>3. s \in Participants /\ who \notin lag[t] =>
              (Visible(DisplayOf[t], who) <=> VisibleLast(t, s))
        BY <1>2, <3>1, LagFacts
      <4>4. Listed(t, s) => s \in Participants /\ who \notin cols[t].excl /\ VisibleLast(t, s)
        BY DEF Listed
      <4> QED BY <1>2, <3>1, <3>2, <3>4, <4>2, <4>3, <4>4 DEF Tells, PairOK
    <3> QED BY <3>3, <3>4
  <2> QED BY <1>1, <1>5, <2>1, RelayViews DEF ViewInv
<1> QED BY <1>3, <1>4, <1>5 DEF ViewInv

\* The displays a backlog lists are those of the others that s may see.
Shown(s) ==
  {d \in {DisplayOf[p] : p \in Participants \ {s}} :
     d \notin cols[s].excl /\ Visible(DisplayOf[s], d)}

\* A backlog names everybody the listener may see and marks who is muted.
LEMMA BacklogViews ==
  ASSUME SessionShape, ViewInv, NEW s \in Sessions, NEW open, SendBacklog(s, open),
         open = dcOpen', dcOpen' = dcOpen \/ dcOpen' = dcOpen \union {s},
         ownJoin' = ownJoin \/ ownJoin' = ownJoin \ {s},
         UNCHANGED <<member, leaving, cols, announce, said, attached, okLast>>
  PROVE  ViewInv'
<1> DEFINE frames == [t \in Sessions |-> IF t = s THEN Backlog(s) ELSE NoFrames]
           lag == [t \in Sessions |-> IF t = s THEN Lagging(s) \ cols[s].excl ELSE {}]
<1>1. Relay(open, frames, lag)
  BY DEF SendBacklog
<1>2. /\ Backlog(s).j = Shown(s) /\ Backlog(s).jm = Shown(s) \intersect cols[s].mute
      /\ Backlog(s).l = {} /\ Backlog(s).m = {} /\ Backlog(s).um = {} /\ Backlog(s).kept = {}
  BY DEF Backlog, NoFrames, Shown
<1>3. /\ frames[s] = Backlog(s) /\ lag[s] = Lagging(s) \ cols[s].excl
      /\ \A t \in Sessions \ {s} : frames[t] = NoFrames /\ lag[t] = {}
  OBVIOUS
<1> HIDE DEF frames, lag
<1>4. RowsShape'
  <2>1. Shown(s) \subseteq Known
    BY InRoom DEF Shown, Known
  <2>2. \A t \in Sessions : frames[t].j \subseteq Known
    BY <1>2, <1>3, <2>1, FrameFacts
  <2> QED BY <1>1, <2>2, RelayRows DEF ViewInv
<1>5. GreyExact'
  <2>1. Marks(s, frames[s])
    BY <1>2, <1>3 DEF Marks
  <2>2. \A t \in member \ {s} : Marks(t, frames[t])
    BY <1>3, FrameFacts, NoMarksTold DEF SessionShape
  <2>3. \A t \in member : Marks(t, frames[t])
    BY <2>1, <2>2
  <2> QED BY <1>1, <2>3, RelayMarks DEF ViewInv
<1>6. ASSUME Alone PROVE Views'
  <2>1. ASSUME NEW t \in member, NEW p \in Sessions \ {t} PROVE Tells(t, p, frames[t], lag[t])
    <3>1. PairOK(t, p) /\ t \in Sessions /\ t \in Participants
      BY <1>6, InRoom DEF ViewInv, Views
    <3>2. (Listed(t, p)' <=> Listed(t, p)) /\ (p \in announce => p \in announce')
      BY DEF Listed, Participants, VisibleLast
    <3>3. CASE t # s
      <4>1. Watching(t)' => Watching(t)
        BY <3>3 DEF Watching, Proven
      <4>2. frames[t].j = {} /\ frames[t].l = {}
        BY <1>3, <3>1, <3>3, FrameFacts
      <4> QED BY <3>1, <3>2, <4>1, <4>2, TellsNothing
    <3>4. CASE t = s
      <4> DEFINE d == DisplayOf[p]
      <4>1. Participants \subseteq Sessions
        BY InRoom
      <4>2. d \in Shown(s) <=>
              p \in Participants /\ d \notin cols[s].excl /\ Visible(DisplayOf[s], d)
        BY <1>6, <3>4, <4>1 DEF Shown, Alone
      <4>3. p \in Participants /\ d \notin Lagging(s) => (Visible(DisplayOf[s], d) <=> VisibleLast(s, p))
        BY LagFacts
      <4>4. d \in Staying <=> p \in Participants \ said
        BY <1>6, AloneFacts
      <4>5. Listed(s, p) <=> p \in Participants \ said /\ d \notin cols[s].excl /\ VisibleLast(s, p)
        BY <3>4 DEF Listed
      <4>6. frames[s].j = Shown(s) /\ frames[s].l = {} /\ lag[s] = Lagging(s) \ cols[s].excl
        BY <1>2, <1>3
      <4>7. PairOK(s, p) /\ (Listed(s, p)' <=> Listed(s, p))
        BY <3>1, <3>2, <3>4
      <4>8. d \in Shown(s) /\ d \in Staying /\ d \notin lag[s] => Listed(s, p)
        BY <4>2, <4>3, <4>4, <4>5, <4>6
      <4>9. Listed(s, p) /\ d \notin lag[s] => d \in Shown(s)
        BY <4>2, <4>3, <4>5, <4>6
      <4>10. d \notin untold[s] /\ d \in rows[s] => Listed(s, p)
        BY <4>7 DEF PairOK
      <4> QED BY <3>4, <4>6, <4>7, <4>8, <4>9, <4>10 DEF Tells
    <3> QED BY <3>3, <3>4
  <2>2. dcOpen \subseteq dcOpen'
    OBVIOUS
  <2> QED BY <1>1, <1>6, <2>1, <2>2, RelayViews DEF ViewInv
<1> QED BY <1>4, <1>5, <1>6 DEF ViewInv
\* A batch tells a viewer of everybody it hides, shows, mutes and unmutes.
LEMMA BatchViews ==
  ASSUME SessionShape, ViewInv, NEW b \in Batches, BatchArrives(b)
  PROVE  ViewInv'
<1> DEFINE frames == [t \in Sessions |-> BatchFrames(b, t)]
           lag == [t \in Sessions |-> Lagging(t) \intersect BatchTouches(b, t)]
           present == {DisplayOf[q] : q \in Participants}
           seen(t) == {d \in Displays : Visible(DisplayOf[t], d)}
<1>1. /\ Relay(dcOpen, frames, lag)
      /\ UNCHANGED <<member, leaving, announce, said, dcOpen, attached, ownJoin, okLast>>
  BY DEF BatchArrives, ApplyBatch, channelVars
<1>2. \A t \in Sessions :
        /\ cols'[t].excl = ChannelAfter(b, "excl", {}, t)
        /\ cols'[t].mute = ChannelAfter(b, "mute", {}, t)
  BY DEF BatchArrives, ApplyBatch
<1>3. ASSUME NEW t \in Sessions
      PROVE  LET old == cols[t]  new == cols'[t]
             IN  /\ frames[t].j = (old.excl \ new.excl) \intersect present \intersect seen(t)
                 /\ frames[t].l = (new.excl \ old.excl) \intersect present \intersect seen(t)
                 /\ frames[t].jm = {}
                 /\ frames[t].m = (new.mute \ old.mute) \intersect seen(t)
                 /\ frames[t].um = (old.mute \ new.mute) \intersect seen(t)
                 /\ frames[t].kept = ((new.mute \ old.mute) \union (old.mute \ new.mute)) \ seen(t)
                 /\ lag[t] = Lagging(t) \intersect
                               ((new.excl \ old.excl) \union (old.excl \ new.excl))
  <2>1. frames[t] = BatchFrames(b, t) /\ lag[t] = Lagging(t) \intersect BatchTouches(b, t)
    OBVIOUS
  <2> QED BY <1>2, <2>1 DEF BatchFrames, NoFrames, BatchTouches
<1> HIDE DEF frames, lag
<1>4. RowsShape'
  <2>1. present \subseteq Known
    BY InRoom DEF Known
  <2>2. \A t \in Sessions : frames[t].j \subseteq Known
    BY <1>3, <2>1
  <2> QED BY <1>1, <2>2, RelayRows DEF ViewInv
<1>5. GreyExact'
  <2>1. \A t \in Sessions : Marks(t, frames[t])
    BY <1>3 DEF Marks
  <2>2. \A t \in member : Marks(t, frames[t])
    BY <2>1 DEF SessionShape
  <2> QED BY <1>1, <2>2, RelayMarks DEF ViewInv
<1>6. ASSUME Alone PROVE Views'
  <2>1. ASSUME NEW t \in member, NEW p \in Sessions \ {t} PROVE Tells(t, p, frames[t], lag[t])
    <3> DEFINE d == DisplayOf[p]
               old == cols[t].excl
               new == cols'[t].excl
               f == frames[t]
    <3>1. PairOK(t, p) /\ t \in Sessions /\ (Watching(t)' <=> Watching(t)) /\ announce' = announce
      BY <1>1, <1>6, InRoom DEF ViewInv, Views, Watching, Proven
    <3>2. /\ f.j = (old \ new) \intersect present \intersect seen(t)
          /\ f.l = (new \ old) \intersect present \intersect seen(t)
          /\ lag[t] = Lagging(t) \intersect ((new \ old) \union (old \ new))
      BY <1>3, <3>1
    <3>3. d \in seen(t) <=> Visible(DisplayOf[t], d)
      BY InRoom
    <3>4. (d \in Staying <=> p \in Participants \ said) /\ (d \in present <=> p \in Participants)
      BY <1>6, AloneFacts
    <3>5. p \in Participants /\ d \notin Lagging(t) => (Visible(DisplayOf[t], d) <=> VisibleLast(t, p))
      BY LagFacts
    <3>6. Listed(t, p) <=> p \in Participants \ said /\ d \notin old /\ VisibleLast(t, p)
      BY DEF Listed
    <3>7. Listed(t, p)' <=> p \in Participants \ said /\ d \notin new /\ VisibleLast(t, p)
      BY <1>1 DEF Listed, Participants, VisibleLast
    <3>8. /\ d \notin untold[t] /\ d \in rows[t] => Listed(t, p)
          /\ d \notin untold[t] /\ Watching(t) /\ Listed(t, p) /\ p \notin announce => d \in rows[t]
      BY <3>1 DEF PairOK
    <3> HIDE DEF d, old, new, f, present, seen
    <3>9. d \in f.j /\ d \in Staying /\ d \notin lag[t] => Listed(t, p)' /\ d \notin f.l
      BY <3>2, <3>3, <3>4, <3>5, <3>7
    <3>10. d \in f.l => ~Listed(t, p)'
      BY <3>2, <3>7
    <3>11. d \notin f.j \union f.l \union lag[t] => (Listed(t, p)' <=> Listed(t, p))
      BY <3>2, <3>3, <3>4, <3>5, <3>6, <3>7
    <3> QED BY <3>1, <3>8, <3>9, <3>10, <3>11 DEF Tells, d, f
  <2> QED BY <1>1, <1>6, <2>1, RelayViews DEF ViewInv
<1> QED BY <1>4, <1>5, <1>6 DEF ViewInv

\* The sender's pass tells a viewer of everybody whose visibility to it changed.
LEMMA PassViews ==
  ASSUME SessionShape, ViewInv, SenderPass
  PROVE  ViewInv'
<1> DEFINE frames == [t \in Sessions |-> IF t \in Participants THEN StandingFrames(t) ELSE NoFrames]
           lag == [t \in Sessions |-> {}]
           others(t) == {q \in Participants : DisplayOf[q] \notin {DisplayOf[t]} \union cols[t].excl}
           before(t) == {q \in others(t) : {t, q} \subseteq okLast}
           after(t) == {q \in others(t) : {DisplayOf[t], DisplayOf[q]} \subseteq ok}
<1>1. /\ Enforced /\ Relay(dcOpen, frames, lag)
      /\ UNCHANGED <<member, leaving, cols, announce, said, dcOpen, attached, ownJoin>>
      /\ okLast' = (okLast \ Participants) \union {p \in Participants : DisplayOf[p] \in ok}
  BY DEF SenderPass, channelVars, feedVars
<1>2. \A t \in Sessions :
        /\ StandingFrames(t).j = {DisplayOf[q] : q \in after(t) \ before(t)}
        /\ StandingFrames(t).l = {DisplayOf[q] : q \in before(t) \ after(t)}
        /\ NoMarks(StandingFrames(t))
  BY DEF StandingFrames, NoFrames, NoMarks
<1>3. \A t \in Sessions :
        /\ frames[t] = IF t \in Participants THEN StandingFrames(t) ELSE NoFrames
        /\ lag[t] = {}
  OBVIOUS
<1>4. Participants \subseteq Sessions /\ Participants' = Participants
  BY <1>1, InRoom DEF Participants
<1> HIDE DEF frames, lag
<1>5. RowsShape'
  <2>1. \A t \in Sessions : StandingFrames(t).j \subseteq Known
    BY <1>2, <1>4 DEF Known
  <2>2. \A t \in Sessions : frames[t].j \subseteq Known
    BY <1>3, <2>1, FrameFacts
  <2> QED BY <1>1, <2>2, RelayRows DEF ViewInv
<1>6. GreyExact'
  <2>1. \A t \in Sessions : NoMarks(frames[t])
    BY <1>2, <1>3, FrameFacts
  <2>2. \A t \in member : Marks(t, frames[t])
    BY <1>1, <2>1, NoMarksTold DEF SessionShape
  <2> QED BY <1>1, <2>2, RelayMarks DEF ViewInv
<1>7. ASSUME Alone PROVE Views'
  <2>1. ASSUME NEW t \in member, NEW p \in Sessions \ {t} PROVE Tells(t, p, frames[t], lag[t])
    <3> DEFINE d == DisplayOf[p]
               f == frames[t]
    <3>1. PairOK(t, p) /\ t \in Sessions /\ t \in Participants /\ announce' = announce
      BY <1>1, <1>7, InRoom DEF ViewInv, Views
    <3>2. Watching(t)' <=> Watching(t)
      BY <1>1 DEF Watching, Proven
    <3>3. \A q \in Sessions : DisplayOf[q] = d => q = p
      BY <1>7 DEF Alone
    <3>4. d # DisplayOf[t] /\ before(t) \subseteq Sessions /\ after(t) \subseteq Sessions
      BY <1>4, <3>1, <3>3
    <3>5. (d \in f.j <=> p \in after(t) \ before(t)) /\ (d \in f.l <=> p \in before(t) \ after(t))
      BY <1>2, <1>3, <3>1, <3>3, <3>4
    <3>6. Listed(t, p) <=> p \in before(t) /\ p \notin said
      BY <1>1, <3>4 DEF Listed, VisibleLast
    <3>7. {t, p} \subseteq Participants => ({t, p} \subseteq okLast' <=> {DisplayOf[t], d} \subseteq ok)
      BY <1>1
    <3>8. Listed(t, p)' <=> p \in after(t) /\ p \notin said
      BY <1>1, <1>4, <3>1, <3>4, <3>7 DEF Listed, VisibleLast
    <3>9. d \in Staying <=> p \in Participants \ said
      BY <1>7, AloneFacts
    <3>10. /\ d \notin untold[t] /\ d \in rows[t] => Listed(t, p)
           /\ d \notin untold[t] /\ Watching(t) /\ Listed(t, p) /\ p \notin announce => d \in rows[t]
      BY <3>1 DEF PairOK
    <3> HIDE DEF d, f, before, after, others
    <3>11. d \in f.j /\ d \in Staying => Listed(t, p)' /\ d \notin f.l
      BY <3>5, <3>8, <3>9
    <3>12. d \in f.l => ~Listed(t, p)'
      BY <3>5, <3>8
    <3>13. d \notin f.j \union f.l => (Listed(t, p)' <=> Listed(t, p))
      BY <3>5, <3>6, <3>8
    <3> QED BY <3>1, <3>2, <3>10, <3>11, <3>12, <3>13 DEF Tells, d, f
  <2> QED BY <1>1, <1>7, <2>1, RelayViews DEF ViewInv
<1> QED BY <1>5, <1>6, <1>7 DEF ViewInv

\* The first readiness of a channel sends the backlog, or leaves the viewer untold.
LEMMA FenceViews ==
  ASSUME SessionShape, ChannelsOK, ViewInv, NEW s \in Sessions, Fence(s)
  PROVE  ViewInv'
<1>1. /\ dcOpen' = dcOpen \union {s} /\ s \notin dcOpen
      /\ UNCHANGED <<member, leaving, cols, announce, said, attached, ownJoin, okLast>>
  BY DEF Fence, feedVars, ChannelsOK
<1>2. CASE fence[s] = "room"
  <2>1. SendBacklog(s, dcOpen')
    BY <1>1, <1>2 DEF Fence
  <2> DEFINE open == dcOpen'
  <2>2. SendBacklog(s, open) /\ open = dcOpen'
    BY <2>1
  <2> HIDE DEF open
  <2> QED BY <1>1, <2>2, BacklogViews
<1>3. CASE fence[s] # "room"
  <2>1. /\ untold' = [untold EXCEPT ![s] = IF Proven(s) THEN Displays ELSE @]
        /\ UNCHANGED <<rows, grey, unmarked>>
    BY <1>3 DEF Fence
  <2>2. RowsShape'
    BY <1>1, <2>1 DEF ViewInv, RowsShape, Known
  <2>3. GreyExact'
    BY <1>1, <2>1 DEF ViewInv, GreyExact
  <2>4. ASSUME Alone, NEW t \in member, NEW p \in Sessions \ {t} PROVE PairOK(t, p)'
    <3>1. PairOK(t, p) /\ t \in Sessions /\ DisplayOf[p] \in Displays
      BY <2>4, InRoom DEF ViewInv, Views
    <3>2. (Listed(t, p)' <=> Listed(t, p)) /\ (Proven(t)' <=> Proven(t))
      BY <1>1 DEF Listed, Participants, VisibleLast, Proven
    <3>3. CASE t # s
      <4>1. untold'[t] = untold[t] /\ (Watching(t)' <=> Watching(t))
        BY <1>1, <2>1, <3>1, <3>2, <3>3 DEF Watching, ViewInv, RowsShape
      <4> QED BY <1>1, <2>1, <3>1, <3>2, <4>1 DEF PairOK
    <3>4. CASE t = s /\ Proven(s)
      <4>1. untold'[s] = Displays
        BY <2>1, <3>4 DEF ViewInv, RowsShape
      <4> QED BY <3>1, <3>4, <4>1 DEF PairOK
    <3>5. CASE t = s /\ ~Proven(s)
      <4>1. rows'[s] = {} /\ ~Watching(s)'
        BY <1>1, <2>1, <3>2, <3>5 DEF ViewInv, RowsShape, Watching
      <4> QED BY <3>5, <4>1 DEF PairOK
    <3> QED BY <3>3, <3>4, <3>5
  <2> QED BY <1>1, <2>2, <2>3, <2>4 DEF ViewInv, Views
<1> QED BY <1>2, <1>3

\* The viewer's own "j" gets it the backlog again.
LEMMA IncomingViews ==
  ASSUME SessionShape, ChannelsOK, ViewInv, NEW s \in Sessions, IncomingJoin(s)
  PROVE  ViewInv'
<1>1. /\ s \in ownJoin /\ ownJoin' = ownJoin \ {s} /\ s \notin confirmed
      /\ UNCHANGED <<member, leaving, cols, announce, said, okLast, dcOpen, attached>>
      /\ IF s \notin confirmed /\ s \in member THEN SendBacklog(s, dcOpen) ELSE UNCHANGED viewVars
  BY DEF IncomingJoin, feedVars, ChannelsOK
<1>2. CASE s \in member
  <2> DEFINE open == dcOpen
  <2>1. SendBacklog(s, open) /\ open = dcOpen'
    BY <1>1, <1>2
  <2> HIDE DEF open
  <2> QED BY <1>1, <2>1, BacklogViews
<1>3. CASE s \notin member
  <2>1. UNCHANGED <<rows, grey, untold, unmarked>>
    BY <1>1, <1>3 DEF viewVars
  <2>2. RowsShape'
    BY <1>1, <2>1 DEF ViewInv, RowsShape, Known
  <2>3. GreyExact'
    BY <1>1, <2>1 DEF ViewInv, GreyExact
  <2>4. ASSUME Alone PROVE Views'
    <3>1. \A t \in member' : /\ Watching(t)' => Watching(t)
                             /\ \A p \in Sessions \ {t} : Listed(t, p)' <=> Listed(t, p)
      BY <1>1, <1>3 DEF Listed, Participants, VisibleLast, Watching, Proven
    <3> QED BY <1>1, <2>1, <2>4, <3>1, QuietViews DEF ViewInv
  <2> QED BY <2>2, <2>3, <2>4 DEF ViewInv
<1> QED BY <1>2, <1>3
----------------------------------------------------------------------------
(* The steps without frames.                                                *)

\* The viewer of a session that joins is untold of the room unless its backlog is
\* still to come, and the session itself is listed once it is announced.
LEMMA JoinViews ==
  ASSUME ~OverlapRejoin, SessionShape, ViewInv, NEW s \in Sessions, Join(s)
  PROVE  ViewInv'
<1>1. /\ announce = {} /\ announce' = {s}
      /\ okLast' = (IF DisplayOf[s] \in ok THEN okLast \union {s} ELSE okLast \ {s})
      /\ untold' = [untold EXCEPT ![s] = IF Proven(s) /\ s \in dcOpen THEN Displays ELSE rows[s]]
      /\ unmarked' = [unmarked EXCEPT ![s] = rows[s]]
      /\ UNCHANGED <<said, dcOpen, attached, ownJoin, rows, grey>>
  BY DEF Join, channelVars
<1>2. /\ s \notin member /\ s \notin Participants /\ member' = member \union {s}
      /\ Participants' = Participants \union {s} /\ \A t \in Sessions \ {s} : cols'[t] = cols[t]
  BY JoinAdds
<1>3. RowsShape'
  BY <1>1 DEF ViewInv, RowsShape, Known
<1>4. /\ unmarked'[s] = rows[s]
      /\ untold'[s] = IF Proven(s) /\ s \in dcOpen THEN Displays ELSE rows[s]
      /\ \A t \in Sessions \ {s} : unmarked'[t] = unmarked[t] /\ untold'[t] = untold[t]
  BY <1>1 DEF ViewInv, RowsShape
<1>5. GreyExact'
  <2>1. ASSUME NEW t \in member', NEW d \in rows'[t] \ unmarked'[t]
        PROVE  d \in grey'[t] <=> d \in cols'[t].mute
    <3>1. CASE t = s
      BY <1>1, <1>4, <2>1, <3>1
    <3>2. CASE t # s
      <4>1. t \in member /\ t \in Sessions
        BY <1>2, <2>1, <3>2 DEF SessionShape
      <4> QED BY <1>1, <1>2, <1>4, <2>1, <3>2, <4>1 DEF ViewInv, GreyExact
    <3> QED BY <3>1, <3>2
  <2> QED BY <2>1 DEF GreyExact
<1>6. ASSUME Alone, NEW t \in member', NEW p \in Sessions \ {t} PROVE PairOK(t, p)'
  <2>1. DisplayOf[p] \in Displays
    BY InRoom
  <2>2. CASE t = s
    <3>1. Watching(s)' => Proven(s) /\ s \in dcOpen
      BY <1>1 DEF Watching, Proven
    <3> QED BY <1>1, <1>4, <2>1, <2>2, <3>1 DEF PairOK
  <2>3. CASE t # s
    <3>1. t \in member /\ t \in Sessions /\ PairOK(t, p)
      BY <1>2, <1>6, <2>3 DEF SessionShape, ViewInv, Views
    <3>2. (Watching(t)' <=> Watching(t)) /\ rows'[t] = rows[t] /\ untold'[t] = untold[t]
      BY <1>1, <1>2, <1>4, <2>3, <3>1 DEF Watching, Proven
    <3>3. CASE p = s
      <4>1. ~Listed(t, p)
        BY <1>2, <3>3 DEF Listed
      <4> QED BY <1>1, <3>1, <3>2, <3>3, <4>1 DEF PairOK
    <3>4. CASE p # s
      <4>1. VisibleLast(t, p)' <=> VisibleLast(t, p)
        BY <1>1, <2>3, <3>4 DEF VisibleLast
      <4>2. Listed(t, p)' <=> Listed(t, p)
        BY <1>1, <1>2, <2>3, <3>1, <3>4, <4>1 DEF Listed
      <4> QED BY <1>1, <3>1, <3>2, <4>2 DEF PairOK
    <3> QED BY <3>3, <3>4
  <2> QED BY <2>2, <2>3
<1> QED BY <1>3, <1>5, <1>6 DEF ViewInv, Views

\* Leaves, hangups and the steps of one channel leave the other viewers alone.
LEMMA QuietSteps ==
  ASSUME SessionShape, ChannelsOK, ViewInv, NEW s \in Sessions,
         \/ Leave(s) \/ Hangup(s) \/ RemoveLeft(s) \/ ResetLeft(s)
         \/ Connect(s) \/ DataReady(s) \/ Attach(s)
  PROVE  ViewInv'
<1>1. /\ announce' = announce /\ UNCHANGED <<untold, unmarked>>
      /\ \/ UNCHANGED <<rows, grey>>
         \/ rows' = [rows EXCEPT ![s] = {}] /\ grey' = [grey EXCEPT ![s] = {}]
  BY DEF Leave, Hangup, RemoveLeft, ResetLeft, Connect, DataReady, Attach, viewVars
<1>2. /\ \A t \in Sessions \ {s} :
           /\ t \in dcOpen' <=> t \in dcOpen
           /\ t \in attached' <=> t \in attached
           /\ t \in ownJoin' <=> t \in ownJoin
      /\ \/ dcOpen \subseteq dcOpen' /\ attached \subseteq attached'
         \/ rows' = [rows EXCEPT ![s] = {}]
  BY DEF Leave, Hangup, RemoveLeft, ResetLeft, Connect, DataReady, Attach, channelVars
<1>3. RowsShape'
  <2>1. \A t \in Sessions \ {s} : rows'[t] = rows[t] /\ grey'[t] = grey[t]
    BY <1>1 DEF ViewInv, RowsShape
  <2>2. (rows'[s] = rows[s] /\ grey'[s] = grey[s]) \/ (rows'[s] = {} /\ grey'[s] = {})
    BY <1>1 DEF ViewInv, RowsShape
  <2>3. \A t \in Sessions : grey'[t] \subseteq rows'[t]
    BY <2>1, <2>2 DEF ViewInv, RowsShape
  <2>4. \A t \in Sessions : rows'[t] = {} \/ t \in dcOpen' \intersect attached'
    BY <1>2, <2>1, <2>2 DEF ViewInv, RowsShape
  <2>5. rows' \in [Sessions -> SUBSET Known] /\ grey' \in [Sessions -> SUBSET Known]
    BY <1>1 DEF ViewInv, RowsShape
  <2>6. DOMAIN untold' = Sessions /\ DOMAIN unmarked' = Sessions /\ Known' = Known
    BY <1>1 DEF ViewInv, RowsShape, Known
  <2> QED BY <2>3, <2>4, <2>5, <2>6 DEF RowsShape
\* what is left of the room
<1>4. /\ member' \subseteq member
      /\ \A p \in Sessions : p \in Participants' \ said' <=> p \in Participants \ said
      /\ \A t \in member' : /\ cols'[t] = cols[t] /\ (t \in okLast' <=> t \in okLast)
                            /\ rows'[t] = rows[t] /\ grey'[t] = grey[t]
      /\ \A p \in Participants' : p \in okLast' <=> p \in okLast
  <2>1. CASE Leave(s) \/ (Hangup(s) /\ s \in member)
    <3>1. LeaveStart(s) /\ UNCHANGED <<said, okLast>>
      BY <2>1 DEF Leave, Hangup
    <3>2. member' = member \ {s} /\ cols' = cols /\ Participants' = Participants
      BY <3>1, LeaveStarts
    <3>3. \A t \in Sessions \ {s} : rows'[t] = rows[t] /\ grey'[t] = grey[t]
      BY <1>1 DEF ViewInv, RowsShape
    <3> QED BY <3>1, <3>2, <3>3 DEF SessionShape
  <2>2. CASE Hangup(s) /\ s \notin member
    <3>1. UNCHANGED <<member, leaving, cols, said, okLast>>
      BY <2>2 DEF Hangup, feedVars
    <3>2. \A t \in Sessions \ {s} : rows'[t] = rows[t] /\ grey'[t] = grey[t]
      BY <1>1 DEF ViewInv, RowsShape
    <3>3. Participants' = Participants
      BY <3>1 DEF Participants
    <3> QED BY <2>2, <3>1, <3>2, <3>3 DEF SessionShape
  <2>3. CASE RemoveLeft(s)
    <3>1. /\ LeaveRemove(s) /\ s \in said /\ said' = said \ {s} /\ okLast' = okLast \ {s}
          /\ UNCHANGED <<rows, grey>>
      BY <2>3 DEF RemoveLeft, viewVars
    <3>2. s \notin member /\ member' = member /\ cols' = cols /\ Participants' = Participants \ {s}
      BY <3>1, LeaveRemoves
    <3> QED BY <3>1, <3>2
  <2>4. CASE ResetLeft(s)
    <3>1. LeaveReset(s) /\ UNCHANGED <<said, okLast, rows, grey>>
      BY <2>4 DEF ResetLeft, viewVars
    <3>2. /\ s \notin member /\ member' = member /\ Participants' = Participants
          /\ \A t \in Sessions \ {s} : cols'[t] = cols[t]
      BY <3>1, LeaveResets
    <3> QED BY <3>1, <3>2 DEF SessionShape
  <2>5. CASE Connect(s) \/ DataReady(s) \/ Attach(s)
    <3>1. UNCHANGED <<member, leaving, cols, said, okLast, rows, grey>>
      BY <2>5 DEF Connect, DataReady, Attach, feedVars, viewVars
    <3>2. Participants' = Participants
      BY <3>1 DEF Participants
    <3> QED BY <3>1, <3>2
  <2> QED BY <2>1, <2>2, <2>3, <2>4, <2>5
<1>5. GreyExact'
  BY <1>1, <1>4, QuietMarks DEF ViewInv
<1>6. ASSUME Alone PROVE Views'
  <2>1. ASSUME NEW t \in member' PROVE Watching(t)' => Watching(t)
    <3>1. CASE t # s
      BY <1>2, <1>4, <2>1, <3>1 DEF Watching, Proven, SessionShape
    <3>2. CASE t = s
      <4>1. \/ UNCHANGED <<dcOpen, attached, ownJoin>>
            \/ s \in ownJoin' \/ s \notin dcOpen'
        BY DEF Leave, Hangup, RemoveLeft, ResetLeft, Connect, DataReady, Attach, channelVars
      <4> QED BY <1>4, <2>1, <3>2, <4>1 DEF Watching, Proven
    <3> QED BY <3>1, <3>2
  <2>2. ASSUME NEW t \in member', NEW p \in Sessions \ {t} PROVE Listed(t, p)' <=> Listed(t, p)
    <3>1. CASE p \notin Participants \ said
      BY <1>4, <3>1 DEF Listed
    <3>2. CASE p \in Participants \ said
      <4>1. p \in Participants' \ said' /\ (VisibleLast(t, p)' <=> VisibleLast(t, p))
        BY <1>4, <3>2 DEF VisibleLast
      <4> QED BY <1>4, <3>2, <4>1 DEF Listed
    <3> QED BY <3>1, <3>2
  <2>3. \A t \in member' : /\ rows'[t] = rows[t] /\ untold'[t] = untold[t]
                           /\ Watching(t)' => Watching(t)
                           /\ \A p \in Sessions \ {t} : Listed(t, p)' <=> Listed(t, p)
    BY <1>1, <1>4, <2>1, <2>2
  <2>4. announce \subseteq announce' /\ Views /\ member' \subseteq member
    BY <1>1, <1>4, <1>6 DEF ViewInv
  <2> QED BY <2>3, <2>4, QuietViews
<1> QED BY <1>3, <1>5, <1>6 DEF ViewInv

\* Every step keeps the viewers right.
LEMMA ViewsStay ==
  ASSUME ~OverlapRejoin, SessionShape, ChannelsOK, ViewInv, [PresenceNext]_presenceVars
  PROVE  ViewInv'
<1>1. ASSUME (\E d \in Displays : StandingChanges(d)) \/ UNCHANGED presenceVars PROVE ViewInv'
  <2>1. UNCHANGED <<feedVars, announce, said, channelVars, okLast, viewVars>>
    BY <1>1 DEF StandingChanges, presenceVars
  <2>2. UNCHANGED <<member, leaving, cols, announce, said, dcOpen, attached, ownJoin, okLast,
                    rows, grey, untold, unmarked>>
    BY <2>1 DEF feedVars, channelVars, viewVars
  <2>3. RowsShape' /\ GreyExact'
    BY <2>2 DEF ViewInv, RowsShape, Known, GreyExact
  <2>4. ASSUME Alone PROVE Views'
    BY <2>2, <2>4 DEF ViewInv, Views, PairOK, Listed, VisibleLast, Watching, Proven, Participants
  <2> QED BY <2>3, <2>4 DEF ViewInv
<1> QED BY <1>1, JoinViews, AnnounceViews, SayLeftViews, FenceViews, IncomingViews, QuietSteps,
           BatchViews, PassViews
        DEF PresenceNext, SessionStep

----------------------------------------------------------------------------
(* The theorems.                                                            *)

RosterInv == SessionShape /\ ChannelsOK /\ StandingOK /\ ViewInv

\* Every viewer follows the standing of the sender's last pass and the mutes it was told of.
LEMMA RosterInvCorrect ==
  ASSUME ~OverlapRejoin
  PROVE  PresenceSpec => []RosterInv
<1>1. PresenceInit => RosterInv
  <2> SUFFICES ASSUME PresenceInit PROVE RosterInv
    OBVIOUS
  <2>1. SessionShape
    BY DEF PresenceInit, FeedInit, SessionShape, LeavePhases
  <2>2. ChannelsOK /\ StandingOK
    BY DEF PresenceInit, ChannelsOK, StandingOK
  <2>3. ViewInv
    BY DEF PresenceInit, FeedInit, ViewInv, RowsShape, GreyExact, Views
  <2> QED BY <2>1, <2>2, <2>3 DEF RosterInv
<1>2. RosterInv /\ [PresenceNext]_presenceVars => RosterInv'
  BY SessionStays, ChannelsStay, StandingOKStays, ViewsStay DEF RosterInv
<1> QED BY <1>1, <1>2, PTL DEF PresenceSpec

\* The rows of every viewer that listens are those of its roster, for any number of viewers,
\* whatever the order of joins, leaves, lost and new channels, backlogs, batches and changes of
\* standing, except for the displays in untold, when no avatar has two sessions (push_presence,
\* send_join_backlog_locked, data_ready, incoming_data, vis_transitions_locked).
THEOREM RosterCorrect ==
  ASSUME Alone
  PROVE  PresenceSpec => []RosterExact
<1>1. ~OverlapRejoin
  BY DEF Alone
<1>2. RosterInv => RosterExact
  <2> SUFFICES ASSUME RosterInv PROVE RosterExact
    OBVIOUS
  <2> USE DEF RosterInv
  <2>1. PresenceTypeOK
    <3>1. Known \subseteq Displays
      BY InRoom DEF Known
    <3>2. announce \subseteq Sessions /\ said \subseteq Sessions
      BY DEF SessionShape
    <3>3. rows \in [Sessions -> SUBSET Displays] /\ grey \in [Sessions -> SUBSET Displays]
      BY <3>1 DEF ViewInv, RowsShape
    <3> QED BY <3>2, <3>3 DEF PresenceTypeOK, ChannelsOK, StandingOK
  <2>2. ASSUME Settled, NEW s \in member, NEW p \in Participants
        PROVE  Visible(DisplayOf[s], DisplayOf[p]) <=> VisibleLast(s, p)
    BY <2>2, InRoom DEF Settled, Visible, VisibleLast
  <2>3. NoMissingRow
    <3> SUFFICES ASSUME NEW s \in Sessions, Watching(s), Settled, NEW d \in Roster(s) \ untold[s]
                 PROVE  d \in rows[s] \/ Moving(d)
      BY DEF NoMissingRow
    <3>1. s \in member
      BY DEF Watching
    <3>2. PICK p \in Participants : DisplayOf[p] = d
      BY DEF Roster
    <3>3. /\ p \in Sessions /\ p # s /\ d \notin cols[s].excl /\ Visible(DisplayOf[s], d)
          /\ d \notin untold[s]
      BY <3>2, InRoom DEF Roster
    <3>4. VisibleLast(s, p)
      BY <2>2, <3>1, <3>2, <3>3
    <3>5. p \in said => leaving[p] = "pending"
      BY DEF SessionShape
    <3>6. p \notin said => Listed(s, p)
      BY <3>2, <3>3, <3>4 DEF Listed
    <3>7. PairOK(s, p)
      BY <3>1, <3>3 DEF ViewInv, Views
    <3> QED BY <3>2, <3>3, <3>5, <3>6, <3>7 DEF PairOK, Moving
  <2>4. NoGhostRow
    <3> SUFFICES ASSUME NEW s \in Sessions, Watching(s), Settled,
                        NEW d \in rows[s] \ ({DisplayOf[s]} \union untold[s])
                 PROVE  d \in Roster(s)
      BY DEF NoGhostRow
    <3>1. s \in member
      BY DEF Watching
    <3>2. PICK p \in Sessions : DisplayOf[p] = d
      BY DEF ViewInv, RowsShape, Known
    <3>3. PairOK(s, p)
      BY <3>1, <3>2 DEF ViewInv, Views
    <3>4. Listed(s, p)
      BY <3>2, <3>3 DEF PairOK
    <3>5. p \in Participants /\ d \notin cols[s].excl /\ VisibleLast(s, p)
      BY <3>2, <3>4 DEF Listed
    <3>6. Visible(DisplayOf[s], d)
      BY <2>2, <3>1, <3>2, <3>5
    <3> QED BY <3>2, <3>5, <3>6 DEF Roster
  <2> QED BY <2>1, <2>3, <2>4 DEF RosterExact
<1> QED BY <1>1, <1>2, RosterInvCorrect, PTL

\* A row is greyed exactly while the moderator mute is in force, for any number of viewers,
\* sessions of an avatar, batches and orders of joins, leaves, backlogs and passes, except for the
\* displays in unmarked, when a session leaves before it joins again (relay_mute_one,
\* apply_mutebatch_locked, send_join_backlog_locked).
THEOREM GreyCorrect ==
  ASSUME ~OverlapRejoin
  PROVE  PresenceSpec => []GreyExact
<1>1. RosterInv => GreyExact
  BY DEF RosterInv, ViewInv
<1> QED BY <1>1, RosterInvCorrect, PTL
=============================================================================
