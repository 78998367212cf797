SPECIFICATION TickSpec
CONSTANTS
  SeqSpace = 12
  Slots = 4
  Lag = 1
  MaxLead = 2
  FirstPacket = 10
  LastPacket = 24
  Empty = {12}
  Oversize = {11, 22}
  Release = 2
  Late = 2
  Burst = 3
  s1 = s1  s2 = s2  s3 = s3  s4 = s4
  ann = ann  bob = bob  cat = cat  dan = dan
  Me = Me
  Order <- FourSources
  AgentOf <- OwnAgent
  Distances <- Places
  Readd = 2
  Cutoff = 3
  MaxMix = 3
  MaxAdj = 1
  Spatial = TRUE
  Enforced = TRUE
  Controls <- OwnControls
  Standings <- SomeStanding
  Moderated = {ann}
  Excludable = {ann}
  MaxTick = 3
  Shown = {ann, bob}
  Levels = {0, 1, 2}
  MaxVisited = 3
CONSTRAINT
  OneReason
INVARIANTS
  MergeIsOrderFree
PROPERTIES
  PlayedOut
  PlaysInOrder
  ConcealsOnlyMissing
  LatencyBounded
  DotsMatchMix
  HeardWithinCutoff
  NoFlapInBand
CHECK_DEADLOCK FALSE
