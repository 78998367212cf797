SPECIFICATION PluginFairSpec
CONSTANTS
  Rooms = {r1, r2}
  StaticRooms = {r1}
  Callbacks = {c1, c2}
  Nobody = Nobody
  MaxQueue = 2
  MaxStarts = 2
  Overlap = FALSE
PROPERTIES
  ShutdownEnds
INVARIANTS
  NothingLive
  NoUseAfterDrop
CHECK_DEADLOCK FALSE
