CONSTANTS
  NoRoom = NoRoom
  NoSession = NoSession
  Rooms = {r1, r2}
  Sessions = {s1}
  Capacity = 1
  Grace = 1
  MediaTimeout = 1
  MaxJoins = 2
SPECIFICATION FairSpec
CHECK_DEADLOCK FALSE
INVARIANTS
  RoomBooks
  SoloBooks
PROPERTIES
  MediaFreedUnlisted
  SweepSparesJoined
  RoomsFreed
  EmptyRoomsSwept
  NoMediaReaped
