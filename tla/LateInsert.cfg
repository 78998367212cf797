CONSTANTS
  NoRoom = NoRoom
  NoSession = NoSession
  Rooms = {r1, r2}
  Sessions = {s1}
  Capacity = 1
  Grace = 1
  MediaTimeout = 1
  MaxJoins = 2
SPECIFICATION Spec
CHECK_DEADLOCK FALSE
INVARIANTS
  RowsAlive
