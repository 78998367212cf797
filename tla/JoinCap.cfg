SPECIFICATION CapSpec
CONSTANTS
  h1 = h1
  h2 = h2
  r1 = r1
  open = open
  ann = ann
  x = x
  NoRoom = NoRoom
  NoCap = NoCap
  NoReq = NoReq
  Handles = {h1, h2}
  Rooms = {r1, open}
  Gated = {r1}
  Caps <- Tokens
  Requests <- JoinRequests
  Skew = 1
  MaxNonces = 2
  RoomSize = 2
  MaxEpoch = 2
  MaxTime = 4
INVARIANTS
  GateHolds
PROPERTIES
  FullOfLiveNonces
  ShadowIsPlain
