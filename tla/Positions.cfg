SPECIFICATION PosSpec
CONSTANTS
  a = a
  b = b
  Agents = {a, b}
  Viewers = {a}
  Epochs = {1, 2}
  Kinds <- FullAndPartial
  MaxSent = 2
  StoreMax = 1
  StaleAfter = 1
  Speed = 1
  Tol = 1
  Delay = 1
  Lag = 1
  Span = 2
  MaxTime = 4
  MaxAccepted = 3
CHECK_DEADLOCK FALSE
INVARIANTS
  NoFalseClamp
  StoreIsLatest
  AcceptedOnce
