SPECIFICATION PresenceSpec
CONSTANTS
  ann = ann
  bob = bob
  s1 = s1
  s2 = s2
  DisplayOf <- DisplayOfSession
  MaxDeferred = 2
  OverlapRejoin = FALSE
  Displays = {ann, bob}
  Sessions = {s1, s2}
  Batches <- ColumnBatches
  Enforced = TRUE
  AuthorityCols <- Columns
  Viewers = {s1}
INVARIANTS
  RosterExact
  GreyExact
