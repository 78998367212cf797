SPECIFICATION ShadowSpec
CONSTANTS
  ann = ann
  bob = bob
  cat = cat
  s1 = s1
  s2 = s2
  Displays = {ann, bob, cat}
  Sessions = {s1, s2}
  DisplayOf <- DisplayOfSession
  Batches <- FeedBatches
  Heartbeats <- FeedHeartbeats
  Policy <- NoPolicy
  MaxEpoch = 2
  MaxGen = 2
  MaxRecords = 1
  MaxDeferred = 2
  StaleWindow = 1
  MaxLockWait = 0
  FailClosed = FALSE
  VisDeclared = TRUE
  OverlapRejoin = FALSE
INVARIANTS
  StoreKeeps
PROPERTIES
  FeedSpec
  ShadowApplies
  JoinGetsIntent
  OldestGoFirst
