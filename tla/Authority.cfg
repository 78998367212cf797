SPECIFICATION FairSpec
CONSTANTS
  ann = ann
  bob = bob
  cat = cat
  s1 = s1
  s2 = s2
  s3 = s3
  Displays = {ann, bob, cat}
  Sessions = {s1, s2, s3}
  DisplayOf <- DisplayOfSession
  Batches <- ArmingBatches
  Heartbeats <- ArmingHeartbeats
  Policy <- TwoPolicies
  MaxEpoch = 2
  MaxGen = 3
  MaxRecords = 2
  MaxDeferred = 1
  StaleWindow = 1
  MaxLockWait = 1
  FailClosed = TRUE
  VisDeclared = TRUE
  OverlapRejoin = FALSE
INVARIANTS
  RecordsOfCurrentEpoch
  MirrorFaithful
  MixFollowsRecord
  HeardIsAllowed
PROPERTIES
  AuthorityOrdered
  OnlyReplaceArms
  HeartbeatReportsSilent
  LateHeartbeatSpares
  SilentWithoutAuthority
