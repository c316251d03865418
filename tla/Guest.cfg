CONSTANTS
  r1 = r1
  r2 = r2
  Launches = {r1, r2}
  LaunchRequests <- LaunchSet
  LaunchLinks <- Links
  MaxLaunchEvents = 1
  MaxVerifies = 1
  Operators = {1, 2}
  DecisionKinds = {"write", "read", "app", "share"}
  LeaseTicks = 1
  TimeoutTicks = 1
  MaxTicks = 1
  MaxCalls = 2
  MaxCenterFaults = 1
  MaxCenterCrashes = 1
  RouteEnvs = 2
  MaxTransitionFaults = 1
  MaxTransitionCrashes = 1
  MaxRouteChanges = 1
  ActOwners = {1}
  ActSessions = {1}
  SegmentFrames = 2
  OwnerFrames = 2
  GlobalFrames = 2
  MaxGaps = 2
  MaxEntries = 3
  MaxStoreFaults = 1
  MaxStoreCrashes = 1
  MaxRot = 0
  MaxReads = 1
  MaxDeletes = 1
  Subsystems = {"process"}
  MaxObserved = 2
  RelayQueue = 1
  MaxStreamFaults = 1
  MaxSecretChanges = 1
  MaxRestarts = 1
SPECIFICATION PartsSpec
SYMMETRY Symmetry
CHECK_DEADLOCK FALSE
INVARIANTS
  ReadyIsEarned
  ApprovalsAreTrue
  SnapshotIsExplained
  LossIsAccounted
  
PROPERTIES
  SecretOutcomeIsTrue
