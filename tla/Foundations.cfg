CONSTANTS
  c1 = c1
  c2 = c2
  c3 = c3
  Clients = {c1, c2, c3}
  Keys = {1, 2, 3}
  Kinds = {"attach", "configuration"}
  MaxClaims = 7
  j1 = j1
  j2 = j2
  Journals = {j1, j2}
  Absent = Absent
  Torn = Torn
  MaxStale = 2
  MaxRows = 3
  BatchRecords = {"e1", "e2"}
  BatchProfiles = {"p1", "p2"}
  MaxBatchFailures = 3
  ProfileEdits = TRUE
  DiskExtents = 2
  MaxBundleFailures = 3
  MaxFrames = 16
  MaxDnsFaults = 2
  MaxDnsCrashes = 2
  MaxDnsChanges = 2
  d1 = d1
  d2 = d2
  k1 = k1
  k2 = k2
  DaemonIds = {d1, d2}
  DaemonClients = {k1, k2}
  DaemonBuilds = {"b1", "b2"}
  LimaHomes = {"h1"}
  MaxDaemonFaults = 1
  MaxRemovalFaults = 2
  MaxRemovalCrashes = 2
  MaxRemovalGlitches = 1
SPECIFICATION PartsSpec
SYMMETRY Symmetry
CHECK_DEADLOCK FALSE
INVARIANTS
  EvaluationIsExact
  OneVisibilityPoint
  BundleIsWholeOrResumable
  DnsOutcomeIsTrue
  OwnerIsReachable
  StopIsProved
  NothingIsOrphaned
PROPERTIES
  LocksSpec
  AtomicSpec
