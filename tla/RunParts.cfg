CONSTANTS
  s1 = s1
  s2 = s2
  Sessions = {s1, s2}
  NoSession = NoSession
  MaxBoots = 2
  MaxRunFaults = 2
  MaxRunCrashes = 2
  MaxGlitches = 1
  MaxChunks = 2
  MaxSends = 1
  OutputDepth = 1
  InputDepth = 1
  MaxSessionFaults = 1
  BrokerConns = {1, 2}
  BrokerActions = {"host.fs.stat", "host.open"}
  BrokerClosers = {1, 2}
  MaxAuditFaults = 1
  HfsGrantKinds = {"see-tree", "read", "read-glob", "tree", "overlay-tree"}
  HfsDenyKinds = {"tree"}
  HfsRulePaths <- RulePaths
  HfsDenyOps = {{"discover"}, {"read"}}
  HfsTargets <- LinkTargets
  HfsLapses = {TRUE}
  MaxHfsRules = 1
  MaxHfsAsks = 1
  MaxHfsRelinks = 1
SPECIFICATION PartsSpec
SYMMETRY Symmetry
CHECK_DEADLOCK FALSE
INVARIANTS
  GuestIsAccountedFor
  
  ClosedIsQuiet
  
