CONSTANTS
  Envs = {1, 2}
  Ids = {1}
  MaxRecords = 1
  MaxCrashes = 2
  MaxStarts = 1
  Faults = {"store", "executor", "prover", "owner"}
  RouteEnvs = 2
  MaxTransitionFaults = 1
  MaxTransitionCrashes = 1
  MaxRouteChanges = 1
  NetRuns = {1, 2}
  MaxNetFaults = 1
  MaxNetCrashes = 0
  MaxNetStarts = 3
  MaxRotations = 1
  NetResolvers = {1, 2}
  MaxExportFaults = 1
  MaxExportCrashes = 1
  CancelRequests = TRUE
  MaxSourceChanges = 0
  MaxImportFaults = 1
  MaxImportCrashes = 1
  ImportCancels = TRUE
  NameTaken = TRUE
  HapOperators = {1, 2}
  HapRevisions = {1, 2}
  HapAskRevisions = {2}
  HapApps = {1, 2}
  HapCommands = {"add", "install", "update", "enable", "disable", "revoke", "remove", "safe", "trusted", "allow", "forget"}
  MaxHapCommands = 3
  MaxHapHappens = 1
  MaxHapOpens = 1
SPECIFICATION PartsSpec
CHECK_DEADLOCK FALSE
INVARIANTS
  ExecutedOnce
  ExportOutcomeIsTrue
  ImportOutcomeIsTrue
  
PROPERTIES
  ConfigurationOutcomeIsTrue
  RunStartsMediated
