CONSTANTS
  NetRuns = {1, 2}
  MaxNetFaults = 0
  MaxNetCrashes = 0
  MaxNetStarts = 4
  MaxRotations = 1
  NetResolvers = {1, 2}
SPECIFICATION RunNetSpec
CHECK_DEADLOCK FALSE
INVARIANTS
  PostureIsStable
