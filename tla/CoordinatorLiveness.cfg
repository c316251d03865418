CONSTANTS
  s1 = s1
  s2 = s2
  Sessions = {s1, s2}
  NoSession = NoSession
  Callers = {"explicit-stop", "retry", "vm-loss"}
  Enabled = TRUE
  MaxRequests = 3
  MaxFaults = 0
  MaxSequence = 3
  MaxBoots = 1
SPECIFICATION FairSpec
CHECK_DEADLOCK FALSE
PROPERTIES
  WaitersAreWoken
  GraceEnds
