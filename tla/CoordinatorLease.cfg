CONSTANTS
  s1 = s1
  Sessions = {s1}
  NoSession = NoSession
  Callers = {}
  Enabled = TRUE
  MaxRequests = 1
  MaxFaults = 1
  MaxSequence = 1
  MaxBoots = 1
SPECIFICATION Spec
CHECK_DEADLOCK FALSE
INVARIANTS
  LeaseReleasedOnEveryPath
