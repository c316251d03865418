CONSTANTS
  s1 = s1
  s2 = s2
  Sessions = {s1, s2}
  NoSession = NoSession
  Callers = {"disposal", "mutation", "forget", "retry", "crash"}
  Enabled = FALSE
  MaxRequests = 4
  MaxFaults = 1
  MaxSequence = 2
  MaxBoots = 1
SPECIFICATION Spec
SYMMETRY Symmetry
CHECK_DEADLOCK FALSE
INVARIANTS
  OneDestroyer
  ClaimDiscipline
  IntentIsDurable
