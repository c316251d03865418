CONSTANTS
  s1 = s1
  s2 = s2
  Sessions = {s1, s2}
  NoSession = NoSession
  Callers = {"explicit-stop", "retry", "close", "crash"}
  Enabled = TRUE
  MaxRequests = 4
  MaxFaults = 1
  MaxSequence = 3
  MaxBoots = 1
SPECIFICATION Spec
SYMMETRY Symmetry
CHECK_DEADLOCK FALSE
INVARIANTS
  CommittedIsDurable
  AdmissionImpliesOwnedRows
  JournalAlwaysValid
