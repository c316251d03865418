CONSTANTS
  s1 = s1
  s2 = s2
  Sessions = {s1, s2}
  NoSession = NoSession
  Callers = {"explicit-stop", "vm-loss"}
  Enabled = TRUE
  MaxRequests = 4
  MaxFaults = 0
  MaxSequence = 3
  MaxBoots = 2
SPECIFICATION Spec
SYMMETRY Symmetry
CHECK_DEADLOCK FALSE
INVARIANTS
  DestructionExcludesSessions
  StopTargetsCurrentIncarnation
  StopIsDurable
  IdleIsScheduled
PROPERTIES
  GraceIsWhole
