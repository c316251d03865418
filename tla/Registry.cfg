CONSTANTS
  h1 = h1
  h2 = h2
  p1 = p1
  Handles = {h1, h2}
  Shared = {p1}
  Setups = {{"writes"}, {"transitions"}, {"unproved"}, {"facts", "writes"}}
  MaxFacts = 2
  MaxFaults = 1
  MaxAcks = 1
  ReleaseOrder <- releaseOrder
SPECIFICATION Spec
SYMMETRY Symmetry
CHECK_DEADLOCK FALSE
INVARIANTS
  EffectsAreJournaled
  NoRowOutlivesItsUsers
