SPECIFICATION Spec
CONSTANTS
  Size = 3
  MaxLen = 4
  Cuts = {2}
  Workers = {w1, w2}
  Sources = 2
  Budget = 1
  Transient = FALSE
  MaxFaults = 3
SYMMETRY Symmetry
INVARIANTS
  ClaimSynced
  WholeAtSuccess
  KeptAtReturn
PROPERTIES
  ProvenGrows
  NoByteTwice
CHECK_DEADLOCK FALSE
