SPECIFICATION FairSpec
CONSTANTS
  Size = 2
  MaxLen = 2
  Cuts = {1}
  Workers = {w1, w2}
  Sources = 2
  Budget = 1
  Transient = TRUE
  MaxFaults = 2
PROPERTIES
  Returns
CHECK_DEADLOCK FALSE
