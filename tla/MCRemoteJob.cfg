SPECIFICATION FairSpec
CONSTANTS
  Epochs = 2
  Chunks = 2
  Kinds <- All
  MaxFaults = 4
INVARIANTS
  NoneForgotten
PROPERTIES
  Ended
CHECK_DEADLOCK FALSE
