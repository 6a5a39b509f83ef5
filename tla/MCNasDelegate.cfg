SPECIFICATION MCSpec
CONSTANTS
  a1 = a1
  a2 = a2
  q1 = q1
  q2 = q2
  q3 = q3
  None = None
  Jobs = {q1, q2, q3}
  Artifact <- Holds
  Digest = TRUE
  Agents = {a1, a2}
  Ids = {1, 2, 3}
  Blocks = 1
  Inodes = {11, 12, 13, 14, 15, 16, 17, 18, 19}
  Kinds <- All
  MaxFaults = 2
INVARIANTS
  
  SoundFile
PROPERTIES
  
  Delivers
CHECK_DEADLOCK FALSE
