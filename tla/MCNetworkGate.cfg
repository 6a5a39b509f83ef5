SPECIFICATION SlowSpec
CONSTANTS
  Platforms <- Every
  MaxWire = 2
  MaxChanges = 2
  MaxFaults = 2
  Kinds <- All
  Requests = 2
  None = None
INVARIANTS
  Truthful
  WordWhileWaiting
PROPERTIES
  
  Follows
CHECK_DEADLOCK FALSE
