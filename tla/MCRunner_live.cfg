SPECIFICATION FairSpec
CONSTANTS
  o1 = o1
  o2 = o2
  v1 = v1
  v2 = v2
  Owners = {o1, o2}
  Versions = {v1, v2}
  Wanted = v1
  Length <- LengthLong
  MaxLen = 3
  Strong = {v1}
  Sources = 2
  Hole = Hole
  None = None
  MaxFaults = 2
  AfterLapse = {"trim", "write", "restart", "deliver", "remove"}
  Overtaken = FALSE
  ByName = FALSE
  EndsMismatch = TRUE
  Leftovers <- FromGaps
INVARIANTS
  DigestSpeaks
PROPERTIES
  PromiseKept
  Finishes
  IntentHonoured
CHECK_DEADLOCK FALSE
