SPECIFICATION FairSpec
CONSTANTS
  s1 = s1
  s2 = s2
  nas = nas
  bits = bits
  e1 = e1
  e2 = e2
  Supervisors = {s1}
  Systems = {nas, bits}
  Known <- AllKnown
  Locators = {nas, bits}
  Suspenders = {nas}
  Resuming = {nas}
  Liars = {nas}
  Hopeless = {}
  Releasing = {bits}
  Handles = {e1, e2}
  Request = Request
  None = None
  Sources = 2
  MaxFaults = 3
  Stalls = TRUE
  Refusals = TRUE
  Leaks = FALSE
  Overlap = TRUE
  Ends = FALSE
INVARIANTS
  Accounted
PROPERTIES
  KeptProven
  InOneCustody
  Ended
  OverThereToo
CHECK_DEADLOCK FALSE
