SPECIFICATION Spec
CONSTANTS
  s1 = s1
  s2 = s2
  nas = nas
  bits = bits
  e1 = e1
  e2 = e2
  Supervisors = {s1, s2}
  Systems = {nas, bits}
  Known <- OneKnows
  Locators = {nas, bits}
  Suspenders = {nas}
  Resuming = {nas}
  Liars = {nas}
  Hopeless = {bits}
  Releasing = {bits}
  Handles = {e1, e2}
  Request = Request
  None = None
  Sources = 1
  MaxFaults = 2
  Stalls = FALSE
  Refusals = TRUE
  Leaks = TRUE
  Overlap = FALSE
  Ends = FALSE
SYMMETRY Symmetry
INVARIANTS
  
  DeliveredGood
CHECK_DEADLOCK FALSE
