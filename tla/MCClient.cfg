SPECIFICATION FairSpec
CONSTANTS
  c1 = c1
  c2 = c2
  c3 = c3
  p1 = p1
  p2 = p2
  a1 = a1
  Callers = {c1, c2, c3}
  Processes = {p1, p2}
  In <- TwoAndOne
  Resuming = {c1, c3}
  Artifacts = {a1}
  Asks <- OneAsk
  MaxGen = 2
  MaxFresh = 1
  MaxFaults = 1
  Kinds = {"crash", "fail", "pause", "cancel", "remove"}
  None = None
INVARIANTS
  OneForDestination
PROPERTIES
  
  Answered
CHECK_DEADLOCK FALSE
