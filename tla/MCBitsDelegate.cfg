SPECIFICATION FairSpec
CONSTANTS
  a1 = a1
  a2 = a2
  j1 = j1
  j2 = j2
  j3 = j3
  None = None
  Request = Request
  Agents = {a1, a2}
  Jobs = {j1, j2, j3}
  Kinds = {"timeout", "crash", "orphan", "refused", "network", "logoff", "reap", "fail", "service", "ask"}
  MaxFaults = 2

  
PROPERTIES
  HandleKept
  Delivers
CHECK_DEADLOCK FALSE
