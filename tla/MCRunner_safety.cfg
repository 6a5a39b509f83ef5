SPECIFICATION Spec
CONSTANTS
  o1 = o1
  o2 = o2
  v1 = v1
  v2 = v2
  Owners = {o1, o2}
  Versions = {v1, v2}
  Wanted = v1
  Length <- LengthShort
  MaxLen = 3
  Strong = {v1, v2}
  Sources = 1
  Hole = Hole
  None = None
  MaxFaults = 4
  AfterLapse = {"trim", "restart", "deliver", "remove"}
  Overtaken = FALSE
  ByName = TRUE
  EndsMismatch = TRUE
  Leftovers <- FromNothing
SYMMETRY Symmetry
INVARIANTS
  TypeOK
  
  ClaimsHold

  
CHECK_DEADLOCK FALSE
