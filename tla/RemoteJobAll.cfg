SPECIFICATION Spec
CONSTANTS
  Jobs = {j1, j2}
  Ports = {p1}
  Path = "xml"
  EarlyFinalize = FALSE
  MaxFaults = 2
INVARIANTS StepsInOrder InputIsStable LocksReleased
CHECK_DEADLOCK FALSE
PROPERTIES SuccessLeaves
