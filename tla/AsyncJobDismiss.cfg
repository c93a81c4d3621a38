SPECIFICATION Spec
CONSTANTS
  Clients = {c1, c2}
  Acceptor = acceptor
  Worker = worker
  Ops <- AllOps
  Repeat = FALSE
  Precedes <- InOrder
  Listing = FALSE
  Faults <- AnyFault
SYMMETRY ClientSymmetry
INVARIANTS TypeOK SuccessIsTrue DismissIsFinal
CHECK_DEADLOCK FALSE
