SPECIFICATION Spec
CONSTANTS
  Readers = {r1, r2, r3}
  Worker = worker
  MaxRetry = 1
  MaxPolls = 2
  Ops = {"GetStatus"}
  Stores = TRUE
  Started = TRUE
  Repeat = TRUE
  Mortal = {r1, r2, r3}
INVARIANTS NoTornProgress NoSemaphoreLeft
CHECK_DEADLOCK FALSE
