SPECIFICATION FairSpec
CONSTANTS
  Readers = {r1, r2}
  Worker = worker
  MaxRetry = 1
  MaxPolls = 2
  Ops = {"GetStatus", "GetResult"}
  Stores = TRUE
  Started = FALSE
  Repeat = FALSE
  Mortal = {r1, r2, worker}
INVARIANT SemaphoreConserved
PROPERTY NobodyWaitsForever
CHECK_DEADLOCK FALSE
