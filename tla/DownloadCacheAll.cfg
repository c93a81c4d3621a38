SPECIFICATION Spec
CONSTANTS
  Processes = {p1, p2, p3}
  Files = {"zca", "zcm", "zcp"}
  MaxRetry = 2
  MaxBlocks = 3
  Memories = {"load", "protected"}
INVARIANTS CacheSettles NoLockLeft
CHECK_DEADLOCK FALSE
