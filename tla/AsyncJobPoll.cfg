SPECIFICATION FairSpecViews
CONSTANTS
  Clients = {c1}
  Acceptor = acceptor
  Worker = worker
  Ops = {"GetStatus", "GetResults"}
  Repeat = TRUE
  Precedes = {}
  Listing = TRUE
  Faults = {"reject", "crash", "lock"}
INVARIANTS HonestResults AnswerIsASnapshot
PROPERTIES NeverGoesBack EventuallyReported
CHECK_DEADLOCK FALSE
