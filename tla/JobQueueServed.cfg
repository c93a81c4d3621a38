SPECIFICATION Spec
CONSTANTS
  Jobs = {x}
  XmlJobs = {x}
  Dismissal = d
  Workers = {w1, w2}
  NbWorkers = 1
  Clients = {c}
  Ops = {"GetStatus", "GetResult"}
  MaxFaults = 1
PROPERTIES EveryMessageConsumed EndIsReported
CHECK_DEADLOCK FALSE
