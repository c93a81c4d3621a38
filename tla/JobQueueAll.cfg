SPECIFICATION Spec
CONSTANTS
  Jobs = {x}
  XmlJobs = {x}
  Dismissal = d
  Workers = {w1, w2}
  NbWorkers = 2
  Clients = {c}
  Ops = {"Dismiss"}
  MaxFaults = 1
INVARIANTS OneRunAtATime NoJobLost AtMostOnce DismissedStaysGone
SYMMETRY WorkerSymmetry
CHECK_DEADLOCK FALSE
