SPECIFICATION Spec
CONSTANTS
  NbRemote = 2
  SameInput = FALSE
  Service = "job"
  Lists <- AllowedLists
  Reports = {50}
  MaxNotes = 5
  MaxOpenFailures = 1
INVARIANTS ResultsStored FinalDelivered

CHECK_DEADLOCK FALSE
PROPERTIES ProcessEnds
