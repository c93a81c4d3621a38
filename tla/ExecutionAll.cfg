SPECIFICATION Spec
CONSTANTS
  Names = {"a", "b"}
  Descriptions <- Zcfgs
  Attributes <- TwoAttributes
  MaxArguments = 3
  Outputs = {"x", "y"}
  Stored = {"y"}
  Unknown = "z"
INVARIANTS EveryInputArrives OnlyValidRequestsRun AnsweredAsAsked
CHECK_DEADLOCK FALSE
