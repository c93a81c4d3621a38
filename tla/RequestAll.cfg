SPECIFICATION Spec
INVARIANTS
  AnsweredOnce
  RefusedMeansUndone
  SuccessMeansDone
CHECK_DEADLOCK FALSE
