CONSTANTS
  DoCalls = TRUE
  IgnoreUndefs = FALSE
  Incremental = TRUE
  LongCalls = FALSE
  LookupAnytime = FALSE
  Keys = {k1, lock}
  Lock = lock
  MaxSteps = 2
  MaxDepth = 4
  MaxHeight = 2
  k1 = k1
  lock = lock
SPECIFICATION Spec
INVARIANTS OutcomeReported
PROPERTIES ExecuteReturns
CHECK_DEADLOCK FALSE
