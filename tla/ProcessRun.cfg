CONSTANTS
  DoCalls = FALSE
  IgnoreUndefs = TRUE
  Incremental = FALSE
  LongCalls = FALSE
  LookupAnytime = FALSE
  Keys = {k1, lock}
  Lock = lock
  MaxSteps = 2
  MaxDepth = 3
  MaxHeight = 2
  k1 = k1
  lock = lock
SPECIFICATION Spec
INVARIANTS TypeOK ChecksHold MarkBracketsRun UndefCountedOnce StepsBounded
PROPERTIES ImplementsProcStatus ExecuteReturns
CHECK_DEADLOCK FALSE
