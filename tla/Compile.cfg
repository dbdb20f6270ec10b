SPECIFICATION Spec
CONSTANTS
  Programs <- MCPrograms
  Flags <- MCFlags
  Expected <- MCExpected
  kHalfBits = 8
  kNumElems = 2
  kMaxFoldedNewLength = 3
  StackSize = 100
INVARIANTS AssertionsHold OutputAgrees RefCountsExact ContextAlive
PROPERTIES LiteralsConstant Finishes
