SPECIFICATION Spec
CONSTANTS
  Programs <- MCFunctions
  Flags <- MCFlags
  Expected <- MCFunctionsExpected
  kHalfBits = 8
  kNumElems = 2
  kMaxFoldedNewLength = 3
  StackSize = 100
INVARIANT StackReserved
