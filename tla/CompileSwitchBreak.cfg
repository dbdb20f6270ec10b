SPECIFICATION Spec
CONSTANTS
  Programs <- MCSwitchBreak
  Flags <- MCFlags
  Expected <- MCSwitchBreakExpected
  kHalfBits = 8
  kNumElems = 2
  kMaxFoldedNewLength = 3
  StackSize = 100
INVARIANT OutputAgrees
