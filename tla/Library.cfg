CONSTANTS
  Vars = {x, y}
  Undef = Undef
  ElemA = ElemA
  ElemB = ElemB
  ElemW = ElemW
  KeyP = KeyP
  KeyQ = KeyQ
  KeyR = KeyR
SPECIFICATION Spec
SYMMETRY Symmetry
INVARIANTS ContentsAgree StructureSound CountsExact FunctionsAgree
CHECK_DEADLOCK FALSE
