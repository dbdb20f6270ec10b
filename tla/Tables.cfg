CONSTANTS
  Emitters = {a, b}
  OneEmitter = {c}
  k1 = k1
  k2 = k2
  NoSketch = NoSketch
SPECIFICATION Spec
SYMMETRY Symmetry
INVARIANTS
  MergeAccepts CountsConserved SumsExact KeepsBest OrderKept ResultsAgree SampleSound EstimateSound
CHECK_DEADLOCK FALSE
