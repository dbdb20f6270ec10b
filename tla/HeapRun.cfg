CONSTANTS
  Objs = {o1, o2, big, raw}
  LargeObjs = {big}
  RawObjs = {raw}
  Statics = {s}
  Locals = {l}
  NoObj = NoObj
  Null = Null
  ChunkSize = 4
  SmallSizes = {2, 3}
  MinSmall = 2
  ToFree = 100
  MaxChunks = 2
  MaxRef = 2
SPECIFICATION Spec
INVARIANTS PointersValid RefCountsCover FreeListSound MarkChecksHold
PROPERTIES PremarkKept CollectionComplete
CHECK_DEADLOCK FALSE
