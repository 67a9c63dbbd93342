SPECIFICATION QuerySpec
CONSTANTS
  HalfWord = 8
  MaxEntity = 2
  Failing = {}
  NumComponents = 2
  Value = {0}
  BlockSize = 6
  IndexSize = 2
  ComponentSize <- Same
  MaxArchetypes = 2
  MaxBlocks = 2
  MaxPerBlock = 3
  MaxLayers = 0
  MaxSpawn = 1
  NonNull = {}
  ZeroSizeAlloc = FALSE
  UnknownComponents = FALSE
  QueryShapes <- ReadAndWrite
  MaxDepth = 1
PROPERTY
  RanOnce
CHECK_DEADLOCK FALSE
VIEW ForgetResult
