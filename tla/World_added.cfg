SPECIFICATION Spec
CONSTANTS
  HalfWord = 8
  MaxEntity = 2
  Failing = {"block"}
  NumComponents = 2
  Value = {0}
  BlockSize = 4
  IndexSize = 2
  ComponentSize <- Same
  MaxArchetypes = 4
  MaxBlocks = 2
  MaxPerBlock = 2
  MaxLayers = 0
  MaxSpawn = 1
  NonNull = {1}
  ZeroSizeAlloc = FALSE
  UnknownComponents = FALSE
PROPERTIES
  SuccessMeansAdded
CHECK_DEADLOCK FALSE
