SPECIFICATION Spec
CONSTANTS
  HalfWord = 8
  MaxEntity = 1
  Failing = {}
  NumComponents = 2
  Value = {0}
  BlockSize = 4
  IndexSize = 2
  ComponentSize <- Same
  MaxArchetypes = 3
  MaxBlocks = 2
  MaxPerBlock = 2
  MaxLayers = 2
  MaxSpawn = 1
  NonNull = {1}
  ZeroSizeAlloc = FALSE
  UnknownComponents = FALSE
INVARIANTS
  LayerEntered
CHECK_DEADLOCK FALSE
