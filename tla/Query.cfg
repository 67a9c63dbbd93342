SPECIFICATION FairQuerySpec
CONSTANTS
  HalfWord = 8
  MaxEntity = 2
  Failing = {"archetype_table", "offset_size", "query", "query_archetype", "query_offset"}
  NumComponents = 2
  Value = {0}
  BlockSize = 6
  IndexSize = 2
  ComponentSize <- Same
  MaxArchetypes = 2
  MaxBlocks = 2
  MaxPerBlock = 3
  MaxLayers = 0
  MaxSpawn = 1
  NonNull = {}
  ZeroSizeAlloc = FALSE
  UnknownComponents = FALSE
  QueryShapes <- ReadOne
  MaxDepth = 2
INVARIANTS
  QueryTypeOK
  ListsExact
  Complete
  OnceInPlace
  ColumnsMatch
  VisitInv
PROPERTY
  ExecutionsEnd
CHECK_DEADLOCK FALSE
VIEW ForgetResult
