SPECIFICATION Spec
CONSTANTS
  HalfWord = 8
  MaxEntity = 2
  Failing = {"component_set", "archetype_table", "offset_size", "out_entities", "block", "free_indexes", "layer_table", "layer_capacity", "layer_members"}
  NumComponents = 1
  Value = {0}
  BlockSize = 4
  IndexSize = 2
  ComponentSize <- Same
  MaxArchetypes = 2
  MaxBlocks = 2
  MaxPerBlock = 2
  MaxLayers = 2
  MaxSpawn = 2
  NonNull = {0}
  ZeroSizeAlloc = TRUE
  UnknownComponents = FALSE
INVARIANTS
  StoreInv
PROPERTIES
  ContractKept
CHECK_DEADLOCK FALSE
