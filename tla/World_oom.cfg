SPECIFICATION Spec
CONSTANTS
  HalfWord = 8
  MaxEntity = 2
  Failing = {"entity_table", "component_set", "archetype_table", "offset_size", "out_entities", "block_vector", "free_indexes"}
  NumComponents = 2
  Value = {0, 1}
  BlockSize = 8
  IndexSize = 2
  ComponentSize <- Rising
  MaxArchetypes = 3
  MaxBlocks = 1
  MaxPerBlock = 4
  MaxLayers = 0
  MaxSpawn = 1
  NonNull = {1}
  ZeroSizeAlloc = FALSE
  UnknownComponents = TRUE
INVARIANTS
  SlotInv
PROPERTIES
  DataIsolated
CHECK_DEADLOCK FALSE
VIEW Forget
