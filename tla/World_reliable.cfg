SPECIFICATION Spec
CONSTANTS
  HalfWord = 8
  MaxEntity = 2
  Failing = {}
  NumComponents = 2
  Value = {0, 1}
  BlockSize = 4
  IndexSize = 2
  ComponentSize <- Same
  MaxArchetypes = 3
  MaxBlocks = 2
  MaxPerBlock = 2
  MaxLayers = 0
  MaxSpawn = 2
  NonNull = {1}
  ZeroSizeAlloc = TRUE
  UnknownComponents = FALSE
INVARIANTS
  TypeOK
  SlotExclusive
  BackPointer
  FreeSlotsSound
  BlocksCover
  ArchetypesUnique
  NoSlotLost
  NoFault
PROPERTIES
  ContractKept
  DataIsolated
  DataKept
CHECK_DEADLOCK FALSE
VIEW Forget
