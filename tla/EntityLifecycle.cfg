SPECIFICATION Spec
CONSTANTS
  HalfWord = 8
  MaxEntity = 4
  MaxGeneration = 3
  Failing = {"entity_table", "entity_free"}
INVARIANTS
  TypeOK
  FreeListSound
  GenerationsAdvance
PROPERTIES
  NoIndexLost
  HandlesImplemented
CHECK_DEADLOCK FALSE
