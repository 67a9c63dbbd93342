SPECIFICATION Spec
CONSTANTS
  NumComponents = 2
  PerBlock = 1
  Refused = {"instance",
             "entity.generation", "entity.layer_index", "entity.archetype_index",
             "entity.archetype_code", "entity.free", "entities",
             "layer.generation", "layer.data", "layer.entities",
             "component.data", "required",
             "archetype.components_index", "archetype.data", "set", "offset_size",
             "free", "blocks", "block",
             "query", "query.component", "query.size", "query.runtime", "query.set",
             "query.archetype", "query.offset"}
  MaxEntity = 3
  MaxArchetypes = 3
  MaxSlots = 2
  MaxLayers = 2
  LayerMax = {1}
  MaxSpawn = 2
  MaxFree = 2
INVARIANTS
  TypeOK
  BooksAgree
  Fits
  OnlyKnownLosses
CHECK_DEADLOCK FALSE
