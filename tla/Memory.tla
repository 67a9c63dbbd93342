------------------------------- MODULE Memory -------------------------------
(***************************************************************************)
(* What the library asks of the allocator of its instance (src/memory.c,   *)
(* src/instance.c, the vectors of src/local.h, src/component.c and the     *)
(* allocations of the other files).                                        *)
(*                                                                         *)
(* The allocator is told the size of what it is to enlarge or to free, so  *)
(* the library has to know at each call how much it was given before.  The *)
(* arrays are counted in elements, one buffer per pointer the library      *)
(* keeps, and given is the allocator's side of the books.                  *)
(*                                                                         *)
(* Each request may be refused.  When it was one to enlarge an array the   *)
(* library keeps NULL in the place of the array (memory.c:28) and tells    *)
(* the caller; here the instance may then only be destroyed.  What other   *)
(* calls do with such tables is in EntityLifecycle, World and Query, and   *)
(* so is what they write.                                                  *)
(* Archetypes are found if they are there (Directory), and no entity       *)
(* enters a layer's list, which is not written where it should (Layers).   *)
(***************************************************************************)
EXTENDS Integers, FiniteSets, Sequences

CONSTANTS
  NumComponents,    (* components that may be registered                    *)
  PerBlock,         (* entities_per_block, of every archetype               *)
  LayerMax,         (* the max_entities that layers are made with           *)
  Refused,          (* the allocations that may fail                        *)
  MaxEntity,        (* bound: entities made                                 *)
  MaxArchetypes,    (* bound: archetypes made                               *)
  MaxSlots,         (* bound: slots handed out, in all archetypes           *)
  MaxLayers,        (* bound: layers made                                   *)
  MaxSpawn,         (* bound: entities of one spawn                         *)
  MaxFree           (* bound: waiting on each free list                     *)

ASSUME MemoryAssumption ==
  /\ NumComponents \in Nat \ {0}
  /\ PerBlock \in Nat \ {0}
  /\ LayerMax \subseteq Nat
  /\ { MaxEntity, MaxArchetypes, MaxSlots, MaxLayers, MaxSpawn, MaxFree } \subseteq Nat

VARIABLES
  stage,       (* of the instance: "none", "open", "short" when an array    *)
               (* could not be enlarged, "destroyed" or "faulted"           *)
  entity,      (* the lengths and capacities of the entity table            *)
  layer,       (* those of the layers, and of the list of each              *)
  component,   (* those of the components, and what each requires           *)
  archetype,   (* those of the archetypes and of what each of them owns     *)
  query,       (* those of a query                                          *)
  given,       (* the allocator: the size of what each pointer of the       *)
               (* library leads to, zero if it is NULL                      *)
  lost,        (* buffers that no pointer leads to any more                 *)
  mistold,     (* buffers whose size the allocator was told wrong           *)
  refused      (* the buffer that there was no memory for, in "short"       *)

vars ==
  << stage, entity, layer, component, archetype, query, given, lost, mistold, refused >>

Component == 0 .. NumComponents - 1

Registered == 0 .. Len(component.required) - 1

(* Arrays that grow together.                                              *)
EntityArrays == { "entity.generation", "entity.layer_index", "entity.archetype_index",
                  "entity.archetype_code" }
LayerArrays == { "layer.generation", "layer.data" }
ArchetypeArrays == { "archetype.components_index", "archetype.data" }
QueryLists == { "query.archetype", "query.offset" }
SetArrays == { "set", "offset_size" }
QueryArrays == { "query.component", "query.size", "query.runtime", "query.set" }

Single == EntityArrays \cup LayerArrays \cup ArchetypeArrays \cup QueryArrays
          \cup QueryLists
          \cup { "instance", "entity.free", "component.data", "query", "entities" }

(* The order in which those that grow together do.                         *)
EntityOrder == << "entity.generation", "entity.layer_index", "entity.archetype_index",
                  "entity.archetype_code" >>
LayerOrder == << "layer.generation", "layer.data" >>
ArchetypeOrder == << "archetype.components_index", "archetype.data" >>

(* A buffer: of what kind, of which layer, component or archetype, and for *)
(* a block which of them.                                                  *)
Buffer ==
  (Single \X {0} \X {0})
  \cup ({ "layer.entities" } \X (1 .. MaxLayers) \X {0})
  \cup ({ "required" } \X (1 .. NumComponents) \X {0})
  \cup ((SetArrays \cup { "free", "blocks" }) \X (1 .. MaxArchetypes) \X {0})
  \cup ({ "block" } \X (1 .. MaxArchetypes) \X (1 .. MaxSlots))

TheOnly(kind) == << kind, 0, 0 >>

-----------------------------------------------------------------------------
(* THE ALLOCATOR, and what reaches it                                      *)

Asked(buffer, told, size) == [ buffer |-> buffer, told |-> told, size |-> size ]

Renewed(kinds, n, told, size) ==
  IF told = size THEN {} ELSE { Asked(<< kind, n, 0 >>, told, size) : kind \in kinds }

(* Nothing is freed through a NULL, or when its size is said to be zero.   *)
Reaches(ask) == ask.size > 0 \/ (given[ask.buffer] > 0 /\ ask.told > 0)

(* The answers to a call's requests, at most one for each buffer.          *)
Answered(asks) ==
  LET heard == { ask \in asks : Reaches(ask) }
      SizeOf(b) == (CHOOSE ask \in heard : ask.buffer = b).size IN
  /\ given' = [ b \in Buffer |->
                  IF \E ask \in heard : ask.buffer = b THEN SizeOf(b) ELSE given[b] ]
  /\ mistold' = mistold \cup { ask.buffer : ask \in { a \in heard : a.told # given[a.buffer] } }

(* The capacity that arrays get when they have to hold n elements.         *)
Roomy(n) == n + n \div 2

(* Mutant: an array is enlarged one element too late.                      *)
VectorCapacityLate(length, capacity) ==
  IF length > capacity THEN Roomy(length + 1) ELSE capacity

(* alias_ecs_Vector_space_for, for one element more.                       *)
VectorCapacity(length, capacity) ==
  IF length + 1 > capacity THEN Roomy(length + 1) ELSE capacity

(* A step of a loop, taken n times.                                        *)
Iterate(Step(_), start, n) ==
  LET after[i \in 0 .. n] == IF i = 0 THEN start ELSE Step(after[i - 1])
  IN  after[n]

Loses(buffers) == lost' = lost \cup buffers

(* Bound: after a loss the query and the instance may only be destroyed.   *)
(* What is lost is never used again, and nothing else depends on it.       *)
Called == stage = "open" /\ lost = {} /\ mistold = {}

(* A request is refused: the pointer becomes NULL, and what it led to is   *)
(* lost.                                                                   *)
Denied(buffer, told) == Asked(buffer, told, 0)

Dropped(buffer, size) == IF size > 0 THEN { buffer } ELSE {}

RunsShort(buffer) == stage' = "short" /\ refused' = { buffer }

(* Of arrays that grow one after the other the k-th does not.  They were   *)
(* told as large when the call began, and have another size now.           *)
CutShort(order, k, told, now, size) ==
  { Asked(TheOnly(order[m]), told, IF m < k THEN size ELSE IF m = k THEN 0 ELSE now) :
      m \in DOMAIN order }

(* What is left after a fault is not recorded.                             *)
Faults ==
  /\ stage' = "faulted"
  /\ UNCHANGED << entity, layer, component, archetype, query, given, lost, mistold, refused >>

-----------------------------------------------------------------------------
(* ENTITIES                                                                *)

(* alias_ecs_create_entity                                                 *)
WithEntity(table) ==
  IF table.free > 0 THEN [ table EXCEPT !.free = @ - 1 ]
  ELSE [ table EXCEPT
           !.length = @ + 1,
           !.capacity = IF table.length + 1 > @ THEN Roomy(table.length + 2) ELSE @ ]

WithEntities(n) == Iterate(WithEntity, entity, n)

NoEntities == [ length |-> 0, capacity |-> 0, free |-> 0, freeCapacity |-> 0 ]

CreateInstance ==
  /\ stage = "none"
  /\ stage' = "open"
  /\ entity' = WithEntity(NoEntities)
  /\ Answered({ Asked(TheOnly("instance"), 0, 1) }
              \cup Renewed(EntityArrays, 0, 0, WithEntity(NoEntities).capacity))
  /\ UNCHANGED << layer, component, archetype, query, lost, refused >>

CreateInstanceFails ==
  /\ stage = "none"
  /\ "instance" \in Refused
  /\ UNCHANGED vars

(* The first entity is not made, and nobody asks whether it was.           *)
CreateInstanceShort ==
  /\ stage = "none"
  /\ \E k \in DOMAIN EntityOrder :
       /\ EntityOrder[k] \in Refused
       /\ RunsShort(TheOnly(EntityOrder[k]))
       /\ Answered({ Asked(TheOnly("instance"), 0, 1) }
                   \cup CutShort(EntityOrder, k, 0, 0, WithEntity(NoEntities).capacity))
  /\ entity' = [ WithEntity(NoEntities) EXCEPT !.capacity = 0 ]
  /\ UNCHANGED << layer, component, archetype, query, lost >>

(* alias_ecs_free_entity, which no public operation calls.  The slot of    *)
(* the entity is not given up with it.                                     *)
EntityFreed ==
  /\ Called
  /\ entity.free < MaxFree
  /\ \E a \in DOMAIN archetype.data :
       /\ archetype.data[a].live > 0
       /\ archetype' = [ archetype EXCEPT !.data[a].live = @ - 1 ]

FreeEntity ==
  /\ EntityFreed
  /\ LET capacity == VectorCapacity(entity.free, entity.freeCapacity) IN
     /\ entity' = [ entity EXCEPT !.free = @ + 1, !.freeCapacity = capacity ]
     /\ Answered(Renewed({ "entity.free" }, 0, entity.freeCapacity, capacity))
  /\ UNCHANGED << stage, layer, component, query, lost, refused >>

FreeEntityShort ==
  /\ EntityFreed
  /\ "entity.free" \in Refused
  /\ VectorCapacity(entity.free, entity.freeCapacity) # entity.freeCapacity
  /\ RunsShort(TheOnly("entity.free"))
  /\ Answered({ Denied(TheOnly("entity.free"), entity.freeCapacity) })
  /\ Loses(Dropped(TheOnly("entity.free"), entity.freeCapacity))
  /\ UNCHANGED << entity, layer, component, query >>

-----------------------------------------------------------------------------
(* COMPONENTS AND LAYERS                                                   *)

RegisterComponent ==
  /\ Called
  /\ Len(component.required) < NumComponents
  /\ \E n \in 0 .. Len(component.required) :
       LET c == Len(component.required) + 1
           capacity == VectorCapacity(c - 1, component.capacity) IN
       /\ component' = [ capacity |-> capacity,
                         required |-> Append(component.required, n) ]
       /\ Answered(Renewed({ "required" }, c, 0, n)
                   \cup Renewed({ "component.data" }, 0, component.capacity, capacity))
  /\ UNCHANGED << stage, entity, layer, archetype, query, lost, refused >>

RegisterComponentFails ==
  /\ Called
  /\ "required" \in Refused
  /\ component.required # << >>
  /\ UNCHANGED vars

(* The copy of what the component requires was made before.                *)
RegisterComponentShort ==
  /\ Called
  /\ "component.data" \in Refused
  /\ Len(component.required) < NumComponents
  /\ VectorCapacity(Len(component.required), component.capacity) # component.capacity
  /\ RunsShort(TheOnly("component.data"))
  /\ Answered({ Denied(TheOnly("component.data"), component.capacity) })
  /\ \E n \in 0 .. Len(component.required) :
       Loses(Dropped(TheOnly("component.data"), component.capacity)
             \cup Dropped(<< "required", Len(component.required) + 1, 0 >>, n))
  /\ UNCHANGED << entity, layer, component, archetype, query >>

(* Whether the list of the layer's entities was allocated nobody asks.     *)
ListsGranted ==
  LayerMax \cup (IF "layer.entities" \in Refused THEN {0} ELSE {})

CreateLayer ==
  /\ Called
  /\ Len(layer.entities) < MaxLayers
  /\ \E max \in ListsGranted :
       LET l == Len(layer.entities) + 1
           capacity == IF l > layer.capacity THEN Roomy(l) ELSE layer.capacity IN
       /\ layer' = [ capacity |-> capacity, entities |-> Append(layer.entities, max) ]
       /\ Answered(Renewed(LayerArrays, 0, layer.capacity, capacity)
                   \cup Renewed({ "layer.entities" }, l, 0, max))
  /\ UNCHANGED << stage, entity, component, archetype, query, lost, refused >>

(* The code has counted the layer; the model has not, for there is no      *)
(* record of it.  What is read by the count is in ReadBeyond.              *)
CreateLayerShort ==
  /\ Called
  /\ Len(layer.entities) < MaxLayers
  /\ Len(layer.entities) + 1 > layer.capacity
  /\ \E k \in DOMAIN LayerOrder :
       LET b == TheOnly(LayerOrder[k]) IN
       /\ LayerOrder[k] \in Refused
       /\ RunsShort(b)
       /\ Answered(CutShort(LayerOrder, k, layer.capacity, layer.capacity,
                            Roomy(Len(layer.entities) + 1)))
       /\ Loses(Dropped(b, layer.capacity))
  /\ UNCHANGED << entity, layer, component, archetype, query >>

-----------------------------------------------------------------------------
(* ARCHETYPES                                                              *)

NewArchetype(cs) ==
  [ components |-> cs, live |-> 0, next |-> 0, free |-> 0, freeCapacity |-> 0,
    blocks |-> 0 ]

(* alias_ecs_resolve_archetype: the array of the component set is kept by  *)
(* a new archetype, and freed if the archetype is there.                   *)
Known(cs) == \E a \in DOMAIN archetype.data : archetype.data[a].components = cs

Resolved(cs) ==
  IF Known(cs) THEN archetype
  ELSE LET n == Len(archetype.data) + 1 IN
       [ capacity |-> IF n > archetype.capacity THEN Roomy(n) ELSE archetype.capacity,
         data |-> Append(archetype.data, NewArchetype(cs)) ]

(* Mutant: one of the two parallel arrays is not enlarged.                 *)
ResolveAsksOneArray(cs) ==
  LET n == Len(archetype.data) + 1
      size == Cardinality(cs) IN
  IF Known(cs) THEN {}
  ELSE Renewed({ "archetype.data" }, 0, archetype.capacity, Resolved(cs).capacity)
       \cup Renewed(SetArrays, n, 0, size)

ResolveAsks(cs) ==
  LET n == Len(archetype.data) + 1
      size == Cardinality(cs) IN
  IF Known(cs) THEN {}
  ELSE Renewed(ArchetypeArrays, 0, archetype.capacity, Resolved(cs).capacity)
       \cup Renewed(SetArrays, n, 0, size)

(* Mutant: the set of an archetype that is there is not freed.             *)
ResolveLosesSet(cs) == IF Known(cs) THEN { << "set", 1, 0 >> } ELSE {}

ResolveLoses(cs) == {}

IndexOf(data, cs) == CHOOSE a \in DOMAIN data : data[a].components = cs

(* Mutant: the capacity of the free list is tested for its length.         *)
WithSlotTakenByCapacity(arch) ==
  IF arch.freeCapacity > 0 THEN [ arch EXCEPT !.free = @ - 1, !.live = @ + 1 ]
  ELSE [ arch EXCEPT !.next = @ + 1, !.live = @ + 1,
                     !.blocks = IF arch.next \div PerBlock = @ THEN @ + 1 ELSE @ ]

(* _allocate_code and _free_code                                           *)
WithSlotTaken(arch) ==
  IF arch.free > 0 THEN [ arch EXCEPT !.free = @ - 1, !.live = @ + 1 ]
  ELSE [ arch EXCEPT !.next = @ + 1, !.live = @ + 1,
                     !.blocks = IF arch.next \div PerBlock = @ THEN @ + 1 ELSE @ ]

WithSlotsTaken(arch, n) == Iterate(WithSlotTaken, arch, n)

WithSlotGiven(arch) ==
  [ arch EXCEPT !.free = @ + 1, !.live = @ - 1,
                !.freeCapacity = VectorCapacity(arch.free, @) ]

SlotsOf(data) ==
  { slot \in (DOMAIN data) \X (1 .. MaxSlots + 1) : slot[2] <= data[slot[1]].next }

InBounds(data) ==
  /\ Len(data) <= MaxArchetypes
  /\ Cardinality(SlotsOf(data)) <= MaxSlots

BlockAsks(a, before, after) ==
  Renewed({ "blocks" }, a, before.blocks, after.blocks)
  \cup { Asked(<< "block", a, j >>, 0, 1) : j \in before.blocks + 1 .. after.blocks }

(* The last of the blocks is not there: its place in the list is NULL.     *)
BlockAsksButLast(a, before, after) ==
  { ask \in BlockAsks(a, before, after) : ask.buffer # << "block", a, after.blocks >> }

(* The list itself is not there, and is written to (archetype.c:131-132).  *)
BlocksFault(before, after) ==
  /\ "blocks" \in Refused
  /\ after.blocks # before.blocks
  /\ Faults

(* The code has counted the new archetype; the model has not, for there is *)
(* no record of it, and its set of components is in nobody's hands.  What  *)
(* is read by the count is in ReadBeyond.                                  *)
DirectoryShort(cs) ==
  LET n == Len(archetype.data) + 1 IN
  /\ n > archetype.capacity
  /\ \E k \in DOMAIN ArchetypeOrder :
       LET b == TheOnly(ArchetypeOrder[k]) IN
       /\ ArchetypeOrder[k] \in Refused
       /\ RunsShort(b)
       /\ Answered(CutShort(ArchetypeOrder, k, archetype.capacity, archetype.capacity, Roomy(n)))
       /\ Loses(Dropped(b, archetype.capacity)
                \cup Dropped(<< "set", n, 0 >>, Cardinality(cs)))
  /\ UNCHANGED archetype

(* It has its set but not the offsets of its columns.                      *)
LayoutShort(cs) ==
  LET b == << "offset_size", Len(archetype.data) + 1, 0 >> IN
  /\ "offset_size" \in Refused
  /\ cs # {}
  /\ RunsShort(b)
  /\ archetype' = Resolved(cs)
  /\ Answered({ ask \in ResolveAsks(cs) : ask.buffer # b })
  /\ UNCHANGED lost

(* In a spawn, or in a call that adds or removes a component, where alone  *)
(* the set may be empty.                                                   *)
ResolveShort ==
  /\ Called
  /\ Len(archetype.data) < MaxArchetypes
  /\ \E cs \in SUBSET Registered :
       /\ ~ Known(cs)
       /\ \/ cs # {}
          \/ \E a \in DOMAIN archetype.data :
               archetype.data[a].live > 0 /\ Cardinality(archetype.data[a].components) = 1
       /\ DirectoryShort(cs) \/ LayoutShort(cs)
  /\ UNCHANGED << entity, layer, component, query >>

-----------------------------------------------------------------------------
(* SPAWN, ADD AND REMOVE                                                   *)

(* The array of handles that spawn makes for a caller that passes none is  *)
(* not freed, since spawn does not get to its end (entity.c:121).          *)
HandlesLost(own) == IF own THEN { TheOnly("entities") } ELSE {}

Spawn ==
  /\ Called
  /\ \E cs \in (SUBSET Registered) \ {{}},
        n \in 1 .. MaxSpawn, own \in BOOLEAN :
       LET data == Resolved(cs).data
           a == IndexOf(data, cs)
           filled == WithSlotsTaken(data[a], n) IN
       /\ WithEntities(n).length <= MaxEntity + 1
       /\ entity' = WithEntities(n)
       /\ archetype' = [ Resolved(cs) EXCEPT !.data[a] = filled ]
       /\ InBounds(archetype'.data)
       /\ Answered(ResolveAsks(cs)
                   \cup Renewed(EntityArrays, 0, entity.capacity, entity'.capacity)
                   \cup BlockAsks(a, data[a], filled))
       /\ Loses(HandlesLost(own) \cup ResolveLoses(cs))
  /\ UNCHANGED << stage, layer, component, query, refused >>

(* Without memory for the component array nothing happens; without memory  *)
(* for the handles the archetype stays.                                    *)
SpawnFails ==
  /\ Called
  /\ \/ "set" \in Refused /\ UNCHANGED << archetype, given, lost, mistold >>
     \/ /\ "entities" \in Refused
        /\ \E cs \in (SUBSET Registered) \ {{}} :
             /\ archetype' = Resolved(cs)
             /\ InBounds(archetype'.data)
             /\ Answered(ResolveAsks(cs))
             /\ Loses(ResolveLoses(cs))
  /\ UNCHANGED << stage, entity, layer, component, query, refused >>

(* After n entities the arrays of the next one are refused.                *)
TableShort(cs, n) ==
  LET data == Resolved(cs).data
      a == IndexOf(data, cs)
      filled == WithSlotsTaken(data[a], n)
      table == WithEntities(n)
      next == WithEntity(table) IN
  /\ next.length <= MaxEntity + 1
  /\ next.capacity # table.capacity
  /\ entity' = [ next EXCEPT !.capacity = table.capacity ]
  /\ archetype' = [ Resolved(cs) EXCEPT !.data[a] = filled ]
  /\ InBounds(archetype'.data)
  /\ \E k \in DOMAIN EntityOrder :
       /\ EntityOrder[k] \in Refused
       /\ RunsShort(TheOnly(EntityOrder[k]))
       /\ Answered(ResolveAsks(cs) \cup BlockAsks(a, data[a], filled)
                   \cup CutShort(EntityOrder, k, entity.capacity, table.capacity,
                                 next.capacity))

(* Or its block, when it was made and the number of its slot is taken.     *)
SpawnBlockShort(cs, n) ==
  LET data == Resolved(cs).data
      a == IndexOf(data, cs)
      filled == WithSlotsTaken(data[a], n)
      full == WithSlotTaken(filled) IN
  /\ WithEntities(n + 1).length <= MaxEntity + 1
  /\ "block" \in Refused
  /\ full.blocks # filled.blocks
  /\ RunsShort(<< "block", a, full.blocks >>)
  /\ entity' = WithEntities(n + 1)
  /\ archetype' = [ Resolved(cs) EXCEPT !.data[a] = [ full EXCEPT !.live = filled.live ] ]
  /\ InBounds(archetype'.data)
  /\ Answered(ResolveAsks(cs)
              \cup Renewed(EntityArrays, 0, entity.capacity, entity'.capacity)
              \cup BlockAsksButLast(a, data[a], full))

SpawnShort ==
  /\ Called
  /\ \E cs \in (SUBSET Registered) \ {{}}, n \in 0 .. MaxSpawn - 1, own \in BOOLEAN :
       /\ TableShort(cs, n) \/ SpawnBlockShort(cs, n)
       /\ Loses(HandlesLost(own)
                \cup { b \in refused' : b[1] \in EntityArrays /\ WithEntities(n).capacity > 0 })
  /\ UNCHANGED << layer, component, query >>

SpawnFaults ==
  /\ Called
  /\ \E cs \in (SUBSET Registered) \ {{}}, n \in 0 .. MaxSpawn - 1 :
       LET data == Resolved(cs).data
           filled == WithSlotsTaken(data[IndexOf(data, cs)], n) IN
       BlocksFault(filled, WithSlotTaken(filled))

(* alias_ecs_set_entity_archetype for an entity of archetype a.  One of    *)
(* the first archetype is taken for an entity without a place.             *)
Move(a, cs) ==
  LET data == Resolved(cs).data
      b == IndexOf(data, cs)
      leaves == IF a = 1 THEN [ data[a] EXCEPT !.live = @ - 1 ]
                ELSE WithSlotGiven(data[a])
      enters == WithSlotTaken(data[b]) IN
  /\ leaves.free <= MaxFree
  /\ archetype' = [ Resolved(cs) EXCEPT !.data[a] = leaves, !.data[b] = enters ]
  /\ InBounds(archetype'.data)
  /\ Answered(ResolveAsks(cs)
              \cup Renewed({ "free" }, a, data[a].freeCapacity, leaves.freeCapacity)
              \cup BlockAsks(b, data[b], enters))
  /\ Loses(ResolveLoses(cs))

(* There is no memory to give up the old slot, or none for the block of    *)
(* the new one: the entity keeps its place.                                *)
FreeShort(a, cs) ==
  LET b == << "free", a, 0 >>
      capacity == Resolved(cs).data[a].freeCapacity IN
  /\ a # 1
  /\ "free" \in Refused
  /\ VectorCapacity(Resolved(cs).data[a].free, capacity) # capacity
  /\ RunsShort(b)
  /\ archetype' = Resolved(cs)
  /\ InBounds(archetype'.data)
  /\ Answered(ResolveAsks(cs) \cup { Denied(b, capacity) })
  /\ Loses(Dropped(b, capacity))

MoveBlockShort(a, cs) ==
  LET data == Resolved(cs).data
      b == IndexOf(data, cs)
      leaves == IF a = 1 THEN data[a] ELSE [ WithSlotGiven(data[a]) EXCEPT !.live = @ + 1 ]
      enters == WithSlotTaken(data[b]) IN
  /\ "block" \in Refused
  /\ enters.blocks # data[b].blocks
  /\ leaves.free <= MaxFree
  /\ RunsShort(<< "block", b, enters.blocks >>)
  /\ archetype' = [ Resolved(cs) EXCEPT !.data[a] = leaves,
                                        !.data[b] = [ enters EXCEPT !.live = @ - 1 ] ]
  /\ InBounds(archetype'.data)
  /\ Answered(ResolveAsks(cs)
              \cup Renewed({ "free" }, a, data[a].freeCapacity, leaves.freeCapacity)
              \cup BlockAsksButLast(b, data[b], enters))
  /\ UNCHANGED lost

(* A component more or a component less.                                   *)
Changes(a, cs) ==
  /\ archetype.data[a].live > 0
  /\ cs # archetype.data[a].components
  /\ \E c \in Registered : cs \in { archetype.data[a].components \cup {c},
                                   archetype.data[a].components \ {c} }

MoveShort ==
  /\ Called
  /\ \E a \in DOMAIN archetype.data, cs \in SUBSET Registered :
       /\ Changes(a, cs)
       /\ FreeShort(a, cs) \/ MoveBlockShort(a, cs)
  /\ UNCHANGED << entity, layer, component, query >>

MoveFaults ==
  /\ Called
  /\ \E a \in DOMAIN archetype.data, cs \in SUBSET Registered :
       LET data == Resolved(cs).data IN
       /\ Changes(a, cs)
       /\ BlocksFault(data[IndexOf(data, cs)], WithSlotTaken(data[IndexOf(data, cs)]))

AddComponent ==
  /\ Called
  /\ \E a \in DOMAIN archetype.data, c \in Registered :
       /\ archetype.data[a].live > 0
       /\ c \notin archetype.data[a].components
       /\ Move(a, archetype.data[a].components \cup {c})
  /\ UNCHANGED << stage, entity, layer, component, query, refused >>

RemoveComponent ==
  /\ Called
  /\ \E a \in DOMAIN archetype.data :
       /\ archetype.data[a].live > 0
       /\ \E c \in archetype.data[a].components :
            Move(a, archetype.data[a].components \ {c})
  /\ UNCHANGED << stage, entity, layer, component, query, refused >>

ChangeFails ==
  /\ Called
  /\ "set" \in Refused
  /\ \E a \in DOMAIN archetype.data : archetype.data[a].live > 0
  /\ UNCHANGED vars

-----------------------------------------------------------------------------
(* QUERIES                                                                 *)

NoQuery == [ components |-> {}, tested |-> 0, length |-> 0, capacity |-> 0 ]

QueryOpen == query.components # {}

CreateQuery ==
  /\ Called
  /\ ~ QueryOpen
  /\ \E cs \in (SUBSET Registered) \ {{}} :
       /\ query' = [ NoQuery EXCEPT !.components = cs ]
       /\ Answered({ Asked(TheOnly("query"), 0, 1) }
                   \cup Renewed(QueryArrays, 0, 0, Cardinality(cs)))
  /\ UNCHANGED << stage, entity, layer, component, archetype, lost, refused >>

(* What was allocated before is not freed when the query cannot be made.   *)
MadeInOrder ==
  << "query", "query.component", "query.size", "query.runtime", "query.set" >>

CreateQueryFails ==
  /\ Called
  /\ ~ QueryOpen
  /\ component.required # << >>
  /\ \E n \in DOMAIN MadeInOrder :
       /\ MadeInOrder[n] \in Refused
       /\ Loses({ TheOnly(MadeInOrder[m]) : m \in 1 .. n - 1 })
  /\ UNCHANGED << stage, entity, layer, component, archetype, query, given, mistold, refused >>

(* The next archetype is tested, and listed if it matches.                 *)
WithTested(q) ==
  IF ~ (q.components \subseteq archetype.data[q.tested + 1].components) THEN [ q EXCEPT !.tested = @ + 1 ]
  ELSE [ q EXCEPT !.tested = @ + 1, !.length = @ + 1,
                  !.capacity = IF q.length + 1 >= @ THEN Roomy(q.length + 1) ELSE @ ]

ExecuteQuery ==
  /\ Called
  /\ QueryOpen
  /\ LET done == Iterate(WithTested, query, Len(archetype.data) - query.tested)
         columns == Cardinality(query.components) IN
     /\ query' = done
     /\ Answered(Renewed({ "query.archetype" }, 0, query.capacity, done.capacity)
                 \cup Renewed({ "query.offset" }, 0, columns * query.capacity,
                              columns * done.capacity))
  /\ UNCHANGED << stage, entity, layer, component, archetype, lost, refused >>

(* After n tests the lists have to grow, and one of them cannot.           *)
ExecuteQueryShort ==
  /\ Called
  /\ QueryOpen
  /\ \E n \in 0 .. Len(archetype.data) - query.tested - 1 :
       LET done == Iterate(WithTested, query, n)
           next == WithTested(done)
           columns == Cardinality(query.components)
           list == TheOnly("query.archetype")
           offset == TheOnly("query.offset") IN
       /\ next.capacity # done.capacity
       /\ query' = done
       /\ \/ /\ "query.archetype" \in Refused
             /\ RunsShort(list)
             /\ Answered({ Denied(list, query.capacity),
                           Asked(offset, columns * query.capacity, columns * done.capacity) })
             /\ Loses(Dropped(list, done.capacity))
          \/ /\ "query.offset" \in Refused
             /\ RunsShort(offset)
             /\ Answered({ Asked(list, query.capacity, next.capacity),
                           Denied(offset, columns * query.capacity) })
             /\ Loses(Dropped(offset, columns * done.capacity))
  /\ UNCHANGED << entity, layer, component, archetype >>

(* The lists are freed by their length and not by their capacity.          *)
DestroyQuery ==
  /\ stage \in { "open", "short" }
  /\ QueryOpen
  /\ LET columns == Cardinality(query.components) IN
     Answered({ Asked(TheOnly("query"), 1, 0),
                Asked(TheOnly("query.archetype"), query.length, 0),
                Asked(TheOnly("query.offset"), query.length * columns, 0) }
              \cup Renewed(QueryArrays, 0, columns, 0))
  /\ Loses({ TheOnly(kind) : kind \in { k \in QueryLists : given'[TheOnly(k)] > 0 } })
  /\ query' = NoQuery
  /\ UNCHANGED << stage, entity, layer, component, archetype, refused >>

-----------------------------------------------------------------------------
(* THE END OF THE INSTANCE                                                 *)

ArchetypeFreed(a) ==
  LET arch == archetype.data[a] IN
  Renewed(SetArrays, a, Cardinality(arch.components), 0)
  \cup Renewed({ "free" }, a, arch.freeCapacity, 0)
  \cup { Asked(<< "block", a, j >>, 1, 0) : j \in 1 .. arch.blocks }
  \cup Renewed({ "blocks" }, a, arch.blocks, 0)

LayersFreed ==
  UNION { Renewed({ "layer.entities" }, l, layer.entities[l], 0) : l \in DOMAIN layer.entities }

RequirementsFreed ==
  UNION { Renewed({ "required" }, c, component.required[c], 0) :
            c \in DOMAIN component.required }

ArchetypesFreed == UNION { ArchetypeFreed(a) : a \in DOMAIN archetype.data }

InstanceFreed ==
  { Asked(TheOnly("instance"), 1, 0) }
  \cup Renewed(LayerArrays, 0, layer.capacity, 0) \cup LayersFreed
  \cup RequirementsFreed \cup Renewed({ "component.data" }, 0, component.capacity, 0)
  \cup Renewed(EntityArrays, 0, entity.capacity, 0)
  \cup ArchetypesFreed \cup Renewed(ArchetypeArrays, 0, archetype.capacity, 0)

(* An array that could not grow is shorter than its length says, or NULL,  *)
(* and is read by its length (instance.c:53, instance.c:59, instance.c:69).*)
ReadBeyond ==
  \E b \in refused :
    \/ (b[1] \in LayerArrays /\ layer.capacity > 0)
    \/ (b[1] = "component.data" /\ component.required # << >>)
    \/ b[1] \in ArchetypeArrays

(* The application has destroyed its query before.                         *)
DestroyInstance ==
  /\ stage \in { "open", "short" }
  /\ ~ QueryOpen
  /\ ~ ReadBeyond
  /\ stage' = "destroyed"
  /\ Answered(InstanceFreed)
  /\ Loses({ b \in Buffer : given'[b] > 0 })
  /\ UNCHANGED << entity, layer, component, archetype, query, refused >>

DestroyInstanceFaults ==
  /\ stage = "short"
  /\ ~ QueryOpen
  /\ ReadBeyond
  /\ Faults

-----------------------------------------------------------------------------

Init ==
  /\ stage = "none"
  /\ entity = NoEntities
  /\ layer = [ capacity |-> 0, entities |-> << >> ]
  /\ component = [ capacity |-> 0, required |-> << >> ]
  /\ archetype = [ capacity |-> 0, data |-> << >> ]
  /\ query = NoQuery
  /\ given = [ b \in Buffer |-> 0 ]
  /\ lost = {}
  /\ mistold = {}
  /\ refused = {}

Next ==
  \/ CreateInstance \/ CreateInstanceFails \/ CreateInstanceShort
  \/ FreeEntity \/ FreeEntityShort
  \/ RegisterComponent \/ RegisterComponentFails \/ RegisterComponentShort
  \/ CreateLayer \/ CreateLayerShort
  \/ ResolveShort
  \/ Spawn \/ SpawnFails \/ SpawnShort \/ SpawnFaults
  \/ AddComponent \/ RemoveComponent \/ ChangeFails \/ MoveShort \/ MoveFaults
  \/ CreateQuery \/ CreateQueryFails \/ ExecuteQuery \/ ExecuteQueryShort \/ DestroyQuery
  \/ DestroyInstance \/ DestroyInstanceFaults

Spec == Init /\ [][Next]_vars

-----------------------------------------------------------------------------
(* PROPERTIES                                                              *)

ArchetypeRecord ==
  [ components : SUBSET Component, live : Nat, next : Nat, free : Nat,
    freeCapacity : Nat, blocks : Nat ]

TypeOK ==
  /\ stage \in { "none", "open", "short", "destroyed", "faulted" }
  /\ entity \in [ length : Nat, capacity : Nat, free : Nat, freeCapacity : Nat ]
  /\ layer \in [ capacity : Nat, entities : Seq(Nat) ]
  /\ component \in [ capacity : Nat, required : Seq(Nat) ]
  /\ archetype \in [ capacity : Nat, data : Seq(ArchetypeRecord) ]
  /\ query \in [ components : SUBSET Component, tested : Nat, length : Nat, capacity : Nat ]
  /\ given \in [ Buffer -> Nat ]
  /\ lost \subseteq Buffer /\ mistold \subseteq Buffer /\ refused \subseteq Buffer

(* The size that the library believes a buffer to have, from the fields    *)
(* that it tells the allocator.                                            *)
Columns == Cardinality(query.components)

Believed(kind, n, j) ==
  CASE kind = "instance" -> 1
    [] kind \in EntityArrays -> entity.capacity
    [] kind = "entity.free" -> entity.freeCapacity
    [] kind \in LayerArrays -> layer.capacity
    [] kind = "layer.entities" /\ n \in DOMAIN layer.entities -> layer.entities[n]
    [] kind = "component.data" -> component.capacity
    [] kind = "required" /\ n \in DOMAIN component.required -> component.required[n]
    [] kind \in ArchetypeArrays -> archetype.capacity
    [] kind \in SetArrays /\ n \in DOMAIN archetype.data ->
         Cardinality(archetype.data[n].components)
    [] kind = "free" /\ n \in DOMAIN archetype.data -> archetype.data[n].freeCapacity
    [] kind = "blocks" /\ n \in DOMAIN archetype.data -> archetype.data[n].blocks
    [] kind = "block" /\ n \in DOMAIN archetype.data ->
         IF j <= archetype.data[n].blocks THEN 1 ELSE 0
    [] kind = "query" -> IF QueryOpen THEN 1 ELSE 0
    [] kind \in QueryArrays -> Columns
    [] kind = "query.archetype" -> query.capacity
    [] kind = "query.offset" -> Columns * query.capacity
    [] OTHER -> 0

(* What was asked for with what was refused: the arrays that grow together *)
(* have different sizes after it.                                          *)
Together(b) ==
  UNION { { TheOnly(kind) : kind \in kinds } :
            kinds \in { k \in { EntityArrays, LayerArrays, ArchetypeArrays, QueryLists } : b[1] \in k } }

Unsure == refused \cup UNION { Together(b) : b \in refused }

(* And it is the size that the buffer was given, as long as the instance   *)
(* lives: no call tells the allocator a wrong size (memory.c:20-47), and   *)
(* nothing that the library has no pointer to yet was given anything.      *)
(* After a refusal only the arrays that were to grow together may have     *)
(* another size than the library believes.                                 *)
BooksAgree ==
  stage \in { "open", "short" } =>
    \A b \in Buffer \ Unsure : given[b] = Believed(b[1], b[2], b[3])

(* No array is used beyond what it was given, and no slot lies outside of  *)
(* the blocks: each grows in time (local.h:285, entity.c:32, layer.c:113,  *)
(* archetype.c:57, archetype.c:130, query.c:57).                           *)
BlocksGiven(a) == { j \in 1 .. MaxSlots : given[<< "block", a, j >>] = 1 }

Fits ==
  stage = "open" =>
    /\ \A kind \in EntityArrays : entity.length <= given[TheOnly(kind)]
    /\ entity.free <= given[TheOnly("entity.free")]
    /\ \A kind \in LayerArrays : Len(layer.entities) <= given[TheOnly(kind)]
    /\ Len(component.required) <= given[TheOnly("component.data")]
    /\ \A kind \in ArchetypeArrays : Len(archetype.data) <= given[TheOnly(kind)]
    /\ \A a \in DOMAIN archetype.data :
         /\ archetype.data[a].free <= given[<< "free", a, 0 >>]
         /\ archetype.data[a].next <= PerBlock * Cardinality(BlocksGiven(a))
    /\ query.length <= given[TheOnly("query.archetype")]
    /\ query.length * Columns <= given[TheOnly("query.offset")]

(* When the instance is destroyed all of its memory is given back, each    *)
(* buffer by its size, but:                                                *)
(*   - the handles that a spawn made and returned without (entity.c:99),   *)
(*   - the free list of entities (instance.c:64),                          *)
(*   - what a query that could not be made had allocated (query.c:15),     *)
(*   - the lists of a query of two archetypes or more, whose size is told  *)
(*     too small (query.c:134),                                            *)
(*   - an array whose growth was refused (memory.c:28), and the arrays     *)
(*     that grow with it,                                                  *)
(*   - what a component requires, when the components cannot grow          *)
(*     (component.c:32), and the set of a new archetype, when the          *)
(*     archetypes cannot (archetype.c:60).                                 *)
(* A refusal loses nothing else: a block, an offset list or a slot that    *)
(* was not had costs no buffer that was.                                   *)
LostAnyway == { "entities", "entity.free", "query" } \cup QueryArrays

LostByRefusal(b) ==
  \/ (b \in Unsure /\ b[1] \notin { "block", "offset_size" })
  \/ /\ b = << "required", Len(component.required) + 1, 0 >>
     /\ TheOnly("component.data") \in refused
  \/ /\ b = << "set", Len(archetype.data) + 1, 0 >>
     /\ \E kind \in ArchetypeArrays : TheOnly(kind) \in refused

OnlyKnownLosses ==
  /\ \A b \in lost : (b[1] \in LostAnyway) \/ LostByRefusal(b)
  /\ TheOnly("entity.free") \in lost => entity.freeCapacity > 0
  /\ \A b \in mistold :
       \/ (b[1] \in QueryLists /\ Len(archetype.data) > 1)
       \/ (b[1] \in EntityArrays /\ b \in Unsure)

=============================================================================
