------------------------------- MODULE World -------------------------------
(***************************************************************************)
(* An instance under its public interface: components are registered,      *)
(* layers created and destroyed, entities spawned, and components added to *)
(* and removed from them.  The module composes the entity table, the       *)
(* archetypes with their block storage, and the layers.                    *)
(*                                                                         *)
(* The library has no threads, but a call passes through several steps any *)
(* of which may fail and leave what the earlier ones did.  A call is       *)
(* therefore a record that passes through stages:                          *)
(*                                                                         *)
(*   resolve   the archetype is found or made                              *)
(*   ready     (spawn) the array of the new handles is allocated           *)
(*   place     the entity, or one of those spawned, is put into a slot     *)
(*                                                                         *)
(* and returns a result code.  What has no defined result in C (a NULL or  *)
(* uninitialised cell read, a division by zero, a write outside an array)  *)
(* ends the behaviour in a fault.                                          *)
(***************************************************************************)
EXTENDS Archetypes, Layers

CONSTANTS
  MaxSpawn,          (* bound: entities spawned by one call                 *)
  NonNull,           (* components created with the NOT_NULL flag           *)
  ZeroSizeAlloc,     (* does the allocator return memory for a size of 0?   *)
  UnknownComponents  (* may spawn be given unregistered handles?            *)

ASSUME WorldAssumption ==
  /\ MaxSpawn \in 1 .. MaxBlocks
  /\ NonNull \subseteq Component
  /\ ZeroSizeAlloc \in BOOLEAN
  /\ UnknownComponents \in BOOLEAN

VARIABLES
  registered,   (* component.length                                         *)
  live,         (* entities that spawn created and placed                   *)
  call,         (* the call in progress                                     *)
  result,       (* what the last call returned                              *)
  fault         (* "none", or what undefined behaviour was reached          *)

vars == << tableVars, storeVars, layerVars,
           registered, live, call, result, fault >>

(* The data argument of add_component_to_entity when it is NULL.           *)
NoData == -1

NoCall == [ op |-> "none", stage |-> "idle", want |-> {}, to |-> 0, left |-> 0,
            layer |-> NoLayer, entity |-> 0, component |-> 0, data |-> NoData ]

Idle == call = NoCall

Return(code) ==
  /\ call' = NoCall
  /\ result' = code

Continue(stage) ==
  /\ call' = [ call EXCEPT !.stage = stage ]
  /\ UNCHANGED result

Reject(code) ==
  /\ result' = code
  /\ UNCHANGED << tableVars, storeVars, layerVars, registered, live, call, fault >>

Fault(kind) ==
  /\ fault' = kind
  /\ UNCHANGED << tableVars, storeVars, layerVars, registered, live, call, result >>

(* A call may begin: none is in progress and the bounds leave it room, for *)
(* the entities it creates, its archetype, and the slots it fills there.   *)
Begins(created, placed, want) ==
  /\ Idle
  /\ entLength + created <= MaxEntity + 1
  /\ archLength < MaxArchetypes \/ ~ Misses(want)
  /\ \A a \in ArchetypeIndex :
       components[a] = want /\ perBlock[a] # 0 =>
         nextIndex[a] + placed <= MaxBlocks * perBlock[a] + Len(freeIndexes[a])

-----------------------------------------------------------------------------
(* COMPONENTS AND LAYERS                                                   *)

RegisterComponent ==
  /\ Idle
  /\ registered < NumComponents
  /\ registered' = registered + 1
  /\ result' = "success"
  /\ UNCHANGED << tableVars, storeVars, layerVars, live, call, fault >>

NewLayer ==
  /\ Idle
  /\ layerLength < MaxLayers
  /\ \/ \E kind \in Kind : CreateLayer(kind) /\ result' = "success"
     \/ CreateLayerFails /\ result' = "out_of_memory"
  /\ UNCHANGED << tableVars, storeVars, registered, live, call, fault >>

(* destroy_layer goes through the members of the layer, which has none,    *)
(* and changes nothing else.                                               *)
DestroyLayer ==
  /\ Idle
  /\ \E l \in LayerHandle :
       IF LayerReadFaults(l) \/ (LayerValid(l) /\ layerKind[l] = "lost")
         THEN Fault("layer")
         ELSE Reject(IF LayerValid(l) THEN "success" ELSE "invalid_layer")

-----------------------------------------------------------------------------
(* FINDING THE ARCHETYPE, for any of the calls that need one               *)

Resolving == call.stage = "resolve"

AfterResolve == IF call.op = "spawn" THEN "ready" ELSE "place"

ResolveUnchanged ==
  UNCHANGED << tableVars, slotVars, placeVars, cell, layerVars, registered, live, fault >>

ResolveHit ==
  /\ Resolving
  /\ ~ ResolveFaults
  /\ \E a \in Hits(call.want) :
       call' = [ call EXCEPT !.to = a, !.stage = AfterResolve ]
  /\ UNCHANGED << indexVars, result >>
  /\ ResolveUnchanged

(* A component that was never registered has no size to lay out.           *)
Unknown == \E c \in call.want : c >= registered

ResolveNew ==
  /\ Resolving
  /\ ~ Unknown
  /\ NewArchetype(call.want)
  /\ call' = [ call EXCEPT !.to = archLength, !.stage = AfterResolve ]
  /\ UNCHANGED result
  /\ ResolveUnchanged

ResolveFails ==
  /\ Resolving
  /\ LayoutFails(call.want) \/ \E array \in { "index", "data" } : GrowFails(call.want, array)
  /\ Return("out_of_memory")
  /\ ResolveUnchanged

ResolveFault ==
  /\ Resolving
  /\ \/ ResolveFaults /\ Fault("archetype")
     \/ ~ ResolveFaults /\ Unknown /\ Misses(call.want) /\ Fault("component")

-----------------------------------------------------------------------------
(* SPAWN: alias_ecs_spawn                                                  *)

SpawnSet ==
  { cs \in SUBSET Component : UnknownComponents \/ \A c \in cs : c < registered }

SpawnCall ==
  \E n \in 1 .. MaxSpawn, cs \in SpawnSet, l \in LayerHandle \cup {NoLayer} :
    /\ Begins(n, n, cs)
    /\ l # NoLayer => LayerValid(l) /\ ~ LayerReadFaults(l)
    /\ cs = {} => ZeroSizeAlloc
    /\ call' = [ NoCall EXCEPT !.op = "spawn", !.stage = "resolve", !.want = cs,
                               !.left = n, !.layer = l ]
    /\ result' = "pending"
    /\ UNCHANGED << tableVars, storeVars, layerVars, registered, live, fault >>

(* No entity asked for, a layer that does not exist, no memory for the     *)
(* list of components (for an empty one, ALLOC asks for zero bytes).       *)
SpawnRejected ==
  /\ Idle
  /\ \/ Reject("invalid_argument")
     \/ \E l \in LayerHandle : ~ LayerValid(l) /\ Reject("invalid_layer")
     \/ (~ ZeroSizeAlloc \/ "component_set" \in Failing) /\ Reject("out_of_memory")
     \/ \E l \in LayerHandle : LayerReadFaults(l) /\ Fault("layer")

(* The array for the handles, when the caller passed none.                 *)
SpawnReady ==
  /\ call.stage = "ready"
  /\ \/ Continue("place")
     \/ "out_entities" \in Failing /\ Return("out_of_memory")
  /\ UNCHANGED << tableVars, storeVars, layerVars, registered, live, fault >>

Spawning == call.op = "spawn" /\ call.stage = "place" /\ call.left > 0

(* One iteration of the loop of spawn: an entity is created, enters its    *)
(* layer and is placed.  Its handle, of generation zero, validates.        *)
SpawnOne ==
  /\ Spawning
  /\ CreateEntity
  /\ GenerationOf(Pack(generation[NextEntity], NextEntity)) = generation[NextEntity]
  /\ EnterLayer(call.layer)
  /\ SetEntityArchetype(NextEntity, call.to)
  /\ cell' = Copied(NextEntity, call.to, archCode'[NextEntity])
  /\ live' = live \cup {NextEntity}
  /\ call' = [ call EXCEPT !.left = @ - 1 ]
  /\ UNCHANGED << indexVars, layerVars, registered, result, fault >>

(* The entity cannot be created: one array of the table is lost.           *)
SpawnCreateFails ==
  /\ Spawning
  /\ \E array \in TableArray :
       /\ CreateFails(array)
       /\ archIndex' = IF array = "archetype_index" THEN Lost(archIndex) ELSE archIndex
       /\ archCode' = [ e \in EntityIndex |->
                          IF array = "archetype_code" /\ e < entCapacity
                            THEN JunkCode ELSE archCode[e] ]
  /\ Return("out_of_memory")
  /\ UNCHANGED << indexVars, slotVars, owner, cell, layerVars, registered, live, fault >>

(* The entity is created, and then refused by its layer or not placed.     *)
SpawnPlaceFails ==
  /\ Spawning
  /\ CreateEntity
  /\ \/ /\ \/ EnterLayerRefused(call.layer) /\ Return("invalid_entity")
           \/ EnterLayerFails(call.layer) /\ Return("out_of_memory")
        /\ UNCHANGED slotVars
     \/ /\ EnterLayer(call.layer)
        /\ SetEntityArchetypeFails(NextEntity, call.to)
        /\ Return("out_of_memory")
  /\ UNCHANGED << indexVars, placeVars, cell, layerVars, registered, live, fault >>

SpawnFault ==
  /\ Spawning
  /\ IF EnterLayer(call.layer)
       THEN AllocateFaults(call.to, freeIndexes) /\ Fault("slot")
       ELSE EnterLayerFaults(call.layer) /\ Fault("layer")

(* After the loop the data is copied, component by component; but the      *)
(* assertion that the archetype has the component is inverted (ASSERT of   *)
(* local.h returns when its condition holds), so spawn returns there.      *)
SpawnFinish ==
  /\ call.op = "spawn" /\ call.stage = "place" /\ call.left = 0
  /\ Return(IF call.want = {} THEN "success" ELSE "invalid_argument")
  /\ UNCHANGED << tableVars, storeVars, layerVars, registered, live, fault >>

-----------------------------------------------------------------------------
(* ADD AND REMOVE A COMPONENT                                              *)

(* The entity's cell in an array that was lost, or the archetypes were.    *)
EntityFaults(e) ==
  \/ generation[e] = Junk
  \/ archIndex[e] = Junk
  \/ archCode[e] = JunkCode
  \/ archLost = "data"

Has(e) == components[archIndex[e]]

ChangeCall(op, e, c, v, want) ==
  /\ call' = [ NoCall EXCEPT !.op = op, !.stage = "resolve", !.want = want,
                             !.entity = e, !.component = c, !.data = v ]
  /\ result' = "pending"
  /\ UNCHANGED << tableVars, storeVars, layerVars, registered, live, fault >>

AddCall ==
  \E e \in live, c \in Component, v \in Value \cup {NoData} :
    /\ ~ EntityFaults(e)
    /\ Begins(0, 1, Has(e) \cup {c})
    /\ c < registered
    /\ c \in NonNull => v # NoData
    /\ c \notin Has(e)
    /\ ChangeCall("add", e, c, v, Has(e) \cup {c})

RemoveCall ==
  \E e \in live, c \in Component :
    /\ ~ EntityFaults(e)
    /\ Begins(0, 1, Has(e) \ {c})
    /\ c < registered
    /\ c \in Has(e)
    /\ ChangeCall("remove", e, c, NoData, Has(e) \ {c})

(* An unknown entity or component, no data for a component that needs it,  *)
(* a component the entity already has, or has not, or no memory for the    *)
(* new set of components.                                                  *)
ChangeRejected ==
  /\ Idle
  /\ \/ Reject("invalid_entity")
     \/ \E e \in live :
          /\ ~ EntityFaults(e)
          /\ \/ Reject("invalid_argument")
             \/ Has(e) # {} /\ Reject("component_exists")
             \/ \E c \in Component \ Has(e) :
                  c < registered /\ Reject("component_does_not_exist")
             \/ "component_set" \in Failing /\ Reject("out_of_memory")

ChangeFault ==
  /\ Idle
  /\ \E e \in live : EntityFaults(e) /\ Fault("entity")

Changing == call.op \in { "add", "remove" } /\ call.stage = "place"

(* The data add writes: what it was given, or zero.                        *)
Given == IF call.data = NoData THEN 0 ELSE call.data

AddMove ==
  /\ Changing /\ call.op = "add"
  /\ SetEntityArchetype(call.entity, call.to)
  /\ LET code == archCode'[call.entity] IN
     cell' = [ Copied(call.entity, call.to, code) EXCEPT
                 ![<< call.to, code >>][call.component] = Given ]
  /\ Return("success")
  /\ UNCHANGED << tableVars, indexVars, layerVars, registered, live, fault >>

RemoveMove ==
  /\ Changing /\ call.op = "remove"
  /\ SetEntityArchetype(call.entity, call.to)
  /\ cell' = Copied(call.entity, call.to, archCode'[call.entity])
  /\ Return("success")
  /\ UNCHANGED << tableVars, indexVars, layerVars, registered, live, fault >>

(* The component at the place the new one has in the larger set: the       *)
(* smallest of those after it, if there is one.                            *)
After(e, c) == { x \in Has(e) : x > c }

(* What add writes when the entity stays where it is: as many bytes as the *)
(* component has, from the place of that other one.                        *)
Stays == archIndex[call.entity]
Block == archCode[call.entity][1]
Beside == << Min(After(call.entity, call.component)), archCode[call.entity][2] >>
From == FirstByte(Stays, Beside[1], Beside[2])
To == From + ComponentSize[call.component]

(* The result of set_entity_archetype is ignored: the entity stays where   *)
(* it is, the data is written over the component found at that place of    *)
(* its old archetype, and the call succeeds.  A component of another size  *)
(* leaves a part of a value there, and in the cells behind it if it is     *)
(* larger: any value.                                                      *)
AddMoveFails ==
  /\ Changing /\ call.op = "add"
  /\ After(call.entity, call.component) # {}
  /\ To <= BlockSize
  /\ SetEntityArchetypeFails(call.entity, call.to)
  /\ \E v \in [ CellsOf(Stays, From, To) -> Value ] :
       /\ ComponentSize[Beside[1]] = ComponentSize[call.component] => v[Beside] = Given
       /\ cell' = Overwritten(Stays, Block, v)
  /\ Return("success")
  /\ UNCHANGED << tableVars, indexVars, layerVars, registered, live, fault >>

RemoveMoveFails ==
  /\ Changing /\ call.op = "remove"
  /\ SetEntityArchetypeFails(call.entity, call.to)
  /\ Return("success")
  /\ UNCHANGED << tableVars, indexVars, cell, layerVars, registered, live, fault >>

(* No slot can be had; or it failed and no component is at that place, or  *)
(* too near to the end of the block.                                       *)
MoveFault ==
  /\ Changing
  /\ \/ AllocateFaults(call.to, ListsFor(call.entity)) /\ Fault("slot")
     \/ /\ call.op = "add"
        /\ SetEntityArchetypeMayFail(call.entity, call.to)
        /\ After(call.entity, call.component) # {} => To > BlockSize
        /\ Fault("data")

-----------------------------------------------------------------------------

Init ==
  /\ TableInit
  /\ ArchetypesInit
  /\ LayersInit
  /\ registered = 0
  /\ live = {}
  /\ call = NoCall
  /\ result = "success"
  /\ fault = "none"

Request ==
  \/ RegisterComponent \/ NewLayer \/ DestroyLayer
  \/ SpawnCall \/ SpawnRejected
  \/ AddCall \/ RemoveCall \/ ChangeRejected \/ ChangeFault

Step ==
  \/ ResolveHit \/ ResolveNew \/ ResolveFails \/ ResolveFault
  \/ SpawnReady \/ SpawnOne \/ SpawnCreateFails \/ SpawnPlaceFails
  \/ SpawnFault \/ SpawnFinish
  \/ AddMove \/ AddMoveFails \/ RemoveMove \/ RemoveMoveFails \/ MoveFault

Next == fault = "none" /\ (Request \/ Step)

Spec == Init /\ [][Next]_vars

-----------------------------------------------------------------------------
(* PROPERTIES                                                              *)

(* The parts of an instance keep their shape (local.h:66-99), and entities *)
(* are numbered without gaps (entity.c:29).                                *)
TypeOK ==
  /\ TableTypeOK
  /\ entLength \in 1 .. MaxEntity + 1
  /\ ArchetypesTypeOK
  /\ LayersTypeOK
  /\ registered \in 0 .. NumComponents
  /\ live \subseteq EntityIndex
  /\ call.want \subseteq Component

(* The entity's cells were not lost with the arrays of the table.          *)
Intact(e) == archIndex[e] # Junk /\ archCode[e] # JunkCode

LiveIntact == { e \in live : Intact(e) }

Holds(e, a, n) == archIndex[e] = a /\ LinearIndex(a, archCode[e]) = n

(* No two entities share a slot of an archetype: archetype.c:183-207 gives *)
(* each the slot another one left, or a new one.                           *)
SlotExclusive ==
  \A e, f \in LiveIntact : SlotOf(e) = SlotOf(f) => e = f

(* The hidden column of the slot an entity is in names that entity         *)
(* (archetype.c:188, 207): what a query reports for the data it visits.    *)
BackPointer == \A e \in LiveIntact : owner[SlotOf(e)] = e

(* A slot on the free list of an archetype was handed out before, waits    *)
(* there once, and holds no entity (archetype.c:119-123, 153-157).         *)
FreeSlotsSound ==
  \A a \in ArchetypeIndex : \A k \in DOMAIN freeIndexes[a] :
    LET n == freeIndexes[a][k] IN
    n # Junk =>
      /\ n < nextIndex[a]
      /\ \A l \in DOMAIN freeIndexes[a] : freeIndexes[a][l] = n => l = k
      /\ \A e \in LiveIntact : ~ Holds(e, a, n)

(* The blocks of an archetype are as many as the slots handed out need.    *)
CountsCover ==
  \A a \in ArchetypeIndex :
    /\ nextIndex[a] <= blockCount[a] * perBlock[a]
    /\ (blockCount[a] - 1) * perBlock[a] < nextIndex[a] \/ blockCount[a] = 0

BlocksThere ==
  \A e \in LiveIntact : << archIndex[e], archCode[e][1] >> \in allocated

(* archetype.c:128 asserts, in a comment, that a slot is in one of the     *)
(* blocks or the first of the next one: the blocks cover exactly the slots *)
(* handed out, and an entity is in a block that has its memory.            *)
BlocksCover == CountsCover /\ BlocksThere

(* Without failures every archetype is found by its set of components, and *)
(* by no other (archetype.c:41-47, 98-103).                                *)
ArchetypesUnique ==
  /\ sorted
  /\ indexed = 0 .. archLength - 1
  /\ \A a, b \in indexed : components[a] = components[b] => a = b

(* Without failures no slot is lost: each one handed out holds an entity   *)
(* or waits on the free list.  Archetype 0 is left out, for its slots are  *)
(* never given up (archetype.c:183).                                       *)
NoSlotLost ==
  \A a \in ArchetypeIndex \ {0} : \A n \in 0 .. nextIndex[a] - 1 :
    \/ \E e \in live : Holds(e, a, n)
    \/ \E k \in DOMAIN freeIndexes[a] : freeIndexes[a][k] = n

(* Without failures, without layers but the first, and with components     *)
(* that are registered and fit a block, no call reads or writes what it    *)
(* has no right to.                                                        *)
NoFault == fault = "none"

(* SlotInv is what the properties of slots need to be preserved by every   *)
(* step, as long as a block of memory can always be had (archetype.c:131,  *)
(* 183-207).  An entity is in a slot of an archetype that was made, one    *)
(* that its layout has room for and that was handed out.                   *)
Seated(e) ==
  /\ archIndex[e] \in ArchetypeIndex
  /\ archIndex[e] < archLength
  /\ archCode[e] \in Code
  /\ archCode[e][2] < perBlock[archIndex[e]]
  /\ LinearIndex(archIndex[e], archCode[e]) < nextIndex[archIndex[e]]

SlotShape ==
  /\ archLength \in Nat
  /\ perBlock \in [ ArchetypeIndex -> 0 .. MaxPerBlock ]
  /\ nextIndex \in [ ArchetypeIndex -> Nat ]
  /\ freeIndexes \in [ ArchetypeIndex -> Seq(Nat \cup {Junk}) ]
  /\ owner \in [ Slot -> EntityIndex ]
  /\ archIndex \in [ EntityIndex -> ArchetypeIndex \cup {Junk} ]
  /\ archCode \in [ EntityIndex -> Code \cup { << 0, 0 >>, JunkCode } ]
  /\ live \subseteq EntityIndex

SlotsSound ==
  /\ SlotShape
  /\ \A e \in LiveIntact : Seated(e)
  /\ SlotExclusive
  /\ BackPointer
  /\ FreeSlotsSound

(* The index names archetypes that were made.                              *)
CatalogSound ==
  /\ components \in [ ArchetypeIndex -> SUBSET Component ]
  /\ \A a \in indexed : a \in ArchetypeIndex /\ a < archLength

CallRecord ==
  [ op : { "none", "spawn", "add", "remove" },
    stage : { "idle", "resolve", "ready", "place" },
    want : SUBSET Component, to : Nat, left : Nat, layer : Int,
    entity : Nat, component : Nat, data : Value \cup {NoData} ]

(* No index is reused, so the next entity is one that never was anywhere.  *)
TableSound ==
  /\ entLength \in 1 .. MaxEntity + 1
  /\ entCapacity \in Nat
  /\ entFree = << >>
  /\ \A e \in EntityIndex : e >= entLength => e \notin live /\ archIndex[e] = 0

(* A call in progress still has what it was given when it began: room for  *)
(* its entities and archetype, an entity whose cells are there.            *)
CallSound ==
  /\ call \in CallRecord
  /\ layerLength \in Nat
  /\ call.op = "spawn" => entLength + call.left <= MaxEntity + 1
  /\ call.op \in { "add", "remove" } => call.entity \in LiveIntact
  /\ call.stage = "resolve" => archLength < MaxArchetypes \/ ~ Misses(call.want)
  /\ call.stage \in { "ready", "place" } =>
       call.to \in ArchetypeIndex /\ call.to < archLength

(* All of it: the inductive invariant (proved in WorldProofs).             *)
SlotInv == SlotsSound /\ TableSound /\ CatalogSound /\ CallSound

(* What holds whatever allocation fails, that of a block too: slots that   *)
(* were handed out are in blocks, and those of entities and free lists     *)
(* were handed out, though they may be the same (archetype.c:117-137).     *)
Housed ==
  /\ BlocksCover
  /\ \A e \in LiveIntact : Seated(e)
  /\ \A a \in ArchetypeIndex : \A k \in DOMAIN freeIndexes[a] :
       freeIndexes[a][k] < nextIndex[a]
  /\ \A a \in ArchetypeIndex :
       a >= archLength => nextIndex[a] = 0 /\ blockCount[a] = 0

(* A call in progress wants what it was asked for, and once it has its     *)
(* archetype, that is the one of the components it wants.                  *)
CallMeant ==
  /\ call.op = "none" => call.stage = "idle"
  /\ call.stage \in { "ready", "place" } => components[call.to] = call.want
  /\ call.op \in { "add", "remove" } =>
       /\ call.component \in Component
       /\ call.want = IF call.op = "add"
                        THEN Has(call.entity) \cup {call.component}
                        ELSE Has(call.entity) \ {call.component}

(* The inductive invariant of all that holds whatever fails (StoreProofs). *)
StoreInv == TypeOK /\ Housed /\ TableSound /\ CatalogSound /\ CallSound /\ CallMeant

DataOf(e) == [ c \in Has(e) |-> cell[SlotOf(e)][c] ]

(* A call changes the data of the entity it names and of no other one.     *)
DataIsolated ==
  [][ \A e \in LiveIntact \ {call.entity} : Intact(e)' => DataOf(e)' = DataOf(e) ]_vars

(* Without failures a component that an entity has before and after a call *)
(* keeps its data (archetype.c:209-227), unless the entity comes from      *)
(* archetype 0.                                                            *)
DataKept ==
  [][ \A e \in live : Placed(e) =>
        \A c \in Has(e) \cap Has(e)' : DataOf(e)'[c] = DataOf(e)[c] ]_vars

(* The components of the entities, read through their archetypes, change   *)
(* as was asked for by the call in progress, or not at all, whatever       *)
(* allocation fails on the way: what ecs.h says spawn, add and remove do.  *)
Held == [ e \in live |-> Has(e) ]

Asked ==
  CASE call.op = "none" -> [ op |-> "none" ]
    [] call.op = "spawn" ->
         [ op |-> "spawn", components |-> call.want, left |-> call.left ]
    [] OTHER ->
         [ op |-> call.op, entity |-> call.entity, component |-> call.component ]

Contract == INSTANCE EcsContract WITH
              Entity <- EntityIndex,
              has <- Held,
              request <- Asked
ContractKept == Contract!Spec

(* The following are said of the code and are not true of it.              *)

(* ecs.h:237: spawn returns success when all entities are spawned          *)
(* (test/spawn.c:42).                                                      *)
SpawnSucceeds ==
  [][ call.op = "spawn" /\ call.stage = "place" /\ call.left = 0
        => result' = "success" ]_vars

(* ecs.h:210: the layer the entities will spawn into.                      *)
LayerEntered == fault # "layer"

(* ecs.h:38: success is returned for a command that completed, that is,    *)
(* the entity has the component that was added.                            *)
SuccessMeansAdded ==
  [][ call.op = "add" /\ result' = "success" =>
        \A e \in { call.entity } : call.component \in Has(e)' ]_vars

=============================================================================
