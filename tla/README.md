# Alias-ECS in TLA+

Alias-ECS is an entity-component-system library in C: an *instance* keeps
*entities*, which are indexes with a generation; each entity belongs to an
*archetype*, the set of components it has, and its component data lives in a
*slot* of one of the archetype's 64 KiB *blocks*. Queries walk the blocks.

The library has no threads and persists nothing. What makes it hard is that one
call passes through many steps (growing four parallel arrays, finding or making
an archetype, taking a slot from a free list, taking a block, moving data), that
any allocation on the way may fail and leave what the earlier steps did, and that
entities move between slots in sequences no test writes down.

Paths below are relative to `src/`.

## Inventory

| Component | State | Operations | What makes it correct |
|---|---|---|---|
| Entity table (`src/entity.c`, `local.h:79-87`) | length, capacity, four parallel arrays, free list | `create_entity`, `free_entity`, `validate_entity_handle` | no handle twice, no entity twice, no index lost, old handles told from new ones |
| Archetypes (`src/archetype.c:1-108`) | table of archetypes, `components_index` sorted for binary search | `resolve_archetype` | one archetype per component set, and it is found |
| Block storage (`src/archetype.c:110-230`) | per archetype: next slot, free list, blocks; per slot: hidden entity index, data | `_allocate_code`, `_free_code`, `set_entity_archetype` | no slot shared, none lost, blocks cover the slots, data kept |
| Layers (`src/layer.c`) | layer table, members | `create_layer`, `destroy_layer`, `set_entity_layer` | an entity is a member of the layer it was spawned into |
| Public entity operations (`src/entity.c:69-230`) | none of their own | `spawn`, `add_component_to_entity`, `remove_component_from_entity` | the entity gets what was asked for, or nothing |
| Component registry and sets (`src/component.c`) | vector of components; sorted arrays of handles | `register_component`, `ComponentSet_*` | a set is sorted and holds what was put in |
| Queries (`src/query.c`) | archetypes tested so far, matching ones, column offsets | `create_query`, `execute_query`, `destroy_query` | each entity that matches is visited, once in its place, with its data |
| Sort and search (`src/memory.c:49-289`) | none | `quicksort`, `bsearch` | sorted, found |
| Allocation (`src/memory.c:1-47`) | the application's callback | `malloc`, `realloc`, `free` | the allocator is told the sizes it gave; no array is used beyond its size |
| Instance (`src/instance.c`) | all of the above | `create_instance`, `destroy_instance` | every buffer is given back, with its size |

**How they interact.** `spawn` calls `resolve_archetype`, then for each entity
`create_entity`, `set_entity_layer` and `set_entity_archetype`; `add` and
`remove` call `resolve_archetype` and `set_entity_archetype`. The entity table
keeps the archetype and slot of each entity, the slot keeps the entity's index:
two pieces of state that must agree. Queries read the archetype table and the
blocks directly, and call back into the application, which may call the library.
`free_entity` and `unset_entity_archetype` are never called by the library, and
`alias_ecs_despawn`, which `ecs.h` declares, is not defined: a despawn would go
through them.

**What is hard.** A failed `RELOC` stores NULL in the array's pointer
(`memory.c:28`), so the old contents are lost; lengths are raised before the
capacity is; errors of inner calls are sometimes ignored (`archetype.c:131`,
`entity.c:183`); archetype 0 and layer 0 are both a real object and "none".
A callback of a query may make any call, and so change the arrays that the
execution around it walks. `PROJECT.json` lists these as hazards, each with the
properties that watch it or the reason that none does.

## Modules

```
EntityTable ---- EntityLifecycle ------ EntityLifecycleProofs
     |                 |
     |              Handles             (abstract: what a handle table promises)
     |
     +-- Archetypes --+
     |                +-- World ------- MCWorld
     +-- Layers ------+   |  |  \
                          |  |   EcsContract (abstract: what ecs.h promises)
                          |  |
                          |  +--------- WorldProofs --- StoreProofs --- ContractProofs
                          |                  |
                        Query ---------- QueryProofs
                          |
                       MCQuery

ComponentSets --+
BlockLayout ----+-- Catalog --- MCCatalog    (BlockLayout is also used by Archetypes)
SortSearch -----+     |  \
                      |  CatalogProofs
                  Directory             (abstract: what Archetypes takes for granted)

Memory ----- MemoryProofs               (what reaches the allocator)

Numbers                                 (arithmetic and induction, for the proofs)
```

**EntityTable** is `instance->entity`. `entLength`, `entCapacity`, `entFree` and
`generation` are the fields of that name; a handle is a number,
`generation * 2^32 + index` in the code. `CreateEntity`, `CreateFails` and
`FreeEntity`/`FreeFails` are `create_entity` and `free_entity` with every
reallocation succeeding or one of them failing. A cell of an array that was lost
holds `Junk`: reading it is undefined in C, so the driver of the table ends in a
fault there. The shift by 31 of `validate_entity_handle` is kept as it is. The
half range `HalfWord` of a word is a parameter (2^31 in the code).

**EntityLifecycle** drives the table: any handle in use may be freed, any number
issued, any reallocation may fail. `issued`, `outstanding` and `retired` are
history variables. **Handles** is the abstract table it implements.

**Archetypes** is `instance->archetype`. `components_index` is the set of
archetypes in it and whether it is sorted; a component set is a set; a code
`block << 16 | offset` is a pair; the data of one component of one entity is one
value. `NewArchetype`, `LayoutFails` and `GrowFails` are the outcomes of
`resolve_archetype` when nothing is found; `AllocateCode` and `AllocateFails`
are `_allocate_code`; `SetEntityArchetype` and `SetEntityArchetypeFails` the
whole of `set_entity_archetype`. How many entities a block holds, and where in it
the bytes of a component are, follow from the sizes the components were registered
with, by the definitions of **BlockLayout**. Where the bytes are matters in one
place: after a move that failed, `add_component_to_entity` writes as many bytes as
the new component has at the column of another one. `FirstByte` is
`alias_ecs_raw_access`, `CellsOf` the values that have some of the bytes written,
and `AddMoveFails` of World puts any value there, but the one that was given where
the two sizes are the same; bytes beyond the block are a fault.

**Layers** is `instance->layer`: which layers there are and whether they have a
maximum. A layer never gets a member (finding `world_layer` below), so the list
of members is left out.

**World** composes the three under the public interface. A call is the record
`call`, with a stage: `resolve`, `ready` (spawn's array of handles), `place`. One
step is one stage, or one entity of spawn's loop; each error return is a disjunct
and gives the `result`. Undefined behaviour sets `fault` and ends the behaviour:
a component that was never registered (`archetype.c:76`), a lost array read, a
division by `entities_per_block` zero, a write outside a layer's list. That
`spawn` does not report an unregistered component, as `ecs.h:238` says it does,
is visible as `ResolveFault`. `DestroyLayer` changes nothing, as `destroy_layer`
finds no members. Arguments that are NULL pointers are left out; calls with other
invalid arguments are the disjuncts of `SpawnRejected` and `ChangeRejected`.
**EcsContract** is the specification without archetypes: an application asks for
entities with a set of components, or for one component to be added to or removed
from an entity, and gets that or nothing.

**Query** extends World with one query and its executions. `query` has the fields
of `alias_ecs_Query`; `execs` is the stack of executions in progress, each with
its local variables (`i`, `j`, `k`, the archetype pointer) and where it stands:
testing new archetypes, between archetypes, between blocks, at a slot, in the
callback. Each is a step of its own; while the innermost execution is in its
callback, and while there is none, the application may make any call of World,
step by step, and create, execute or destroy the query (not destroy it while it
runs). So every interleaving of a visit with what its callbacks do is there. What
C leaves dangling is a flag: `stale`, the archetype pointer after the table of
archetypes moved; `moved`, the pointers to the lists after a nested execution
enlarged them; a reallocation that grows an array may or may not move it. Their
use is a fault. `runtime` is where the column pointers point; they belong to the
query, so a nested execution moves them (`disturbed`). `due` and `seen` are
history.

`Columns` does what `create_query` does with the components it is given: those
read are written over those written (`query.c:25`), and what is left keeps the
zero of fresh memory. The query then asks for component 0 and not for all it was
asked for. `create_query` does not check its components either; the model makes
queries of registered ones only.

**Catalog** is the level below Archetypes: component sets are sorted arrays
(**ComponentSets**), the search of `components_index` takes one comparison per
step, the sort one part per step (**SortSearch**: Lomuto partition, insertion sort
of small parts; `frames` is the C stack), columns have byte offsets that wrap
(**BlockLayout**). A component may be named twice in a spawn, which makes another
archetype than naming it once. **Directory** is what `resolve_archetype` promises,
in terms of keys, and what Archetypes, Query and Memory take for granted: a key
has one archetype, made when it is first asked for. Catalog implements it
(`DirectoryKept`), also when a layout fails and leaves the index out of order.

**Memory** is the library as its allocator sees it. `given` is the allocator's
side: the size of each buffer, in elements. Each action computes, from the lengths
and capacities the library keeps, the requests of a call with the size it tells
for the old buffer (`Asked`), and `Answered` compares that with what was given.
A buffer is a triple: its kind, which layer, component or archetype it belongs to,
and which block it is. `Believed` is the size that the library takes it to have;
the properties compare the two for every buffer. A loop of the code, over the
entities of a spawn or the archetypes an execution tests, is `Iterate`.
Its archetypes are those of Directory; what stays the same in the books (data,
owners, generations) is left out.

Each request of a call may be refused (`Refused`). One that leaves everything as it
was is an action `...Fails`. One that leaves a NULL behind (`memory.c:28`), or that
comes after other steps of the call, is an action `...Short`: it names what is
`refused`, gives what was asked for before it, and after it the stage is `short`.
Of four arrays that grow one after the other (`CutShort`), those before the refused
one have the new size, those after it the old, and the capacity is not raised.
In `short` only the query and the instance may be destroyed. Where a
NULL is written through (`BlocksFault`) or an array that did not grow is read by its
length as the instance is destroyed (`ReadBeyond`), the stage is `faulted`.

`Mutant` definitions beside the originals are plausible mistakes; for each
checked property one of them, put in the original's place, violates it.

## Runs

| Run | Shows |
|---|---|
| `lifecycle` | Handles are issued once, entities are not shared, generations distinguish old handles, and a call that succeeds loses no index, while arrays and free list may be lost at any growth |
| `world_reliable` | Without failures: slots exclusive and named by their entity, free slots free, blocks cover the slots, archetypes unique and found, no slot lost (archetype 0 excepted), no undefined behaviour, contract kept; a move keeps the data of common components and disturbs no other entity |
| `world_oom` | With every failure of the store but that of a block, and unregistered components: the inductive invariant `SlotInv` of the proof holds, which has slots exclusive and named by their entity and free slots free, for the entities whose cells survive; and when `add` writes over another component because a free list could not grow, the bytes stay within the entity that was named (`DataIsolated`), in every slot and column, as long as no component is larger than one with a higher handle |
| `world_block` | When blocks (and layers, archetypes, lists) cannot be had: slots may be shared, but the inductive invariant `StoreInv` holds, which has the blocks cover the slots; and the component sets follow the contract |
| `query` | Whatever the callbacks do, and whatever allocation but that of a block fails: the lists of a query stay exact (`ListsExact`), an execution reports everything that was there and stays (`Complete`), nothing twice in its place (`OnceInPlace`), with the columns of its slot (`ColumnsMatch`), and ends (`ExecutionsEnd`); the inductive invariant `VisitInv` holds |
| `catalog` | The index holds each archetype once and in order, the search stays in the array and misses nothing, the parts of a sort stay apart and it ends, columns do not overlap, the walks through component arrays do what the sets say, and Directory is implemented |
| `memory` | Whatever is refused: the allocator is told the right sizes but for the lists of a query and what a refusal left behind, no array is used beyond its size, and at the end all is given back but what is known to be lost (`OnlyKnownLosses`) |
| `lifecycle_accepted` | *Violated:* a handle of a reused index is refused, because of the shift by 31 (`entity.c:9`) |
| `world_spawn` | *Violated:* spawn with components never returns success, because `ASSERT` (`local.h:162`) is inverted |
| `world_layer` | *Violated:* spawning into a layer other than the first pops from its empty list (`layer.c:91`) |
| `world_added` | *Violated:* `add_component_to_entity` returns success though the entity was not moved (`entity.c:183`) |
| `query_once` | *Violated:* an entity that moved is reported again in the slot it left, whose hidden index still names it (`archetype.c:198`, `query.c:105`) |

What the models show of the code beside these findings:

- An entity that leaves archetype 0 loses its data and its slot, because archetype 0
  stands for "none" (`archetype.c:183`). `DataKept` and `NoSlotLost` except
  archetype 0.
- When the list of blocks of an archetype cannot be enlarged, NULL is written through
  and no error is returned (`archetype.c:131`): `AllocateFaults`.
- What `add` writes after a move that failed (`world_added`) reaches the data of other
  entities if the new component is larger than the one that is written over
  (`entity.c:188`). So `DataIsolated` holds in `world_oom` only because of the order
  of its sizes, and is proved only while no move can fail.
- `ecs.h:76` and the counts of `test/main.c:46` expect all memory back.
  `OnlyKnownLosses` says what is lost and that nothing else is.
  Without any refusal: the array of handles of a spawn whose caller passed none, which
  the inverted `ASSERT` leaks (`entity.c:99`); the free list of entities
  (`instance.c:64`); and the lists of a query, freed by their length and
  not by their capacity (`query.c:134`), hence not at all with length zero. By
  a refusal: what a `create_query` that failed had allocated (`query.c:15`); an
  array whose growth was refused, and those that grow with it (`memory.c:28`); with
  the vector of components, the copy of what the new one requires
  (`component.c:21`); with the arrays of archetypes, the set of the new one
  (`archetype.c:60`). An archetype whose layout was refused keeps its set, which is
  given back (`archetype.c:68`, `instance.c:71`).
- `memory.c:238` says that the smaller part of a sort is sorted on the stack. The
  length of an empty part wraps to the largest `size_t`, so it may be the longer
  one; `Parts` keeps that order. The sort ends all the same.

**Bounds.** `MaxEntity`, `MaxArchetypes`, `MaxBlocks`, `MaxLayers`, `MaxSpawn` and
`MaxGeneration` bound what grows; they are guards of the actions that begin a
call (`Begins`, `Room`), so a call in progress is never cut off.

- *Entity table:* the first growth gives three cells, so `MaxEntity = 4` reaches a
  second growth with entities in use, reuse after it, and loss of each array.
- *World:* two components give four component sets; three archetypes are one that
  stands for "none" and two between which entities move both ways, with any of
  the four sets; calls that need a fourth are left out, calls between the three
  go on. Two blocks of one or two slots reach the first slot of a new block,
  reuse in both blocks, and a free list of more than one slot. `world_reliable`
  has two entities and two data values, which tell "kept" from "zeroed".
  `world_oom` has one block per archetype, of eight bytes, and components of one and
  two bytes, so that a block holds four, two or one entities, and what is written
  after a failed move lies beside data of the same entity, of another, and of nobody.
  In `world_block` one component is enough: which set is at stake does not matter
  to a block that is missing.
- *Query:* two entities in two archetypes with blocks of three, two or one slots, so
  that entities move ahead of and behind the visit, into new blocks and back;
  executions may be nested once (`MaxDepth = 2`). The lists of the query grow when
  the first archetype is listed and again at the second, which a nested execution
  may be the one to find. `TestGrowFails` happens in the outermost execution only.
- *Catalog:* three components, sets of up to two handles, four archetypes. Bytes
  have two values instead of 256, so that the order of handles by their bytes and
  that by their value differ among three handles; a block has 16 bytes instead of
  2^16, which makes sizes wrap (17) and entities not fit (13); insertion sort
  takes parts of two instead of 16, so that four entries are partitioned; a
  `size_t` has 16 values, and wraps.
- *Memory:* two components, three archetypes of one entity per block, two slots,
  three entities beside the first, two layers, spawns of one or two, free lists of
  two. After a loss or a refusal only the query and the instance may be destroyed
  (`Called`): what is lost is never used again, and no later request depends on it.
  These are enough for the arrays of entities, layers, components, archetypes, blocks,
  free lists and of a query to be enlarged while they are in use, and for each of
  these growths to be refused, the first and a later one.

`VIEW Forget` and `ForgetResult` leave the last result out of the fingerprint,
and the latter, outside of executions, where the column pointers were left. No
step's guard, no fairness condition and no property of those runs depends on
them, so states that differ only there have the same behaviours, also for
`ExecutionsEnd`. `world_block` has no view.

**Deadlock** is not checked: an instance at its bounds, destroyed, or one that ran
into undefined behaviour, stops.

**Fairness.** The library runs in the caller's thread, and a call once made goes
on: weak fairness of the steps of a call in progress (`FairSpec` of Catalog;
`QueryStep` and `WorldStep` in `FairQuerySpec`). World alone has no fairness: none of
its loops can run on, so nothing is claimed there. No application is assumed
to call anything, but a callback is assumed to return: strong fairness of
`CallbackEnds` for each depth, because a callback that is always in some call when
asked would otherwise never be *continuously* able to return. `ExecutionsEnd`
cannot do without: a callback that never returns, or executes the query for ever,
holds the execution around it. That an execution ends although the blocks it
visits may grow under it rests on the bound of blocks; without one, a callback
that spawns into the archetype that is visited could keep it going
(`query.c:92`).

## Proofs

Everything below is proved for every number of entities, archetypes, blocks,
components, every layout and every set of allocations that may fail, except
where a hypothesis is named.

`EntityLifecycleProofs`, for every table size, bound on reuse and word size:

- `TypeCorrect`, `FreeListCorrect`, `GenerationsCorrect`: the invariants of the
  run `lifecycle`;
- `NothingLost`: a call that reports success loses no index;
- `Implementation`: the table implements `Handles`.

They rest on `IndInv`. No invariant above is inductive alone: that
`create_entity` issues a new handle needs that the free index it pops is in use
by nobody (`FreeListSound`), that the stored generation is ahead of every
retired handle of that index (`GenerationsAdvance`), and that every handle names
an index already handed out (`HandlesOfEntities`); freeing an index keeps the free
list sound because a handle in use is alone in naming its index and its index is
not on the list. `InitLemma`, `IssueLemma`, `RetireLemma`, `IssueFailsLemma` and
`StutterLemma` are the steps, `PopLemma`, `PushLemma` and `LoseLemma` the facts
about the free list, and `PackLemma` the arithmetic of handles.

`WorldProofs`, as long as a block can be had (`BlocksToBeHad`):

- `EntitiesApart`: no two entities share a slot (`SlotExclusive`);
- `RowsNameTheirEntity`: the hidden index in an entity's slot names it
  (`BackPointer`);
- `FreeSlotsStayFree`: no slot is free and taken, or free twice
  (`FreeSlotsSound`).

The hypothesis is needed: `set_entity_archetype` frees the old slot before it
takes the new one, so when the block of the new one cannot be had, the entity
stays in a slot that is on the free list. The inductive invariant is `SlotInv`
(`SlotsStaySound`). The three need each other: a slot popped from a free list is
held by nobody because the list is sound, the slot pushed on it is held by nobody
else because slots are exclusive. They also need that every entity is `Seated`:
in an archetype that was made, at an offset below `entities_per_block` (else two
codes may have one number, `CodeUnique`) and a number below `next_index` (else a
new slot may be taken already); and what `Grounded` says of the rest: a call in
progress was given an entity that still exists and an archetype that was made, and
the next entity is nowhere yet, which holds because nothing in the library frees
an entity. That `Grounded` goes on (`CallsGoOn`) does not depend on slots being
exclusive, and is shared with `StoreProofs`.

`StoreProofs`, with no hypothesis, the failure of a block included:

- `TypeCorrect`: the type invariant of World;
- `SlotsInBlocks`: the blocks of an archetype are exactly as many as the slots
  handed out need, and every entity is in a block that is there (`BlocksCover`).

Slots may be shared here, so the invariant is weaker and of another kind,
`StoreInv` (`StoreStaysSound`): the slot of every entity and every number on a
free list was handed out (`Housed`), so that the next slot is in one of the blocks
or is the first of the next one (`BlocksFollow`); a call wants what it was made
for (`CallMeant`).

`ContractProofs`, from `StoreInv`:

- `ContractImplemented`: World implements `EcsContract`, if the entity table can be
  extended (`TableToBeHad`: a lost `archetype_index` takes the components of every
  entity with it; `EntitiesStayIntact`);
- `ArchetypesStayUnique`: `ArchetypesUnique`, if the arrays of archetypes and the
  offsets of columns can be had (`ArchetypesToBeHad`);
- `NoSlotIsLost`: `NoSlotLost`, if in addition to the table blocks and places on
  free lists can be had (`SlotsToBeHad`);
- `DataStaysIsolated`: `DataIsolated`, if blocks and places on free lists can be had
  (`MovesToBeHad`), so that every move succeeds (`MovesSucceed`). No invariant about
  data is needed: every step writes to one slot at most (`OthersStay`), and by
  `SlotInv` before and after the step that slot is nobody else's. Without the
  hypothesis it is false for some sizes (`entity.c:188`);
- `DataStaysKept`: `DataKept`, if what an entity needs on its way can be had
  (`SlotsToBeHad`). The call adds a component only to an entity without it
  (`Adding`), so that what it writes is not what was moved.
- `NothingFaults`: no call reads or writes what it has no right to, if memory can
  be had, the components of a spawn are registered and every set of them fits a
  block, and no layer but the first is made (`InGoodOrder`). The invariant
  `InOrder` adds to `StoreInv` that no layer, entity, archetype or free list was
  lost, that archetypes are made of registered components, and that the call in
  progress asks for such components and for no layer but the first. Each part of
  `InGoodOrder` is needed: without it a call reaches an array that was lost, the
  size of a component that is not there, a block of no entities, or an entry
  before the members of a layer.

`QueryProofs`, for every depth of executions inside of callbacks:

- `QueriesKeepSlots` (as long as blocks can be had) and `QueriesKeepStore`:
  queries leave `SlotInv` and `StoreInv` alone;
- `ReportedOnceInPlace`: `OnceInPlace`;
- `ColumnsOfTheSlot`: `ColumnsMatch`;
- `ListsStayExact`: `ListsExact`;
- `QueryTypesKept`: `QueryTypeOK`;
- `EverythingReported`: `Complete`, as long as blocks can be had.

All but the last hold whatever allocation fails. Three invariants carry them.
`VisitInv` (`VisitsStaySound`): an entity is not reported twice because all that
was reported lies `Behind` the visit, which goes up through archetypes, blocks and
slots; that needs that the list of the query ascends (or was lost). Columns are
right because an execution that is entered disturbs all executions around it and
none inside of it. `ListsInv`: each entry of the lists, unless it was lost, is the
one with as many matches below it as there are entries before it; for `FoundBelow`
is that one number grows by one with a match and by nothing else, which is all
the growing of the lists needs. `ScanInv`: what is `due` and not yet reported lies
ahead of the visit, in an archetype on the list behind the present one, or in the
present one at this slot or behind it. It needs the exact lists (an archetype that
matches is on them), `VisitInv`, and `BlocksFilled`: every block that an archetype
counts was allocated. That is where the hypothesis comes in: a block that
was refused ends the visit of its archetype (`query.c:95`) before entities that are
in it. `WorldVisits` is the step of the library in a callback; `TopSound` reduces
the steps of an execution to the innermost one.

`MemoryProofs`, with no hypothesis, for every number of components, entities,
archetypes, layers, slots and sizes of blocks, and whatever is refused:

- `BooksStayRight`: `BooksAgree`;
- `ArraysFit`: `Fits`;
- `LossesStayKnown`: `OnlyKnownLosses`;
- `MemoryTypesKept`: the type invariant.

The inductive invariant is `MemoryInv`: the books agree but for what a refusal left
unsure, the lengths are within their capacities (`Held`), and before there is an
instance nothing is given. Every
action is proved along the same way: each of its requests tells the size that is
believed, hence given, and each buffer whose believed size changes is asked for
(`Settled`), so the books agree afterwards (`AnswersGive`, `CallKeeps`). A call that
is cut short is the same with the refused buffer, and those that grow together with
it, left out (`ShortKeeps`).
That the destruction of the instance leaves nothing but the known losses is the same
fact with size zero for every other buffer. What the loops of spawn and of an
execution leave behind is found by induction on their steps: a property of the
record that each step keeps holds after all of them (`Reached`).

`CatalogProofs`, with no hypothesis, for every number of archetypes and
components, every size of a byte, a word, a block and the parts sorted by
insertion, and whatever layout cannot be stored:

- `SearchesBracket`: `SearchBrackets`;
- `PartsStayApart`: `PartsApart`;
- `IndexStaysSound`: `IndexSound`;
- `DirectoryImplemented`: Catalog implements `Directory`;
- `ColumnsStayApart`: `ColumnsApart`;
- `WalksStayRight`: `WalksAgree`;
- `CatalogTypesKept`: the type invariant.

The inductive invariant `CatalogInv` has a part for each thing a call does.
`Closing` is the search: if the index is in order, what is below `lo` comes before
what is asked for and what is above `hi` behind it, where `hi` is an index or the
largest `size_t`, as it is after a look at the first element. So a search that
ends without an answer asked for what is not there (`MissedMeans`). `Dividing` is
the sort: two entries that are out of order are in one part that is still on the
stack (`LeftToSort`), and no two parts share an entry. When nothing is on the stack,
the index is in order. That is stronger than `PartsApart`, and it is what the
insertion sort needs: its inner loop has no lower bound, and stops in its part
because the element before the part is not greater (`SmallPartInOrder`). A step of
the sort replaces the last part by others (`PartReplaced`), and is a rearrangement
of the entries within it (`Rearranged`): `PartitionSplits` for Lomuto's scheme,
`InsertionSorts` for the other. `Indexed` says that each archetype is in the index
once, and that no two are equal as long as all have a layout.

That the comparison is an order, and takes only equal arrays for equal although it
looks at the low byte first, is `CompareFacts`. For the directory, which knows
components and how often each was named, that is not enough: `SetsSound`, the second
invariant, says that every array ascends, and `OneOrder` that there is one way to
put the same components in ascending order, because as many of them are less than
any given one. So an archetype is found by what it holds, and a search that misses
while the index is in order licenses a new one. `PutBack` follows from the same
lemma. The walks (`SubsetMeans`, `CopiedMeans`) keep in each step what they know of
the components they passed. Columns do not overlap because their ends, `Rooms`, grow
by what each takes up and `entities_per_block` times the size of an entity is not
more than a block; sizes that wrap their 16 bits are what is added up.

**Numbers** holds the arithmetic of slots and codes, remainders, and induction. The
induction theorems of the library take an operator, which these provers cannot
instantiate; `SetInduction` says the same of a set of numbers, and is proved from
the least member of a set (`LeastMember`). A loop over an array is a recursive
function between two bounds: `RepeatedBetween` gives the function, and
`ReachedBetween` what its last value is, from what each step keeps. All loops of
Catalog (scan of a partition, insertion sort, offsets, walks) are proved with
these two.

**Assumptions** are those named in the modules: indexes and generations fit a
word, constants are what they count. TLC evaluates them in each run.

**Only model-checked:** liveness (`ExecutionsEnd`, `CallsEnd`),
which this prover cannot do. Every other property of a run that passes is a
theorem.

## Not modelled

- `unset_entity_layer`, `unset_entity_archetype`: nothing calls them. The other
  partition schemes and sorts of `memory.c` are not compiled in.
- The list of a layer's members: no entity is ever written into it.
- In `query`, the failure of a block: it ends the visit of its archetype
  (`query.c:95`), so entities in blocks behind it are not reported, and `Complete`
  is not claimed there.
- In Memory, what a call other than a destroy does after a growth was refused: what
  such tables do to entities, archetypes, layers and queries is in EntityTable,
  Archetypes, Layers and Query. Requests for zero bytes in spawns without components.
- In World, the failure to register a component: it has no effect but on the books,
  and is in Memory.
- Components of 2^16 bytes or more in World: the layout cuts their size to 16 bits
  (BlockLayout has that), and `entity.c:188` and `entity.c:190` write the full size.
- Generations that wrap after 2^32 frees: `MaxGeneration` stays below.
- Tests and build files have no logic of their own.

## Plan

1. That the entries Archetypes makes follow Directory, so that the chain from
   World down to arrays and comparisons is one of theorems.
2. Layers with their members, as `set_entity_layer` would fill them were the list
   appended to, to check `destroy_layer`.
