----------------------------- MODULE Archetypes -----------------------------
(***************************************************************************)
(* The archetypes of an instance and the block storage behind them:        *)
(* instance->archetype in src/local.h and the functions of src/archetype.c *)
(* that are called.                                                        *)
(*                                                                         *)
(* An archetype is a set of components.  Its entities live in slots; a     *)
(* block holds entities_per_block of them, slots are numbered through all  *)
(* blocks, and the numbers that were given up wait on a free list.  The    *)
(* entity table keeps, for each entity, the archetype and the code of its  *)
(* slot; the slot keeps the entity's index in a hidden first column.       *)
(*                                                                         *)
(* Abstractions.  The bytes of one component of one entity are one value,  *)
(* where they are is in BlockLayout.                                       *)
(* A sorted array of component handles is a set.  components_index, the    *)
(* array of archetypes sorted for binary search, is the set of archetypes  *)
(* it holds and whether it is sorted.  The capacity of a vector is left    *)
(* out: any append to it may need memory.                                  *)
(***************************************************************************)
EXTENDS EntityTable, FiniteSetsExt

CONSTANTS
  NumComponents,       (* handles an application may register               *)
  Value,               (* what the data of one component can be             *)
  ComponentSize,       (* the sizes the components are registered with      *)
  BlockSize,           (* BLOCK_DATA_SIZE                                   *)
  IndexSize,           (* the size of the hidden entity index               *)
  MaxArchetypes,       (* bound: archetypes of an instance                  *)
  MaxBlocks,           (* bound: blocks of one archetype                    *)
  MaxPerBlock          (* the largest entities_per_block                    *)

Component == 0 .. NumComponents - 1

(* Where the columns of an archetype are in a block.                       *)
Layout == INSTANCE BlockLayout

Sorted(cs) == SetToSortSeq(cs, <)

(* entities_per_block, zero when one entity exceeds a block.               *)
EntitiesPerBlock == [ cs \in SUBSET Component |-> Layout!PerBlock(Sorted(cs)) ]

ASSUME ArchetypesAssumption ==
  /\ NumComponents \in Nat
  /\ 0 \in Value
  /\ MaxArchetypes \in Nat \ {0}
  /\ MaxBlocks \in Nat
  /\ MaxPerBlock \in Nat
  /\ EntitiesPerBlock \in [ SUBSET Component -> 0 .. MaxPerBlock ]

(* Sizes of 2^16 bytes and more are cut by the layout, but not by those    *)
(* who write the data; they are left out.                                  *)
ASSUME SizesAssumption ==
  /\ BlockSize \in Nat \ {0}
  /\ IndexSize \in 1 .. BlockSize
  /\ ComponentSize \in [ Component -> 1 .. BlockSize - 1 ]

ArchetypeIndex == 0 .. MaxArchetypes - 1
Code == (0 .. MaxBlocks - 1) \X (0 .. MaxPerBlock - 1)
Slot == ArchetypeIndex \X Code

(* An entity's cell in a lost archetype_code array.                        *)
JunkCode == << Junk, Junk >>

VARIABLES
  archLength,      (* archetype.length                                      *)
  archCapacity,    (* archetype.capacity                                    *)
  archLost,        (* the array whose last reallocation failed, or "none"   *)
  indexed,         (* the archetypes components_index holds                 *)
  sorted,          (* is components_index sorted?                           *)
  components,      (* per archetype, its component set                      *)
  perBlock,        (* per archetype, entities_per_block; zero until the
                      layout is computed                                    *)
  nextIndex,       (* per archetype, the first slot never handed out        *)
  freeIndexes,     (* per archetype, the slots given up                     *)
  blockCount,      (* per archetype, blocks.length                          *)
  allocated,       (* the << archetype, block >> whose memory is there      *)
  owner,           (* per slot, the hidden entity index; zero for none      *)
  cell,            (* per slot and component, the data                      *)
  archIndex,       (* entity.archetype_index                                *)
  archCode         (* entity.archetype_code, as << block, offset >>         *)

indexVars == << archLength, archCapacity, archLost, indexed, sorted,
                components, perBlock >>
slotVars == << nextIndex, freeIndexes, blockCount, allocated >>
placeVars == << owner, archIndex, archCode >>
storeVars == << indexVars, slotVars, placeVars, cell >>

-----------------------------------------------------------------------------
(* FINDING AND MAKING AN ARCHETYPE: alias_ecs_resolve_archetype            *)

(* Mutant: component sets are compared by their number of components only. *)
MatchesByCount(want) ==
  { a \in indexed : Cardinality(components[a]) = Cardinality(want) }

(* The search of components_index finds one of these, if it is sorted.     *)
Matches(want) == { a \in indexed : components[a] = want }

Hits(want) == IF archLost = "none" THEN Matches(want) ELSE {}
Misses(want) == Hits(want) = {} \/ ~ sorted

MustGrow == archLength + 1 > archCapacity
CapacityAfter ==
  IF MustGrow THEN (archLength + 1) + (archLength + 1) \div 2
              ELSE archCapacity

(* A lost components_index comes back zeroed where it had no cells, and    *)
(* uninitialised where it had; a lost archetype.data is read as NULL.      *)
ResolveFaults ==
  \/ archLost = "data"
  \/ archLost = "index" /\ archCapacity > 0

Kept == IF archLost = "index" THEN {0} ELSE indexed

(* Mutant: the archetype's entities_per_block is left zero.                *)
ExtendUnsized(want, entities) ==
  /\ archLength' = archLength + 1
  /\ archCapacity' = CapacityAfter
  /\ archLost' = "none"
  /\ components' = [ components EXCEPT ![archLength] = want ]
  /\ UNCHANGED perBlock

(* Mutant: a block is said to hold one entity more than it does.           *)
ExtendOneMore(want, entities) ==
  /\ archLength' = archLength + 1
  /\ archCapacity' = CapacityAfter
  /\ archLost' = "none"
  /\ components' = [ components EXCEPT ![archLength] = want ]
  /\ perBlock' = [ perBlock EXCEPT ![archLength] = entities + 1 ]

Extend(want, entities) ==
  /\ archLength' = archLength + 1
  /\ archCapacity' = CapacityAfter
  /\ archLost' = "none"
  /\ components' = [ components EXCEPT ![archLength] = want ]
  /\ perBlock' = [ perBlock EXCEPT ![archLength] = entities ]

(* Mutant: the new archetype is not entered into components_index.         *)
NewArchetypeNotIndexed(want) ==
  /\ Misses(want)
  /\ ~ ResolveFaults
  /\ Extend(want, EntitiesPerBlock[want])
  /\ indexed' = Kept
  /\ sorted' = TRUE

NewArchetype(want) ==
  /\ Misses(want)
  /\ ~ ResolveFaults
  /\ Extend(want, EntitiesPerBlock[want])
  /\ indexed' = Kept \cup {archLength}
  /\ sorted' = TRUE

(* The array of column offsets cannot be had: the archetype stays, without *)
(* a layout; its entry of components_index stays zero, and is not sorted.  *)
LayoutFails(want) ==
  /\ "offset_size" \in Failing
  /\ want # {}
  /\ Misses(want)
  /\ ~ ResolveFaults
  /\ Extend(want, 0)
  /\ indexed' = Kept \cup {0}
  /\ sorted' = (Kept \subseteq {0})

(* One of the two arrays cannot grow: its pointer becomes NULL, the length *)
(* stays raised and the capacity does not.                                 *)
GrowFails(want, array) ==
  /\ "archetype_table" \in Failing
  /\ archLost # "data"
  /\ Misses(want)
  /\ MustGrow
  /\ archLength' = archLength + 1
  /\ archLost' = array
  /\ UNCHANGED << archCapacity, indexed, sorted, components, perBlock >>

-----------------------------------------------------------------------------
(* SLOTS: _allocate_code and _free_code                                    *)

CodeOf(a, n) == << n \div perBlock[a], n % perBlock[a] >>
LinearIndex(a, code) == code[1] * perBlock[a] + code[2]

(* free is the free lists as the caller left them.                         *)
NextSlot(a, free) == IF free[a] # << >> THEN Last(free[a]) ELSE nextIndex[a]
NextBlock(a, free) == NextSlot(a, free) \div perBlock[a]

HasSlot(a, free) == perBlock[a] # 0 /\ NextSlot(a, free) # Junk

(* entities_per_block is zero, the free list was lost, or blocks was (its  *)
(* failure to grow is not noticed).                                        *)
AllocateFaults(a, free) ==
  IF HasSlot(a, free)
    THEN "block_vector" \in Failing /\ NextBlock(a, free) = blockCount[a]
    ELSE TRUE

(* Mutants of TakeSlot: the slot stays on the free list; a block is added  *)
(* one slot too late.                                                      *)
TakeSlotNotPopped(a, free) ==
  /\ HasSlot(a, free)
  /\ NextBlock(a, free) < MaxBlocks
  /\ freeIndexes' = free
  /\ nextIndex' = [ nextIndex EXCEPT ![a] = IF free[a] # << >> THEN @ ELSE @ + 1 ]
  /\ blockCount' = [ blockCount EXCEPT ![a] =
                       IF NextBlock(a, free) = @ THEN @ + 1 ELSE @ ]

TakeSlotLateBlock(a, free) ==
  /\ HasSlot(a, free)
  /\ NextBlock(a, free) < MaxBlocks
  /\ freeIndexes' = IF free[a] # << >> THEN [ free EXCEPT ![a] = Front(@) ] ELSE free
  /\ nextIndex' = [ nextIndex EXCEPT ![a] = IF free[a] # << >> THEN @ ELSE @ + 1 ]
  /\ blockCount' = [ blockCount EXCEPT ![a] =
                       IF NextBlock(a, free) > @ THEN @ + 1 ELSE @ ]

TakeSlot(a, free) ==
  /\ HasSlot(a, free)
  /\ NextBlock(a, free) < MaxBlocks
  /\ IF free[a] # << >>
       THEN /\ freeIndexes' = [ free EXCEPT ![a] = Front(@) ]
            /\ UNCHANGED nextIndex
       ELSE /\ freeIndexes' = free
            /\ nextIndex' = [ nextIndex EXCEPT ![a] = @ + 1 ]
  /\ blockCount' = [ blockCount EXCEPT ![a] =
                       IF NextBlock(a, free) = @ THEN @ + 1 ELSE @ ]

AllocateCode(a, free) ==
  /\ TakeSlot(a, free)
  /\ allocated' = allocated \cup { << a, NextBlock(a, free) >> }

(* The block cannot be had; the slot's number is used up all the same.     *)
AllocateMayFail(a, free) ==
  /\ "block" \in Failing
  /\ HasSlot(a, free)
  /\ << a, NextBlock(a, free) >> \notin allocated

AllocateFails(a, free) ==
  /\ AllocateMayFail(a, free)
  /\ TakeSlot(a, free)
  /\ UNCHANGED allocated

(* Mutant: the slot given up is pushed twice.                              *)
FreedTwice(a, code) ==
  [ freeIndexes EXCEPT ![a] = @ \o << LinearIndex(a, code), LinearIndex(a, code) >> ]

(* The free lists after _free_code, and after it failed to extend one.     *)
Freed(a, code) ==
  [ freeIndexes EXCEPT ![a] = Append(@, LinearIndex(a, code)) ]
Unfreed(a) ==
  [ freeIndexes EXCEPT ![a] = [ k \in DOMAIN @ |-> Junk ] ]

-----------------------------------------------------------------------------
(* MOVING AN ENTITY: alias_ecs_set_entity_archetype                        *)

SlotOf(e) == << archIndex[e], archCode[e] >>

(* Archetype 0 stands for "not in an archetype yet": what an entity leaves *)
(* behind there is neither freed nor copied.                               *)
Placed(e) == archIndex[e] # 0

(* Mutants: the slot an entity leaves is never given up; or even one of    *)
(* archetype 0 is.                                                         *)
ListsForNothingFreed(e) == freeIndexes
ListsForUnguarded(e) == Freed(archIndex[e], archCode[e])

ListsFor(e) == IF Placed(e) THEN Freed(archIndex[e], archCode[e]) ELSE freeIndexes

(* Mutant: no component is copied.                                         *)
CopiedNothing(e, a, code) == cell

(* The data after the components both archetypes have were copied.         *)
Copied(e, a, code) ==
  IF Placed(e)
    THEN [ cell EXCEPT ![<< a, code >>] =
             [ c \in Component |->
                 IF c \in components[a] \cap components[archIndex[e]]
                   THEN cell[SlotOf(e)][c] ELSE @[c] ] ]
    ELSE cell

(* Mutants: the archetype of the entity is not written, or the hidden      *)
(* entity index is not.                                                    *)
SetEntityArchetypeUnmoved(e, a) ==
  LET code == CodeOf(a, NextSlot(a, ListsFor(e))) IN
  /\ AllocateCode(a, ListsFor(e))
  /\ archCode' = [ archCode EXCEPT ![e] = code ]
  /\ owner' = [ owner EXCEPT ![<< a, code >>] = e ]
  /\ UNCHANGED archIndex

SetEntityArchetypeUnowned(e, a) ==
  /\ AllocateCode(a, ListsFor(e))
  /\ archIndex' = [ archIndex EXCEPT ![e] = a ]
  /\ archCode' = [ archCode EXCEPT ![e] = CodeOf(a, NextSlot(a, ListsFor(e))) ]
  /\ UNCHANGED owner

(* Entity e moves to archetype a; the slot it leaves keeps its hidden      *)
(* entity index.  The data is left to the caller, which may write more.    *)
SetEntityArchetype(e, a) ==
  LET code == CodeOf(a, NextSlot(a, ListsFor(e))) IN
  /\ AllocateCode(a, ListsFor(e))
  /\ archIndex' = [ archIndex EXCEPT ![e] = a ]
  /\ archCode' = [ archCode EXCEPT ![e] = code ]
  /\ owner' = [ owner EXCEPT ![<< a, code >>] = e ]

(* It fails before anything moved, or after the old slot was given up.     *)
UnplaceMayFail(e) == Placed(e) /\ "free_indexes" \in Failing

SetEntityArchetypeMayFail(e, a) ==
  UnplaceMayFail(e) \/ AllocateMayFail(a, ListsFor(e))

SetEntityArchetypeFails(e, a) ==
  /\ \/ /\ UnplaceMayFail(e)
        /\ freeIndexes' = Unfreed(archIndex[e])
        /\ UNCHANGED << nextIndex, blockCount, allocated >>
     \/ AllocateFails(a, ListsFor(e))
  /\ UNCHANGED placeVars

-----------------------------------------------------------------------------
(* BYTES IN A BLOCK: alias_ecs_raw_access                                  *)

(* Mutant: the offset is taken for a number of bytes.                      *)
FirstByteUnscaled(a, c, o) ==
  LET set == Sorted(components[a])
      column == CHOOSE k \in DOMAIN set : set[k] = c IN
  Layout!ColumnOffset(set)[column] + o

(* The first byte of component c of the entity at offset o.                *)
FirstByte(a, c, o) ==
  LET set == Sorted(components[a])
      column == CHOOSE k \in DOMAIN set : set[k] = c IN
  Layout!ColumnOffset(set)[column] + o * ComponentSize[c]

(* The cells << component, offset >> of a block of archetype a that have   *)
(* some of the bytes from .. to - 1.                                       *)
CellsOf(a, from, to) ==
  { x \in components[a] \X (0 .. perBlock[a] - 1) :
      LET first == FirstByte(a, x[1], x[2]) IN
      first < to /\ from < first + ComponentSize[x[1]] }

(* The data after the cells v has values for were written over.            *)
Overwritten(a, block, v) ==
  [ s \in Slot |-> [ c \in Component |->
      IF s[1] = a /\ s[2][1] = block /\ << c, s[2][2] >> \in DOMAIN v
        THEN v[<< c, s[2][2] >>] ELSE cell[s][c] ] ]

-----------------------------------------------------------------------------

ArchetypesInit ==
  /\ archLength = 0
  /\ archCapacity = 0
  /\ archLost = "none"
  /\ indexed = {}
  /\ sorted = TRUE
  /\ components = [ a \in ArchetypeIndex |-> {} ]
  /\ perBlock = [ a \in ArchetypeIndex |-> 0 ]
  /\ nextIndex = [ a \in ArchetypeIndex |-> 0 ]
  /\ freeIndexes = [ a \in ArchetypeIndex |-> << >> ]
  /\ blockCount = [ a \in ArchetypeIndex |-> 0 ]
  /\ allocated = {}
  /\ owner = [ s \in Slot |-> 0 ]
  /\ cell = [ s \in Slot |-> [ c \in Component |-> 0 ] ]
  /\ archIndex = [ e \in EntityIndex |-> 0 ]
  /\ archCode = [ e \in EntityIndex |-> << 0, 0 >> ]

ArchetypesTypeOK ==
  /\ archLength \in Nat
  /\ archCapacity \in Nat
  /\ archLost \in { "none", "index", "data" }
  /\ indexed \subseteq ArchetypeIndex
  /\ sorted \in BOOLEAN
  /\ components \in [ ArchetypeIndex -> SUBSET Component ]
  /\ perBlock \in [ ArchetypeIndex -> 0 .. MaxPerBlock ]
  /\ nextIndex \in [ ArchetypeIndex -> Nat ]
  /\ freeIndexes \in [ ArchetypeIndex -> Seq(Nat \cup {Junk}) ]
  /\ blockCount \in [ ArchetypeIndex -> Nat ]
  /\ allocated \subseteq ArchetypeIndex \X Nat
  /\ owner \in [ Slot -> EntityIndex ]
  /\ cell \in [ Slot -> [ Component -> Value ] ]
  /\ archIndex \in [ EntityIndex -> ArchetypeIndex \cup {Junk} ]
  /\ archCode \in [ EntityIndex -> Code \cup { << 0, 0 >>, JunkCode } ]

=============================================================================
