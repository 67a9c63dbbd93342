---------------------------- MODULE EntityTable ----------------------------
(***************************************************************************)
(* The generational entity table of an instance: instance->entity in       *)
(* src/local.h and the three functions of src/entity.c that own it.        *)
(*                                                                         *)
(* An entity is an index into four parallel arrays and a generation; the   *)
(* handle given to the application packs both into one integer.  The       *)
(* arrays grow together, one reallocation each, and a freed index is       *)
(* reused with a higher generation.                                        *)
(*                                                                         *)
(* This module holds the state of the table and the steps of its           *)
(* functions.  EntityLifecycle drives them on their own, Archetypes and    *)
(* World as a part of the whole library.                                   *)
(***************************************************************************)
EXTENDS Integers, SequencesExt

CONSTANTS
  HalfWord,     (* half the range of a uint32_t: 2^31 in the code           *)
  MaxEntity,    (* bound: the highest entity index a model hands out        *)
  Failing       (* the allocation sites at which the allocator may fail     *)

(* The allocations the library makes, named after what they make room for. *)
AllocSite ==
  { "entity_table", "entity_free", "component_set", "archetype_table",
    "offset_size", "out_entities", "block_vector", "block", "free_indexes",
    "layer_table", "layer_capacity", "layer_members",
    "query", "query_archetype", "query_offset" }

ASSUME EntityTableAssumption ==
  /\ HalfWord \in Nat \ {0}
  /\ MaxEntity \in Nat
  /\ MaxEntity < HalfWord
  /\ Failing \subseteq AllocSite

Word == 2 * HalfWord

EntityIndex == 0 .. MaxEntity

(* What a cell holds once its array was lost: a failed reallocation leaves *)
(* NULL in the array's pointer, and the next one starts from a new buffer  *)
(* whose first cells are not initialised.  Reading such a cell has no      *)
(* defined result in either case.                                          *)
Junk == -1

(* The four parallel arrays, in the order create_entity reallocates them.  *)
TableArray == { "generation", "layer_index", "archetype_index",
                "archetype_code" }

VARIABLES
  entLength,     (* entity.length: indices handed out so far                *)
  entCapacity,   (* entity.capacity: cells allocated in each array          *)
  entFree,       (* entity.free_indexes, the next index to reuse last       *)
  generation     (* entity.generation, zero in cells not yet used           *)

tableVars == << entLength, entCapacity, entFree, generation >>

-----------------------------------------------------------------------------

(* A handle is generation << 32 | index; validating one takes the index    *)
(* from its low word, and the generation by shifting right by 31 bits.     *)
Pack(g, i) == g * Word + i
IndexOf(h) == h % Word
GenerationOf(h) == (h \div HalfWord) % Word

Validate(h) ==
  /\ IndexOf(h) < entLength
  /\ GenerationOf(h) = generation[IndexOf(h)]

(* The index create_entity takes, and the length it leaves.                *)
NextEntity == IF entFree # << >> THEN Last(entFree) ELSE entLength
LengthAfter == IF entFree # << >> THEN entLength ELSE entLength + 1

NeedsGrowth == LengthAfter > entCapacity
GrownCapacity == (LengthAfter + 1) + (LengthAfter + 1) \div 2

(* Mutant: the index stays on the free list.                               *)
TakeEntityNotPopped ==
  /\ entFree' = entFree
  /\ entLength' = LengthAfter

TakeEntity ==
  /\ entFree' = IF entFree # << >> THEN Front(entFree) ELSE entFree
  /\ entLength' = LengthAfter

(* create_entity when every reallocation it needs succeeds.  New cells are *)
(* zero: alias_ecs_realloc clears what it adds.                            *)
CreateEntity ==
  /\ NextEntity # Junk
  /\ TakeEntity
  /\ entCapacity' = IF NeedsGrowth THEN GrownCapacity ELSE entCapacity
  /\ UNCHANGED generation

(* The cells of an array that was lost: all that were allocated before.    *)
Lost(array) == [ i \in EntityIndex |-> IF i < entCapacity THEN Junk ELSE array[i] ]

(* create_entity when the reallocation of the named array fails: the index *)
(* is consumed, the array is gone, the capacity is not raised, and the     *)
(* call reports ALIAS_ECS_ERROR_OUT_OF_MEMORY.                             *)
CreateFails(array) ==
  /\ "entity_table" \in Failing
  /\ NextEntity # Junk
  /\ NeedsGrowth
  /\ TakeEntity
  /\ generation' = IF array = "generation" THEN Lost(generation) ELSE generation
  /\ UNCHANGED entCapacity

(* Mutants of FreeEntity: the generation is raised twice, or not at all;   *)
(* the index is pushed twice, or not at all.                               *)
FreeEntityRaisedTwice(i) ==
  /\ generation' = [ generation EXCEPT ![i] = (@ + 2) % Word ]
  /\ entFree' = Append(entFree, i)
  /\ UNCHANGED << entLength, entCapacity >>

FreeEntityNotRaised(i) ==
  /\ entFree' = Append(entFree, i)
  /\ UNCHANGED << generation, entLength, entCapacity >>

FreeEntityPushedTwice(i) ==
  /\ generation' = [ generation EXCEPT ![i] = (@ + 1) % Word ]
  /\ entFree' = entFree \o << i, i >>
  /\ UNCHANGED << entLength, entCapacity >>

FreeEntityNotPushed(i) ==
  /\ generation' = [ generation EXCEPT ![i] = (@ + 1) % Word ]
  /\ UNCHANGED << entFree, entLength, entCapacity >>

(* free_entity: the generation is raised before the free list is extended, *)
(* so a failure to extend it loses the index, and the list with it.        *)
FreeEntity(i) ==
  /\ generation' = [ generation EXCEPT ![i] = (@ + 1) % Word ]
  /\ entFree' = Append(entFree, i)
  /\ UNCHANGED << entLength, entCapacity >>

FreeFails(i) ==
  /\ "entity_free" \in Failing
  /\ generation' = [ generation EXCEPT ![i] = (@ + 1) % Word ]
  /\ entFree' = [ k \in DOMAIN entFree |-> Junk ]
  /\ UNCHANGED << entLength, entCapacity >>

(* create_instance creates entity 0 and ignores the result, so the first   *)
(* growth may have failed; index 0 is used up either way and no array had  *)
(* a cell to lose.                                                         *)
TableInit ==
  /\ entLength = 1
  /\ entCapacity \in {3} \cup (IF "entity_table" \in Failing THEN {0} ELSE {})
  /\ entFree = << >>
  /\ generation = [ i \in EntityIndex |-> 0 ]

TableTypeOK ==
  /\ entLength \in Nat
  /\ entCapacity \in Nat
  /\ entFree \in Seq(EntityIndex \cup {Junk})
  /\ generation \in [ EntityIndex -> (0 .. Word - 1) \cup {Junk} ]

=============================================================================
