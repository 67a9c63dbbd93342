-------------------------- MODULE EntityLifecycle --------------------------
(***************************************************************************)
(* The entity table driven on its own: handles are issued by create_entity *)
(* and their entities freed by free_entity, in any order, with any of the  *)
(* reallocations failing.                                                  *)
(*                                                                         *)
(* The driver stands for a caller that frees only what it was given and    *)
(* has not freed yet.  (The library declares such a caller,                *)
(* alias_ecs_despawn, and does not define it; spawn is the only caller of  *)
(* create_entity.)  Three history variables record the handles.            *)
(***************************************************************************)
EXTENDS EntityTable

CONSTANT MaxGeneration   (* bound: how often one index may be freed         *)

ASSUME EntityLifecycleAssumption ==
  /\ MaxGeneration \in Nat
  /\ MaxGeneration < Word

VARIABLES
  issued,        (* how many handles were issued                            *)
  outstanding,   (* handles issued whose entity was not freed since         *)
  retired,       (* handles whose entity was freed                          *)
  result,        (* what the last call returned                             *)
  fault          (* a cell or a list entry without a defined value was read *)

vars == << tableVars, issued, outstanding, retired, result, fault >>

Init ==
  /\ TableInit
  /\ issued = 0
  /\ outstanding = {}
  /\ retired = {}
  /\ result = "success"
  /\ fault = FALSE

(* create_entity pops an index from a list that was lost, or reads the     *)
(* generation of a cell that was.                                          *)
Room == NextEntity <= MaxEntity

ReadsJunk ==
  IF NextEntity = Junk THEN TRUE ELSE generation[NextEntity] = Junk

Issue ==
  /\ Room
  /\ ~ ReadsJunk
  /\ CreateEntity
  /\ issued' = issued + 1
  /\ outstanding' =
       outstanding \cup { Pack(generation[NextEntity], NextEntity) }
  /\ result' = "success"
  /\ UNCHANGED << retired, fault >>

IssueFails ==
  /\ Room
  /\ \E array \in TableArray : CreateFails(array)
  /\ result' = "out_of_memory"
  /\ UNCHANGED << issued, outstanding, retired, fault >>

IssueFaults ==
  /\ Room
  /\ ReadsJunk
  /\ fault' = TRUE
  /\ UNCHANGED << tableVars, issued, outstanding, retired, result >>

(* The entity of an outstanding handle is freed.                           *)
Retire(h) ==
  /\ generation[IndexOf(h)] \in 0 .. MaxGeneration - 1
  /\ \/ FreeEntity(IndexOf(h)) /\ result' = "success"
     \/ FreeFails(IndexOf(h)) /\ result' = "out_of_memory"
  /\ outstanding' = outstanding \ {h}
  /\ retired' = retired \cup {h}
  /\ UNCHANGED << issued, fault >>

RetireFaults(h) ==
  /\ generation[IndexOf(h)] = Junk
  /\ fault' = TRUE
  /\ UNCHANGED << tableVars, issued, outstanding, retired, result >>

Next ==
  /\ ~ fault
  /\ \/ Issue
     \/ IssueFails
     \/ IssueFaults
     \/ \E h \in outstanding : Retire(h) \/ RetireFaults(h)

Spec == Init /\ [][Next]_vars

-----------------------------------------------------------------------------
(* PROPERTIES                                                              *)

Handle == { Pack(g, i) : g \in 0 .. MaxGeneration, i \in EntityIndex \ {0} }

(* The table keeps its shape and the handles are handles: local.h:79-87.   *)
TypeOK ==
  /\ TableTypeOK
  /\ outstanding \subseteq Handle
  /\ retired \subseteq Handle
  /\ result \in { "success", "out_of_memory" }
  /\ fault \in BOOLEAN

(* An index that waits on the free list (entity.c:27, 56) waits there      *)
(* once, was handed out before, and is not in use: otherwise create_entity *)
(* would give two callers the same entity.                                 *)
FreeListSound ==
  \A k \in DOMAIN entFree :
    entFree[k] # Junk =>
      /\ entFree[k] \in 1 .. entLength - 1
      /\ \A h \in outstanding : IndexOf(h) # entFree[k]
      /\ \A l \in DOMAIN entFree : entFree[l] = entFree[k] => l = k

(* The generation stored for an index (entity.c:43, 54) is ahead of every  *)
(* handle of that index that was retired, and equal to that of the handle  *)
(* in use: what makes an old handle distinguishable from a new one.        *)
GenerationsAdvance ==
  \A h \in outstanding \cup retired :
    LET stored == generation[IndexOf(h)] IN
    stored # Junk =>
      IF h \in outstanding THEN h \div Word = stored ELSE h \div Word < stored

(* The indexes a caller uses or can be given again.                        *)
Circulating ==
  { IndexOf(h) : h \in outstanding } \cup { entFree[k] : k \in DOMAIN entFree }

(* A call that reports success loses no index: each one that was in use or *)
(* on the free list still is, and so is each one newly handed out.  (Those *)
(* that entity.c:27-37 and 55 do lose, they report ALIAS_ECS_ERROR_OUT_OF_ *)
(* MEMORY for.)                                                            *)
NoIndexLost ==
  [][ result' = "success" =>
        Circulating' = Circulating \cup entLength .. entLength' - 1 ]_vars

(* What the properties above need to be preserved by every step.           *)
HandlesOfEntities ==
  /\ outstanding \cap retired = {}
  /\ \A h \in outstanding \cup retired : IndexOf(h) \in 1 .. entLength - 1
  /\ \A g, h \in outstanding : IndexOf(g) = IndexOf(h) => g = h
  /\ \A i \in EntityIndex : generation[i] \in 0 .. MaxGeneration \cup {Junk}

IndInv ==
  /\ TypeOK
  /\ entLength \in 1 .. MaxEntity + 1
  /\ HandlesOfEntities
  /\ FreeListSound
  /\ GenerationsAdvance

(* The table implements the abstract handle table: no handle is issued     *)
(* twice and no two in use name one entity, failed reallocations included. *)
Abstract == INSTANCE Handles WITH EntityOf <- IndexOf
HandlesImplemented == Abstract!Spec

(* ecs.h:42 says of ALIAS_ECS_ERROR_INVALID_ENTITY that it should not      *)
(* happen: a handle in use is accepted by validate_entity_handle.          *)
OutstandingAccepted ==
  ~ fault => \A h \in outstanding : generation[IndexOf(h)] # Junk => Validate(h)

=============================================================================
