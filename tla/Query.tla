------------------------------- MODULE Query -------------------------------
(***************************************************************************)
(* A query of an instance, and its executions (src/query.c).               *)
(*                                                                         *)
(* A query remembers the archetypes tested so far and lists those that     *)
(* match, with the offsets of its columns in each.  An execution tests the *)
(* new archetypes, then goes through the slots of those on the list and    *)
(* calls the application back for each slot that names an entity.  In the  *)
(* callback the application may do what it may do outside: make any call   *)
(* of World, whose steps then come between two slots, and execute the      *)
(* query again.                                                            *)
(*                                                                         *)
(* Executions in progress are a stack.  Each keeps local copies of         *)
(* pointers into arrays that a reallocation may move: of the list          *)
(* (moved), and of its archetype (stale).  The column pointers belong to   *)
(* the query and are shared by all of them (runtime).                      *)
(***************************************************************************)
EXTENDS World

CONSTANTS
  QueryShapes,  (* the << components written, components read >> asked for  *)
  MaxDepth      (* bound: executions within the callback of one another     *)

ASSUME QueryAssumption ==
  /\ QueryShapes \subseteq Seq(Component) \X Seq(Component)
  /\ << << >>, << >> >> \notin QueryShapes
  /\ \A cs \in SUBSET Component : EntitiesPerBlock[cs] > 0
  /\ MaxDepth \in Nat \ {0}

VARIABLES
  query,      (* the query, if there is one                                 *)
  execs,      (* its executions in progress, the innermost last             *)
  runtime     (* query->runtime, as << archetype, block, slot >>            *)

queryVars == << query, execs, runtime >>

NoQuery == [ open |-> FALSE, component |-> << >>, tested |-> 0,
             capacity |-> 0, archetype |-> << >>, offset |-> << >> ]

(* due and seen are history: the entities that matched when the scan began *)
(* and have not been reported yet, and those reported in their own slot;   *)
(* an entity that moves leaves both.  disturbed: another execution set the *)
(* column pointers since this one did.                                     *)
NewExec == [ at |-> "test", i |-> 0, archetype |-> 0, j |-> 0, k |-> 0,
             stale |-> FALSE, moved |-> FALSE, disturbed |-> FALSE,
             due |-> {}, seen |-> {} ]

Top == Last(execs)

Runs(stage) == Idle /\ execs # << >> /\ Top.at = stage

(* The application runs: outside of every execution, or in a callback.     *)
ApplicationRuns == Idle /\ (execs # << >> => Top.at = "callback")

SetTop(exec) == execs' = [ execs EXCEPT ![Len(execs)] = exec ]

(* A flag raised in all executions but the innermost.                      *)
Outer(n) == n < Len(execs)

-----------------------------------------------------------------------------
(* CREATE AND DESTROY                                                      *)

(* query->component: the components written are put there first, and those *)
(* read then from the beginning again; what is left is zero.               *)
Columns(writes, reads) ==
  [ k \in 1 .. Len(writes) + Len(reads) |->
      CASE k <= Len(reads) -> reads[k]
        [] k > Len(reads) /\ k <= Len(writes) -> writes[k]
        [] OTHER -> 0 ]

CreateQuery ==
  /\ ApplicationRuns
  /\ ~ query.open
  /\ \E shape \in QueryShapes :
       /\ \A c \in ToSet(shape[1] \o shape[2]) : c < registered
       /\ query' = [ NoQuery EXCEPT !.open = TRUE,
                                    !.component = Columns(shape[1], shape[2]) ]
  /\ Reject("success")
  /\ UNCHANGED << execs, runtime >>

CreateQueryFails ==
  /\ ApplicationRuns
  /\ "query" \in Failing
  /\ Reject("out_of_memory")
  /\ UNCHANGED queryVars

DestroyQuery ==
  /\ ApplicationRuns
  /\ execs = << >>
  /\ query.open
  /\ query' = NoQuery
  /\ UNCHANGED << execs, runtime, vars >>

-----------------------------------------------------------------------------
(* EXECUTE: the new archetypes are tested                                  *)

(* Mutant: every execution tests all archetypes again.                     *)
ExecuteFromStart ==
  /\ ApplicationRuns
  /\ query.open
  /\ Len(execs) < MaxDepth
  /\ execs' = Append(execs, NewExec)
  /\ query' = [ query EXCEPT !.tested = 0 ]
  /\ UNCHANGED << runtime, vars >>

Execute ==
  /\ ApplicationRuns
  /\ query.open
  /\ Len(execs) < MaxDepth
  /\ execs' = Append(execs, NewExec)
  /\ UNCHANGED << query, runtime, vars >>

Testing == Runs("test") /\ query.tested < archLength

Matching(a) == ToSet(query.component) \subseteq components[a]

(* The archetype's layout was computed: it has an array of offsets.        *)
HasLayout(a) == perBlock[a] # 0

(* The array of archetypes was lost, or ends before this one.              *)
TestFaults ==
  \/ archLost = "data"
  \/ query.tested >= archCapacity
  \/ Matching(query.tested) /\ ~ HasLayout(query.tested)

(* Mutant: the lists grow one archetype too late.                          *)
ListsFullLate == Len(query.archetype) > query.capacity

ListsFull == Len(query.archetype) + 1 >= query.capacity

ListsCapacity ==
  IF ListsFull THEN (Len(query.archetype) + 1) + (Len(query.archetype) + 1) \div 2
               ELSE query.capacity

(* Mutant: the archetype after one that does not match is left out.        *)
TestMissSkips ==
  /\ Testing
  /\ ~ TestFaults
  /\ ~ Matching(query.tested)
  /\ query' = [ query EXCEPT !.tested = @ + 2 ]
  /\ UNCHANGED << execs, runtime, vars >>

TestMiss ==
  /\ Testing
  /\ ~ TestFaults
  /\ ~ Matching(query.tested)
  /\ query' = [ query EXCEPT !.tested = @ + 1 ]
  /\ UNCHANGED << execs, runtime, vars >>

(* When the lists grow they may move, away from under the executions in    *)
(* whose callback this one runs.                                           *)
TestHit ==
  /\ Testing
  /\ ~ TestFaults
  /\ Matching(query.tested)
  /\ query' = [ query EXCEPT !.tested = @ + 1,
                             !.capacity = ListsCapacity,
                             !.archetype = Append(@, query.tested),
                             !.offset = Append(@, query.tested) ]
  /\ \E moves \in BOOLEAN :
       /\ moves => ListsFull
       /\ execs' = [ n \in DOMAIN execs |->
                       [ execs[n] EXCEPT !.moved = @ \/ (moves /\ Outer(n)) ] ]
  /\ UNCHANGED << runtime, vars >>

Erased(list) == [ n \in DOMAIN list |-> Junk ]

(* One of the two lists cannot grow and is lost.  The archetype is tested  *)
(* again by the next execution.  Bound: not inside of a callback.          *)
TestGrowFails ==
  /\ Testing
  /\ archLost # "data" /\ query.tested < archCapacity
  /\ Matching(query.tested)
  /\ ListsFull
  /\ Len(execs) = 1
  /\ \/ /\ "query_archetype" \in Failing
        /\ query' = [ query EXCEPT !.archetype = Erased(@) ]
     \/ /\ "query_offset" \in Failing
        /\ query' = [ query EXCEPT !.offset = Erased(@) ]
  /\ execs' = Front(execs)
  /\ Reject("out_of_memory")
  /\ UNCHANGED runtime

TestFault ==
  /\ Testing
  /\ TestFaults
  /\ Fault("query")
  /\ UNCHANGED queryVars

-----------------------------------------------------------------------------
(* EXECUTE: the slots of the archetypes on the list                        *)

StartScan ==
  /\ Runs("test")
  /\ query.tested >= archLength
  /\ SetTop([ Top EXCEPT !.at = "archetype", !.i = 1,
                         !.due = { e \in LiveIntact : Matching(archIndex[e]) } ])
  /\ UNCHANGED << query, runtime, vars >>

Listed == Top.i <= Len(query.archetype)

EnterArchetype ==
  /\ Runs("archetype")
  /\ Listed
  /\ ~ Top.moved /\ query.archetype[Top.i] # Junk /\ archLost # "data"
  /\ SetTop([ Top EXCEPT !.at = "block",
                         !.archetype = query.archetype[Top.i] ])
  /\ UNCHANGED << query, runtime, vars >>

EnterArchetypeFault ==
  /\ Runs("archetype")
  /\ Listed
  /\ Top.moved \/ query.archetype[Top.i] = Junk \/ archLost = "data"
  /\ Fault("query")
  /\ UNCHANGED queryVars

FinishExecution ==
  /\ Runs("archetype")
  /\ ~ Listed
  /\ execs' = Front(execs)
  /\ Reject("success")
  /\ UNCHANGED << query, runtime >>

(* A block that could not be allocated ends the archetype.                 *)
BlockThere ==
  Top.j < blockCount[Top.archetype] /\ << Top.archetype, Top.j >> \in allocated

(* Mutant: the column pointers are not set to the beginning of the block.  *)
EnterBlockColumnsKept ==
  /\ Runs("block")
  /\ BlockThere
  /\ ~ Top.moved /\ query.offset[Top.i] # Junk
  /\ SetTop([ Top EXCEPT !.at = "slot" ])
  /\ UNCHANGED << query, runtime, vars >>

EnterBlock ==
  /\ Runs("block")
  /\ BlockThere
  /\ ~ Top.moved /\ query.offset[Top.i] # Junk
  /\ runtime' = << Top.archetype, Top.j, 0 >>
  /\ execs' = [ n \in DOMAIN execs |->
                  IF Outer(n) THEN [ execs[n] EXCEPT !.disturbed = TRUE ]
                  ELSE [ execs[n] EXCEPT !.at = "slot", !.disturbed = FALSE ] ]
  /\ UNCHANGED << query, vars >>

EnterBlockFault ==
  /\ Runs("block")
  /\ BlockThere
  /\ Top.moved \/ query.offset[Top.i] = Junk
  /\ Fault("query")
  /\ UNCHANGED queryVars

(* Mutant: the list is not advanced.                                       *)
LeaveArchetypeStays ==
  /\ Runs("block")
  /\ ~ BlockThere
  /\ SetTop([ Top EXCEPT !.at = "archetype", !.j = 0 ])
  /\ UNCHANGED << query, runtime, vars >>

LeaveArchetype ==
  /\ Runs("block")
  /\ ~ BlockThere
  /\ SetTop([ Top EXCEPT !.at = "archetype", !.i = @ + 1, !.j = 0 ])
  /\ UNCHANGED << query, runtime, vars >>

Here(exec) == << exec.archetype, << exec.j, exec.k >> >>

(* Mutant: the visit of a block ends one slot early.                       *)
InBlockShort(exec) == exec.k + 1 < perBlock[exec.archetype]

InBlock(exec) == exec.k < perBlock[exec.archetype]

(* The next slot; every column pointer moves by the size of its column.    *)
NextSlotOf(exec) ==
  /\ SetTop([ exec EXCEPT !.at = "slot", !.k = @ + 1 ])
  /\ runtime' = [ runtime EXCEPT ![3] = @ + 1 ]

SkipSlot ==
  /\ Runs("slot")
  /\ InBlock(Top)
  /\ owner[Here(Top)] = 0
  /\ NextSlotOf(Top)
  /\ UNCHANGED << query, vars >>

(* The entity that the slot names is reported, wherever it is now.         *)
InOwnSlot(exec) ==
  { e \in LiveIntact : owner[Here(exec)] = e /\ SlotOf(e) = Here(exec) }

Report ==
  /\ Runs("slot")
  /\ InBlock(Top)
  /\ owner[Here(Top)] # 0
  /\ SetTop([ Top EXCEPT !.at = "callback",
                         !.due = @ \ InOwnSlot(Top),
                         !.seen = @ \cup InOwnSlot(Top) ])
  /\ UNCHANGED << query, runtime, vars >>

(* The archetype is read again for the number of its slots.                *)
CallbackReturns ==
  /\ Runs("callback")
  /\ ~ Top.stale
  /\ NextSlotOf(Top)
  /\ UNCHANGED << query, vars >>

CallbackFault ==
  /\ Runs("callback")
  /\ Top.stale
  /\ Fault("query")
  /\ UNCHANGED queryVars

LeaveBlock ==
  /\ Runs("slot")
  /\ ~ InBlock(Top)
  /\ SetTop([ Top EXCEPT !.at = "block", !.j = @ + 1, !.k = 0 ])
  /\ UNCHANGED << query, runtime, vars >>

-----------------------------------------------------------------------------
(* THE REST OF THE LIBRARY, outside of executions and in callbacks         *)

(* What an execution is to know of a step of World: which entities moved,  *)
(* and whether the array of archetypes did.                                *)
Carried(exec, moves) ==
  [ exec EXCEPT !.stale = @ \/ moves,
                !.due = { e \in @ : SlotOf(e)' = SlotOf(e) },
                !.seen = { e \in @ : SlotOf(e)' = SlotOf(e) } ]

WithExecs ==
  /\ \E moves \in BOOLEAN :
       /\ moves => archCapacity' # archCapacity
       /\ execs' = [ n \in DOMAIN execs |-> Carried(execs[n], moves) ]
  /\ UNCHANGED << query, runtime >>

WorldRequest == ApplicationRuns /\ Request /\ WithExecs
WorldStep == Step /\ WithExecs

-----------------------------------------------------------------------------

QueryInit == Init /\ query = NoQuery /\ execs = << >> /\ runtime = << 0, 0, 0 >>

QueryStep ==
  \/ TestMiss \/ TestHit \/ TestGrowFails \/ TestFault
  \/ StartScan \/ EnterArchetype \/ EnterArchetypeFault \/ FinishExecution
  \/ EnterBlock \/ EnterBlockFault \/ LeaveArchetype
  \/ SkipSlot \/ Report \/ LeaveBlock

CallbackEnds == CallbackReturns \/ CallbackFault

QueryNext ==
  /\ fault = "none"
  /\ \/ WorldRequest \/ WorldStep
     \/ CreateQuery \/ CreateQueryFails \/ DestroyQuery \/ Execute
     \/ QueryStep \/ CallbackEnds

QuerySpec == QueryInit /\ [][QueryNext]_<< vars, queryVars >>

(* The thread goes on with what it is in, and the callback of each         *)
(* execution returns sooner or later, though it may make any number of     *)
(* calls and executions before.                                            *)
FairQuerySpec ==
  /\ QuerySpec
  /\ WF_<< vars, queryVars >>(fault = "none" /\ (QueryStep \/ WorldStep))
  /\ \A depth \in 1 .. MaxDepth :
       SF_<< vars, queryVars >>(fault = "none" /\ Len(execs) = depth /\ CallbackEnds)

-----------------------------------------------------------------------------
(* PROPERTIES                                                              *)

QueryTypeOK ==
  /\ query.component \in Seq(Component)
  /\ query.tested \in 0 .. archLength
  /\ query.archetype \in Seq(ArchetypeIndex \cup {Junk})
  /\ query.offset \in Seq(ArchetypeIndex \cup {Junk})
  /\ \A n \in DOMAIN execs :
       /\ execs[n].at \in { "test", "archetype", "block", "slot", "callback" }
       /\ execs[n].archetype \in ArchetypeIndex
       /\ execs[n].due \cup execs[n].seen \subseteq live
       /\ Outer(n) => execs[n].at = "callback"

(* How many archetypes made before this one match; and a list whose n-th   *)
(* entry, unless it was lost, is the n-th of those tested that match.      *)
FoundBelow(a) == Cardinality({ b \in 0 .. a - 1 : Matching(b) })

NthFound(list) ==
  \A n \in DOMAIN list : list[n] # Junk =>
    /\ list[n] \in 0 .. query.tested - 1
    /\ Matching(list[n])
    /\ FoundBelow(list[n]) = n - 1

(* The list of a query holds the archetypes tested so far that have all of *)
(* its components, each of them once and in the order they were made, and  *)
(* fits its arrays (query.c:47-78), whatever was lost of them.             *)
ListsExact ==
  /\ Len(query.archetype) = FoundBelow(query.tested)
  /\ Len(query.offset) = FoundBelow(query.tested)
  /\ FoundBelow(query.tested) <= query.capacity
  /\ NthFound(query.archetype)
  /\ NthFound(query.offset)

(* An execution that comes to its end has reported, in its own slot, every *)
(* entity that had the components when the scan began and was not moved    *)
(* since, whatever the callbacks did (query.c:86-118).                     *)
Complete ==
  \A n \in DOMAIN execs :
    execs[n].at = "archetype" /\ execs[n].i > Len(query.archetype)
      => execs[n].due = {}

(* No entity is reported twice in its own slot by one execution, unless it *)
(* was moved in between.                                                   *)
OnceInPlace ==
  \A n \in DOMAIN execs :
    execs[n].at = "slot" /\ InBlock(execs[n])
      => InOwnSlot(execs[n]) \cap execs[n].seen = {}

(* The columns handed to a callback are those of the slot it is called     *)
(* for (query.c:100-112), as long as no execution inside of a callback has *)
(* used the query's column pointers since the block was entered.           *)
ColumnsMatch ==
  \A n \in DOMAIN execs :
    execs[n].at = "callback" /\ ~ execs[n].disturbed
      => runtime = << execs[n].archetype, execs[n].j, execs[n].k >>

(* VisitInv is what keeps OnceInPlace and ColumnsMatch true by every step.  *)
(* The archetypes on the list ascend, but for those that were lost; what   *)
(* an execution has reported lies behind it; and an execution inside of a  *)
(* callback, once in a block, has disturbed those around it.               *)
ListOK ==
  /\ query \in [ open : BOOLEAN, component : Seq(Int), tested : Nat,
                  capacity : Int, archetype : Seq(Int), offset : Seq(Int) ]
  /\ \A n \in DOMAIN query.archetype :
       /\ query.archetype[n] < query.tested
       /\ \A m \in 1 .. n - 1 :
            query.archetype[m] < query.archetype[n] \/ query.archetype[m] = Junk
  /\ execs # << >> => query.open

InABlock(exec) == exec.at \in { "slot", "callback" }

(* Archetypes, blocks and slots are visited in ascending order.            *)
Behind(slot, exec) ==
  \/ \E m \in DOMAIN query.archetype : m < exec.i /\ query.archetype[m] = slot[1]
  \/ /\ exec.at \in { "block", "slot", "callback" }
     /\ slot[1] = exec.archetype
     /\ slot[2][1] \in Nat /\ slot[2][2] \in Nat
     /\ \/ slot[2][1] < exec.j
        \/ slot[2][1] = exec.j /\ slot[2][2] < exec.k
        \/ slot[2] = << exec.j, exec.k >> /\ exec.at = "callback"

ExecRecord ==
  [ at : { "test", "archetype", "block", "slot", "callback" }, i : Nat,
    archetype : Int, j : Nat, k : Nat, stale : BOOLEAN, moved : BOOLEAN,
    disturbed : BOOLEAN, due : SUBSET EntityIndex, seen : SUBSET EntityIndex ]

ExecOK(exec) ==
  /\ IF exec.at = "test" THEN exec.seen = {} ELSE exec.i > 0
  /\ ~ InABlock(exec) => exec.k = 0
  /\ exec.at \in { "block", "slot", "callback" } =>
       /\ exec.i \in DOMAIN query.archetype
       /\ exec.archetype = query.archetype[exec.i]
       /\ exec.archetype # Junk
  /\ \A e \in exec.seen : Behind(SlotOf(e), exec)
  /\ InABlock(exec) /\ ~ exec.disturbed
       => runtime = << exec.archetype, exec.j, exec.k >>

VisitInv ==
  /\ ListOK
  /\ execs \in Seq(ExecRecord)
  /\ \A n \in DOMAIN execs :
       /\ ExecOK(execs[n])
       /\ InABlock(execs[n]) => \A m \in 1 .. n - 1 : execs[m].disturbed

(* Every execution ends, whatever the callbacks change: the visit never    *)
(* goes back, and the blocks are bounded.                                  *)
ExecutionsEnd == execs # << >> ~> (execs = << >> \/ fault # "none")

(* Said of the code and not true of it.                                    *)

(* test/query.c:82: a query is run once for an entity that matches.        *)
RanOnce ==
  [][ \A e \in live : Report /\ owner[Here(Top)] = e => e \notin Top.seen ]_<< vars, queryVars >>

=============================================================================
