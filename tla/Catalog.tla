------------------------------ MODULE Catalog ------------------------------
(***************************************************************************)
(* How an instance finds and makes archetypes: resolve_archetype of        *)
(* src/archetype.c with the component arrays of its callers, the binary    *)
(* search of components_index and the quicksort that keeps it in order.    *)
(*                                                                         *)
(* A search goes step by step, one comparison each.  A sort goes part by   *)
(* part: frames is the C stack of _quicksort, the part it works on last.   *)
(* Allocations succeed, but for that of a layout; the others are World's.  *)
(***************************************************************************)
EXTENDS ComponentSets, BlockLayout, SortSearch

CONSTANTS
  Component,       (* the registered components                             *)
  MaxCount,        (* bound: components of an archetype                     *)
  MaxArchetypes,   (* bound: archetypes                                     *)
  LayoutMayFail    (* can the allocation of a layout fail?                  *)

ASSUME CatalogAssumption ==
  /\ Component = DOMAIN ComponentSize
  /\ \A c \in Component : c \in 0 .. Byte * Byte - 1
  /\ MaxCount \in Nat
  /\ MaxArchetypes \in Nat \ {0}
  /\ MaxArchetypes < SizeMax
  /\ LayoutMayFail \in BOOLEAN

VARIABLES
  archetype,   (* the components of each archetype                          *)
  index,       (* components_index                                          *)
  ready,       (* the archetypes whose layout is there                      *)
  stage,       (* "idle", or in a "search" or a "sort"                      *)
  want,        (* the components asked for                                  *)
  lo, hi,      (* where the search looks                                    *)
  frames,      (* the parts still to sort                                   *)
  found        (* the archetype returned last                               *)

vars == << archetype, index, ready, stage, want, lo, hi, frames, found >>

Length == Cardinality(DOMAIN archetype)

Pushed(array, x) ==
  LET n == Cardinality(DOMAIN array) IN [ k \in 0 .. n |-> IF k = n THEN x ELSE array[k] ]

-----------------------------------------------------------------------------
(* The three callers: spawn, add_component and remove_component.           *)

Resolve(set) ==
  /\ stage = "idle"
  /\ Length < MaxArchetypes
  /\ stage' = "search"
  /\ want' = set
  /\ lo' = 0
  /\ hi' = Wrap(Length - 1)
  /\ UNCHANGED << archetype, index, ready, frames, found >>

Spawn ==
  \E named \in BoundedSeq(Component, MaxCount) : Resolve(InitSet(named, << >>))

AddComponent ==
  \E a \in ready, c \in Component :
    /\ Len(archetype[a]) < MaxCount
    /\ ~ Contains(archetype[a], c)
    /\ Resolve(AddTo(archetype[a], c))

RemoveComponent ==
  \E a \in ready, c \in Component :
    /\ Contains(archetype[a], c)
    /\ Resolve(RemoveFrom(archetype[a], c))

-----------------------------------------------------------------------------
(* alias_ecs_bsearch                                                       *)

Looking == stage = "search" /\ lo <= hi /\ hi # SizeMax

Verdict == Compare(want, archetype[index[Middle(lo, hi)]])

(* Mutant: the upper half is taken to begin one further.                   *)
SearchUpFar ==
  /\ Looking
  /\ Verdict > 0
  /\ lo' = Middle(lo, hi) + 2
  /\ UNCHANGED << archetype, index, ready, stage, want, hi, frames, found >>

SearchUp ==
  /\ Looking
  /\ Verdict > 0
  /\ lo' = Middle(lo, hi) + 1
  /\ UNCHANGED << archetype, index, ready, stage, want, hi, frames, found >>

(* Mutant: the end of the part is not a size_t.                            *)
SearchDownSigned ==
  /\ Looking
  /\ Verdict < 0
  /\ hi' = Middle(lo, hi) - 1
  /\ UNCHANGED << archetype, index, ready, stage, want, lo, frames, found >>

SearchDown ==
  /\ Looking
  /\ Verdict < 0
  /\ hi' = Wrap(Middle(lo, hi) - 1)
  /\ UNCHANGED << archetype, index, ready, stage, want, lo, frames, found >>

(* What a call leaves behind of its local variables means nothing.         *)
Return(a) ==
  /\ stage' = "idle"
  /\ want' = << >>
  /\ lo' = 0
  /\ hi' = 0
  /\ frames' = << >>
  /\ found' = a

SearchHit ==
  /\ Looking
  /\ Verdict = 0
  /\ Return(index[Middle(lo, hi)])
  /\ UNCHANGED << archetype, index, ready >>

-----------------------------------------------------------------------------
(* A new archetype                                                         *)

Missed == stage = "search" /\ ~ Looking

MakeArchetype ==
  /\ Missed
  /\ archetype' = Pushed(archetype, want)
  /\ ready' = ready \cup {Length}
  /\ index' = Pushed(index, Length)
  /\ stage' = "sort"
  /\ frames' = << << 0, Length >> >>
  /\ UNCHANGED << want, lo, hi, found >>

(* The entry of the new archetype keeps the zero that fresh memory has.    *)
LayoutFails ==
  /\ Missed
  /\ LayoutMayFail
  /\ want # << >>
  /\ archetype' = Pushed(archetype, want)
  /\ index' = Pushed(index, 0)
  /\ Return(found)
  /\ UNCHANGED ready

-----------------------------------------------------------------------------
(* alias_ecs_quicksort                                                     *)

(* _sort                                                                   *)
ByComponents ==
  [ a \in DOMAIN archetype |->
      [ b \in DOMAIN archetype |-> Compare(archetype[a], archetype[b]) ] ]

Part == Last(frames)

Sorting == stage = "sort" /\ frames # << >>

Small == Part[2] - Part[1] < LinearLimit

PartDone ==
  /\ Sorting
  /\ Part[1] >= Part[2]
  /\ frames' = Front(frames)
  /\ UNCHANGED << archetype, index, ready, stage, want, lo, hi, found >>

SortSmallPart ==
  /\ Sorting
  /\ Part[1] < Part[2]
  /\ Small
  /\ index' = InsertionSorted(ByComponents, index, Part[1], Part[2])
  /\ frames' = Front(frames)
  /\ UNCHANGED << archetype, ready, stage, want, lo, hi, found >>

SplitPart ==
  /\ Sorting
  /\ Part[1] < Part[2]
  /\ ~ Small
  /\ LET split == Partition(ByComponents, index, Part[1], Part[2]) IN
       /\ index' = split.array
       /\ frames' = Front(frames) \o Parts(Part[1], Part[2], split.at)
  /\ UNCHANGED << archetype, ready, stage, want, lo, hi, found >>

SortDone ==
  /\ stage = "sort"
  /\ frames = << >>
  /\ Return(Length - 1)
  /\ UNCHANGED << archetype, index, ready >>

-----------------------------------------------------------------------------

Init ==
  /\ archetype = << >>
  /\ index = << >>
  /\ ready = {}
  /\ stage = "idle"
  /\ want = << >>
  /\ lo = 0
  /\ hi = 0
  /\ frames = << >>
  /\ found = 0

Step ==
  \/ SearchUp \/ SearchDown \/ SearchHit \/ MakeArchetype \/ LayoutFails
  \/ PartDone \/ SortSmallPart \/ SplitPart \/ SortDone

Next == Spawn \/ AddComponent \/ RemoveComponent \/ Step

Spec == Init /\ [][Next]_vars

(* A call that runs goes on.                                               *)
FairSpec == Spec /\ WF_vars(Step)

-----------------------------------------------------------------------------
(* PROPERTIES                                                              *)

TypeOK ==
  /\ \A a \in DOMAIN archetype : archetype[a] \in Seq(Component)
  /\ DOMAIN archetype = 0 .. Length - 1
  /\ DOMAIN index = DOMAIN archetype
  /\ \A k \in DOMAIN index : index[k] \in DOMAIN archetype
  /\ ready \subseteq DOMAIN archetype
  /\ stage \in { "idle", "search", "sort" }
  /\ lo \in 0 .. SizeMax /\ hi \in 0 .. SizeMax
  /\ \A n \in DOMAIN frames : frames[n] \in (0 .. SizeMax) \X (0 .. SizeMax)

(* Between calls the index holds every archetype that has a layout once,   *)
(* and, until an allocation failed, no two archetypes have the same        *)
(* components and each comes before those that compare greater             *)
(* (archetype.c:98-103).                                                   *)
IndexSound ==
  stage = "idle" =>
    /\ \A a \in ready \ {0} : \E k \in DOMAIN index :
         /\ index[k] = a
         /\ \A m \in DOMAIN index \ {k} : index[m] # a
    /\ ready = DOMAIN archetype =>
         \A k, m \in DOMAIN index : k < m => ByComponents[index[k]][index[m]] < 0

InOrder ==
  \A k, m \in DOMAIN index : k < m => ByComponents[index[k]][index[m]] <= 0

(* The search never looks outside of the array, and never past what it     *)
(* looks for, whichever end of the array that is at (memory.c:274-287).    *)
SearchBrackets ==
  /\ Looking => Middle(lo, hi) \in DOMAIN index
  /\ stage = "search" /\ InOrder =>
       \A k \in DOMAIN index :
         Compare(want, archetype[index[k]]) = 0 =>
           \E m \in lo .. hi : Compare(want, archetype[index[m]]) = 0

(* While a part waits to be sorted, nothing before it compares greater and *)
(* nothing behind it less than what is in it.  The insertion sort relies   *)
(* on it: it would sink an element below its part (memory.c:210).          *)
PartsApart ==
  \A n \in DOMAIN frames, k, m \in DOMAIN index :
    LET Splits(border) == k < border /\ border <= m IN
    /\ k < m
    /\ frames[n][1] <= frames[n][2]
    /\ Splits(frames[n][1]) \/ Splits(frames[n][2] + 1)
    => ByComponents[index[k]][index[m]] <= 0

(* The columns of an archetype and its hidden column lie within a block    *)
(* and do not overlap, whatever the sizes, those that do not fit their 16  *)
(* bits or no block included (archetype.c:67-96).                          *)
ColumnsApart ==
  stage = "idle" => \A a \in ready :
    LET set == archetype[a]
        Extent(k) == IF k = 0 THEN 0 .. IndexSize * PerBlock(set) - 1
                     ELSE ColumnOffset(set)[k] ..
                            ColumnOffset(set)[k] + SizeInBlock(set[k]) * PerBlock(set) - 1
    IN \A k \in 0 .. Len(set) :
         /\ Extent(k) \subseteq 0 .. BlockSize - 1
         /\ \A m \in 0 .. k - 1 : Extent(k) \cap Extent(m) = {}

(* The walks through two arrays find what the sets of their components     *)
(* say, though a component may be there twice, and taking a component away *)
(* and adding it again gives the same array (component.c:81-139,           *)
(* archetype.c:209-228).                                                   *)
WalksAgree ==
  stage = "idle" => \A a, b \in DOMAIN archetype :
    LET x == archetype[a]
        y == archetype[b]
        copied == CopiedColumns(x, y)
    IN /\ IsSubset(x, y) <=> ToSet(y) \subseteq ToSet(x)
       /\ { x[pair[1]] : pair \in copied } = ToSet(x) \cap ToSet(y)
       /\ \A pair \in copied : x[pair[1]] = y[pair[2]]
       /\ \A c \in ToSet(x) : AddTo(RemoveFrom(x, c), c) = x

(* resolve_archetype keeps the promise of Directory, which knows           *)
(* components and how often each was named, but no arrays and no order.    *)
Promised == INSTANCE Directory WITH
  Key <- UNION { [ cs -> 1 .. MaxCount ] : cs \in SUBSET Component },
  key <- [ a \in DOMAIN archetype |-> ToBag(archetype[a]) ],
  indexed <- { index[k] : k \in DOMAIN index },
  sorted <- stage = "sort" \/ InOrder,
  answer <- IF stage = "sort" THEN Length - 1 ELSE found

DirectoryKept == Promised!DirectorySpec

(* Every call ends: the search closes in, and the parts get smaller.       *)
CallsEnd == stage # "idle" ~> stage = "idle"

=============================================================================
