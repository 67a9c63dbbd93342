---------------------------- MODULE QueryProofs ----------------------------
(***************************************************************************)
(* That queries disturb no slot, that their lists are exact, and that an   *)
(* execution reports every entity that was there and stays, none twice in  *)
(* its own slot, with the columns of the slot it reports: for every number *)
(* of entities, archetypes, blocks and components, every depth of          *)
(* executions inside of callbacks, and whatever those do.                  *)
(*                                                                         *)
(* The steps of World keep VisitInv because an entity that they move       *)
(* leaves the history of every execution (WorldSound); those of Query keep *)
(* SlotInv because they change nothing of World's but what the last call   *)
(* returned.  A step of an execution changes the innermost one (TopSound), *)
(* adds one or takes it away.  ListsInv says of the lists which archetypes *)
(* are on them; ScanInv, that what is due and not reported lies ahead.     *)
(***************************************************************************)
EXTENDS Query, StoreProofs, SequenceTheorems, FiniteSetTheorems

(* The library is left alone, but for what the last call returned.         *)
Apart == UNCHANGED << tableVars, storeVars, layerVars, registered, live, call >>

-----------------------------------------------------------------------------
(* SLOTS                                                                   *)

(* Each step of Query is one of World, or leaves the library alone.        *)
LEMMA QuerySteps ==
  ASSUME QueryNext
  PROVE  WorldRequest \/ WorldStep \/ Apart
<1>1. ASSUME NEW code, Reject(code) PROVE Apart  BY <1>1 DEF Reject, Apart
<1>2. ASSUME Fault("query") PROVE Apart  BY <1>2 DEF Fault, Apart
<1>3. ASSUME UNCHANGED vars PROVE Apart  BY <1>3 DEF vars, Apart
<1>4. CASE CreateQuery \/ CreateQueryFails \/ FinishExecution \/ TestGrowFails
  BY <1>1, <1>4 DEF CreateQuery, CreateQueryFails, FinishExecution, TestGrowFails
<1>5. CASE TestFault \/ EnterArchetypeFault \/ EnterBlockFault \/ CallbackFault
  BY <1>2, <1>5 DEF TestFault, EnterArchetypeFault, EnterBlockFault, CallbackFault
<1>6. CASE \/ DestroyQuery \/ Execute \/ TestMiss \/ TestHit \/ StartScan
           \/ EnterArchetype \/ EnterBlock \/ LeaveArchetype \/ SkipSlot
           \/ Report \/ LeaveBlock \/ CallbackReturns
  BY <1>3, <1>6 DEF DestroyQuery, Execute, TestMiss, TestHit, StartScan,
     EnterArchetype, EnterBlock, LeaveArchetype, SkipSlot, Report, LeaveBlock,
     CallbackReturns
<1> QED  BY <1>4, <1>5, <1>6 DEF QueryNext, QueryStep, CallbackEnds

(* What leaves the library alone moves no entity.                          *)
LEMMA ApartMoves ==
  ASSUME Apart
  PROVE  /\ UNCHANGED << tableVars, storeVars, live, call, layerLength, owner,
                         archIndex, archCode, perBlock >>
         /\ \A e : SlotOf(e)' = SlotOf(e)
         /\ LiveIntact' = LiveIntact
BY DEF Apart, layerVars, storeVars, indexVars, placeVars, SlotOf, LiveIntact, Intact

LEMMA QueryKeepsSlots ==
  ASSUME SlotInv, BlocksToBeHad, [QueryNext]_<< vars, queryVars >>
  PROVE  SlotInv'
<1>1. CASE WorldRequest \/ WorldStep
  <2>1. QueryNext \/ UNCHANGED << vars, queryVars >>  OBVIOUS
  <2>2. [Next]_vars  BY <1>1, <2>1 DEF QueryNext, Next, WorldRequest, WorldStep
  <2> QED  BY <2>2, NextSlots
<1>2. CASE Apart
  <2>1. layerLength' \in Nat  BY <1>2, ApartMoves DEF SlotInv, CallSound
  <2> QED  BY <1>2, <2>1, ApartMoves, Aside
<1>3. CASE UNCHANGED << vars, queryVars >>
  BY <1>3, NextSlots
<1> QED  BY <1>1, <1>2, <1>3, QuerySteps

(* What holds of the library whatever fails holds when it is queried.      *)
LEMMA StoreApart ==
  ASSUME StoreInv, Apart
  PROVE  StoreInv'
<1>1. UNCHANGED << tableVars, storeVars, layerVars, registered, live, call >>
  BY DEF Apart
<1>2. UNCHANGED << entLength, entCapacity, entFree, generation >>  BY <1>1 DEF tableVars
<1>3. UNCHANGED << archLength, archCapacity, archLost, indexed, sorted, components, perBlock,
                   nextIndex, freeIndexes, blockCount, allocated, owner, archIndex,
                   archCode, cell >>
  BY <1>1 DEF storeVars, indexVars, slotVars, placeVars
<1>4. UNCHANGED << layerLength, layerCapacity, layerGeneration, layerKind >>
  BY <1>1 DEF layerVars
<1>5. TypeOK'
  BY <1>1, <1>2, <1>3, <1>4
  DEF StoreInv, TypeOK, TableTypeOK, ArchetypesTypeOK, LayersTypeOK
<1>6. LiveIntact' = LiveIntact  BY <1>1, <1>3 DEF LiveIntact, Intact
<1>7. Housed'
  BY <1>3, <1>6
  DEF StoreInv, Housed, BlocksCover, CountsCover, BlocksThere, Seated, LinearIndex
<1>8. TableSound' /\ CatalogSound'
  BY <1>1, <1>2, <1>3 DEF StoreInv, TableSound, CatalogSound
<1>9. CallSound'
  BY <1>1, <1>2, <1>3, <1>4, <1>6 DEF StoreInv, CallSound, Misses, Hits, Matches
<1>10. CallMeant'  BY <1>1, <1>3 DEF StoreInv, CallMeant, Has
<1> QED  BY <1>5, <1>7, <1>8, <1>9, <1>10 DEF StoreInv

LEMMA QueryWorldSteps ==
  ASSUME [QueryNext]_<< vars, queryVars >>
  PROVE  [Next]_vars \/ Apart
BY QuerySteps DEF QueryNext, Next, WorldRequest, WorldStep

LEMMA QueryKeepsStore ==
  ASSUME StoreInv, [QueryNext]_<< vars, queryVars >>
  PROVE  StoreInv'
BY QueryWorldSteps, NextStore, StoreApart

(* The slots stay sound whatever is queried, and whatever the callbacks    *)
(* change (query.c:107).                                                   *)
THEOREM QueriesKeepSlots == ASSUME BlocksToBeHad PROVE QuerySpec => []SlotInv
<1>1. QueryInit => SlotInv  BY InitSlots DEF QueryInit
<1>2. SlotInv /\ [QueryNext]_<< vars, queryVars >> => SlotInv'
  BY QueryKeepsSlots
<1> QED  BY <1>1, <1>2, PTL DEF QuerySpec

(* And the blocks, the table, the archetypes and the call do, whatever     *)
(* allocation fails (entity.c, archetype.c).                               *)
THEOREM QueriesKeepStore == QuerySpec => []StoreInv
<1>1. QueryInit => StoreInv  BY InitStore DEF QueryInit
<1>2. StoreInv /\ [QueryNext]_<< vars, queryVars >> => StoreInv'
  BY QueryKeepsStore
<1> QED  BY <1>1, <1>2, PTL DEF QuerySpec

-----------------------------------------------------------------------------
(* ARCHETYPES THAT MATCH                                                   *)

(* Archetypes are only added, up to the bound, and entities too.           *)
LEMMA WorldExtends ==
  ASSUME StoreInv, archLength <= MaxArchetypes, [Next]_vars
  PROVE  /\ archLength \in Nat /\ archLength' \in Nat
         /\ archLength <= archLength' /\ archLength' <= MaxArchetypes
         /\ \A a \in ArchetypeIndex : a < archLength => components'[a] = components[a]
         /\ live \subseteq live'
<1>1. Grounded /\ layerLength \in Nat
  BY TypeOKStore DEF Grounded, Housed, StoreTyped, StoreInv, CallSound
<1>2. archLength \in Nat  BY DEF StoreInv, TypeOK, ArchetypesTypeOK
<1>3. live \subseteq live'  BY <1>1, LiveGrows
<1>4. CASE UNCHANGED << archLength, components >>  BY <1>2, <1>3, <1>4
<1>5. CASE ResolveNew \/ ResolveFails
  <2>1. Appended  BY <1>1, <1>5, ResolveAppends
  <2>2. archLength < MaxArchetypes /\ archLength' = archLength + 1 /\ MaxArchetypes \in Nat
    BY <2>1, ArchetypesAssumption DEF Appended
  <2>3. \A a \in ArchetypeIndex : a < archLength => components'[a] = components[a]
    BY <1>1, <1>2, <2>1 DEF Appended, Grounded, CatalogSound
  <2> QED  BY <1>2, <1>3, <2>2, <2>3
<1>6. CASE AsideStep
  BY <1>1, <1>4, <1>6, AsideChanges DEF storeVars, indexVars
<1> QED
  BY <1>4, <1>5, <1>6
  DEF Next, Request, Step, AsideStep, vars, SpawnCall, AddCall, RemoveCall, ChangeCall,
      ResolveHit, SpawnReady, SpawnOne, SpawnCreateFails, SpawnPlaceFails, SpawnFinish,
      AddMove, AddMoveFails, RemoveMove, RemoveMoveFails, storeVars, indexVars

(* One archetype further, there is one more that matches, or not.          *)
LEMMA FoundOneMore ==
  ASSUME NEW a \in Nat
  PROVE  /\ FoundBelow(a) \in Nat
         /\ Matching(a) => FoundBelow(a + 1) = FoundBelow(a) + 1
         /\ ~ Matching(a) => FoundBelow(a + 1) = FoundBelow(a)
<1> DEFINE S == { b \in 0 .. a - 1 : Matching(b) }
           T == { b \in 0 .. (a + 1) - 1 : Matching(b) }
<1>1. IsFiniteSet(S)
  <2>1. IsFiniteSet(0 .. a - 1)  BY FS_Interval
  <2> QED  BY <2>1, FS_Subset
<1>2. Cardinality(S) \in Nat  BY <1>1, FS_CardinalityType
<1>3. Matching(a) => T = S \cup {a}  OBVIOUS
<1>4. ~ Matching(a) => T = S  OBVIOUS
<1>5. a \notin S  OBVIOUS
<1>6. Cardinality(S \cup {a}) = Cardinality(S) + 1  BY <1>1, <1>5, FS_AddElement
<1> QED  BY <1>2, <1>3, <1>4, <1>6 DEF FoundBelow

LEMMA FoundNone == FoundBelow(0) = 0
<1>1. { b \in 0 .. 0 - 1 : Matching(b) } = {}  OBVIOUS
<1> QED  BY <1>1, FS_EmptySet DEF FoundBelow

LEMMA FoundGrows ==
  ASSUME NEW a \in Nat, NEW b \in Nat, a < b
  PROVE  /\ FoundBelow(a) \in Nat /\ FoundBelow(b) \in Nat
         /\ Matching(a) => FoundBelow(a) < FoundBelow(b)
<1> DEFINE S == { c \in 0 .. (a + 1) - 1 : Matching(c) }
           T == { c \in 0 .. b - 1 : Matching(c) }
<1>1. IsFiniteSet(T)
  <2>1. IsFiniteSet(0 .. b - 1)  BY FS_Interval
  <2> QED  BY <2>1, FS_Subset
<1>2. S \subseteq T  OBVIOUS
<1>3. Cardinality(S) <= Cardinality(T)  BY <1>1, <1>2, FS_Subset
<1>4. FoundBelow(a + 1) <= FoundBelow(b)  BY <1>3 DEF FoundBelow
<1>5. FoundBelow(a) \in Nat /\ FoundBelow(b) \in Nat /\ FoundBelow(a + 1) \in Nat
  BY FoundOneMore
<1> QED  BY <1>4, <1>5, FoundOneMore

LEMMA FoundStays ==
  ASSUME NEW a \in Nat, \A b \in 0 .. a - 1 : Matching(b)' <=> Matching(b)
  PROVE  FoundBelow(a)' = FoundBelow(a)
<1>1. { b \in 0 .. a - 1 : Matching(b)' } = { b \in 0 .. a - 1 : Matching(b) }  OBVIOUS
<1> QED  BY <1>1 DEF FoundBelow

-----------------------------------------------------------------------------
(* VISITS                                                                  *)

(* The list of the query only got longer.                                  *)
Extended ==
  \A n \in DOMAIN query.archetype :
    n \in DOMAIN query'.archetype /\ query'.archetype[n] = query.archetype[n]

(* y is where x is, and has forgotten some of what x has reported.         *)
Retained(x, y) ==
  /\ y.at = x.at /\ y.i = x.i /\ y.archetype = x.archetype /\ y.j = x.j /\ y.k = x.k
  /\ y.seen \subseteq x.seen
  /\ InABlock(y) /\ ~ y.disturbed => ~ x.disturbed

(* An execution that stays where it is stays sound, if what it reported    *)
(* did not move and the column pointers it may rely on did not either.     *)
LEMMA RetainedOK ==
  ASSUME NEW x \in ExecRecord, NEW y \in ExecRecord, ExecOK(x), Retained(x, y), Extended,
         \A e \in y.seen : SlotOf(e)' = SlotOf(e),
         runtime' = runtime \/ y.disturbed \/ ~ InABlock(y)
  PROVE  ExecOK(y)'
<1>1. ASSUME NEW e \in y.seen PROVE Behind(SlotOf(e), y)'
  <2>1. Behind(SlotOf(e), x)  BY DEF ExecOK, Retained
  <2>2. Behind(SlotOf(e), y)  BY <2>1 DEF Behind, Retained
  <2>3. SlotOf(e)' = SlotOf(e)  OBVIOUS
  <2> DEFINE s == SlotOf(e)
  <2>4. CASE \E m \in DOMAIN query.archetype : m < y.i /\ query.archetype[m] = s[1]
    BY <2>3, <2>4 DEF Behind, Extended
  <2>5. CASE ~ \E m \in DOMAIN query.archetype : m < y.i /\ query.archetype[m] = s[1]
    <3> HIDE DEF s
    <3>1. /\ y.at \in { "block", "slot", "callback" }
          /\ s[1] = y.archetype
          /\ s[2][1] \in Nat /\ s[2][2] \in Nat
          /\ \/ s[2][1] < y.j
             \/ s[2][1] = y.j /\ s[2][2] < y.k
             \/ s[2] = << y.j, y.k >> /\ y.at = "callback"
      BY <2>2, <2>5 DEF Behind, s
    <3>2. SlotOf(e)' = s  BY <2>3 DEF s
    <3> QED  BY <3>1, <3>2 DEF Behind
  <2> QED  BY <2>4, <2>5
<1>2. /\ IF y.at = "test" THEN y.seen = {} ELSE y.i > 0
      /\ ~ InABlock(y) => y.k = 0
  BY DEF ExecOK, Retained, InABlock
<1>3. y.at \in { "block", "slot", "callback" } =>
        /\ y.i \in DOMAIN query'.archetype
        /\ y.archetype = query'.archetype[y.i]
        /\ y.archetype # Junk
  BY DEF ExecOK, Retained, Extended
<1>4. InABlock(y) /\ ~ y.disturbed => runtime' = << y.archetype, y.j, y.k >>
  BY DEF ExecOK, Retained, InABlock
<1> QED  BY <1>1, <1>2, <1>3, <1>4 DEF ExecOK, InABlock

(* Adding, dropping and replacing the last element of a sequence.          *)
LEMMA AddLast ==
  ASSUME NEW S, NEW s \in Seq(S), NEW x \in S
  PROVE  /\ Append(s, x) \in Seq(S)
         /\ DOMAIN Append(s, x) = 1 .. Len(s) + 1
         /\ Append(s, x)[Len(s) + 1] = x
         /\ \A n \in 1 .. Len(s) : Append(s, x)[n] = s[n]
OBVIOUS

LEMMA LengthOfDomain ==
  ASSUME NEW S, NEW s \in Seq(S), NEW n \in Nat, DOMAIN s = 1 .. n
  PROVE  Len(s) = n
<1>1. DOMAIN s = 1 .. Len(s) /\ Len(s) \in Nat  OBVIOUS
<1>2. n > 0 => n \in 1 .. Len(s)  BY <1>1
<1>3. Len(s) > 0 => Len(s) \in 1 .. n  BY <1>1
<1> QED  BY <1>1, <1>2, <1>3

LEMMA DropLast ==
  ASSUME NEW S, NEW s \in Seq(S), s # << >>
  PROVE  /\ Len(s) \in Nat \ {0} /\ DOMAIN s = 1 .. Len(s)
         /\ Last(s) = s[Len(s)] /\ Last(s) \in S
         /\ Front(s) \in Seq(S) /\ DOMAIN Front(s) = 1 .. Len(s) - 1
         /\ \A n \in 1 .. Len(s) - 1 : Front(s)[n] = s[n]
<1>1. Len(s) \in Nat \ {0} /\ DOMAIN s = 1 .. Len(s)  OBVIOUS
<1>2. Last(s) = s[Len(s)] /\ Last(s) \in S  BY <1>1 DEF Last
<1>3. /\ Front(s) \in Seq(S) /\ DOMAIN Front(s) = 1 .. Len(s) - 1
      /\ \A n \in 1 .. Len(s) - 1 : Front(s)[n] = s[n]
  BY <1>1 DEF Front
<1> QED  BY <1>1, <1>2, <1>3

LEMMA SetLast ==
  ASSUME NEW S, NEW s \in Seq(S), s # << >>, NEW x \in S,
         NEW r, r = [ s EXCEPT ![Len(s)] = x ]
  PROVE  /\ r \in Seq(S) /\ DOMAIN r = 1 .. Len(s)
         /\ r[Len(s)] = x
         /\ \A n \in 1 .. Len(s) - 1 : r[n] = s[n]
<1>1. Len(s) \in 1 .. Len(s)  OBVIOUS
<1>2. /\ r \in Seq(S) /\ Len(r) = Len(s)
      /\ \A j \in 1 .. Len(s) : r[j] = IF j = Len(s) THEN x ELSE s[j]
  BY <1>1, ExceptSeq
<1>3. Len(s) \in Nat /\ DOMAIN r = 1 .. Len(r)  BY ONLY <1>2, s \in Seq(S), LenProperties
<1>4. r[Len(s)] = x  BY ONLY <1>1, <1>2
<1>5. ASSUME NEW n \in 1 .. Len(s) - 1 PROVE r[n] = s[n]
  <2>1. n \in 1 .. Len(s) /\ n # Len(s)  BY ONLY <1>3, n \in 1 .. Len(s) - 1
  <2> QED  BY ONLY <1>2, <2>1
<1> QED  BY ONLY <1>2, <1>3, <1>4, <1>5

(* VisitInv in the next state, from facts about its executions.            *)
LEMMA VisitInvPrimed ==
  ASSUME ListOK', execs' \in Seq(ExecRecord),
         \A n \in DOMAIN execs' : \A y \in ExecRecord : y = execs'[n] => ExecOK(y)',
         \A n \in DOMAIN execs' : InABlock(execs'[n]) =>
           \A m \in 1 .. n - 1 : execs'[m].disturbed
  PROVE  VisitInv'
<1>1. ASSUME NEW n \in DOMAIN execs' PROVE ExecOK(execs[n])'
  <2>1. PICK y \in ExecRecord : y = execs'[n]  OBVIOUS
  <2>2. ExecOK(y)'  BY <2>1
  <2> QED  BY <2>1, <2>2 DEF ExecOK, Behind, InABlock
<1>2. \A exec : InABlock(exec)' <=> InABlock(exec)  BY DEF InABlock
<1> QED  BY <1>1, <1>2 DEF VisitInv

(* What holds of the innermost execution.                                  *)
LEMMA TopFacts ==
  ASSUME VisitInv, execs # << >>
  PROVE  /\ execs \in Seq(ExecRecord)
         /\ Len(execs) \in Nat \ {0} /\ DOMAIN execs = 1 .. Len(execs)
         /\ Top = execs[Len(execs)] /\ Top \in ExecRecord /\ ExecOK(Top)
         /\ ListOK /\ query.open
<1>1. execs \in Seq(ExecRecord) /\ ListOK  BY DEF VisitInv
<1>2. /\ Len(execs) \in Nat \ {0} /\ DOMAIN execs = 1 .. Len(execs)
      /\ Top = execs[Len(execs)] /\ Top \in ExecRecord
  BY <1>1, DropLast DEF Top
<1>3. ExecOK(Top)  BY <1>2 DEF VisitInv
<1> QED  BY <1>1, <1>2, <1>3 DEF ListOK

(* A step that moves no execution: some may end, and each may forget some  *)
(* of what it reported, and must when that moves.                          *)
LEMMA AllSound ==
  ASSUME VisitInv, ListOK', Extended, UNCHANGED runtime,
         execs' \in Seq(ExecRecord), DOMAIN execs' \subseteq DOMAIN execs,
         \A n \in DOMAIN execs' :
           /\ Retained(execs[n], execs'[n])
           /\ execs'[n].disturbed = execs[n].disturbed
           /\ \A e \in execs'[n].seen : SlotOf(e)' = SlotOf(e)
  PROVE  VisitInv'
<1>1. execs \in Seq(ExecRecord)  BY DEF VisitInv
<1>2. ASSUME NEW n \in DOMAIN execs', NEW y \in ExecRecord, y = execs'[n]
      PROVE  ExecOK(y)'
  <2>1. PICK x \in ExecRecord : x = execs[n]  BY <1>1
  <2>2. ExecOK(x)  BY <2>1 DEF VisitInv
  <2>3. Retained(x, y) /\ \A e \in y.seen : SlotOf(e)' = SlotOf(e)  BY <1>2, <2>1
  <2> QED  BY <2>2, <2>3, RetainedOK
<1>3. ASSUME NEW n \in DOMAIN execs', InABlock(execs'[n]), NEW m \in 1 .. n - 1
      PROVE  execs'[m].disturbed
  <2>1. m \in DOMAIN execs'
    BY execs' \in Seq(ExecRecord)
  <2>2. InABlock(execs[n])  BY <1>3 DEF Retained, InABlock
  <2>3. execs[m].disturbed  BY <1>3, <2>2 DEF VisitInv
  <2> QED  BY <2>1, <2>3
<1> QED  BY <1>2, <1>3, VisitInvPrimed

(* A step of the innermost execution.  It may move the column pointers     *)
(* only in a block, where no other execution relies on them.               *)
LEMMA TopSound ==
  ASSUME VisitInv, execs # << >>, UNCHANGED query, Apart,
         NEW x \in ExecRecord, SetTop(x), ExecOK(x)',
         InABlock(x) => InABlock(Top),
         UNCHANGED runtime \/ InABlock(Top)
  PROVE  VisitInv'
<1> DEFINE top == Len(execs)
<1>1. /\ execs \in Seq(ExecRecord) /\ top \in Nat \ {0} /\ DOMAIN execs = 1 .. top
      /\ Top = execs[top]
  BY TopFacts
<1>2. /\ execs' \in Seq(ExecRecord) /\ DOMAIN execs' = 1 .. top
      /\ execs'[top] = x
      /\ \A n \in 1 .. top - 1 : execs'[n] = execs[n]
  <2>1. execs \in Seq(ExecRecord) /\ execs' = [ execs EXCEPT ![Len(execs)] = x ]
    BY <1>1 DEF SetTop
  <2> QED  BY ONLY <2>1, execs # << >>, x \in ExecRecord, SetLast
<1> HIDE DEF top
<1>3. ListOK'
  <2>1. ListOK /\ execs' # << >>  BY <1>1, <1>2 DEF VisitInv
  <2> QED  BY <2>1 DEF ListOK
<1>4. ASSUME NEW n \in 1 .. top - 1, NEW y \in ExecRecord, y = execs[n]
      PROVE  ExecOK(y)'
  <2>1. ExecOK(y)  BY <1>1, <1>4 DEF VisitInv
  <2>2. Retained(y, y) /\ Extended  BY DEF Retained, Extended
  <2>3. \A e \in y.seen : SlotOf(e)' = SlotOf(e)  BY ApartMoves
  <2>4. InABlock(Top) => y.disturbed  BY <1>1, <1>4 DEF VisitInv
  <2> QED  BY <2>1, <2>2, <2>3, <2>4, RetainedOK
<1>5. ASSUME NEW n \in 1 .. top, NEW y \in ExecRecord, y = execs'[n]
      PROVE  ExecOK(y)'
  <2>1. CASE n = top  BY <1>2, <1>5, <2>1
  <2>2. CASE n # top
    <3>1. n \in 1 .. top - 1 /\ y = execs[n]  BY <1>1, <1>2, <1>5, <2>2
    <3> QED  BY <1>4, <3>1
  <2> QED  BY <2>1, <2>2
<1>6. ASSUME NEW n \in 1 .. top, InABlock(execs'[n]), NEW m \in 1 .. n - 1
      PROVE  execs'[m].disturbed
  <2>1. InABlock(execs[n])
    <3>1. CASE n = top
      <4>1. execs'[n] = x /\ execs[n] = Top  BY <1>1, <1>2, <3>1
      <4> QED  BY <1>6, <4>1
    <3>2. CASE n # top
      <4>1. execs'[n] = execs[n]  BY <1>1, <1>2, <3>2
      <4> QED  BY <1>6, <4>1
    <3> QED  BY <3>1, <3>2
  <2>2. m \in 1 .. top - 1 /\ execs[m].disturbed  BY <1>1, <2>1 DEF VisitInv
  <2> QED  BY <1>2, <2>2
<1> QED  BY <1>2, <1>3, <1>5, <1>6, VisitInvPrimed

(* The steps of World.                                                     *)
LEMMA WorldVisits ==
  ASSUME VisitInv, WithExecs
  PROVE  VisitInv'
<1>1. UNCHANGED << query, runtime >>  BY DEF WithExecs
<1>2. PICK moves \in BOOLEAN :
        execs' = [ n \in DOMAIN execs |-> Carried(execs[n], moves) ]
  BY DEF WithExecs
<1>3. execs \in Seq(ExecRecord) /\ ListOK  BY DEF VisitInv
<1>4. ASSUME NEW n \in DOMAIN execs
      PROVE  /\ execs'[n] \in ExecRecord
             /\ Retained(execs[n], execs'[n])
             /\ execs'[n].disturbed = execs[n].disturbed
             /\ \A e \in execs'[n].seen : SlotOf(e)' = SlotOf(e)
  <2>1. PICK x \in ExecRecord : x = execs[n]  BY <1>3
  <2>2. PICK y : y = Carried(x, moves)  OBVIOUS
  <2>3. /\ y \in ExecRecord
        /\ y.at = x.at /\ y.i = x.i /\ y.archetype = x.archetype
        /\ y.j = x.j /\ y.k = x.k /\ y.disturbed = x.disturbed
        /\ y.seen \subseteq x.seen
        /\ \A e \in y.seen : SlotOf(e)' = SlotOf(e)
    BY <2>2 DEF Carried, ExecRecord
  <2>4. execs'[n] = y  BY <1>2, <2>1, <2>2
  <2> QED  BY <2>1, <2>3, <2>4 DEF Retained
<1>5. execs' \in Seq(ExecRecord) /\ DOMAIN execs' = DOMAIN execs
  <2>1. DOMAIN execs' = DOMAIN execs  BY <1>2
  <2>2. DOMAIN execs = 1 .. Len(execs) /\ Len(execs) \in Nat  BY <1>3
  <2>3. execs' = [ n \in 1 .. Len(execs) |-> execs'[n] ]  BY <1>2, <2>2
  <2>4. execs' \in [ 1 .. Len(execs) -> ExecRecord ]  BY <1>4, <2>2, <2>3
  <2> QED  BY <2>1, <2>2, <2>4, SeqDef
<1>6. ListOK'
  <2>1. execs' # << >> => execs # << >>  BY <1>5, <1>3
  <2> QED  BY <1>1, <1>3, <2>1 DEF ListOK
<1> QED  BY <1>1, <1>4, <1>5, <1>6, AllSound DEF Extended

(* Steps that change neither the executions nor the list.                  *)
LEMMA NothingVisited ==
  ASSUME VisitInv, UNCHANGED queryVars, Apart
  PROVE  VisitInv'
<1>1. UNCHANGED << query, execs, runtime >>  BY DEF queryVars
<1>2. execs \in Seq(ExecRecord) /\ ListOK  BY DEF VisitInv
<1>3. ListOK' /\ Extended  BY <1>1, <1>2 DEF ListOK, Extended
<1>4. \A n \in DOMAIN execs : Retained(execs[n], execs[n])  BY DEF Retained
<1> QED  BY <1>1, <1>2, <1>3, <1>4, AllSound, ApartMoves

(* The application's calls: a query is made or destroyed when no execution *)
(* is in progress, and a new execution has reported nothing.               *)
LEMMA CallVisits ==
  ASSUME VisitInv, CreateQuery \/ DestroyQuery
  PROVE  VisitInv'
<1>1. execs \in Seq(ExecRecord) /\ ListOK  BY DEF VisitInv
<1>2. execs = << >> /\ execs' = << >>
  BY <1>1 DEF CreateQuery, DestroyQuery, ListOK
<1>3. ListOK'
  <2>1. CASE CreateQuery
    <3>1. PICK shape \in QueryShapes :
            query' = [ NoQuery EXCEPT !.open = TRUE,
                                      !.component = Columns(shape[1], shape[2]) ]
      BY <2>1 DEF CreateQuery
    <3>2. shape \in Seq(Component) \X Seq(Component)  BY QueryAssumption
    <3>3. PICK ws, rs : ws = shape[1] /\ rs = shape[2]
                        /\ ws \in Seq(Component) /\ rs \in Seq(Component)
      BY <3>2
    <3>4. Columns(ws, rs) \in Seq(Int)
      <4>1. Len(ws) \in Nat /\ Len(rs) \in Nat  BY <3>3, LenProperties
      <4>2. ASSUME NEW k \in 1 .. Len(ws) + Len(rs) PROVE Columns(ws, rs)[k] \in Int
        <5>1. CASE k <= Len(rs)
          BY <3>3, <4>1, <5>1, ArchetypesAssumption DEF Columns, Component
        <5>2. CASE k > Len(rs) /\ k <= Len(ws)
          BY <3>3, <4>1, <5>2, ArchetypesAssumption DEF Columns, Component
        <5>3. CASE ~ (k <= Len(rs)) /\ ~ (k > Len(rs) /\ k <= Len(ws))
          BY <3>3, <4>1, <5>3 DEF Columns
        <5> QED  BY <5>1, <5>2, <5>3
      <4>3. Columns(ws, rs) \in [ 1 .. Len(ws) + Len(rs) -> Int ]
        BY <4>2 DEF Columns
      <4> QED  BY <4>1, <4>3, SeqDef
    <3>5. query' = [ open |-> TRUE, component |-> Columns(ws, rs), tested |-> 0,
                     capacity |-> 0, archetype |-> << >>, offset |-> << >> ]
      BY <3>1, <3>3 DEF NoQuery
    <3> QED  BY <1>2, <3>4, <3>5 DEF ListOK
  <2>2. CASE DestroyQuery
    <3>1. query' = NoQuery  BY <2>2 DEF DestroyQuery
    <3> QED  BY <1>2, <3>1 DEF ListOK, NoQuery
  <2> QED  BY <2>1, <2>2
<1>4. execs' \in Seq(ExecRecord) /\ DOMAIN execs' = {}  BY <1>2
<1> QED  BY <1>3, <1>4, VisitInvPrimed

LEMMA ExecuteVisits ==
  ASSUME VisitInv, Execute
  PROVE  VisitInv'
<1>1. execs \in Seq(ExecRecord) /\ ListOK /\ query.open
  BY DEF VisitInv, Execute
<1>2. UNCHANGED << query, runtime >> /\ Apart /\ execs' = Append(execs, NewExec)
  BY DEF Execute, vars, Apart
<1>3. /\ NewExec \in ExecRecord /\ NewExec.at = "test" /\ NewExec.seen = {}
      /\ NewExec.k = 0
  BY DEF NewExec, ExecRecord
<1>4. /\ execs' \in Seq(ExecRecord) /\ DOMAIN execs' = 1 .. Len(execs) + 1
      /\ execs'[Len(execs) + 1] = NewExec
      /\ \A n \in 1 .. Len(execs) : execs'[n] = execs[n]
  BY <1>1, <1>2, <1>3, AddLast
<1>5. DOMAIN execs = 1 .. Len(execs) /\ Len(execs) \in Nat  BY <1>1
<1>6. ListOK'  BY <1>1, <1>2 DEF ListOK
<1>7. ASSUME NEW n \in DOMAIN execs', NEW y \in ExecRecord, y = execs'[n]
      PROVE  ExecOK(y)'
  <2>1. CASE n = Len(execs) + 1
    BY <1>3, <1>4, <1>7, <2>1 DEF ExecOK, InABlock
  <2>2. CASE n # Len(execs) + 1
    <3>1. n \in 1 .. Len(execs) /\ y = execs[n]  BY <1>4, <1>5, <1>7, <2>2
    <3>2. ExecOK(y)  BY <1>5, <3>1 DEF VisitInv
    <3>3. Retained(y, y) /\ Extended  BY <1>2 DEF Retained, Extended
    <3> QED  BY <1>2, <3>2, <3>3, ApartMoves, RetainedOK
  <2> QED  BY <2>1, <2>2
<1>8. ASSUME NEW n \in DOMAIN execs', InABlock(execs'[n]), NEW m \in 1 .. n - 1
      PROVE  execs'[m].disturbed
  <2>1. n # Len(execs) + 1  BY <1>3, <1>4, <1>8 DEF InABlock
  <2>2. n \in 1 .. Len(execs) /\ m \in 1 .. Len(execs)  BY <1>4, <1>5, <2>1
  <2>3. InABlock(execs[n])  BY <1>4, <1>8, <2>2
  <2>4. execs[m].disturbed  BY <1>5, <2>2, <2>3 DEF VisitInv
  <2> QED  BY <1>4, <2>2, <2>4
<1> QED  BY <1>4, <1>6, <1>7, <1>8, VisitInvPrimed

(* An execution ends: nothing is on the way that was not before.           *)
LEMMA FinishVisits ==
  ASSUME VisitInv, FinishExecution
  PROVE  VisitInv'
<1>1. execs # << >> /\ UNCHANGED << query, runtime >> /\ Apart /\ execs' = Front(execs)
  BY DEF FinishExecution, Runs, Reject, Apart
<1>2. execs \in Seq(ExecRecord) /\ ListOK  BY DEF VisitInv
<1>3. /\ Len(execs) \in Nat \ {0} /\ DOMAIN execs = 1 .. Len(execs)
      /\ execs' \in Seq(ExecRecord) /\ DOMAIN execs' = 1 .. Len(execs) - 1
      /\ \A n \in 1 .. Len(execs) - 1 : execs'[n] = execs[n]
  BY <1>1, <1>2, DropLast
<1>4. ListOK' /\ Extended  BY <1>1, <1>2 DEF ListOK, Extended
<1>5. \A n \in DOMAIN execs' :
        /\ Retained(execs[n], execs'[n])
        /\ execs'[n].disturbed = execs[n].disturbed
        /\ \A e \in execs'[n].seen : SlotOf(e)' = SlotOf(e)
  BY <1>1, <1>3, ApartMoves DEF Retained
<1> QED  BY <1>1, <1>3, <1>4, <1>5, AllSound

(* The list fails to grow, outside of every callback.                      *)
LEMMA GrowFailsVisits ==
  ASSUME VisitInv, TestGrowFails
  PROVE  VisitInv'
<1>1. execs \in Seq(ExecRecord) /\ ListOK  BY DEF VisitInv
<1>2. execs' = Front(execs) /\ Len(execs) = 1 /\ execs # << >>
  BY DEF TestGrowFails, Testing, Runs
<1>3. execs' \in Seq(ExecRecord) /\ DOMAIN execs' = {}  BY <1>1, <1>2, DropLast
<1>4. execs' = << >>  BY <1>3
<1>5. PICK a, o : query' = [ query EXCEPT !.archetype = a, !.offset = o ]
        /\ a \in { query.archetype, Erased(query.archetype) }
        /\ o \in { query.offset, Erased(query.offset) }
  <2>1. query = [ query EXCEPT !.archetype = query.archetype ]  BY <1>1 DEF ListOK
  <2>2. query = [ query EXCEPT !.offset = query.offset ]  BY <1>1 DEF ListOK
  <2>3. query' = [ query EXCEPT !.archetype = Erased(query.archetype),
                                !.offset = query.offset ]
        \/ query' = [ query EXCEPT !.archetype = query.archetype,
                                   !.offset = Erased(query.offset) ]
    BY <1>1, <2>1, <2>2 DEF TestGrowFails, ListOK
  <2> QED  BY <2>3
<1>6. ASSUME NEW list \in Seq(Int)
      PROVE  /\ Erased(list) \in Seq(Int)
             /\ \A n \in DOMAIN Erased(list) : Erased(list)[n] = Junk
  <2>1. DOMAIN list = 1 .. Len(list) /\ Len(list) \in Nat  OBVIOUS
  <2>2. Erased(list) \in [ 1 .. Len(list) -> Int ]  BY <2>1 DEF Erased, Junk
  <2> QED  BY <2>1, <2>2, SeqDef DEF Erased
<1>7. ListOK'
  <2>1. /\ query' \in [ open : BOOLEAN, component : Seq(Int), tested : Nat,
                        capacity : Int, archetype : Seq(Int), offset : Seq(Int) ]
        /\ query'.tested = query.tested /\ query'.archetype = a
    BY <1>1, <1>5, <1>6 DEF ListOK
  <2>2. CASE a = query.archetype  BY <1>1, <1>4, <2>1, <2>2 DEF ListOK
  <2>3. CASE a = Erased(query.archetype)
    <3>1. \A n \in DOMAIN a : a[n] = Junk  BY <1>1, <1>6, <2>3 DEF ListOK
    <3>2. DOMAIN a = 1 .. Len(a)  BY <1>1, <1>6, <2>3 DEF ListOK
    <3>3. ASSUME NEW n \in DOMAIN a
          PROVE  a[n] < query.tested /\ \A m \in 1 .. n - 1 : a[m] = Junk
      <4>1. query.tested \in Nat  BY <1>1 DEF ListOK
      <4>2. a[n] = -1  BY <3>1 DEF Junk
      <4>3. \A m \in 1 .. n - 1 : m \in DOMAIN a  BY <3>2
      <4> QED  BY <3>1, <4>1, <4>2, <4>3
    <3> QED  BY <1>4, <2>1, <3>3 DEF ListOK
  <2> QED  BY <1>5, <2>2, <2>3
<1> QED  BY <1>3, <1>7, VisitInvPrimed

(* The list gets longer by the archetype tested, the last one yet.         *)
LEMMA ListGrows ==
  ASSUME ListOK, execs # << >>, NEW q,
         q = [ query EXCEPT !.tested = @ + 1,
                            !.capacity = ListsCapacity,
                            !.archetype = Append(@, query.tested),
                            !.offset = Append(@, query.tested) ],
         query' = q
  PROVE  ListOK' /\ Extended
<1>1. ListsCapacity \in Int
  <2>1. query.capacity \in Int /\ Len(query.archetype) \in Nat  BY DEF ListOK
  <2>2. (Len(query.archetype) + 1) \div 2 \in Int  BY <2>1
  <2> QED  BY <2>1, <2>2 DEF ListsCapacity
<1>2. PICK tested, list : tested = query.tested /\ list = query.archetype
                          /\ tested \in Nat /\ list \in Seq(Int)
  BY DEF ListOK
<1>3. /\ Append(list, tested) \in Seq(Int)
      /\ DOMAIN Append(list, tested) = 1 .. Len(list) + 1
      /\ Append(list, tested)[Len(list) + 1] = tested
      /\ \A n \in 1 .. Len(list) : Append(list, tested)[n] = list[n]
      /\ DOMAIN list = 1 .. Len(list) /\ Len(list) \in Nat
  <2>1. list \in Seq(Int) /\ tested \in Int  BY <1>2
  <2> QED  BY ONLY <2>1, AddLast, LenProperties
<1>4. /\ q \in [ open : BOOLEAN, component : Seq(Int), tested : Nat,
                 capacity : Int, archetype : Seq(Int), offset : Seq(Int) ]
      /\ q.tested = tested + 1 /\ q.archetype = Append(list, tested)
      /\ q.open = query.open
  <2>1. Append(query.offset, tested) \in Seq(Int)  BY <1>2 DEF ListOK
  <2>2. PICK t, c, a, o :
          /\ t = tested + 1 /\ c = ListsCapacity
          /\ a = Append(list, tested) /\ o = Append(query.offset, tested)
    OBVIOUS
  <2>3. q = [ query EXCEPT !.tested = t, !.capacity = c, !.archetype = a, !.offset = o ]
    BY <1>2, <2>2
  <2>4. t \in Nat /\ c \in Int /\ a \in Seq(Int) /\ o \in Seq(Int)
    BY <1>1, <1>2, <1>3, <2>1, <2>2
  <2>5. /\ q \in [ open : BOOLEAN, component : Seq(Int), tested : Nat,
                   capacity : Int, archetype : Seq(Int), offset : Seq(Int) ]
        /\ q.tested = t /\ q.archetype = a /\ q.open = query.open
    BY <2>3, <2>4 DEF ListOK
  <2> QED  BY <2>2, <2>5
<1>5. Extended  BY <1>2, <1>3, <1>4 DEF Extended
<1>6. ASSUME NEW n \in DOMAIN q.archetype
      PROVE  /\ q.archetype[n] < q.tested
             /\ \A m \in 1 .. n - 1 :
                  q.archetype[m] < q.archetype[n] \/ q.archetype[m] = Junk
  <2>1. CASE n \in 1 .. Len(list)
    <3>1. list[n] < tested /\ list[n] \in Int  BY <1>2, <1>3, <2>1 DEF ListOK
    <3>2. \A m \in 1 .. n - 1 : list[m] < list[n] \/ list[m] = Junk
      BY <1>2, <1>3, <2>1 DEF ListOK
    <3> QED  BY <1>2, <1>3, <1>4, <2>1, <3>1, <3>2
  <2>2. CASE n = Len(list) + 1
    <3>1. \A m \in 1 .. Len(list) : list[m] < tested  BY <1>2, <1>3 DEF ListOK
    <3> QED  BY <1>2, <1>3, <1>4, <2>2, <3>1, SMTT(20)
  <2>3. n \in 1 .. Len(list) + 1  BY <1>3, <1>4
  <2>4. Len(list) \in Nat  BY <1>3
  <2> QED
    <3>1. n \in 1 .. Len(list) \/ n = Len(list) + 1  BY <2>3, <2>4
    <3> QED  BY <2>1, <2>2, <3>1
<1> QED  BY <1>4, <1>5, <1>6 DEF ListOK

LEMMA TestVisits ==
  ASSUME VisitInv, TestMiss \/ TestHit
  PROVE  VisitInv'
<1>1. /\ execs # << >> /\ execs \in Seq(ExecRecord) /\ ListOK
      /\ DOMAIN execs = 1 .. Len(execs) /\ Len(execs) \in Nat
  BY TopFacts DEF TestMiss, TestHit, Testing, Runs
<1>2. Apart /\ UNCHANGED runtime  BY DEF TestMiss, TestHit, vars, Apart
<1>3. /\ DOMAIN execs' = DOMAIN execs
      /\ execs' \in Seq(ExecRecord)
      /\ \A n \in DOMAIN execs' : /\ Retained(execs[n], execs'[n])
                                  /\ execs'[n].disturbed = execs[n].disturbed
  <2>1. CASE TestMiss
    <3>1. execs' = execs  BY <2>1 DEF TestMiss
    <3> QED  BY <1>1, <3>1 DEF Retained
  <2>2. CASE TestHit
    <3>1. PICK moves \in BOOLEAN :
            execs' = [ n \in DOMAIN execs |->
                         [ execs[n] EXCEPT !.moved = @ \/ (moves /\ Outer(n)) ] ]
      BY <2>2 DEF TestHit
    <3>2. ASSUME NEW n \in DOMAIN execs
          PROVE  /\ execs'[n] \in ExecRecord
                 /\ Retained(execs[n], execs'[n])
                 /\ execs'[n].disturbed = execs[n].disturbed
      <4>1. PICK x \in ExecRecord : x = execs[n]  BY <1>1
      <4>2. PICK m \in BOOLEAN : execs'[n] = [ x EXCEPT !.moved = m ]
        <5>1. PICK m \in BOOLEAN : m = (x.moved \/ (moves /\ Outer(n)))  OBVIOUS
        <5> QED  BY <3>1, <4>1, <5>1
      <4>3. PICK y : y = execs'[n]  OBVIOUS
      <4>4. y \in ExecRecord /\ Retained(x, y) /\ y.disturbed = x.disturbed
        BY <4>2, <4>3 DEF ExecRecord, Retained
      <4> QED  BY <4>1, <4>3, <4>4
    <3>3. DOMAIN execs' = DOMAIN execs  BY <3>1
    <3>4. execs' \in [ 1 .. Len(execs) -> ExecRecord ]  BY <1>1, <3>1, <3>2
    <3> QED  BY <1>1, <3>2, <3>3, <3>4, SeqDef
  <2> QED  BY <2>1, <2>2
<1>4. ListOK' /\ Extended
  <2>1. CASE TestMiss
    <3>1. PICK q : q = [ query EXCEPT !.tested = @ + 1 ] /\ query' = q
      BY <2>1 DEF TestMiss
    <3>2. /\ q \in [ open : BOOLEAN, component : Seq(Int), tested : Nat,
                     capacity : Int, archetype : Seq(Int), offset : Seq(Int) ]
          /\ q.tested = query.tested + 1 /\ q.archetype = query.archetype
          /\ q.open = query.open /\ query.tested \in Nat
      <4>1. PICK t \in Nat : t = query.tested + 1 /\ query.tested \in Nat
        BY <1>1 DEF ListOK
      <4>2. q = [ query EXCEPT !.tested = t ]  BY <3>1, <4>1
      <4> QED  BY <1>1, <4>1, <4>2 DEF ListOK
    <3>3. \A n \in DOMAIN query.archetype :
            query.archetype[n] \in Int /\ query.archetype[n] < query.tested + 1
      BY <1>1 DEF ListOK
    <3> QED  BY <1>1, <3>1, <3>2, <3>3 DEF ListOK, Extended
  <2>2. CASE TestHit
    <3>1. PICK q : /\ q = [ query EXCEPT !.tested = @ + 1,
                                         !.capacity = ListsCapacity,
                                         !.archetype = Append(@, query.tested),
                                         !.offset = Append(@, query.tested) ]
                   /\ query' = q
      BY <2>2 DEF TestHit
    <3> QED  BY <1>1, <3>1, ListGrows
  <2> QED  BY <2>1, <2>2
<1> QED  BY <1>2, <1>3, <1>4, AllSound, ApartMoves

(* A step of the innermost execution that leaves the column pointers.      *)
LEMMA TopStays ==
  ASSUME VisitInv, execs # << >>, UNCHANGED << query, runtime, vars >>,
         NEW x \in ExecRecord, SetTop(x), ExecOK(x),
         InABlock(x) => InABlock(Top)
  PROVE  VisitInv'
<1>1. Apart  BY DEF Apart, vars
<1>2. Retained(x, x) /\ Extended  BY DEF Retained, Extended
<1>3. ExecOK(x)'  BY <1>1, <1>2, ApartMoves, RetainedOK
<1> QED  BY <1>1, <1>3, TopSound

LEMMA ArchetypeVisits ==
  ASSUME VisitInv, live \subseteq EntityIndex,
         StartScan \/ EnterArchetype \/ LeaveArchetype \/ LeaveBlock
  PROVE  VisitInv'
<1>1. execs # << >> /\ UNCHANGED << query, runtime, vars >>
  BY DEF StartScan, EnterArchetype, LeaveArchetype, LeaveBlock, Runs
<1>2. PICK top : top = Top /\ top \in ExecRecord /\ ExecOK(top)  BY <1>1, TopFacts
<1>3. query.archetype \in Seq(Int)  BY <1>1, TopFacts DEF ListOK
<1>4. CASE StartScan
  <2>1. PICK x : /\ x = [ top EXCEPT !.at = "archetype", !.i = 1,
                           !.due = { e \in LiveIntact : Matching(archIndex[e]) } ]
                 /\ SetTop(x)
    BY <1>2, <1>4 DEF StartScan
  <2>2. top.at = "test" /\ top.seen = {} /\ top.k = 0
    BY <1>2, <1>4 DEF StartScan, Runs, ExecOK, InABlock
  <2>3. /\ x \in ExecRecord /\ x.at = "archetype" /\ x.seen = {} /\ x.i = 1
        /\ x.k = 0
    BY <1>2, <2>1, <2>2 DEF ExecRecord, LiveIntact
  <2>4. ExecOK(x)  BY <2>3 DEF ExecOK, InABlock
  <2>5. ~ InABlock(x)  BY <2>3 DEF InABlock
  <2> QED  BY <1>1, <2>1, <2>3, <2>4, <2>5, TopStays
<1>5. CASE EnterArchetype
  <2>1. PICK x : /\ x = [ top EXCEPT !.at = "block",
                                     !.archetype = query.archetype[top.i] ]
                 /\ SetTop(x)
    BY <1>2, <1>5 DEF EnterArchetype
  <2>2. /\ top.at = "archetype" /\ top.i <= Len(query.archetype)
        /\ query.archetype[top.i] # Junk /\ top.k = 0
    BY <1>2, <1>5 DEF EnterArchetype, Runs, Listed, ExecOK, InABlock
  <2>3. top.i \in DOMAIN query.archetype
    <3>1. top.i > 0 /\ top.i \in Nat  BY <1>2, <2>2 DEF ExecOK, ExecRecord
    <3>2. DOMAIN query.archetype = 1 .. Len(query.archetype)
          /\ Len(query.archetype) \in Nat
      BY <1>3
    <3> QED  BY <2>2, <3>1, <3>2
  <2>4. query.archetype[top.i] \in Int  BY <1>3, <2>3
  <2>5. /\ x \in ExecRecord /\ x.at = "block" /\ x.seen = top.seen /\ x.i = top.i
        /\ x.archetype = query.archetype[top.i] /\ x.k = 0
    BY <1>2, <2>1, <2>2, <2>4 DEF ExecRecord
  <2>6. ASSUME NEW e \in x.seen PROVE Behind(SlotOf(e), x)
    <3>1. Behind(SlotOf(e), top)  BY <1>2, <2>5 DEF ExecOK
    <3> QED  BY <2>2, <2>5, <3>1 DEF Behind
  <2>7. ExecOK(x)
    BY <1>2, <2>2, <2>3, <2>5, <2>6 DEF ExecOK, InABlock, ExecRecord
  <2>8. ~ InABlock(x)  BY <2>5 DEF InABlock
  <2> QED  BY <1>1, <2>1, <2>5, <2>7, <2>8, TopStays
<1>6. CASE LeaveArchetype
  <2>1. PICK x : /\ x = [ top EXCEPT !.at = "archetype", !.i = @ + 1, !.j = 0 ]
                 /\ SetTop(x)
    BY <1>2, <1>6 DEF LeaveArchetype
  <2>2. /\ top.at = "block" /\ top.i \in DOMAIN query.archetype /\ top.i \in Nat
        /\ top.archetype = query.archetype[top.i] /\ top.k = 0
    BY <1>2, <1>6 DEF LeaveArchetype, Runs, ExecOK, ExecRecord, InABlock
  <2>3. /\ x \in ExecRecord /\ x.at = "archetype" /\ x.seen = top.seen
        /\ x.i = top.i + 1 /\ x.k = 0
    <3>1. PICK i \in Nat : i = top.i + 1  BY <2>2
    <3>2. x = [ top EXCEPT !.at = "archetype", !.i = i, !.j = 0 ]  BY <2>1, <3>1
    <3> QED  BY <1>2, <2>2, <3>1, <3>2 DEF ExecRecord
  <2>4. ASSUME NEW e \in x.seen PROVE Behind(SlotOf(e), x)
    <3>1. Behind(SlotOf(e), top)  BY <1>2, <2>3 DEF ExecOK
    <3>2. PICK s : s = SlotOf(e)  OBVIOUS
    <3>3. \E m \in DOMAIN query.archetype : m <= top.i /\ query.archetype[m] = s[1]
      BY <2>2, <3>1, <3>2, <1>3 DEF Behind
    <3>4. \E m \in DOMAIN query.archetype : m < x.i /\ query.archetype[m] = s[1]
      BY <2>2, <2>3, <3>3, <1>3
    <3> QED  BY <3>2, <3>4 DEF Behind
  <2>5. ExecOK(x)  BY <2>2, <2>3, <2>4 DEF ExecOK, InABlock
  <2>6. ~ InABlock(x)  BY <2>3 DEF InABlock
  <2> QED  BY <1>1, <2>1, <2>3, <2>5, <2>6, TopStays
<1>7. CASE LeaveBlock
  <2>1. PICK x : /\ x = [ top EXCEPT !.at = "block", !.j = @ + 1, !.k = 0 ]
                 /\ SetTop(x)
    BY <1>2, <1>7 DEF LeaveBlock
  <2>2. /\ top.at = "slot" /\ top.i \in DOMAIN query.archetype /\ top.i > 0
        /\ top.archetype = query.archetype[top.i] /\ top.archetype # Junk
        /\ top.j \in Nat /\ top.k \in Nat
    BY <1>2, <1>7 DEF LeaveBlock, Runs, ExecOK, ExecRecord
  <2>3. /\ x \in ExecRecord /\ x.at = "block" /\ x.seen = top.seen /\ x.i = top.i
        /\ x.archetype = top.archetype /\ x.j = top.j + 1 /\ x.k = 0
    <3>1. PICK j \in Nat : j = top.j + 1  BY <2>2
    <3>2. x = [ top EXCEPT !.at = "block", !.j = j, !.k = 0 ]  BY <2>1, <3>1
    <3> QED  BY <1>2, <3>1, <3>2 DEF ExecRecord
  <2>4. ASSUME NEW e \in x.seen PROVE Behind(SlotOf(e), x)
    <3>1. Behind(SlotOf(e), top)  BY <1>2, <2>3 DEF ExecOK
    <3>2. PICK s : s = SlotOf(e)  OBVIOUS
    <3> QED  BY <2>2, <2>3, <3>1, <3>2 DEF Behind
  <2>5. ExecOK(x)  BY <2>2, <2>3, <2>4 DEF ExecOK, InABlock
  <2>6. ~ InABlock(x)  BY <2>3 DEF InABlock
  <2> QED  BY <1>1, <2>1, <2>3, <2>5, <2>6, TopStays
<1> QED  BY <1>4, <1>5, <1>6, <1>7

(* The entity that is reported in its own slot is behind from now on.      *)
LEMMA ReportVisits ==
  ASSUME VisitInv, live \subseteq EntityIndex, Report
  PROVE  VisitInv'
<1>1. execs # << >> /\ UNCHANGED << query, runtime, vars >>  BY DEF Report, Runs
<1>2. PICK top : top = Top /\ top \in ExecRecord /\ ExecOK(top)  BY <1>1, TopFacts
<1>3. PICK x : /\ x = [ top EXCEPT !.at = "callback",
                                   !.due = @ \ InOwnSlot(top),
                                   !.seen = @ \cup InOwnSlot(top) ]
               /\ SetTop(x)
  BY <1>2 DEF Report
<1>4. /\ top.at = "slot" /\ top.i \in DOMAIN query.archetype /\ top.i > 0
      /\ top.archetype = query.archetype[top.i] /\ top.archetype # Junk
      /\ top.j \in Nat /\ top.k \in Nat
  BY <1>2 DEF Report, Runs, ExecOK, ExecRecord
<1>5. InOwnSlot(top) \subseteq EntityIndex  BY DEF InOwnSlot, LiveIntact
<1>6. /\ x \in ExecRecord /\ x.at = "callback" /\ x.i = top.i
      /\ x.seen = top.seen \cup InOwnSlot(top)
      /\ x.archetype = top.archetype /\ x.j = top.j /\ x.k = top.k
      /\ x.disturbed = top.disturbed
  BY <1>2, <1>3, <1>5 DEF ExecRecord
<1>7. ASSUME NEW e \in x.seen PROVE Behind(SlotOf(e), x)
  <2>1. PICK s : s = SlotOf(e)  OBVIOUS
  <2>2. CASE e \in top.seen
    <3>1. Behind(s, top)  BY <1>2, <2>1, <2>2 DEF ExecOK
    <3> QED  BY <1>4, <1>6, <2>1, <3>1 DEF Behind
  <2>3. CASE e \in InOwnSlot(top)
    <3>1. s = << x.archetype, << x.j, x.k >> >>
      BY <1>6, <2>1, <2>3 DEF InOwnSlot, Here
    <3> QED  BY <1>4, <1>6, <2>1, <3>1 DEF Behind
  <2> QED  BY <1>6, <2>2, <2>3
<1>8. InABlock(Top)  BY <1>2, <1>4 DEF InABlock
<1>9. ExecOK(x)  BY <1>2, <1>4, <1>6, <1>7, <1>8 DEF ExecOK, InABlock
<1> QED  BY <1>1, <1>3, <1>6, <1>8, <1>9, TopStays

(* One slot further, and the column pointers with it.                      *)
LEMMA NextSlotVisits ==
  ASSUME VisitInv, SkipSlot \/ CallbackReturns
  PROVE  VisitInv'
<1>1. /\ execs # << >> /\ UNCHANGED query /\ Apart /\ InABlock(Top) /\ NextSlotOf(Top)
  BY DEF SkipSlot, CallbackReturns, Runs, InABlock, vars, Apart
<1>2. PICK top : top = Top /\ top \in ExecRecord /\ ExecOK(top)  BY <1>1, TopFacts
<1>3. PICK x : x = [ top EXCEPT !.at = "slot", !.k = @ + 1 ] /\ SetTop(x)
  BY <1>1, <1>2 DEF NextSlotOf
<1>4. /\ top.at \in { "slot", "callback" } /\ top.i \in DOMAIN query.archetype /\ top.i > 0
      /\ top.archetype = query.archetype[top.i] /\ top.archetype # Junk
      /\ top.j \in Nat /\ top.k \in Nat
      /\ ~ top.disturbed => runtime = << top.archetype, top.j, top.k >>
  BY <1>1, <1>2 DEF InABlock, ExecOK, ExecRecord
<1>5. /\ x \in ExecRecord /\ x.at = "slot" /\ x.seen = top.seen /\ x.i = top.i
      /\ x.archetype = top.archetype /\ x.j = top.j /\ x.k = top.k + 1
      /\ x.disturbed = top.disturbed
  <2>1. PICK k \in Nat : k = top.k + 1  BY <1>4
  <2>2. x = [ top EXCEPT !.at = "slot", !.k = k ]  BY <1>3, <2>1
  <2> QED  BY <1>2, <2>1, <2>2 DEF ExecRecord
<1>6. ASSUME NEW e \in x.seen PROVE Behind(SlotOf(e), x)'
  <2>1. Behind(SlotOf(e), top)  BY <1>2, <1>5 DEF ExecOK
  <2>2. PICK s : s = SlotOf(e)  OBVIOUS
  <2>3. SlotOf(e)' = s  BY <1>1, <2>2, ApartMoves
  <2>4. Behind(s, x)  BY <1>4, <1>5, <2>1, <2>2 DEF Behind
  <2> QED  BY <1>1, <2>3, <2>4 DEF Behind
<1>7. ~ x.disturbed => runtime' = << x.archetype, x.j, x.k >>
  <2>1. runtime' = [ runtime EXCEPT ![3] = @ + 1 ]  BY <1>1 DEF NextSlotOf
  <2>2. CASE ~ x.disturbed
    <3>1. runtime = << top.archetype, top.j, top.k >>  BY <1>4, <1>5, <2>2
    <3> QED  BY <1>5, <2>1, <3>1
  <2> QED  BY <2>2
<1>8. ExecOK(x)'  BY <1>1, <1>4, <1>5, <1>6, <1>7 DEF ExecOK, InABlock
<1> QED  BY <1>1, <1>3, <1>5, <1>8, TopSound

(* A block is entered: the column pointers are this execution's, and those *)
(* in whose callback it runs have lost them.                               *)
LEMMA EnterBlockVisits ==
  ASSUME VisitInv, EnterBlock
  PROVE  VisitInv'
<1>1. execs # << >> /\ UNCHANGED query /\ Apart
  BY DEF EnterBlock, Runs, vars, Apart
<1>2. PICK top, last : /\ top = Top /\ last = Len(execs)
                       /\ top \in ExecRecord /\ ExecOK(top) /\ top = execs[last]
                       /\ last \in Nat \ {0} /\ DOMAIN execs = 1 .. last
                       /\ execs \in Seq(ExecRecord) /\ ListOK
  BY <1>1, TopFacts
<1>3. runtime' = << top.archetype, top.j, 0 >>  BY <1>2 DEF EnterBlock
<1>4. PICK x : x = [ top EXCEPT !.at = "slot", !.disturbed = FALSE ]  OBVIOUS
<1>5. /\ DOMAIN execs' = 1 .. last /\ execs'[last] = x
      /\ \A n \in 1 .. last - 1 : execs'[n] = [ execs[n] EXCEPT !.disturbed = TRUE ]
  <2>1. execs' = [ n \in 1 .. last |->
                     IF n < last THEN [ execs[n] EXCEPT !.disturbed = TRUE ]
                     ELSE [ execs[n] EXCEPT !.at = "slot", !.disturbed = FALSE ] ]
    BY <1>2 DEF EnterBlock, Outer
  <2>2. last \in 1 .. last /\ ~ (last < last)  BY <1>2
  <2>3. execs'[last] = x  BY <1>2, <1>4, <2>1, <2>2
  <2>4. \A n \in 1 .. last - 1 : n \in 1 .. last /\ n < last  BY <1>2
  <2>5. \A n \in 1 .. last - 1 : execs'[n] = [ execs[n] EXCEPT !.disturbed = TRUE ]
    BY <2>1, <2>4
  <2>6. DOMAIN execs' = 1 .. last  BY <2>1
  <2> QED  BY <2>3, <2>5, <2>6
<1>6. /\ x \in ExecRecord /\ x.at = "slot" /\ x.seen = top.seen /\ x.i = top.i
      /\ x.archetype = top.archetype /\ x.j = top.j /\ x.k = top.k
  BY <1>2, <1>4 DEF ExecRecord
<1>7. Extended  BY <1>1 DEF Extended
<1>8. ASSUME NEW n \in 1 .. last - 1
      PROVE  /\ execs'[n] \in ExecRecord /\ execs'[n].disturbed
             /\ \A y \in ExecRecord : y = execs'[n] => ExecOK(y)'
  <2>1. PICK o \in ExecRecord : o = execs[n] /\ ExecOK(o)
    BY <1>2 DEF VisitInv
  <2>2. PICK y : y = [ o EXCEPT !.disturbed = TRUE ]  OBVIOUS
  <2>3. y \in ExecRecord /\ Retained(o, y) /\ y.disturbed
    BY <2>1, <2>2 DEF ExecRecord, Retained
  <2>4. ExecOK(y)'  BY <1>1, <1>7, <2>1, <2>3, ApartMoves, RetainedOK
  <2>5. execs'[n] = y  BY <1>5, <2>1, <2>2
  <2> QED  BY <2>3, <2>4, <2>5
<1>9. ExecOK(x)'
  <2>1. /\ top.at = "block" /\ top.i \in DOMAIN query.archetype /\ top.i > 0
        /\ top.archetype = query.archetype[top.i] /\ top.archetype # Junk
        /\ top.j \in Nat /\ top.k = 0
    BY <1>2 DEF EnterBlock, Runs, ExecOK, ExecRecord, InABlock
  <2>2. ASSUME NEW e \in x.seen PROVE Behind(SlotOf(e), x)'
    <3>1. Behind(SlotOf(e), top)  BY <1>2, <1>6 DEF ExecOK
    <3>2. PICK s : s = SlotOf(e)  OBVIOUS
    <3>3. SlotOf(e)' = s  BY <1>1, <3>2, ApartMoves
    <3>4. Behind(s, x)  BY <1>6, <2>1, <3>1, <3>2 DEF Behind
    <3> QED  BY <1>1, <3>3, <3>4 DEF Behind
  <2> QED  BY <1>1, <1>3, <1>6, <2>1, <2>2 DEF ExecOK, InABlock
<1>10. execs' \in Seq(ExecRecord)
  <2>1. \A n \in 1 .. last : execs'[n] \in ExecRecord
    <3>1. \A n \in 1 .. last : n \in 1 .. last - 1 \/ n = last  BY <1>2
    <3> QED  BY <1>5, <1>6, <1>8, <3>1
  <2>2. execs' = [ n \in 1 .. last |-> execs'[n] ]
    <3>1. execs' = [ n \in DOMAIN execs |-> execs'[n] ]  BY DEF EnterBlock
    <3> QED  BY <1>2, <3>1
  <2>3. execs' \in [ 1 .. last -> ExecRecord ]  BY <2>1, <2>2
  <2> QED  BY <1>2, <2>3, SeqDef
<1>11. ListOK'  BY <1>1, <1>2, <1>10 DEF ListOK
<1>12. ASSUME NEW n \in DOMAIN execs'
       PROVE  /\ \A y \in ExecRecord : y = execs'[n] => ExecOK(y)'
              /\ \A m \in 1 .. n - 1 : execs'[m].disturbed
  <2>1. n \in 1 .. last - 1 \/ n = last  BY <1>2, <1>5
  <2>2. \A m \in 1 .. n - 1 : m \in 1 .. last - 1  BY <1>2, <2>1
  <2> QED  BY <1>5, <1>8, <1>9, <2>1, <2>2
<1> QED  BY <1>10, <1>11, <1>12, VisitInvPrimed

-----------------------------------------------------------------------------
(* THE LISTS                                                               *)

ListsTyped ==
  /\ query.component \in Seq(Component)
  /\ query.tested \in 0 .. archLength
  /\ query.archetype \in Seq(ArchetypeIndex \cup {Junk})
  /\ query.offset \in Seq(ArchetypeIndex \cup {Junk})

(* The lists are exact, and none of the archetypes on them is beyond those *)
(* that were made.                                                         *)
ListsInv ==
  /\ archLength \in Nat /\ archLength <= MaxArchetypes
  /\ ListsTyped
  /\ ListsExact

(* What was found stays found when more archetypes are tested or made.     *)
LEMMA NthStays ==
  ASSUME NEW list, NthFound(list), query.tested \in Nat, query'.tested \in Nat,
         query.tested <= query'.tested,
         \A b \in 0 .. query.tested - 1 : Matching(b)' <=> Matching(b)
  PROVE  NthFound(list)'
<1> SUFFICES ASSUME NEW n \in DOMAIN list, list[n] # Junk
             PROVE  /\ list[n] \in 0 .. query'.tested - 1
                    /\ Matching(list[n])'
                    /\ FoundBelow(list[n])' = n - 1
  BY DEF NthFound
<1>1. PICK a : a = list[n]  OBVIOUS
<1>2. a \in 0 .. query.tested - 1 /\ Matching(a) /\ FoundBelow(a) = n - 1
  BY <1>1 DEF NthFound
<1>3. FoundBelow(a)' = FoundBelow(a)  BY <1>2, FoundStays
<1> QED  BY <1>1, <1>2, <1>3

LEMMA ListsStay ==
  ASSUME ListsInv, UNCHANGED query, archLength' \in Nat, archLength <= archLength',
         archLength' <= MaxArchetypes,
         \A a \in ArchetypeIndex : a < archLength => components'[a] = components[a]
  PROVE  ListsInv'
<1>1. query.tested \in 0 .. archLength /\ MaxArchetypes \in Nat /\ archLength \in Nat
  BY ArchetypesAssumption DEF ListsInv, ListsTyped
<1>2. \A b \in 0 .. query.tested - 1 : Matching(b)' <=> Matching(b)
  BY <1>1 DEF ListsInv, Matching, ArchetypeIndex
<1>3. NthFound(query.archetype)' /\ NthFound(query.offset)'
  <2>1. PICK x, y : x = query.archetype /\ y = query.offset  OBVIOUS
  <2>2. NthFound(x) /\ NthFound(y)  BY <2>1 DEF ListsInv, ListsExact
  <2>3. NthFound(x)' /\ NthFound(y)'  BY <1>1, <1>2, <2>2, NthStays
  <2> QED  BY <2>1, <2>3 DEF NthFound
<1>4. FoundBelow(query.tested)' = FoundBelow(query.tested)
  <2>1. PICK t \in Nat : t = query.tested  BY <1>1
  <2>2. FoundBelow(t)' = FoundBelow(t)  BY <1>2, <2>1, FoundStays
  <2> QED  BY <2>1, <2>2 DEF FoundBelow
<1>5. ListsTyped'  BY <1>1 DEF ListsInv, ListsTyped
<1>6. ListsExact'  BY <1>3, <1>4 DEF ListsInv, ListsExact
<1> QED  BY <1>5, <1>6 DEF ListsInv

(* A query that was just made, or is no more, lists nothing.               *)
LEMMA NoLists ==
  ASSUME ListsInv, UNCHANGED archLength,
         query'.component \in Seq(Component), query'.tested = 0, query'.capacity = 0,
         query'.archetype = << >>, query'.offset = << >>
  PROVE  ListsInv'
<1>1. Len(<< >>) = 0 /\ DOMAIN << >> = {} /\ \A S : << >> \in Seq(S)  OBVIOUS
<1>2. FoundBelow(query.tested)' = 0
  <2>1. FoundBelow(0)' = 0
    <3>1. { b \in 0 .. 0 - 1 : Matching(b)' } = {}  OBVIOUS
    <3> QED  BY <3>1, FS_EmptySet DEF FoundBelow
  <2> QED  BY <2>1 DEF FoundBelow
<1>3. ListsTyped'  BY <1>1 DEF ListsInv, ListsTyped
<1>4. NthFound(query.archetype)' /\ NthFound(query.offset)'  BY <1>1 DEF NthFound
<1>5. ListsExact'  BY <1>1, <1>2, <1>4 DEF ListsExact
<1> QED  BY <1>3, <1>5 DEF ListsInv

LEMMA ColumnsTyped ==
  ASSUME NEW ws \in Seq(Component), NEW rs \in Seq(Component)
  PROVE  Columns(ws, rs) \in Seq(Component)
<1>1. Len(ws) \in Nat /\ Len(rs) \in Nat  BY LenProperties
<1>2. ASSUME NEW k \in 1 .. Len(ws) + Len(rs) PROVE Columns(ws, rs)[k] \in Component
  <2>1. CASE k <= Len(rs)
    BY <1>1, <2>1 DEF Columns
  <2>2. CASE k > Len(rs) /\ k <= Len(ws)
    BY <1>1, <2>2 DEF Columns
  <2>3. CASE ~ (k <= Len(rs)) /\ ~ (k > Len(rs) /\ k <= Len(ws))
    <3>1. 1 \in 1 .. Len(ws)  BY <1>1, <2>3
    <3>2. ws[1] \in Component  BY <3>1
    <3>3. 0 \in Component  BY <3>2, ArchetypesAssumption DEF Component
    <3> QED  BY <2>3, <3>3 DEF Columns
  <2> QED  BY <2>1, <2>2, <2>3
<1>3. Columns(ws, rs) \in [ 1 .. Len(ws) + Len(rs) -> Component ]
  BY <1>2 DEF Columns
<1> QED  BY <1>1, <1>3, SeqDef

LEMMA CallLists ==
  ASSUME ListsInv, CreateQuery \/ DestroyQuery
  PROVE  ListsInv'
<1>1. UNCHANGED archLength
  BY DEF CreateQuery, DestroyQuery, Reject, vars, storeVars, indexVars
<1>2. CASE CreateQuery
  <2>1. PICK shape \in QueryShapes :
          query' = [ NoQuery EXCEPT !.open = TRUE,
                                    !.component = Columns(shape[1], shape[2]) ]
    BY <1>2 DEF CreateQuery
  <2>2. shape[1] \in Seq(Component) /\ shape[2] \in Seq(Component)  BY QueryAssumption
  <2>3. Columns(shape[1], shape[2]) \in Seq(Component)  BY <2>2, ColumnsTyped
  <2>4. /\ query'.component = Columns(shape[1], shape[2]) /\ query'.tested = 0
        /\ query'.capacity = 0 /\ query'.archetype = << >> /\ query'.offset = << >>
    BY <2>1 DEF NoQuery
  <2> QED  BY <1>1, <2>3, <2>4, NoLists
<1>3. CASE DestroyQuery
  <2>1. query' = NoQuery /\ << >> \in Seq(Component)  BY <1>3 DEF DestroyQuery
  <2> QED  BY <1>1, <2>1, NoLists DEF NoQuery
<1> QED  BY <1>2, <1>3

LEMMA MissLists ==
  ASSUME ListsInv, ListOK, TestMiss
  PROVE  ListsInv'
<1>1. PICK t \in Nat : /\ t = query.tested /\ t < archLength /\ ~ Matching(t)
                       /\ query' = [ query EXCEPT !.tested = t + 1 ]
  BY DEF ListsInv, ListsTyped, TestMiss, Testing
<1>2. UNCHANGED << archLength, components >>
  BY DEF TestMiss, vars, storeVars, indexVars
<1>3. /\ query'.tested = t + 1 /\ query'.component = query.component
      /\ query'.archetype = query.archetype /\ query'.offset = query.offset
      /\ query'.capacity = query.capacity
  BY <1>1 DEF ListOK
<1>4. \A b : Matching(b)' <=> Matching(b)  BY <1>2, <1>3 DEF Matching
<1>5. NthFound(query.archetype)' /\ NthFound(query.offset)'
  <2>1. PICK x, y : x = query.archetype /\ y = query.offset  OBVIOUS
  <2>2. NthFound(x) /\ NthFound(y)  BY <2>1 DEF ListsInv, ListsExact
  <2>3. NthFound(x)' /\ NthFound(y)'  BY <1>1, <1>3, <1>4, <2>2, NthStays
  <2> QED  BY <1>3, <2>1, <2>3 DEF NthFound
<1>6. FoundBelow(query.tested)' = FoundBelow(query.tested)
  <2>1. FoundBelow(t + 1)' = FoundBelow(t + 1)  BY <1>1, <1>4, FoundStays
  <2>2. FoundBelow(t + 1) = FoundBelow(t)  BY <1>1, FoundOneMore
  <2> QED  BY <1>1, <1>3, <2>1, <2>2 DEF FoundBelow
<1>7. ListsTyped'  BY <1>1, <1>2, <1>3 DEF ListsInv, ListsTyped
<1>8. ListsExact'  BY <1>3, <1>5, <1>6 DEF ListsInv, ListsExact
<1> QED  BY <1>2, <1>7, <1>8 DEF ListsInv

(* The archetype tested is the next one that matches.                      *)
LEMMA NthAdded ==
  ASSUME NEW S, NEW list \in Seq(S), NEW t \in Nat, t \in S, NthFound(list)',
         query'.tested = t + 1, Matching(t)', FoundBelow(t)' = Len(list)
  PROVE  NthFound(Append(list, t))'
<1> DEFINE longer == Append(list, t)
<1>1. /\ DOMAIN longer = 1 .. Len(list) + 1 /\ longer[Len(list) + 1] = t
      /\ \A n \in 1 .. Len(list) : longer[n] = list[n]
      /\ DOMAIN list = 1 .. Len(list) /\ Len(list) \in Nat
  BY AddLast
<1> SUFFICES ASSUME NEW n \in DOMAIN longer, longer[n] # Junk
             PROVE  /\ longer[n] \in 0 .. query'.tested - 1
                    /\ Matching(longer[n])'
                    /\ FoundBelow(longer[n])' = n - 1
  BY DEF NthFound
<1> HIDE DEF longer
<1>2. CASE n \in 1 .. Len(list)
  <2>1. n \in DOMAIN list /\ list[n] = longer[n]  BY <1>1, <1>2
  <2> QED  BY <2>1 DEF NthFound
<1>3. CASE n = Len(list) + 1
  <2>1. longer[n] = t /\ t \in 0 .. query'.tested - 1 /\ n - 1 = Len(list)  BY <1>1, <1>3
  <2> QED  BY <2>1
<1> QED  BY <1>1, <1>2, <1>3

LEMMA HitLists ==
  ASSUME ListsInv, ListOK, TestHit
  PROVE  ListsInv'
<1>1. PICK t \in Nat : t = query.tested /\ t < archLength /\ Matching(t)
  BY DEF ListsInv, ListsTyped, TestHit, Testing
<1>2. UNCHANGED << archLength, components >>
  BY DEF TestHit, vars, storeVars, indexVars
<1>3. PICK x, y, c : x = query.archetype /\ y = query.offset /\ c = ListsCapacity
  OBVIOUS
<1>4. query' = [ query EXCEPT !.tested = t + 1, !.capacity = c,
                              !.archetype = Append(x, t), !.offset = Append(y, t) ]
  BY <1>1, <1>3 DEF TestHit
<1>5. /\ query'.tested = t + 1 /\ query'.component = query.component
      /\ query'.archetype = Append(x, t) /\ query'.offset = Append(y, t)
      /\ query'.capacity = c
  BY <1>4 DEF ListOK
<1>6. \A b : Matching(b)' <=> Matching(b)  BY <1>2, <1>5 DEF Matching
<1>7. /\ x \in Seq(ArchetypeIndex \cup {Junk}) /\ y \in Seq(ArchetypeIndex \cup {Junk})
      /\ t \in ArchetypeIndex \cup {Junk}
      /\ Len(x) = FoundBelow(t) /\ Len(y) = FoundBelow(t) /\ FoundBelow(t) \in Nat
      /\ NthFound(x) /\ NthFound(y)
  BY <1>1, <1>3, ArchetypesAssumption, FoundOneMore, SMTT(20)
  DEF ListsInv, ListsTyped, ListsExact, ArchetypeIndex
<1>8. FoundBelow(t)' = FoundBelow(t) /\ FoundBelow(t + 1)' = FoundBelow(t) + 1
  BY <1>1, <1>6, FoundStays, FoundOneMore
<1>9. FoundBelow(query.tested)' = FoundBelow(t) + 1  BY <1>5, <1>8 DEF FoundBelow
<1>10. NthFound(query.archetype)' /\ NthFound(query.offset)'
  <2>1. NthFound(x)' /\ NthFound(y)'  BY <1>1, <1>5, <1>6, <1>7, NthStays
  <2>2. NthFound(Append(x, t))' /\ NthFound(Append(y, t))'
    BY <1>1, <1>5, <1>6, <1>7, <1>8, <2>1, NthAdded
  <2> QED  BY <1>5, <2>2 DEF NthFound
<1>11. c >= FoundBelow(t) + 1
  <2>1. query.capacity \in Int  BY DEF ListOK
  <2>2. PICK k \in Nat : k = FoundBelow(t)  BY <1>7
  <2>3. Len(query.archetype) = k  BY <1>3, <1>7, <2>2
  <2>4. (k + 1) \div 2 >= 0 /\ (k + 1) \div 2 \in Int  BY <2>2
  <2> QED  BY <1>3, <2>1, <2>2, <2>3, <2>4 DEF ListsCapacity, ListsFull
<1>12. /\ Append(x, t) \in Seq(ArchetypeIndex \cup {Junk}) /\ Len(Append(x, t)) = Len(x) + 1
       /\ Append(y, t) \in Seq(ArchetypeIndex \cup {Junk}) /\ Len(Append(y, t)) = Len(y) + 1
  BY <1>7
<1>13. ListsTyped'  BY <1>1, <1>2, <1>5, <1>12 DEF ListsInv, ListsTyped
<1>14. ListsExact'  BY <1>5, <1>7, <1>9, <1>10, <1>11, <1>12 DEF ListsExact
<1> QED  BY <1>2, <1>13, <1>14 DEF ListsInv

(* A list that is lost stays as long as it was.                            *)
LEMMA GrowFailsLists ==
  ASSUME ListsInv, ListOK, TestGrowFails
  PROVE  ListsInv'
<1> DEFINE Cells == ArchetypeIndex \cup {Junk}
<1>1. UNCHANGED << archLength, components >>
  BY DEF TestGrowFails, Reject, storeVars, indexVars
<1>2. ASSUME NEW list \in Seq(Cells)
      PROVE  /\ Erased(list) \in Seq(Cells) /\ Len(Erased(list)) = Len(list)
             /\ NthFound(Erased(list))
  <2>1. DOMAIN list = 1 .. Len(list) /\ Len(list) \in Nat  OBVIOUS
  <2>2. Erased(list) \in [ 1 .. Len(list) -> Cells ]  BY <2>1 DEF Erased
  <2>3. Erased(list) \in Seq(Cells) /\ Len(Erased(list)) = Len(list)
    BY <2>1, <2>2, SeqDef, LenProperties
  <2> QED  BY <2>3 DEF NthFound, Erased
<1>3. query.archetype \in Seq(Cells) /\ query.offset \in Seq(Cells)
  BY DEF ListsInv, ListsTyped
<1>4. /\ query'.tested = query.tested /\ query'.component = query.component
      /\ query'.capacity = query.capacity
      /\ query'.archetype \in { query.archetype, Erased(query.archetype) }
      /\ query'.offset \in { query.offset, Erased(query.offset) }
  BY DEF TestGrowFails, ListOK
<1>5. \A b : Matching(b)' <=> Matching(b)  BY <1>1, <1>4 DEF Matching
<1>6. query.tested \in Nat  BY DEF ListsInv, ListsTyped
<1>7. PICK x, y : /\ x = query'.archetype /\ y = query'.offset
                  /\ x \in Seq(Cells) /\ y \in Seq(Cells)
                  /\ Len(x) = Len(query.archetype) /\ Len(y) = Len(query.offset)
                  /\ NthFound(x) /\ NthFound(y)
  BY <1>2, <1>3, <1>4 DEF ListsInv, ListsExact
<1>8. NthFound(query.archetype)' /\ NthFound(query.offset)'
  <2>1. NthFound(x)' /\ NthFound(y)'  BY <1>4, <1>5, <1>6, <1>7, NthStays
  <2> QED  BY <1>7, <2>1 DEF NthFound
<1>9. FoundBelow(query.tested)' = FoundBelow(query.tested)
  <2>1. PICK t \in Nat : t = query.tested  BY <1>6
  <2>2. FoundBelow(t)' = FoundBelow(t)  BY <1>5, <2>1, FoundStays
  <2> QED  BY <1>4, <2>1, <2>2 DEF FoundBelow
<1>10. ListsTyped'  BY <1>1, <1>4, <1>7 DEF ListsInv, ListsTyped
<1>11. ListsExact'  BY <1>4, <1>7, <1>8, <1>9 DEF ListsInv, ListsExact
<1> QED  BY <1>1, <1>10, <1>11 DEF ListsInv

LEMMA QueryKeepsLists ==
  ASSUME ListsInv, StoreInv, ListOK, [QueryNext]_<< vars, queryVars >>
  PROVE  ListsInv'
<1>1. CASE UNCHANGED query
  <2>1. CASE [Next]_vars
    <3>1. archLength <= MaxArchetypes  BY DEF ListsInv
    <3> QED  BY <1>1, <2>1, <3>1, WorldExtends, ListsStay
  <2>2. CASE Apart
    <3>1. UNCHANGED << archLength, components >>  BY <2>2 DEF Apart, storeVars, indexVars
    <3>2. archLength \in Nat  BY DEF ListsInv
    <3> QED  BY <1>1, <3>1, <3>2, ListsStay DEF ListsInv
  <2> QED  BY <2>1, <2>2, QueryWorldSteps
<1>2. CASE CreateQuery \/ DestroyQuery  BY <1>2, CallLists
<1>3. CASE TestMiss \/ TestHit \/ TestGrowFails
  BY <1>3, MissLists, HitLists, GrowFailsLists
<1> QED
  BY <1>1, <1>2, <1>3
  DEF QueryNext, QueryStep, CallbackEnds, WorldRequest, WorldStep, WithExecs, queryVars,
      CreateQueryFails, Execute, TestFault, StartScan, EnterArchetype,
      EnterArchetypeFault, FinishExecution, EnterBlock, EnterBlockFault, LeaveArchetype,
      SkipSlot, Report, LeaveBlock, CallbackReturns, CallbackFault

-----------------------------------------------------------------------------
(* STEPS OF AN EXECUTION                                                   *)

(* y stands where x does, and has the same before it and behind it.        *)
Alike(x, y) ==
  /\ y.at = x.at /\ y.i = x.i /\ y.archetype = x.archetype /\ y.j = x.j /\ y.k = x.k
  /\ y.due = x.due /\ y.seen = x.seen

OthersAlike ==
  /\ DOMAIN execs' = DOMAIN execs
  /\ \A n \in 1 .. Len(execs) - 1 : Alike(execs[n], execs'[n])

(* The entities due to a scan that begins.                                 *)
Matched == { e \in LiveIntact : Matching(archIndex[e]) }

(* From x to y by the action that is taken.                                *)
Moves(x, y) ==
  \/ StartScan /\ x.at = "test" /\ y.at = "archetype" /\ y.i = 1
       /\ y.archetype = x.archetype /\ y.j = x.j /\ y.k = x.k /\ y.seen = x.seen
       /\ y.due = Matched
  \/ EnterArchetype /\ x.at = "archetype" /\ y.at = "block" /\ y.i = x.i
       /\ y.archetype = query.archetype[x.i] /\ y.j = x.j /\ y.k = x.k
       /\ y.due = x.due /\ y.seen = x.seen
  \/ LeaveArchetype /\ x.at = "block" /\ y.at = "archetype" /\ y.i = x.i + 1
       /\ y.archetype = x.archetype /\ y.j = 0 /\ y.k = x.k
       /\ y.due = x.due /\ y.seen = x.seen
  \/ EnterBlock /\ x.at = "block" /\ y.at = "slot" /\ y.i = x.i
       /\ y.archetype = x.archetype /\ y.j = x.j /\ y.k = x.k
       /\ y.due = x.due /\ y.seen = x.seen
  \/ LeaveBlock /\ x.at = "slot" /\ y.at = "block" /\ y.i = x.i
       /\ y.archetype = x.archetype /\ y.j = x.j + 1 /\ y.k = 0
       /\ y.due = x.due /\ y.seen = x.seen
  \/ SkipSlot /\ x.at = "slot" /\ y.at = "slot" /\ y.i = x.i
       /\ y.archetype = x.archetype /\ y.j = x.j /\ y.k = x.k + 1
       /\ y.due = x.due /\ y.seen = x.seen
  \/ CallbackReturns /\ x.at = "callback" /\ y.at = "slot" /\ y.i = x.i
       /\ y.archetype = x.archetype /\ y.j = x.j /\ y.k = x.k + 1
       /\ y.due = x.due /\ y.seen = x.seen
  \/ Report /\ x.at = "slot" /\ y.at = "callback" /\ y.i = x.i
       /\ y.archetype = x.archetype /\ y.j = x.j /\ y.k = x.k
       /\ y.due = x.due \ InOwnSlot(x) /\ y.seen = x.seen \cup InOwnSlot(x)
  \/ (TestMiss \/ TestHit) /\ Alike(x, y)

ScanStep ==
  \/ StartScan \/ EnterArchetype \/ LeaveArchetype \/ EnterBlock \/ LeaveBlock
  \/ SkipSlot \/ CallbackReturns \/ Report \/ TestMiss \/ TestHit

(* What the innermost execution becomes, and that the others stay.         *)
LEMMA TopMoves ==
  ASSUME VisitInv, VisitInv', ScanStep
  PROVE  /\ Len(execs) \in Nat \ {0} /\ DOMAIN execs = 1 .. Len(execs)
         /\ OthersAlike /\ Apart
         /\ \E x, y \in ExecRecord :
              /\ x = execs[Len(execs)] /\ x = Top /\ ExecOK(x)
              /\ y = execs'[Len(execs)]
              /\ Moves(x, y)
<1>1. execs # << >> /\ Apart
  BY DEF ScanStep, StartScan, EnterArchetype, LeaveArchetype, EnterBlock, LeaveBlock,
     SkipSlot, CallbackReturns, Report, TestMiss, TestHit, Testing, Runs, vars, Apart
<1>2. PICK last, x : /\ last = Len(execs) /\ last \in Nat \ {0} /\ DOMAIN execs = 1 .. last
                     /\ x = execs[last] /\ x = Top /\ x \in ExecRecord /\ ExecOK(x)
  BY <1>1, TopFacts
<1>3. execs \in Seq(ExecRecord) /\ execs' \in Seq(ExecRecord)  BY DEF VisitInv
<1>4. \A n \in DOMAIN execs : execs[n] \in ExecRecord  BY <1>3
<1>5. ASSUME NEW z, SetTop(z)
      PROVE  OthersAlike /\ execs'[last] = z
  <2>1. execs' = [ execs EXCEPT ![last] = z ]  BY <1>2, <1>5 DEF SetTop
  <2>2. /\ DOMAIN execs' = 1 .. last /\ execs'[last] = z
        /\ \A n \in 1 .. last - 1 : execs'[n] = execs[n]
    BY <1>2, <2>1
  <2> QED  BY <1>2, <2>2 DEF OthersAlike, Alike
<1>6. PICK y : y = execs'[last]  OBVIOUS
<1>7. OthersAlike /\ Moves(x, y)
  <2>1. CASE StartScan
    <3>1. PICK z : z = [ x EXCEPT !.at = "archetype", !.i = 1, !.due = Matched ]
                      /\ SetTop(z)
      BY <1>2, <2>1 DEF StartScan, Matched
    <3>2. x.at = "test"  BY <1>2, <2>1 DEF StartScan, Runs
    <3>3. OthersAlike /\ y = z  BY <1>5, <1>6, <3>1
    <3>4. /\ y.at = "archetype" /\ y.i = 1
          /\ y.archetype = x.archetype /\ y.j = x.j /\ y.k = x.k
          /\ y.due = Matched /\ y.seen = x.seen
      BY <1>2, <3>1, <3>3 DEF ExecRecord
    <3> QED  BY ONLY <2>1, <3>2, <3>3, <3>4 DEF Moves
  <2>2. CASE EnterArchetype
    <3>1. PICK z : z = [ x EXCEPT !.at = "block", !.archetype = query.archetype[x.i] ] /\ SetTop(z)
      BY <1>2, <2>2 DEF EnterArchetype
    <3>2. x.at = "archetype"  BY <1>2, <2>2 DEF EnterArchetype, Runs
    <3>3. OthersAlike /\ y = z  BY <1>5, <1>6, <3>1
    <3>4. /\ y.at = "block" /\ y.i = x.i
          /\ y.archetype = query.archetype[x.i] /\ y.j = x.j /\ y.k = x.k
          /\ y.due = x.due /\ y.seen = x.seen
      BY <1>2, <3>1, <3>3 DEF ExecRecord
    <3> QED  BY ONLY <2>2, <3>2, <3>3, <3>4 DEF Moves
  <2>3. CASE LeaveArchetype
    <3>1. PICK z : z = [ x EXCEPT !.at = "archetype", !.i = @ + 1, !.j = 0 ] /\ SetTop(z)
      BY <1>2, <2>3 DEF LeaveArchetype
    <3>2. x.at = "block"  BY <1>2, <2>3 DEF LeaveArchetype, Runs
    <3>3. OthersAlike /\ y = z  BY <1>5, <1>6, <3>1
    <3>4. /\ y.at = "archetype" /\ y.i = x.i + 1
          /\ y.archetype = x.archetype /\ y.j = 0 /\ y.k = x.k
          /\ y.due = x.due /\ y.seen = x.seen
      BY <1>2, <3>1, <3>3 DEF ExecRecord
    <3> QED  BY ONLY <2>3, <3>2, <3>3, <3>4 DEF Moves
  <2>4. CASE LeaveBlock
    <3>1. PICK z : z = [ x EXCEPT !.at = "block", !.j = @ + 1, !.k = 0 ] /\ SetTop(z)
      BY <1>2, <2>4 DEF LeaveBlock
    <3>2. x.at = "slot"  BY <1>2, <2>4 DEF LeaveBlock, Runs
    <3>3. OthersAlike /\ y = z  BY <1>5, <1>6, <3>1
    <3>4. /\ y.at = "block" /\ y.i = x.i
          /\ y.archetype = x.archetype /\ y.j = x.j + 1 /\ y.k = 0
          /\ y.due = x.due /\ y.seen = x.seen
      BY <1>2, <3>1, <3>3 DEF ExecRecord
    <3> QED  BY ONLY <2>4, <3>2, <3>3, <3>4 DEF Moves
  <2>5. CASE SkipSlot
    <3>1. PICK z : z = [ x EXCEPT !.at = "slot", !.k = @ + 1 ] /\ SetTop(z)
      BY <1>2, <2>5 DEF SkipSlot, NextSlotOf
    <3>2. x.at = "slot"  BY <1>2, <2>5 DEF SkipSlot, Runs
    <3>3. OthersAlike /\ y = z  BY <1>5, <1>6, <3>1
    <3>4. /\ y.at = "slot" /\ y.i = x.i
          /\ y.archetype = x.archetype /\ y.j = x.j /\ y.k = x.k + 1
          /\ y.due = x.due /\ y.seen = x.seen
      BY <1>2, <3>1, <3>3 DEF ExecRecord
    <3> QED  BY ONLY <2>5, <3>2, <3>3, <3>4 DEF Moves
  <2>6. CASE CallbackReturns
    <3>1. PICK z : z = [ x EXCEPT !.at = "slot", !.k = @ + 1 ] /\ SetTop(z)
      BY <1>2, <2>6 DEF CallbackReturns, NextSlotOf
    <3>2. x.at = "callback"  BY <1>2, <2>6 DEF CallbackReturns, Runs
    <3>3. OthersAlike /\ y = z  BY <1>5, <1>6, <3>1
    <3>4. /\ y.at = "slot" /\ y.i = x.i
          /\ y.archetype = x.archetype /\ y.j = x.j /\ y.k = x.k + 1
          /\ y.due = x.due /\ y.seen = x.seen
      BY <1>2, <3>1, <3>3 DEF ExecRecord
    <3> QED  BY ONLY <2>6, <3>2, <3>3, <3>4 DEF Moves
  <2>7. CASE Report
    <3>1. PICK z : z = [ x EXCEPT !.at = "callback", !.due = @ \ InOwnSlot(x),
                            !.seen = @ \cup InOwnSlot(x) ] /\ SetTop(z)
      BY <1>2, <2>7 DEF Report
    <3>2. x.at = "slot"  BY <1>2, <2>7 DEF Report, Runs
    <3>3. OthersAlike /\ y = z  BY <1>5, <1>6, <3>1
    <3>4. /\ y.at = "callback" /\ y.i = x.i
          /\ y.archetype = x.archetype /\ y.j = x.j /\ y.k = x.k
          /\ y.due = x.due \ InOwnSlot(x) /\ y.seen = x.seen \cup InOwnSlot(x)
      BY <1>2, <3>1, <3>3 DEF ExecRecord
    <3> QED  BY ONLY <2>7, <3>2, <3>3, <3>4 DEF Moves
  <2>8. CASE EnterBlock
    <3>1. execs' = [ n \in 1 .. last |->
                       IF n < last THEN [ execs[n] EXCEPT !.disturbed = TRUE ]
                       ELSE [ execs[n] EXCEPT !.at = "slot", !.disturbed = FALSE ] ]
      BY <1>2, <2>8 DEF EnterBlock, Outer
    <3>2. x.at = "block"  BY <1>2, <2>8 DEF EnterBlock, Runs
    <3>3. DOMAIN execs' = DOMAIN execs  BY <1>2, <3>1
    <3>4. ASSUME NEW n \in 1 .. last - 1 PROVE Alike(execs[n], execs'[n])
      <4>1. n \in 1 .. last /\ n < last  BY <1>2
      <4>2. PICK z \in ExecRecord : z = execs[n]  BY <1>2, <1>4, <4>1
      <4>3. execs'[n] = [ z EXCEPT !.disturbed = TRUE ]  BY <3>1, <4>1, <4>2
      <4> QED  BY <4>2, <4>3 DEF Alike, ExecRecord
    <3>5. last \in 1 .. last /\ ~ last < last  BY <1>2
    <3>6. y = [ x EXCEPT !.at = "slot", !.disturbed = FALSE ]
      BY <1>2, <1>6, <3>1, <3>5
    <3> QED  BY <1>2, <2>8, <3>2, <3>3, <3>4, <3>6 DEF Moves, OthersAlike, ExecRecord
  <2>9. CASE TestMiss \/ TestHit
    <3>1. CASE execs' = execs  BY <1>2, <1>6, <2>9, <3>1 DEF Moves, OthersAlike, Alike
    <3>2. ASSUME NEW moves \in BOOLEAN,
                 execs' = [ n \in DOMAIN execs |->
                              [ execs[n] EXCEPT !.moved = @ \/ (moves /\ Outer(n)) ] ]
          PROVE  OthersAlike /\ Moves(x, y)
      <4>1. ASSUME NEW n \in DOMAIN execs PROVE Alike(execs[n], execs'[n])
        <5>1. PICK z \in ExecRecord : z = execs[n]  BY <1>4
        <5>2. PICK m : m = (z.moved \/ (moves /\ Outer(n)))  OBVIOUS
        <5>3. execs'[n] = [ z EXCEPT !.moved = m ]  BY <3>2, <5>1, <5>2
        <5> QED  BY <5>1, <5>3 DEF Alike, ExecRecord
      <4>2. DOMAIN execs' = DOMAIN execs  BY <3>2
      <4>3. last \in DOMAIN execs /\ \A n \in 1 .. last - 1 : n \in DOMAIN execs
        BY <1>2
      <4> QED  BY <1>2, <1>6, <2>9, <4>1, <4>2, <4>3 DEF Moves, OthersAlike
    <3> QED  BY <2>9, <3>1, <3>2 DEF TestMiss, TestHit
  <2> QED
    BY <2>1, <2>2, <2>3, <2>4, <2>5, <2>6, <2>7, <2>8, <2>9 DEF ScanStep
<1>8. y \in ExecRecord
  <2>1. last \in DOMAIN execs'  BY <1>2, <1>7 DEF OthersAlike
  <2> QED  BY <1>3, <1>6, <2>1
<1> QED  BY <1>1, <1>2, <1>6, <1>7, <1>8

ExecTyped(exec) ==
  /\ exec.archetype \in ArchetypeIndex
  /\ exec.due \cup exec.seen \subseteq live

ExecsTyped ==
  \A n \in DOMAIN execs :
    /\ ExecTyped(execs[n])
    /\ n < Len(execs) => execs[n].at = "callback"

(* The archetype an execution enters is one of those that were made, and   *)
(* what it reports or has to report are entities; it makes way for another *)
(* only in a callback.                                                     *)
LEMMA QueryKeepsTypes ==
  ASSUME VisitInv, VisitInv', ListsInv, StoreInv, ExecsTyped,
         [QueryNext]_<< vars, queryVars >>
  PROVE  ExecsTyped'
<1>1. execs \in Seq(ExecRecord) /\ execs' \in Seq(ExecRecord)  BY DEF VisitInv
<1>2. live \subseteq live'
  <2>1. archLength <= MaxArchetypes  BY DEF ListsInv
  <2> QED  BY <2>1, QueryWorldSteps, WorldExtends DEF Apart
<1>3. ASSUME DOMAIN execs' \subseteq DOMAIN execs, Len(execs') <= Len(execs),
             \A n \in DOMAIN execs' :
               /\ execs'[n].at = execs[n].at /\ execs'[n].archetype = execs[n].archetype
               /\ execs'[n].due \subseteq execs[n].due
               /\ execs'[n].seen \subseteq execs[n].seen
      PROVE  ExecsTyped'
  <2> SUFFICES ASSUME NEW n \in DOMAIN execs'
               PROVE  /\ ExecTyped(execs[n])'
                      /\ n < Len(execs') => execs'[n].at = "callback"
    BY DEF ExecsTyped
  <2>1. n \in DOMAIN execs  BY <1>3
  <2>2. n \in Nat /\ Len(execs) \in Nat /\ Len(execs') \in Nat  BY <1>1, <2>1
  <2> QED  BY <1>2, <1>3, <2>1, <2>2 DEF ExecsTyped, ExecTyped
<1>4. CASE UNCHANGED execs
  <2>1. Len(execs) \in Nat  BY <1>1
  <2> QED  BY <1>3, <1>4, <2>1
<1>5. CASE WithExecs
  <2>1. PICK moves \in BOOLEAN :
          execs' = [ n \in DOMAIN execs |-> Carried(execs[n], moves) ]
    BY <1>5 DEF WithExecs
  <2>2. ASSUME NEW n \in DOMAIN execs
        PROVE  /\ execs'[n].at = execs[n].at /\ execs'[n].archetype = execs[n].archetype
               /\ execs'[n].due \subseteq execs[n].due
               /\ execs'[n].seen \subseteq execs[n].seen
    <3>1. PICK x \in ExecRecord : x = execs[n]  BY <1>1
    <3>2. PICK y : y = Carried(x, moves)  OBVIOUS
    <3>3. y.at = x.at /\ y.archetype = x.archetype /\ y.due \subseteq x.due
          /\ y.seen \subseteq x.seen
      BY <3>2 DEF Carried, ExecRecord
    <3> QED  BY <2>1, <3>1, <3>2, <3>3
  <2>3. DOMAIN execs' = DOMAIN execs  BY <2>1
  <2>4. Len(execs') = Len(execs) /\ Len(execs) \in Nat  BY <1>1, <2>3
  <2> QED  BY <1>3, <2>2, <2>3, <2>4
<1>6. CASE FinishExecution \/ TestGrowFails
  <2>1. execs # << >> /\ execs' = Front(execs)
    BY <1>6 DEF FinishExecution, TestGrowFails, Testing, Runs
  <2>2. /\ Len(execs) \in Nat \ {0} /\ DOMAIN execs = 1 .. Len(execs)
        /\ DOMAIN execs' = 1 .. Len(execs) - 1
        /\ \A n \in 1 .. Len(execs) - 1 : execs'[n] = execs[n]
    BY <1>1, <2>1, DropLast
  <2>3. Len(execs') = Len(execs) - 1
    <3>1. Len(execs) - 1 \in Nat  BY <2>2
    <3> QED  BY ONLY <1>1, <2>2, <3>1, LengthOfDomain
  <2> QED  BY <1>3, <2>2, <2>3
<1>7. CASE Execute
  <2>1. execs' = Append(execs, NewExec) /\ (execs # << >> => Top.at = "callback")
    BY <1>7 DEF Execute, ApplicationRuns
  <2>2. /\ NewExec.at = "test" /\ NewExec.archetype = 0 /\ NewExec.due = {}
        /\ NewExec.seen = {} /\ NewExec \in ExecRecord
    BY DEF NewExec, ExecRecord
  <2>3. /\ DOMAIN execs' = 1 .. Len(execs) + 1 /\ execs'[Len(execs) + 1] = NewExec
        /\ \A n \in 1 .. Len(execs) : execs'[n] = execs[n]
        /\ DOMAIN execs = 1 .. Len(execs) /\ Len(execs) \in Nat
    BY <1>1, <2>1, <2>2, AddLast
  <2>4. Len(execs') = Len(execs) + 1  BY <1>1, <2>3
  <2> SUFFICES ASSUME NEW n \in DOMAIN execs'
               PROVE  /\ ExecTyped(execs[n])'
                      /\ n < Len(execs') => execs'[n].at = "callback"
    BY DEF ExecsTyped
  <2>5. CASE n = Len(execs) + 1
    BY <2>2, <2>3, <2>4, <2>5, ArchetypesAssumption DEF ExecTyped, ArchetypeIndex
  <2>6. CASE n \in 1 .. Len(execs)
    <3>1. ExecTyped(execs[n])'  BY <1>2, <2>3, <2>6 DEF ExecsTyped, ExecTyped
    <3>2. CASE n < Len(execs)  BY <2>3, <2>6, <3>1, <3>2 DEF ExecsTyped
    <3>3. CASE n = Len(execs)
      <4>1. execs # << >>  BY <2>3, <3>3, <2>6
      <4>2. Top = execs[n]  BY <1>1, <3>3, <4>1, DropLast DEF Top
      <4> QED  BY <2>1, <2>3, <2>6, <3>1, <4>1, <4>2
    <3> QED  BY <2>3, <2>6, <3>2, <3>3
  <2> QED  BY <2>3, <2>5, <2>6
<1>8. CASE ScanStep
  <2>1. PICK last, x, y :
          /\ last = Len(execs) /\ last \in Nat \ {0} /\ DOMAIN execs = 1 .. last
          /\ OthersAlike
          /\ x \in ExecRecord /\ y \in ExecRecord /\ x = execs[last] /\ x = Top /\ ExecOK(x)
          /\ y = execs'[last] /\ Moves(x, y)
    BY <1>8, TopMoves
  <2>2. Len(execs') = last /\ DOMAIN execs' = 1 .. last
    BY <1>1, <2>1 DEF OthersAlike
  <2>3. ExecTyped(x)
    <3>1. last \in DOMAIN execs  BY <2>1
    <3> QED  BY <2>1, <3>1 DEF ExecsTyped
  <2>4. InOwnSlot(x) \subseteq live  BY DEF InOwnSlot, LiveIntact
  <2>5. y.due \cup y.seen \subseteq live
    BY <2>1, <2>3, <2>4 DEF Moves, Matched, Alike, ExecTyped, LiveIntact
  <2>6. y.archetype \in ArchetypeIndex
    <3>1. \/ y.archetype = x.archetype
          \/ EnterArchetype /\ y.archetype = query.archetype[x.i]
      BY <2>1 DEF Moves, Alike
    <3>2. CASE EnterArchetype /\ y.archetype = query.archetype[x.i]
      <4>1. /\ x.at = "archetype" /\ x.i <= Len(query.archetype)
            /\ query.archetype[x.i] # Junk
        BY <2>1, <3>2 DEF EnterArchetype, Runs, Listed
      <4>2. x.i \in Nat /\ x.i > 0  BY <2>1, <4>1 DEF ExecOK, ExecRecord
      <4>3. query.archetype \in Seq(ArchetypeIndex \cup {Junk})
        BY DEF ListsInv, ListsTyped
      <4>4. x.i \in 1 .. Len(query.archetype)  BY <4>1, <4>2, <4>3
      <4> QED  BY <3>2, <4>1, <4>3, <4>4
    <3> QED  BY <2>3, <3>1, <3>2 DEF ExecTyped
  <2>7. ASSUME NEW n \in 1 .. last - 1
        PROVE  ExecTyped(execs[n])' /\ execs'[n].at = "callback"
    <3>1. ExecTyped(execs[n]) /\ execs[n].at = "callback" /\ Alike(execs[n], execs'[n])
      BY <2>1 DEF ExecsTyped, OthersAlike
    <3> QED  BY <1>2, <3>1 DEF ExecTyped, Alike
  <2>8. \A n \in 1 .. last : n \in 1 .. last - 1 \/ n = last  BY <2>1
  <2>9. ExecTyped(execs[last])'  BY <1>2, <2>1, <2>5, <2>6 DEF ExecTyped
  <2> QED  BY <2>1, <2>2, <2>7, <2>8, <2>9 DEF ExecsTyped
<1> QED
  BY <1>4, <1>5, <1>6, <1>7, <1>8
  DEF QueryNext, QueryStep, ScanStep, CallbackEnds, WorldRequest, WorldStep, queryVars,
      CreateQuery, CreateQueryFails, DestroyQuery, TestFault, EnterArchetypeFault,
      EnterBlockFault, CallbackFault

-----------------------------------------------------------------------------
(* WHAT IS STILL TO BE REPORTED                                            *)

(* As long as a block of memory can be had, none is missing, so no visit   *)
(* of an archetype ends early; and index 0 is no entity's.                 *)
BlocksFilled ==
  /\ \A a \in ArchetypeIndex : \A b \in 0 .. blockCount[a] - 1 : << a, b >> \in allocated
  /\ 0 \notin live

LEMMA TakingFills ==
  ASSUME BlocksFilled, StoreInv, NEW a \in ArchetypeIndex, NEW L, AllocateCode(a, L),
         0 \notin live'
  PROVE  BlocksFilled'
<1>1. blockCount \in [ ArchetypeIndex -> Nat ]  BY DEF StoreInv, TypeOK, ArchetypesTypeOK
<1>2. PICK n : n = NextBlock(a, L)  OBVIOUS
<1>3. /\ blockCount' = [ blockCount EXCEPT ![a] = IF n = @ THEN @ + 1 ELSE @ ]
      /\ allocated' = allocated \cup { << a, n >> }
  BY <1>2 DEF AllocateCode, TakeSlot
<1>4. ASSUME NEW c \in ArchetypeIndex, NEW b \in 0 .. blockCount'[c] - 1
      PROVE  << c, b >> \in allocated'
  <2>1. blockCount[c] \in Nat  BY <1>1
  <2>2. CASE b < blockCount[c]
    <3>1. b \in 0 .. blockCount[c] - 1  BY <1>4, <2>1, <2>2
    <3> QED  BY <1>3, <3>1 DEF BlocksFilled
  <2>3. CASE ~ b < blockCount[c]
    <3>1. c = a /\ n = blockCount[c] /\ b = n  BY <1>1, <1>3, <1>4, <2>1, <2>3
    <3> QED  BY <1>3, <3>1
  <2> QED  BY <2>2, <2>3
<1> QED  BY <1>4 DEF BlocksFilled

LEMMA NextFills ==
  ASSUME BlocksToBeHad, BlocksFilled, StoreInv, [Next]_vars
  PROVE  BlocksFilled'
<1>1. Grounded /\ layerLength \in Nat
  BY TypeOKStore DEF Grounded, Housed, StoreTyped, StoreInv, CallSound
<1>2. CASE UNCHANGED << blockCount, allocated, live >>  BY <1>2 DEF BlocksFilled
<1>3. CASE AsideStep
  BY <1>1, <1>2, <1>3, AsideChanges DEF storeVars, slotVars
<1>4. CASE SpawnOne
  <2>1. /\ call.to \in ArchetypeIndex /\ SetEntityArchetype(entLength, call.to)
        /\ live' = live \cup {entLength}
    BY <1>1, <1>4, SpawnOneMoves
  <2>2. 0 \notin live'
    BY <1>1, <2>1, EntityTableAssumption DEF BlocksFilled, Grounded, TableSound
  <2> QED  BY <2>1, <2>2, TakingFills DEF SetEntityArchetype
<1>5. CASE AddMove \/ RemoveMove
  <2>1. Changing /\ UNCHANGED live  BY <1>1, <1>5, MovedGoesOn
  <2>2. call.to \in ArchetypeIndex  BY <1>1, <2>1, ChangingSound
  <2>3. SetEntityArchetype(call.entity, call.to)  BY <1>5 DEF AddMove, RemoveMove
  <2> QED  BY <2>1, <2>2, <2>3, TakingFills DEF SetEntityArchetype, BlocksFilled
<1>6. ASSUME NEW e, NEW a, SetEntityArchetypeFails(e, a)
      PROVE  UNCHANGED << blockCount, allocated >>
  BY <1>6 DEF SetEntityArchetypeFails, AllocateFails, AllocateMayFail, BlocksToBeHad
<1>7. CASE AddMoveFails \/ RemoveMoveFails
  BY <1>2, <1>6, <1>7 DEF AddMoveFails, RemoveMoveFails
<1>8. CASE SpawnPlaceFails
  BY <1>2, <1>6, <1>8 DEF SpawnPlaceFails, slotVars
<1> QED
  BY <1>2, <1>3, <1>4, <1>5, <1>7, <1>8
  DEF Next, Request, Step, AsideStep, vars, SpawnCall, AddCall, RemoveCall, ChangeCall,
      ResolveHit, ResolveNew, ResolveFails, ResolveUnchanged, SpawnReady,
      SpawnCreateFails, SpawnFinish, storeVars, slotVars

LEMMA QueryFills ==
  ASSUME BlocksToBeHad, BlocksFilled, StoreInv, [QueryNext]_<< vars, queryVars >>
  PROVE  BlocksFilled'
<1>1. Apart => BlocksFilled'  BY DEF Apart, storeVars, slotVars, BlocksFilled
<1> QED  BY <1>1, QueryWorldSteps, NextFills

(* Slot is still to be visited by exec, or is one of an archetype that may *)
(* have been lost from the list.                                           *)
Ahead(slot, exec) ==
  \E m \in DOMAIN query.archetype :
    /\ query.archetype[m] \in { slot[1], Junk }
    /\ \/ m > exec.i
       \/ m = exec.i /\ exec.at = "archetype"
       \/ /\ m = exec.i
          /\ slot[1] = exec.archetype
          /\ \/ slot[2][1] > exec.j
             \/ slot[2][1] = exec.j /\ slot[2][2] > exec.k
             \/ slot[2] = << exec.j, exec.k >> /\ exec.at # "callback"

(* What is due lies ahead.                                                 *)
DueOK(exec) ==
  /\ exec.due \subseteq LiveIntact
  /\ exec.at = "test" => exec.due = {}
  /\ exec.at \in { "test", "archetype" } => exec.j = 0
  /\ \A e \in exec.due : Ahead(SlotOf(e), exec)

ScanInv == \A n \in DOMAIN execs : DueOK(execs[n])

(* What is due to an execution that stays where it is, and did not move,   *)
(* still lies ahead of it.                                                 *)
LEMMA DueStays ==
  ASSUME NEW x, NEW y, DueOK(x),
         y.at = x.at, y.i = x.i, y.archetype = x.archetype, y.j = x.j, y.k = x.k,
         y.due \subseteq x.due, \A e \in y.due : SlotOf(e)' = SlotOf(e),
         live \subseteq live', Extended
  PROVE  DueOK(y)'
<1>1. ASSUME NEW e \in y.due PROVE e \in LiveIntact' /\ Ahead(SlotOf(e), y)'
  <2>1. e \in LiveIntact /\ Ahead(SlotOf(e), x)  BY DEF DueOK
  <2>2. PICK s : s = SlotOf(e) /\ SlotOf(e)' = s  OBVIOUS
  <2>3. archIndex'[e] = archIndex[e] /\ archCode'[e] = archCode[e]  BY <2>2 DEF SlotOf
  <2>4. e \in LiveIntact'  BY <2>1, <2>3 DEF LiveIntact, Intact
  <2>5. PICK m \in DOMAIN query.archetype :
          /\ query.archetype[m] \in { s[1], Junk }
          /\ \/ m > x.i
             \/ m = x.i /\ x.at = "archetype"
             \/ /\ m = x.i
                /\ s[1] = x.archetype
                /\ \/ s[2][1] > x.j
                   \/ s[2][1] = x.j /\ s[2][2] > x.k
                   \/ s[2] = << x.j, x.k >> /\ x.at # "callback"
    BY <2>1, <2>2 DEF Ahead
  <2>6. m \in DOMAIN query'.archetype /\ query'.archetype[m] = query.archetype[m]
    BY DEF Extended
  <2> QED  BY <2>2, <2>4, <2>5, <2>6 DEF Ahead
<1> QED  BY <1>1 DEF DueOK

(* Where an entity is: in an archetype that was made, in one of its        *)
(* blocks, and in a slot that names it.                                    *)
LEMMA WhereEntitiesAre ==
  ASSUME SlotInv, StoreInv, BlocksFilled, NEW e \in LiveIntact
  PROVE  /\ e # 0 /\ owner[SlotOf(e)] = e
         /\ archIndex[e] \in ArchetypeIndex /\ archIndex[e] < archLength
         /\ archCode[e] \in Code
         /\ archCode[e][2] < perBlock[archIndex[e]]
         /\ perBlock[archIndex[e]] \in Nat
         /\ \A b \in Nat : b <= archCode[e][1] =>
              b < blockCount[archIndex[e]] /\ << archIndex[e], b >> \in allocated
<1>1. e # 0 /\ owner[SlotOf(e)] = e
  BY DEF BlocksFilled, LiveIntact, SlotInv, SlotsSound, BackPointer
<1>2. Seated(e) /\ perBlock \in [ ArchetypeIndex -> 0 .. MaxPerBlock ]
      /\ nextIndex \in [ ArchetypeIndex -> Nat ]
  BY DEF SlotInv, SlotsSound, SlotShape
<1>3. blockCount \in [ ArchetypeIndex -> Nat ] /\ CountsCover
  BY DEF StoreInv, TypeOK, ArchetypesTypeOK, Housed, BlocksCover
<1>4. PICK a, p, c, o, b :
        /\ a = archIndex[e] /\ p = perBlock[a] /\ c = blockCount[a]
        /\ b = archCode[e][1] /\ o = archCode[e][2]
  OBVIOUS
<1>5. /\ a \in ArchetypeIndex /\ p \in Nat /\ c \in Nat /\ b \in Nat /\ o \in Nat
      /\ b * p + o < nextIndex[a] /\ nextIndex[a] <= c * p /\ nextIndex[a] \in Nat
  BY <1>2, <1>3, <1>4, ArchetypesAssumption DEF Seated, Code, LinearIndex, CountsCover
<1>6. b < c
  <2> SUFFICES ASSUME ~ b < c PROVE FALSE  OBVIOUS
  <2>1. PICK d \in Nat : b = c + d
    <3>1. b - c \in Nat /\ b = c + (b - c)  BY <1>5
    <3> QED  BY <3>1
  <2>2. b * p = c * p + d * p /\ d * p \in Nat /\ c * p \in Nat  BY <1>5, <2>1
  <2> QED  BY <1>5, <2>2
<1>7. ASSUME NEW k \in Nat, k <= b PROVE k < c /\ << a, k >> \in allocated
  <2>1. k < c /\ k \in 0 .. c - 1  BY <1>5, <1>6, <1>7
  <2> QED  BY <1>4, <1>5, <2>1 DEF BlocksFilled
<1> QED  BY <1>1, <1>2, <1>4, <1>5, <1>7 DEF Seated

(* Every archetype that was made and matches is on the list, unless lost.  *)
LEMMA FoundIsListed ==
  ASSUME ListsInv, NEW a \in Nat, a < query.tested, Matching(a)
  PROVE  \E m \in DOMAIN query.archetype : query.archetype[m] \in { a, Junk }
<1>1. PICK list, t : list = query.archetype /\ t = query.tested  OBVIOUS
<1>2. /\ list \in Seq(ArchetypeIndex \cup {Junk}) /\ t \in Nat /\ Len(list) = FoundBelow(t)
      /\ NthFound(list)
  BY <1>1 DEF ListsInv, ListsTyped, ListsExact
<1>3. FoundBelow(a) \in Nat /\ FoundBelow(t) \in Nat /\ FoundBelow(a) < FoundBelow(t)
  BY <1>1, <1>2, FoundGrows
<1>4. PICK m \in Nat : m = FoundBelow(a) + 1  BY <1>3
<1>5. m \in DOMAIN list  BY <1>2, <1>3, <1>4
<1>6. CASE list[m] # Junk
  <2>1. PICK b : b = list[m]  OBVIOUS
  <2>2. b \in Nat /\ Matching(b) /\ FoundBelow(b) = FoundBelow(a)
    BY <1>1, <1>2, <1>3, <1>4, <1>5, <1>6, <2>1 DEF NthFound
  <2>3. ~ a < b /\ ~ b < a  BY <1>3, <2>2, FoundGrows
  <2> QED  BY <1>1, <1>5, <2>1, <2>2, <2>3
<1> QED  BY <1>1, <1>5, <1>6

(* Where the slot of an entity that is due can be.                         *)
Lies(e, x, a, b, o, m) ==
  /\ SlotOf(e) = << a, << b, o >> >> /\ owner[SlotOf(e)] = e /\ e # 0
  /\ e \in LiveIntact
  /\ o < perBlock[a] /\ perBlock[a] \in Nat
  /\ \A k \in Nat : k <= b => k < blockCount[a] /\ << a, k >> \in allocated
  /\ query.archetype[m] \in { a, Junk }
  /\ \/ m > x.i
     \/ m = x.i /\ x.at = "archetype"
     \/ /\ m = x.i
        /\ a = x.archetype
        /\ \/ b > x.j
           \/ b = x.j /\ o > x.k
           \/ b = x.j /\ o = x.k /\ x.at # "callback"

LEMMA DueIsAhead ==
  ASSUME SlotInv, StoreInv, BlocksFilled,
         NEW x \in ExecRecord, DueOK(x), NEW e \in x.due
  PROVE  \E a \in ArchetypeIndex, b \in Nat, o \in Nat, m \in DOMAIN query.archetype :
           Lies(e, x, a, b, o, m)
<1>1. e \in LiveIntact /\ Ahead(SlotOf(e), x)  BY DEF DueOK
<1>2. PICK a, c : a = archIndex[e] /\ c = archCode[e]  OBVIOUS
<1>3. /\ e # 0 /\ owner[SlotOf(e)] = e
      /\ a \in ArchetypeIndex /\ c \in Code /\ c[2] < perBlock[a] /\ perBlock[a] \in Nat
      /\ \A k \in Nat : k <= c[1] => k < blockCount[a] /\ << a, k >> \in allocated
  BY <1>1, <1>2, WhereEntitiesAre
<1>4. PICK b, o : c = << b, o >> /\ b \in Nat /\ o \in Nat
  BY <1>3, ArchetypesAssumption DEF Code
<1>5. SlotOf(e) = << a, << b, o >> >>  BY <1>2, <1>4 DEF SlotOf
<1>6. PICK m \in DOMAIN query.archetype :
        /\ query.archetype[m] \in { a, Junk }
        /\ \/ m > x.i
           \/ m = x.i /\ x.at = "archetype"
           \/ /\ m = x.i
              /\ a = x.archetype
              /\ \/ b > x.j
                 \/ b = x.j /\ o > x.k
                 \/ << b, o >> = << x.j, x.k >> /\ x.at # "callback"
  BY <1>1, <1>5 DEF Ahead
<1> QED  BY <1>1, <1>3, <1>4, <1>5, <1>6 DEF Lies

(* The disjuncts of Moves in which what is due stays the same, or loses    *)
(* the entity that is reported.                                            *)
LEMMA MovesDue ==
  ASSUME VisitInv, ListsInv, SlotInv, StoreInv, BlocksFilled, NEW x \in ExecRecord,
         x = Top, ExecOK(x), DueOK(x), NEW y \in ExecRecord, Moves(x, y)
  PROVE  DueOK(y)
<1>1. query.archetype \in Seq(Int) /\ DOMAIN query.archetype \subseteq Nat
  BY DEF VisitInv, ListOK
<1>2. x.i \in Nat /\ x.j \in Nat /\ x.k \in Nat  BY DEF ExecRecord
<1>3. CASE StartScan /\ x.at = "test" /\ y.at = "archetype" /\ y.i = 1 /\ y.j = x.j
           /\ y.due = Matched
  <2>1. ASSUME NEW e \in y.due PROVE Ahead(SlotOf(e), y)
    <3>1. e \in LiveIntact /\ Matching(archIndex[e])  BY <1>3 DEF Matched
    <3>2. archIndex[e] \in ArchetypeIndex /\ archIndex[e] < archLength
      BY <3>1, WhereEntitiesAre
    <3>3. archIndex[e] \in Nat /\ archIndex[e] < query.tested
      BY <1>3, <3>2, ArchetypesAssumption
      DEF StartScan, ListsInv, ListsTyped, ArchetypeIndex
    <3>4. PICK m \in DOMAIN query.archetype : query.archetype[m] \in { archIndex[e], Junk }
      BY <3>1, <3>3, FoundIsListed
    <3>5. m > 1 \/ m = 1  BY <1>1
    <3> QED  BY <1>3, <3>4, <3>5 DEF Ahead, SlotOf
  <2> QED  BY <1>3, <2>1 DEF DueOK, Matched
<1>4. CASE EnterArchetype /\ x.at = "archetype" /\ y.at = "block" /\ y.i = x.i
           /\ y.archetype = query.archetype[x.i] /\ y.j = x.j /\ y.k = x.k /\ y.due = x.due
  <2>1. x.j = 0 /\ x.k = 0 /\ y.archetype # Junk
    BY <1>4 DEF DueOK, ExecOK, InABlock, EnterArchetype
  <2>2. ASSUME NEW e \in y.due PROVE Ahead(SlotOf(e), y)
    <3>1. PICK a \in ArchetypeIndex, b \in Nat, o \in Nat, m \in DOMAIN query.archetype :
            Lies(e, x, a, b, o, m)
      BY <1>4, DueIsAhead
    <3>2. b > 0 \/ (b = 0 /\ o > 0) \/ (b = 0 /\ o = 0)  OBVIOUS
    <3> QED  BY <1>4, <2>1, <3>1, <3>2 DEF Ahead, Lies
  <2> QED  BY <1>4, <2>2 DEF DueOK
<1>5. CASE LeaveArchetype /\ x.at = "block" /\ y.at = "archetype" /\ y.i = x.i + 1
           /\ y.j = 0 /\ y.due = x.due
  <2>1. ~ BlockThere  BY <1>5 DEF LeaveArchetype
  <2>2. ASSUME NEW e \in y.due PROVE Ahead(SlotOf(e), y)
    <3>1. PICK a \in ArchetypeIndex, b \in Nat, o \in Nat, m \in DOMAIN query.archetype :
            Lies(e, x, a, b, o, m)
      BY <1>5, DueIsAhead
    <3>2. ~ (a = x.archetype /\ x.j <= b)  BY <1>2, <2>1, <3>1 DEF BlockThere, Lies
    <3>3. m > x.i  BY <1>2, <1>5, <3>1, <3>2 DEF Lies
    <3>4. m > y.i \/ m = y.i  BY <1>1, <1>2, <1>5, <3>3
    <3> QED  BY <1>5, <3>1, <3>4 DEF Ahead, Lies
  <2> QED  BY <1>5, <2>2 DEF DueOK
<1>6. CASE EnterBlock /\ x.at = "block" /\ y.at = "slot" /\ y.i = x.i
           /\ y.archetype = x.archetype /\ y.j = x.j /\ y.k = x.k /\ y.due = x.due
  <2>1. ASSUME NEW e \in y.due PROVE Ahead(SlotOf(e), y)
    <3>1. Ahead(SlotOf(e), x)  BY <1>6 DEF DueOK
    <3> QED  BY <1>6, <3>1 DEF Ahead
  <2> QED  BY <1>6, <2>1 DEF DueOK
<1>7. CASE LeaveBlock /\ x.at = "slot" /\ y.at = "block" /\ y.i = x.i
           /\ y.archetype = x.archetype /\ y.j = x.j + 1 /\ y.k = 0 /\ y.due = x.due
  <2>1. ~ x.k < perBlock[x.archetype]  BY <1>7 DEF LeaveBlock, InBlock
  <2>2. ASSUME NEW e \in y.due PROVE Ahead(SlotOf(e), y)
    <3>1. PICK a \in ArchetypeIndex, b \in Nat, o \in Nat, m \in DOMAIN query.archetype :
            Lies(e, x, a, b, o, m)
      BY <1>7, DueIsAhead
    <3>2. m > x.i \/ (m = x.i /\ a = x.archetype /\ b > x.j)
      <4>1. \/ m > x.i
            \/ m = x.i /\ a = x.archetype /\ (b > x.j \/ (b = x.j /\ o >= x.k))
        BY <1>2, <1>7, <3>1 DEF Lies
      <4>2. a = x.archetype => o < x.k
        BY <1>2, <2>1, <3>1 DEF Lies
      <4> QED  BY ONLY <1>2, <4>1, <4>2, o \in Nat
    <3>3. b > x.j => b > x.j + 1 \/ b = x.j + 1  BY <1>2
    <3>4. o > 0 \/ o = 0  OBVIOUS
    <3> QED  BY <1>7, <3>1, <3>2, <3>3, <3>4 DEF Ahead, Lies
  <2> QED  BY <1>7, <2>2 DEF DueOK
<1>8. CASE ((SkipSlot /\ x.at = "slot") \/ (CallbackReturns /\ x.at = "callback"))
           /\ y.at = "slot" /\ y.i = x.i
           /\ y.archetype = x.archetype /\ y.j = x.j /\ y.k = x.k + 1 /\ y.due = x.due
  <2>1. SkipSlot => owner[Here(x)] = 0  BY DEF SkipSlot
  <2>2. ASSUME NEW e \in y.due PROVE Ahead(SlotOf(e), y)
    <3>1. PICK a \in ArchetypeIndex, b \in Nat, o \in Nat, m \in DOMAIN query.archetype :
            Lies(e, x, a, b, o, m)
      BY <1>8, DueIsAhead
    <3>2. SkipSlot => ~ (a = x.archetype /\ b = x.j /\ o = x.k)
      BY <2>1, <3>1 DEF Here, Lies
    <3>3. o > x.k => o > x.k + 1 \/ o = x.k + 1  BY <1>2
    <3> QED  BY <1>8, <3>1, <3>2, <3>3 DEF Ahead, Lies
  <2> QED  BY <1>8, <2>2 DEF DueOK
<1>9. CASE Report /\ x.at = "slot" /\ y.at = "callback" /\ y.i = x.i
           /\ y.archetype = x.archetype /\ y.j = x.j /\ y.k = x.k
           /\ y.due = x.due \ InOwnSlot(x)
  <2>1. ASSUME NEW e \in y.due PROVE Ahead(SlotOf(e), y)
    <3>1. PICK a \in ArchetypeIndex, b \in Nat, o \in Nat, m \in DOMAIN query.archetype :
            Lies(e, x, a, b, o, m)
      BY <1>9, DueIsAhead
    <3>2. ~ (a = x.archetype /\ b = x.j /\ o = x.k)
      BY <1>9, <3>1 DEF Here, InOwnSlot, Lies
    <3> QED  BY <1>9, <3>1, <3>2 DEF Ahead, Lies
  <2> QED  BY <1>9, <2>1 DEF DueOK
<1>10. CASE Alike(x, y)
  <2>1. ASSUME NEW e \in y.due PROVE Ahead(SlotOf(e), y)
    <3>1. Ahead(SlotOf(e), x)  BY <1>10 DEF DueOK, Alike
    <3> QED  BY <1>10, <3>1 DEF Ahead, Alike
  <2> QED  BY <1>10, <2>1 DEF DueOK, Alike
<1>11. Moves(x, y)  OBVIOUS
<1> QED
  BY ONLY <1>11, <1>3, <1>4, <1>5, <1>6, <1>7, <1>8, <1>9, <1>10 DEF Moves

(* What is due to an execution lies ahead of it after every step.          *)
LEMMA QueryKeepsScan ==
  ASSUME VisitInv, VisitInv', ListsInv, SlotInv, StoreInv, BlocksFilled, ScanInv,
         [QueryNext]_<< vars, queryVars >>
  PROVE  ScanInv'
<1>1. execs \in Seq(ExecRecord) /\ execs' \in Seq(ExecRecord)  BY DEF VisitInv
<1>2. live \subseteq live'
  <2>1. archLength <= MaxArchetypes  BY DEF ListsInv
  <2> QED  BY <2>1, QueryWorldSteps, WorldExtends DEF Apart
<1>3. ASSUME NEW n, NEW y, y = execs'[n], DueOK(y)' PROVE DueOK(execs[n])'
  BY <1>3 DEF DueOK, Ahead
<1>4. ASSUME DOMAIN execs' = {} PROVE ScanInv'  BY <1>4 DEF ScanInv
<1>5. ASSUME DOMAIN execs' \subseteq DOMAIN execs, Extended,
             \A n \in DOMAIN execs' : \A x, y : x = execs[n] /\ y = execs'[n] =>
               /\ y.at = x.at /\ y.i = x.i /\ y.archetype = x.archetype
               /\ y.j = x.j /\ y.k = x.k
               /\ y.due \subseteq x.due /\ \A e \in y.due : SlotOf(e)' = SlotOf(e)
      PROVE  ScanInv'
  <2> SUFFICES ASSUME NEW n \in DOMAIN execs' PROVE DueOK(execs[n])'  BY DEF ScanInv
  <2>1. PICK x, y : x = execs[n] /\ y = execs'[n]  OBVIOUS
  <2>2. DueOK(x)  BY <1>5, <2>1 DEF ScanInv
  <2>3. /\ y.at = x.at /\ y.i = x.i /\ y.archetype = x.archetype
        /\ y.j = x.j /\ y.k = x.k
        /\ y.due \subseteq x.due /\ \A e \in y.due : SlotOf(e)' = SlotOf(e)
    BY <1>5, <2>1
  <2>4. DueOK(y)'  BY <1>2, <1>5, <2>2, <2>3, DueStays
  <2> QED  BY <1>3, <2>1, <2>4
<1>6. UNCHANGED query => Extended  BY DEF Extended
<1>7. CASE UNCHANGED << query, execs >> /\ \A e : SlotOf(e)' = SlotOf(e)
  BY <1>5, <1>6, <1>7
<1>8. CASE WithExecs
  <2>1. PICK moves \in BOOLEAN :
          execs' = [ n \in DOMAIN execs |-> Carried(execs[n], moves) ]
    BY <1>8 DEF WithExecs
  <2>2. ASSUME NEW n \in DOMAIN execs, NEW x, NEW y, x = execs[n], y = execs'[n]
        PROVE  /\ y.at = x.at /\ y.i = x.i /\ y.archetype = x.archetype
               /\ y.j = x.j /\ y.k = x.k
               /\ y.due \subseteq x.due /\ \A e \in y.due : SlotOf(e)' = SlotOf(e)
    <3>1. x \in ExecRecord  BY <1>1, <2>2
    <3>2. y = Carried(x, moves)  BY <2>1, <2>2
    <3> QED  BY ONLY <3>1, <3>2 DEF Carried, ExecRecord
  <2>3. DOMAIN execs' = DOMAIN execs  BY <2>1
  <2>4. Extended  BY <1>6, <1>8 DEF WithExecs
  <2> QED  BY ONLY <1>5, <2>2, <2>3, <2>4
<1>9. CASE CreateQuery \/ DestroyQuery
  <2>1. CASE execs = << >>
    <3>1. execs' = << >>  BY <1>9, <2>1 DEF CreateQuery, DestroyQuery
    <3> QED  BY <1>4, <3>1
  <2>2. CASE execs # << >>
    <3>1. query.open  BY <2>2 DEF VisitInv, ListOK
    <3> QED  BY <1>9, <2>2, <3>1 DEF CreateQuery, DestroyQuery
  <2> QED  BY <2>1, <2>2
<1>10. CASE Execute
  <2>1. NewExec \in ExecRecord /\ NewExec.at = "test" /\ NewExec.due = {} /\ NewExec.j = 0
    BY DEF NewExec, ExecRecord
  <2>2. execs' = Append(execs, NewExec) /\ Apart /\ UNCHANGED query
    BY <1>10 DEF Execute, vars, Apart
  <2>3. /\ DOMAIN execs' = 1 .. Len(execs) + 1 /\ execs'[Len(execs) + 1] = NewExec
        /\ \A n \in 1 .. Len(execs) : execs'[n] = execs[n]
        /\ DOMAIN execs = 1 .. Len(execs) /\ Len(execs) \in Nat
    BY <1>1, <2>1, <2>2, AddLast
  <2> SUFFICES ASSUME NEW n \in DOMAIN execs' PROVE DueOK(execs[n])'  BY DEF ScanInv
  <2>4. PICK y : y = execs'[n]  OBVIOUS
  <2>5. CASE n \in 1 .. Len(execs)
    <3>1. y = execs[n]  BY <2>3, <2>4, <2>5
    <3>2. DueOK(y)  BY <2>3, <2>5, <3>1 DEF ScanInv
    <3>3. DueOK(y)'  BY <1>2, <1>6, <2>2, <3>2, ApartMoves, DueStays
    <3> QED  BY <1>3, <2>4, <3>3
  <2>6. CASE n = Len(execs) + 1
    <3>1. y = NewExec  BY <2>3, <2>4, <2>6
    <3>2. DueOK(y)'  BY <2>1, <3>1 DEF DueOK
    <3> QED  BY <1>3, <2>4, <3>2
  <2> QED  BY <2>3, <2>5, <2>6
<1>11. CASE FinishExecution \/ TestGrowFails
  <2>1. execs # << >> /\ execs' = Front(execs)
    BY <1>11 DEF FinishExecution, TestGrowFails, Testing, Runs
  <2>2. /\ Len(execs) \in Nat \ {0} /\ DOMAIN execs = 1 .. Len(execs)
        /\ DOMAIN execs' = 1 .. Len(execs) - 1
        /\ \A n \in 1 .. Len(execs) - 1 : execs'[n] = execs[n]
    BY <1>1, <2>1, DropLast
  <2>3. CASE FinishExecution
    <3>1. Apart /\ UNCHANGED query  BY <2>3 DEF FinishExecution, Reject, Apart
    <3>2. DOMAIN execs' \subseteq DOMAIN execs
      BY <2>2
    <3>3. \A n \in DOMAIN execs' : execs'[n] = execs[n]  BY <2>2
    <3> QED  BY <1>5, <1>6, <3>1, <3>2, <3>3, ApartMoves
  <2>4. CASE TestGrowFails
    <3>1. Len(execs) = 1  BY <2>4 DEF TestGrowFails
    <3> QED  BY <1>4, <2>2, <3>1
  <2> QED  BY <1>11, <2>3, <2>4
<1>12. CASE ScanStep
  <2>1. PICK last, x, y :
          /\ last = Len(execs) /\ last \in Nat \ {0} /\ DOMAIN execs = 1 .. last
          /\ OthersAlike /\ Apart
          /\ x \in ExecRecord /\ y \in ExecRecord /\ x = execs[last] /\ x = Top /\ ExecOK(x)
          /\ y = execs'[last] /\ Moves(x, y)
    BY <1>12, TopMoves
  <2>2. DueOK(x)
    <3>1. last \in DOMAIN execs  BY <2>1
    <3> QED  BY <2>1, <3>1 DEF ScanInv
  <2>3. Extended
    <3>1. CASE UNCHANGED query  BY <1>6, <3>1
    <3>2. CASE TestMiss
      <4>1. query' = [ query EXCEPT !.tested = query.tested + 1 ]  BY <3>2 DEF TestMiss
      <4>2. query'.archetype = query.archetype  BY <4>1 DEF VisitInv, ListOK
      <4> QED  BY <4>2 DEF Extended
    <3>3. CASE TestHit
      <4>1. execs # << >> /\ ListOK  BY <3>3 DEF TestHit, Testing, Runs, VisitInv
      <4> QED  BY <3>3, <4>1, ListGrows DEF TestHit
    <3> QED
      BY <1>12, <3>1, <3>2, <3>3
      DEF ScanStep, StartScan, EnterArchetype, LeaveArchetype, EnterBlock, LeaveBlock,
          SkipSlot, CallbackReturns, Report
  <2>4. \A e : SlotOf(e)' = SlotOf(e)  BY <2>1, ApartMoves
  <2>5. DueOK(y)  BY <2>1, <2>2, MovesDue
  <2>6. DueOK(y)'  BY <1>2, <2>3, <2>4, <2>5, DueStays
  <2> SUFFICES ASSUME NEW n \in DOMAIN execs' PROVE DueOK(execs[n])'  BY DEF ScanInv
  <2>7. CASE n = last  BY <1>3, <2>1, <2>6, <2>7
  <2>8. CASE n \in 1 .. last - 1
    <3>1. PICK u, v : u = execs[n] /\ v = execs'[n] /\ Alike(u, v)
      BY <2>1, <2>8 DEF OthersAlike
    <3>2. DueOK(u)  BY <2>1, <2>8, <3>1 DEF ScanInv
    <3>3. DueOK(v)'  BY <1>2, <2>3, <2>4, <3>1, <3>2, DueStays DEF Alike
    <3> QED  BY <1>3, <3>1, <3>3
  <2>9. n \in 1 .. last  BY <2>1 DEF OthersAlike
  <2> QED  BY <2>1, <2>7, <2>8, <2>9
<1>13. CASE \/ UNCHANGED << vars, queryVars >> \/ CreateQueryFails \/ TestFault
            \/ EnterArchetypeFault \/ EnterBlockFault \/ CallbackFault
  <2>1. Apart /\ UNCHANGED queryVars
    BY <1>13 DEF CreateQueryFails, TestFault, EnterArchetypeFault, EnterBlockFault,
       CallbackFault, Fault, Reject, vars, Apart
  <2> QED  BY <1>7, <2>1, ApartMoves DEF queryVars
<1> QED
  BY <1>8, <1>9, <1>10, <1>11, <1>12, <1>13
  DEF QueryNext, QueryStep, ScanStep, CallbackEnds, WorldRequest, WorldStep

-----------------------------------------------------------------------------
(* THE THEOREMS                                                            *)

LEMMA QueryKeepsVisits ==
  ASSUME VisitInv, StoreInv, [QueryNext]_<< vars, queryVars >>
  PROVE  VisitInv'
<1>1. live \subseteq EntityIndex  BY DEF StoreInv, TypeOK
<1>2. CASE WorldRequest \/ WorldStep
  BY <1>2, WorldVisits DEF WorldRequest, WorldStep
<1>3. CASE CreateQuery \/ DestroyQuery \/ Execute
  BY <1>3, CallVisits, ExecuteVisits
<1>4. CASE TestMiss \/ TestHit \/ TestGrowFails
  BY <1>4, TestVisits, GrowFailsVisits
<1>5. CASE StartScan \/ EnterArchetype \/ LeaveArchetype \/ LeaveBlock
  BY <1>1, <1>5, ArchetypeVisits
<1>6. CASE EnterBlock \/ SkipSlot \/ Report \/ CallbackReturns
  BY <1>1, <1>6, EnterBlockVisits, NextSlotVisits, ReportVisits
<1>7. CASE FinishExecution  BY <1>7, FinishVisits
<1>8. CASE CreateQueryFails \/ TestFault \/ EnterArchetypeFault \/ EnterBlockFault
           \/ CallbackFault
  <2>1. Apart /\ UNCHANGED queryVars
    BY <1>8 DEF CreateQueryFails, TestFault, EnterArchetypeFault, EnterBlockFault,
       CallbackFault, Fault, Reject, Apart
  <2> QED  BY <2>1, NothingVisited
<1>9. CASE UNCHANGED << vars, queryVars >>
  <2>1. Apart /\ UNCHANGED queryVars  BY <1>9 DEF vars, Apart
  <2> QED  BY <2>1, NothingVisited
<1> QED
  BY <1>2, <1>3, <1>4, <1>5, <1>6, <1>7, <1>8, <1>9
  DEF QueryNext, QueryStep, CallbackEnds

(* What an execution has reported stays behind it, whatever the callbacks  *)
(* spawn, move and remove, and however deep they execute the query again   *)
(* (query.c:86-118).                                                       *)
THEOREM VisitsStaySound == QuerySpec => []VisitInv
<1>1. QueryInit => VisitInv
  <2> SUFFICES ASSUME QueryInit PROVE VisitInv  OBVIOUS
  <2>1. execs = << >> /\ query = NoQuery  BY DEF QueryInit
  <2> QED  BY <2>1 DEF VisitInv, ListOK, NoQuery
<1>2. VisitInv /\ StoreInv /\ [QueryNext]_<< vars, queryVars >> => VisitInv'
  BY QueryKeepsVisits
<1>3. QuerySpec => []StoreInv  BY QueriesKeepStore
<1> QED  BY <1>1, <1>2, <1>3, PTL DEF QuerySpec

(* An execution reports no entity twice in its own slot, unless it was     *)
(* moved in between (query.c:101-112).                                     *)
THEOREM ReportedOnceInPlace == QuerySpec => []OnceInPlace
<1>1. ASSUME VisitInv PROVE OnceInPlace
  <2> SUFFICES ASSUME NEW n \in DOMAIN execs, execs[n].at = "slot",
                      NEW e \in InOwnSlot(execs[n]), e \in execs[n].seen
               PROVE  FALSE
    BY DEF OnceInPlace
  <2>1. PICK x \in ExecRecord : x = execs[n] /\ ExecOK(x)  BY <1>1 DEF VisitInv
  <2>2. PICK s : s = SlotOf(e)  OBVIOUS
  <2>3. s = << x.archetype, << x.j, x.k >> >>  BY <2>1, <2>2 DEF InOwnSlot, Here
  <2>4. Behind(s, x)  BY <2>1, <2>2 DEF ExecOK
  <2>5. /\ x.i \in DOMAIN query.archetype /\ x.archetype = query.archetype[x.i]
        /\ x.archetype # Junk /\ x.j \in Nat /\ x.k \in Nat /\ x.at = "slot"
    BY <2>1 DEF ExecOK, ExecRecord
  <2>6. PICK m \in DOMAIN query.archetype : m < x.i /\ query.archetype[m] = x.archetype
    BY <2>3, <2>4, <2>5 DEF Behind
  <2>7. query.archetype \in Seq(Int)  BY <1>1 DEF VisitInv, ListOK
  <2>8. m \in 1 .. x.i - 1 /\ query.archetype[m] \in Int  BY <2>5, <2>6, <2>7
  <2>9. query.archetype[m] < query.archetype[x.i] \/ query.archetype[m] = Junk
    BY <1>1, <2>5, <2>8 DEF VisitInv, ListOK
  <2> QED  BY <2>5, <2>6, <2>8, <2>9
<1>2. QuerySpec => []VisitInv  BY VisitsStaySound
<1> QED  BY <1>1, <1>2, PTL

(* The columns handed to a callback are those of the slot it is called     *)
(* for, as long as no execution in a callback disturbed them               *)
(* (query.c:100-112).                                                      *)
THEOREM ColumnsOfTheSlot == QuerySpec => []ColumnsMatch
<1>1. VisitInv => ColumnsMatch  BY DEF VisitInv, ExecOK, InABlock, ColumnsMatch
<1>2. QuerySpec => []VisitInv  BY VisitsStaySound
<1> QED  BY <1>1, <1>2, PTL

(* The lists are typed and exact in every state.                           *)
LEMMA ListsStaySound == QuerySpec => []ListsInv
<1>1. QueryInit => ListsInv
  <2> SUFFICES ASSUME QueryInit PROVE ListsInv  OBVIOUS
  <2>1. query = NoQuery /\ archLength = 0
    BY DEF QueryInit, Init, ArchetypesInit
  <2>2. /\ Len(<< >>) = 0 /\ DOMAIN << >> = {} /\ \A S : << >> \in Seq(S)
        /\ MaxArchetypes \in Nat
    BY ArchetypesAssumption
  <2>3. /\ query.component = << >> /\ query.tested = 0 /\ query.capacity = 0
        /\ query.archetype = << >> /\ query.offset = << >>
    BY <2>1 DEF NoQuery
  <2>4. ListsTyped  BY <2>1, <2>2, <2>3 DEF ListsTyped
  <2>5. ListsExact  BY <2>2, <2>3, FoundNone DEF ListsExact, NthFound
  <2> QED  BY <2>1, <2>2, <2>4, <2>5 DEF ListsInv
<1>2. ListsInv /\ StoreInv /\ VisitInv /\ [QueryNext]_<< vars, queryVars >> => ListsInv'
  BY QueryKeepsLists DEF VisitInv
<1>3. QuerySpec => []VisitInv  BY VisitsStaySound
<1>4. QuerySpec => []StoreInv  BY QueriesKeepStore
<1> QED  BY <1>1, <1>2, <1>3, <1>4, PTL DEF QuerySpec

(* A query has found, of the archetypes tested, those that have all of its *)
(* components, each once and in the order they were made, whatever was     *)
(* lost of its lists (query.c:47-78).                                      *)
THEOREM ListsStayExact == QuerySpec => []ListsExact
<1>1. ListsInv => ListsExact  BY DEF ListsInv
<1>2. QuerySpec => []ListsInv  BY ListsStaySound
<1> QED  BY <1>1, <1>2, PTL

(* A query has no archetype on its lists but those that were made, an      *)
(* execution reports entities, and all executions but the innermost are in *)
(* a callback (query.c:47-118).                                            *)
THEOREM QueryTypesKept == QuerySpec => []QueryTypeOK
<1>1. QueryInit => ExecsTyped  BY DEF QueryInit, ExecsTyped
<1>2. ExecsTyped /\ ListsInv /\ StoreInv /\ VisitInv /\ VisitInv'
        /\ [QueryNext]_<< vars, queryVars >> => ExecsTyped'
  BY QueryKeepsTypes
<1>3. ExecsTyped /\ ListsInv /\ VisitInv => QueryTypeOK
  <2> SUFFICES ASSUME ExecsTyped, ListsInv, VisitInv,
                      NEW n \in DOMAIN execs
               PROVE  /\ execs[n].at \in { "test", "archetype", "block", "slot", "callback" }
                      /\ execs[n].archetype \in ArchetypeIndex
                      /\ execs[n].due \cup execs[n].seen \subseteq live
                      /\ Outer(n) => execs[n].at = "callback"
    BY DEF QueryTypeOK, ListsInv, ListsTyped
  <2>1. execs[n] \in ExecRecord  BY DEF VisitInv
  <2> QED  BY <2>1 DEF ExecRecord, ExecsTyped, ExecTyped, Outer
<1>4. QuerySpec => []VisitInv  BY VisitsStaySound
<1>5. QuerySpec => []StoreInv  BY QueriesKeepStore
<1>6. QuerySpec => []ListsInv  BY ListsStaySound
<1> QED  BY <1>1, <1>2, <1>3, <1>4, <1>5, <1>6, PTL DEF QuerySpec

(* An execution that comes to its end has reported, in its own slot, every *)
(* entity that had the components when the scan began and was not moved    *)
(* since, whatever the callbacks did (query.c:86-118), as long as memory   *)
(* for a block can be had: one that could not be allocated ends the visit. *)
THEOREM EverythingReported == ASSUME BlocksToBeHad PROVE QuerySpec => []Complete
<1>1. QueryInit => ScanInv /\ BlocksFilled
  <2> SUFFICES ASSUME QueryInit PROVE ScanInv /\ BlocksFilled  OBVIOUS
  <2>1. /\ execs = << >> /\ live = {}
        /\ blockCount = [ a \in ArchetypeIndex |-> 0 ]
    BY DEF QueryInit, Init, ArchetypesInit
  <2> QED  BY <2>1 DEF ScanInv, BlocksFilled
<1>2. BlocksFilled /\ StoreInv /\ [QueryNext]_<< vars, queryVars >> => BlocksFilled'
  BY QueryFills
<1>3. ScanInv /\ BlocksFilled /\ ListsInv /\ SlotInv /\ StoreInv /\ VisitInv /\ VisitInv'
        /\ [QueryNext]_<< vars, queryVars >> => ScanInv'
  BY QueryKeepsScan
<1>4. ScanInv /\ VisitInv => Complete
  <2> SUFFICES ASSUME ScanInv, VisitInv, NEW n \in DOMAIN execs, execs[n].at = "archetype",
                      execs[n].i > Len(query.archetype), NEW e \in execs[n].due
               PROVE  FALSE
    BY DEF Complete
  <2>1. PICK x \in ExecRecord : x = execs[n]  BY DEF VisitInv
  <2>2. Ahead(SlotOf(e), x)  BY <2>1 DEF ScanInv, DueOK
  <2>3. PICK m \in DOMAIN query.archetype : m >= x.i
    <3>1. \E m \in DOMAIN query.archetype : m > x.i \/ m = x.i  BY <2>2 DEF Ahead
    <3>2. \A m \in DOMAIN query.archetype : m \in Nat
      BY DEF VisitInv, ListOK
    <3> QED  BY <2>1, <3>1, <3>2 DEF ExecRecord
  <2>4. query.archetype \in Seq(Int)  BY DEF VisitInv, ListOK
  <2> QED  BY <2>1, <2>3, <2>4 DEF ExecRecord
<1>5. QuerySpec => []VisitInv  BY VisitsStaySound
<1>6. QuerySpec => []StoreInv  BY QueriesKeepStore
<1>7. QuerySpec => []ListsInv  BY ListsStaySound
<1>8. QuerySpec => []SlotInv  BY QueriesKeepSlots
<1> QED
  BY <1>1, <1>2, <1>3, <1>4, <1>5, <1>6, <1>7, <1>8, PTL DEF QuerySpec

=============================================================================
