---------------------------- MODULE StoreProofs ----------------------------
(***************************************************************************)
(* What holds in World whatever allocation fails, that of a block too, for *)
(* every number of entities, archetypes, blocks and components and every   *)
(* layout: the parts of an instance keep their shape, and each archetype   *)
(* has exactly the blocks its slots need.                                  *)
(*                                                                         *)
(* WorldProofs needs that slots are exclusive, which is false when blocks  *)
(* run out.  Here slots may be shared: it is enough that the slot of every *)
(* entity and every number on a free list was handed out (Housed), so that *)
(* the slot that is taken is in a block that is there or in the next one   *)
(* (BlocksFollow, TakenHoused).  That a call goes on with what it was      *)
(* given does not depend on the slots, and is shared (CallsGoOn).          *)
(***************************************************************************)
EXTENDS WorldProofs

-----------------------------------------------------------------------------
(* SLOTS                                                                   *)

(* Every number on the free lists L was handed out.                        *)
ListsBelow(L) ==
  \A a \in ArchetypeIndex : \A k \in DOMAIN L[a] : L[a][k] < nextIndex[a]

(* The parts of TypeOK that the slots need.                                *)
LEMMA ShapeOfStore ==
  ASSUME TypeOK
  PROVE  SlotShape /\ freeIndexes \in Lists /\ blockCount \in [ ArchetypeIndex -> Nat ]
BY DEF TypeOK, ArchetypesTypeOK, SlotShape, Lists

(* The lists an entity leaves behind name slots that were handed out.      *)
LEMMA LeftBelow ==
  ASSUME TypeOK, Housed, NEW e \in EntityIndex, Placed(e) => e \in LiveIntact
  PROVE  ListsFor(e) \in Lists /\ ListsBelow(ListsFor(e))
<1>1. freeIndexes \in Lists /\ ListsBelow(freeIndexes) /\ SlotShape
  BY ShapeOfStore DEF Housed, ListsBelow
<1>2. CASE ~ Placed(e)  BY <1>1, <1>2 DEF ListsFor
<1>3. CASE Placed(e)
  <2> DEFINE a == archIndex[e]
             n == LinearIndex(archIndex[e], archCode[e])
             L == ListsFor(e)
  <2>1. Seated(e)  BY <1>3 DEF Housed
  <2>2. n \in Nat /\ n < nextIndex[a] /\ a \in ArchetypeIndex
    BY <1>1, <2>1, LinearIndexType DEF Seated, SlotShape
  <2>3. L = [ freeIndexes EXCEPT ![a] = Append(freeIndexes[a], n) ]
    BY <1>3 DEF ListsFor, Freed
  <2>4. freeIndexes[a] \in Seq(Nat \cup {Junk})  BY <1>1, <2>2 DEF Lists
  <2> HIDE DEF a, n, L
  <2>5. Append(freeIndexes[a], n) \in Seq(Nat \cup {Junk})  BY <2>2, <2>4
  <2>6. L \in Lists  BY <1>1, <2>2, <2>3, <2>5 DEF Lists
  <2>7. ASSUME NEW b \in ArchetypeIndex, NEW k \in DOMAIN L[b] PROVE L[b][k] < nextIndex[b]
    <3>1. CASE b # a
      BY <1>1, <2>3, <2>7, <3>1 DEF Lists, ListsBelow
    <3>2. CASE b = a
      <4>1. L[b] = Append(freeIndexes[a], n)  BY <1>1, <2>2, <2>3, <3>2 DEF Lists
      <4>2. \A l \in DOMAIN freeIndexes[a] : freeIndexes[a][l] < nextIndex[a]
        BY <1>1, <2>2 DEF ListsBelow
      <4> QED  BY <2>2, <2>4, <2>7, <3>2, <4>1, <4>2
    <3> QED  BY <3>1, <3>2
  <2> QED  BY <2>6, <2>7 DEF ListsBelow, L
<1> QED  BY <1>2, <1>3

(* Taking a slot adds the block it needs, whether or not the memory of the *)
(* block can be had.                                                       *)
LEMMA TakenHoused ==
  ASSUME SlotShape, blockCount \in [ ArchetypeIndex -> Nat ], CountsCover,
         NEW L \in Lists, ListsBelow(L), NEW a \in ArchetypeIndex, TakeSlot(a, L),
         UNCHANGED perBlock
  PROVE  /\ NextSlot(a, L) \in Nat
         /\ NextSlot(a, L) < nextIndex'[a]
         /\ nextIndex' \in [ ArchetypeIndex -> Nat ]
         /\ blockCount' \in [ ArchetypeIndex -> Nat ]
         /\ \A b \in ArchetypeIndex : nextIndex[b] <= nextIndex'[b]
         /\ \A b \in ArchetypeIndex \ {a} :
              nextIndex'[b] = nextIndex[b] /\ blockCount'[b] = blockCount[b]
         /\ freeIndexes' \in Lists /\ ListsBelow(freeIndexes)'
         /\ CountsCover'
<1> DEFINE n == NextSlot(a, L)
           p == perBlock[a]
           c == blockCount[a]
<1>1. /\ L[a] \in Seq(Nat \cup {Junk})
      /\ nextIndex \in [ ArchetypeIndex -> Nat ]
      /\ perBlock \in [ ArchetypeIndex -> 0 .. MaxPerBlock ]
  BY DEF SlotShape, Lists
<1>2. p \in Nat \ {0} /\ n # Junk
  <2>1. perBlock[a] \in 0 .. MaxPerBlock  BY <1>1
  <2> QED  BY <2>1, ArchetypesAssumption DEF TakeSlot, HasSlot
<1>3. blockCount' = [ blockCount EXCEPT ![a] = IF n \div p = c THEN c + 1 ELSE c ]
  BY DEF TakeSlot, NextBlock
<1>4. c \in Nat /\ nextIndex[a] \in Nat  BY <1>1
<1>5. nextIndex[a] <= c * p /\ ((c - 1) * p < nextIndex[a] \/ c = 0)
  BY DEF CountsCover
<1>6. blockCount' \in [ ArchetypeIndex -> Nat ]  BY <1>3, <1>4
<1>7. CASE L[a] # << >>
  <2>1. Len(L[a]) \in Nat \ {0} /\ DOMAIN L[a] = 1 .. Len(L[a])  BY <1>1, <1>7
  <2>2. n = L[a][Len(L[a])] /\ Len(L[a]) \in DOMAIN L[a]
    BY <1>7, <2>1 DEF NextSlot, Last
  <2>3. n \in Nat /\ n < nextIndex[a]
    BY <1>1, <1>2, <2>1, <2>2 DEF ListsBelow
  <2>4. nextIndex' = nextIndex /\ freeIndexes' = [ L EXCEPT ![a] = Front(L[a]) ]
    BY <1>7 DEF TakeSlot
  <2>5. /\ Front(L[a]) \in Seq(Nat \cup {Junk})
        /\ DOMAIN Front(L[a]) = 1 .. Len(L[a]) - 1
        /\ \A k \in 1 .. Len(L[a]) - 1 : Front(L[a])[k] = L[a][k]
    BY <1>1, <2>1 DEF Front
  <2>6. freeIndexes' \in Lists  BY <2>4, <2>5 DEF Lists
  <2>7. ListsBelow(freeIndexes)'
    <3> SUFFICES ASSUME NEW b \in ArchetypeIndex, NEW k \in DOMAIN freeIndexes'[b]
                 PROVE  freeIndexes'[b][k] < nextIndex'[b]
      BY DEF ListsBelow
    <3>1. CASE b # a  BY <2>4, <3>1 DEF Lists, ListsBelow
    <3>2. CASE b = a
      <4>1. freeIndexes'[b] = Front(L[a])  BY <2>4, <3>2 DEF Lists
      <4>2. k \in DOMAIN L[a] /\ freeIndexes'[b][k] = L[a][k]
        BY <2>1, <2>5, <4>1
      <4> QED  BY <2>4, <3>2, <4>2 DEF ListsBelow
    <3> QED  BY <3>1, <3>2
  <2>8. n \div p # c
    <3>1. c * p \in Nat  BY <1>2, <1>4
    <3>2. n < c * p  BY <1>4, <1>5, <2>3, <3>1
    <3> HIDE DEF n, p, c
    <3> QED  BY <1>2, <1>4, <2>3, <3>2, BlockIsThere
  <2>9. blockCount' = blockCount  BY <1>3, <2>8
  <2>10. CountsCover'  BY <2>4, <2>9 DEF CountsCover
  <2> QED  BY <1>1, <1>6, <2>3, <2>4, <2>6, <2>7, <2>9, <2>10
<1>8. CASE L[a] = << >>
  <2>1. n = nextIndex[a] /\ n \in Nat  BY <1>1, <1>8 DEF NextSlot
  <2>2. freeIndexes' = L /\ nextIndex' = [ nextIndex EXCEPT ![a] = n + 1 ]
    BY <1>8, <2>1 DEF TakeSlot
  <2>3. nextIndex'[a] = n + 1 /\ \A b \in ArchetypeIndex \ {a} : nextIndex'[b] = nextIndex[b]
    BY <1>1, <2>2
  <2>4. nextIndex' \in [ ArchetypeIndex -> Nat ]  BY <1>1, <2>1, <2>2
  <2>5. \A b \in ArchetypeIndex : nextIndex[b] <= nextIndex'[b]
    <3> SUFFICES ASSUME NEW b \in ArchetypeIndex PROVE nextIndex[b] <= nextIndex'[b]  OBVIOUS
    <3>1. nextIndex[b] \in Nat  BY <1>1
    <3> QED  BY <2>1, <2>3, <3>1
  <2>6. ListsBelow(freeIndexes)'
    <3> SUFFICES ASSUME NEW b \in ArchetypeIndex, NEW k \in DOMAIN L[b]
                 PROVE  L[b][k] < nextIndex'[b]
      BY <2>2 DEF ListsBelow
    <3>1. L[b] \in Seq(Nat \cup {Junk})  BY DEF Lists
    <3>2. L[b][k] \in Nat \cup {Junk}  BY <3>1
    <3>3. L[b][k] < nextIndex[b]  BY DEF ListsBelow
    <3>4. nextIndex[b] \in Nat /\ nextIndex'[b] \in Nat  BY <1>1, <2>4
    <3> QED  BY <2>5, <3>2, <3>3, <3>4 DEF Junk
  <2>7. CountsCover'
    <3> SUFFICES ASSUME NEW b \in ArchetypeIndex
                 PROVE  /\ nextIndex'[b] <= blockCount'[b] * perBlock[b]
                        /\ \/ (blockCount'[b] - 1) * perBlock[b] < nextIndex'[b]
                           \/ blockCount'[b] = 0
      BY DEF CountsCover
    <3>1. CASE b # a
      BY <1>3, <2>3, <3>1 DEF CountsCover
    <3>2. CASE b = a
      <4>1. /\ n \div p = c => n + 1 <= (c + 1) * p /\ c * p < n + 1
            /\ n \div p # c => n + 1 <= c * p /\ (c - 1) * p < n + 1
        <5>1. n <= c * p /\ ((c - 1) * p < n \/ c = 0)  BY <1>5, <2>1
        <5> HIDE DEF n, p, c
        <5> QED  BY <1>2, <1>4, <2>1, <5>1, BlocksFollow
      <4>2. nextIndex'[b] = n + 1 /\ perBlock[b] = p  BY <2>3, <3>2
      <4>3. CASE n \div p = c
        <5>1. blockCount'[b] = c + 1 /\ (c + 1) - 1 = c  BY <1>3, <1>4, <3>2, <4>3
        <5> HIDE DEF n, p, c
        <5> QED  BY <4>1, <4>2, <4>3, <5>1
      <4>4. CASE n \div p # c
        <5>1. blockCount'[b] = c  BY <1>3, <3>2, <4>4
        <5> HIDE DEF n, p, c
        <5> QED  BY <4>1, <4>2, <4>4, <5>1
      <4> QED  BY <4>3, <4>4
    <3> QED  BY <3>1, <3>2
  <2>8. n < nextIndex'[a]  BY <2>1, <2>3
  <2>9. \A b \in ArchetypeIndex \ {a} : blockCount'[b] = blockCount[b]  BY <1>3
  <2> QED  BY <1>6, <2>1, <2>2, <2>3, <2>4, <2>5, <2>6, <2>7, <2>8, <2>9
<1> QED  BY <1>7, <1>8

(* Steps that take no slot keep the store housed: an archetype may be      *)
(* appended, free lists and entities lost.                                 *)
LEMMA KeptHoused ==
  ASSUME TypeOK, Housed, SlotShape', archLength <= archLength',
         \A b \in ArchetypeIndex : b < archLength => perBlock'[b] = perBlock[b],
         UNCHANGED << nextIndex, blockCount, allocated >>,
         \A b \in ArchetypeIndex :
           \/ freeIndexes'[b] = freeIndexes[b]
           \/ \A k \in DOMAIN freeIndexes'[b] : freeIndexes'[b][k] = Junk,
         LiveIntact' \subseteq LiveIntact,
         \A e \in LiveIntact' : archIndex'[e] = archIndex[e] /\ archCode'[e] = archCode[e]
  PROVE  Housed'
<1>1. /\ archLength \in Nat /\ archLength' \in Nat
      /\ nextIndex \in [ ArchetypeIndex -> Nat ]
      /\ perBlock' \in [ ArchetypeIndex -> 0 .. MaxPerBlock ]
  BY DEF SlotShape, TypeOK, ArchetypesTypeOK
<1>2. ASSUME NEW b \in ArchetypeIndex, b >= archLength
      PROVE  nextIndex[b] = 0 /\ blockCount[b] = 0
  BY <1>2 DEF Housed
<1>3. \A b \in ArchetypeIndex : b \in Int  BY DEF ArchetypeIndex
<1>4. CountsCover'
  <2> SUFFICES ASSUME NEW b \in ArchetypeIndex
               PROVE  /\ nextIndex[b] <= blockCount[b] * perBlock'[b]
                      /\ \/ (blockCount[b] - 1) * perBlock'[b] < nextIndex[b]
                         \/ blockCount[b] = 0
    BY DEF CountsCover
  <2>1. CASE b < archLength
    BY <2>1 DEF Housed, BlocksCover, CountsCover
  <2>2. CASE b >= archLength
    <3>1. perBlock'[b] \in Nat  BY <1>1, ArchetypesAssumption
    <3> QED  BY <1>2, <2>2, <3>1
  <2> QED  BY <1>1, <1>3, <2>1, <2>2
<1>5. BlocksThere'  BY DEF BlocksThere, BlocksCover, Housed
<1>6. ASSUME NEW e \in LiveIntact' PROVE Seated(e)'
  <2>1. Seated(e)  BY DEF Housed
  <2>2. archIndex[e] \in Int  BY <1>3, <2>1 DEF Seated
  <2> QED  BY <1>1, <2>1, <2>2 DEF Seated, LinearIndex
<1>7. ASSUME NEW b \in ArchetypeIndex, NEW k \in DOMAIN freeIndexes'[b]
      PROVE  freeIndexes'[b][k] < nextIndex'[b]
  <2>1. CASE freeIndexes'[b] = freeIndexes[b]  BY <1>7, <2>1 DEF Housed
  <2>2. CASE freeIndexes'[b][k] = Junk  BY <1>1, <2>2 DEF Junk
  <2> QED  BY <1>7, <2>1, <2>2
<1>8. ASSUME NEW b \in ArchetypeIndex, b >= archLength'
      PROVE  nextIndex'[b] = 0 /\ blockCount'[b] = 0
  BY <1>1, <1>2, <1>3, <1>8
<1> QED  BY <1>4, <1>5, <1>6, <1>7, <1>8 DEF Housed, BlocksCover

(* Steps that take a slot, for an entity or in vain.                       *)
LEMMA TakingHoused ==
  ASSUME TypeOK, Housed, NEW L \in Lists, ListsBelow(L),
         NEW a \in ArchetypeIndex, a < archLength, TakeSlot(a, L),
         UNCHANGED << archLength, perBlock >>, allocated \subseteq allocated',
         \A f \in LiveIntact' :
           \/ f \in LiveIntact /\ archIndex'[f] = archIndex[f] /\ archCode'[f] = archCode[f]
           \/ /\ archIndex'[f] = a /\ archCode'[f] = CodeOf(a, NextSlot(a, L))
              /\ << a, NextBlock(a, L) >> \in allocated'
  PROVE  /\ Housed'
         /\ CodeOf(a, NextSlot(a, L)) \in Code
         /\ nextIndex' \in [ ArchetypeIndex -> Nat ]
         /\ blockCount' \in [ ArchetypeIndex -> Nat ]
         /\ freeIndexes' \in Lists
         /\ NextBlock(a, L) \in Nat
<1> DEFINE n == NextSlot(a, L)
           code == CodeOf(a, n)
<1>1. SlotShape /\ blockCount \in [ ArchetypeIndex -> Nat ]  BY ShapeOfStore
<1>2. CountsCover /\ BlocksThere  BY DEF Housed, BlocksCover
<1>3. /\ n \in Nat
      /\ n < nextIndex'[a]
      /\ nextIndex' \in [ ArchetypeIndex -> Nat ]
      /\ blockCount' \in [ ArchetypeIndex -> Nat ]
      /\ \A b \in ArchetypeIndex : nextIndex[b] <= nextIndex'[b]
      /\ \A b \in ArchetypeIndex \ {a} :
           nextIndex'[b] = nextIndex[b] /\ blockCount'[b] = blockCount[b]
      /\ freeIndexes' \in Lists /\ ListsBelow(freeIndexes)'
      /\ CountsCover'
  BY <1>1, <1>2, TakenHoused
<1>4. /\ perBlock \in [ ArchetypeIndex -> 0 .. MaxPerBlock ]
      /\ perBlock[a] # 0 /\ n \div perBlock[a] < MaxBlocks
      /\ NextBlock(a, L) = n \div perBlock[a]
  BY <1>1 DEF SlotShape, TakeSlot, HasSlot, NextBlock
<1>5. code \in Code /\ code[2] < perBlock[a] /\ LinearIndex(a, code) = n
  BY <1>3, <1>4, CodeOfSlot
<1>6. code[1] = NextBlock(a, L)  BY <1>4 DEF CodeOf
<1>7. NextBlock(a, L) \in Nat
  <2>1. code[1] \in Nat  BY <1>5, ArchetypesAssumption DEF Code
  <2> QED  BY <1>6, <2>1
<1>8. ASSUME NEW f \in LiveIntact'
      PROVE  Seated(f)' /\ << archIndex'[f], archCode'[f][1] >> \in allocated'
  <2>1. CASE f \in LiveIntact /\ archIndex'[f] = archIndex[f] /\ archCode'[f] = archCode[f]
    <3>1. Seated(f) /\ << archIndex[f], archCode[f][1] >> \in allocated
      BY <1>2, <2>1 DEF Housed, BlocksThere
    <3>2. LinearIndex(archIndex[f], archCode[f]) \in Nat
      BY <1>4, <3>1, LinearIndexType DEF Seated
    <3>3. nextIndex[archIndex[f]] \in Nat /\ nextIndex'[archIndex[f]] \in Nat
      BY <1>1, <1>3, <3>1 DEF Seated, SlotShape
    <3>4. LinearIndex(archIndex[f], archCode[f]) < nextIndex'[archIndex[f]]
      BY <1>3, <3>1, <3>2, <3>3 DEF Seated
    <3> QED  BY <2>1, <3>1, <3>4 DEF Seated, LinearIndex
  <2>2. CASE /\ archIndex'[f] = a /\ archCode'[f] = code
             /\ << a, NextBlock(a, L) >> \in allocated'
    <3>1. Seated(f)'  BY <1>3, <1>5, <2>2 DEF Seated, LinearIndex
    <3> QED  BY <1>6, <2>2, <3>1
  <2> QED  BY <2>1, <2>2
<1>9. ASSUME NEW b \in ArchetypeIndex, b >= archLength'
      PROVE  nextIndex'[b] = 0 /\ blockCount'[b] = 0
  <2>1. b # a  BY <1>1, <1>9 DEF SlotShape, ArchetypeIndex
  <2> QED  BY <1>3, <1>9, <2>1 DEF Housed
<1>10. Housed'
  BY <1>3, <1>8, <1>9 DEF Housed, BlocksCover, BlocksThere, ListsBelow
<1> QED  BY <1>3, <1>5, <1>7, <1>10

-----------------------------------------------------------------------------
(* THE STORE IN EACH STEP                                                  *)

(* The rest of what TypeOK says of the archetypes and of their storage.    *)
StoreTyped ==
  /\ SlotShape
  /\ blockCount \in [ ArchetypeIndex -> Nat ]
  /\ allocated \subseteq ArchetypeIndex \X Nat
  /\ cell \in [ Slot -> [ Component -> Value ] ]

LEMMA TypeOKStore == TypeOK => StoreTyped
BY DEF TypeOK, ArchetypesTypeOK, SlotShape, StoreTyped

(* Steps that leave the archetypes and the slots alone.                    *)
LEMMA StoreKept ==
  ASSUME TypeOK, Housed, UNCHANGED << storeVars, live >>
  PROVE  StoreTyped' /\ Housed'
<1>1. StoreTyped'
  BY TypeOKStore DEF StoreTyped, SlotShape, storeVars, indexVars, slotVars, placeVars
<1>2. UNCHANGED << archLength, perBlock, nextIndex, freeIndexes, blockCount, allocated,
                   archIndex, archCode, live >>
  BY DEF storeVars, indexVars, slotVars, placeVars
<1>3. LiveIntact' = LiveIntact /\ archLength <= archLength'
  BY <1>2 DEF LiveIntact, Intact, TypeOK, ArchetypesTypeOK
<1> QED  BY <1>1, <1>2, <1>3, KeptHoused DEF StoreTyped

(* An archetype is appended, and has no slot yet.                          *)
LEMMA StoreAppended ==
  ASSUME TypeOK, Housed, Appended, ResolveUnchanged
  PROVE  StoreTyped' /\ Housed'
<1>1. archLength \in ArchetypeIndex /\ archLength \in Nat /\ archLength <= archLength'
  BY ArchetypesAssumption DEF Appended, TypeOK, ArchetypesTypeOK, ArchetypeIndex
<1>2. UNCHANGED << nextIndex, freeIndexes, blockCount, allocated, owner, archIndex,
                   archCode, cell, live >>
  BY DEF ResolveUnchanged, slotVars, placeVars
<1>3. /\ perBlock' \in [ ArchetypeIndex -> 0 .. MaxPerBlock ]
      /\ \A b \in ArchetypeIndex : b < archLength => perBlock'[b] = perBlock[b]
      /\ archLength' \in Nat
  BY <1>1 DEF Appended, TypeOK, ArchetypesTypeOK
<1>4. StoreTyped'
  BY <1>2, <1>3, TypeOKStore DEF StoreTyped, SlotShape
<1>5. LiveIntact' = LiveIntact  BY <1>2 DEF LiveIntact, Intact
<1> QED  BY <1>1, <1>2, <1>3, <1>4, <1>5, KeptHoused DEF StoreTyped

(* An entity is moved, or placed for the first time.                       *)
LEMMA StorePlaces ==
  ASSUME TypeOK, Housed, NEW e \in EntityIndex, Placed(e) => e \in LiveIntact,
         NEW a \in ArchetypeIndex, a < archLength, SetEntityArchetype(e, a),
         UNCHANGED << archLength, perBlock >>,
         live' \subseteq EntityIndex, LiveIntact' \subseteq LiveIntact \cup {e}
  PROVE  /\ SlotShape' /\ Housed'
         /\ blockCount' \in [ ArchetypeIndex -> Nat ]
         /\ allocated' \subseteq ArchetypeIndex \X Nat
         /\ archIndex'[e] = a /\ archCode'[e] \in Code
<1> DEFINE L == ListsFor(e)
           code == CodeOf(a, NextSlot(a, L))
<1>1. L \in Lists /\ ListsBelow(L)  BY LeftBelow
<1>2. /\ TakeSlot(a, L)
      /\ allocated' = allocated \cup { << a, NextBlock(a, L) >> }
      /\ archIndex' = [ archIndex EXCEPT ![e] = a ]
      /\ archCode' = [ archCode EXCEPT ![e] = code ]
      /\ owner' = [ owner EXCEPT ![<< a, code >>] = e ]
  BY DEF SetEntityArchetype, AllocateCode
<1>3. SlotShape /\ allocated \subseteq ArchetypeIndex \X Nat
  BY TypeOKStore DEF StoreTyped
<1>4. archIndex'[e] = a /\ archCode'[e] = code  BY <1>2, <1>3 DEF SlotShape
<1> HIDE DEF L, code
<1>5. ASSUME NEW f \in LiveIntact'
      PROVE  \/ f \in LiveIntact /\ archIndex'[f] = archIndex[f] /\ archCode'[f] = archCode[f]
             \/ archIndex'[f] = a /\ archCode'[f] = code /\ << a, NextBlock(a, L) >> \in allocated'
  <2>1. CASE f = e  BY <1>2, <1>4, <2>1
  <2>2. CASE f # e
    <3>1. f \in LiveIntact /\ f \in EntityIndex  BY <2>2, <1>3 DEF LiveIntact, SlotShape
    <3> QED  BY <1>2, <1>3, <2>2, <3>1 DEF SlotShape
  <2> QED  BY <2>1, <2>2
<1>6. allocated \subseteq allocated'  BY <1>2
<1>7. /\ Housed' /\ code \in Code
      /\ nextIndex' \in [ ArchetypeIndex -> Nat ]
      /\ blockCount' \in [ ArchetypeIndex -> Nat ]
      /\ freeIndexes' \in Lists
      /\ NextBlock(a, L) \in Nat
  BY <1>1, <1>2, <1>5, <1>6, TakingHoused DEF code
<1>8. SlotShape'
  BY <1>2, <1>3, <1>7 DEF SlotShape, Lists
<1> QED  BY <1>2, <1>3, <1>4, <1>7, <1>8

(* The old slot cannot be given up, or the block cannot be had.            *)
LEMMA StoreFailsToPlace ==
  ASSUME TypeOK, Housed, NEW e \in EntityIndex, Placed(e) => e \in LiveIntact,
         NEW a \in ArchetypeIndex, a < archLength, SetEntityArchetypeFails(e, a),
         UNCHANGED << archLength, perBlock, live >>
  PROVE  /\ SlotShape' /\ Housed'
         /\ blockCount' \in [ ArchetypeIndex -> Nat ]
         /\ allocated' \subseteq ArchetypeIndex \X Nat
<1>1. UNCHANGED << owner, archIndex, archCode >>
  BY DEF SetEntityArchetypeFails, placeVars
<1>2. SlotShape /\ StoreTyped /\ freeIndexes \in Lists
  BY TypeOKStore, ShapeOfStore DEF StoreTyped
<1>3. LiveIntact' = LiveIntact  BY <1>1 DEF LiveIntact, Intact
<1>4. CASE /\ freeIndexes' = Unfreed(archIndex[e])
           /\ UNCHANGED << nextIndex, blockCount, allocated >>
  <2>1. /\ freeIndexes' \in Lists
        /\ \A b \in ArchetypeIndex :
             \/ freeIndexes'[b] = freeIndexes[b]
             \/ \A k \in DOMAIN freeIndexes'[b] : freeIndexes'[b][k] = Junk
    BY <1>2, <1>4, UnfreedLists
  <2>2. SlotShape'  BY <1>1, <1>2, <1>4, <2>1 DEF SlotShape, Lists
  <2>3. archLength <= archLength'  BY <1>2 DEF SlotShape
  <2>4. Housed'  BY <1>1, <1>3, <1>4, <2>1, <2>2, <2>3, KeptHoused
  <2> QED  BY <1>2, <1>4, <2>2, <2>4 DEF StoreTyped
<1>5. CASE AllocateFails(a, ListsFor(e))
  <2> DEFINE L == ListsFor(e)
  <2>1. L \in Lists /\ ListsBelow(L)  BY LeftBelow
  <2>2. TakeSlot(a, L) /\ UNCHANGED allocated  BY <1>5 DEF AllocateFails
  <2> HIDE DEF L
  <2>3. /\ Housed'
        /\ nextIndex' \in [ ArchetypeIndex -> Nat ]
        /\ blockCount' \in [ ArchetypeIndex -> Nat ]
        /\ freeIndexes' \in Lists
    BY <1>1, <1>3, <2>1, <2>2, TakingHoused
  <2> QED  BY <1>1, <1>2, <2>2, <2>3 DEF SlotShape, StoreTyped, Lists
<1> QED  BY <1>4, <1>5 DEF SetEntityArchetypeFails

(* What is written over cells has the shape of data.                       *)
LEMMA OverwrittenTyped ==
  ASSUME cell \in [ Slot -> [ Component -> Value ] ],
         NEW cells, NEW v \in [ cells -> Value ], NEW a, NEW block
  PROVE  Overwritten(a, block, v) \in [ Slot -> [ Component -> Value ] ]
BY DEF Overwritten

(* The data after a copy, of components both archetypes have.              *)
LEMMA CopiedTyped ==
  ASSUME StoreTyped, NEW e, Placed(e) => e \in EntityIndex /\ Seated(e),
         NEW a \in ArchetypeIndex, NEW code \in Code
  PROVE  Copied(e, a, code) \in [ Slot -> [ Component -> Value ] ]
<1>1. << a, code >> \in Slot  BY DEF Slot
<1>2. CASE ~ Placed(e)  BY <1>2 DEF Copied, StoreTyped
<1>3. CASE Placed(e)
  <2>1. SlotOf(e) \in Slot  BY <1>3 DEF Seated, SlotOf, Slot
  <2> DEFINE row == [ c \in Component |->
                        IF c \in components[a] \cap components[archIndex[e]]
                          THEN cell[SlotOf(e)][c] ELSE cell[<< a, code >>][c] ]
  <2>2. row \in [ Component -> Value ]  BY <1>1, <2>1 DEF StoreTyped
  <2>3. Copied(e, a, code) = [ cell EXCEPT ![<< a, code >>] = row ]
    BY <1>3 DEF Copied
  <2> HIDE DEF row
  <2> QED  BY <2>2, <2>3 DEF StoreTyped
<1> QED  BY <1>2, <1>3

(* The store after any step.                                               *)
LEMMA StoreGoesOn ==
  ASSUME StoreInv, [Next]_vars
  PROVE  StoreTyped' /\ Housed'
<1> USE DEF StoreInv
<1>1. Grounded /\ StoreTyped
  BY TypeOKStore DEF Grounded, Housed, StoreTyped
<1>2. CASE UNCHANGED << storeVars, live >>  BY <1>2, StoreKept
<1>3. CASE SpawnCall \/ AddCall \/ RemoveCall \/ SpawnReady \/ SpawnFinish
  BY <1>2, <1>3 DEF SpawnCall, AddCall, RemoveCall, ChangeCall, SpawnReady, SpawnFinish
<1>4. CASE AsideStep
  <2>1. layerLength \in Nat  BY DEF CallSound
  <2> QED  BY <1>2, <1>4, <2>1, AsideChanges
<1>5. CASE ResolveHit
  BY <1>2, <1>5 DEF ResolveHit, ResolveUnchanged, storeVars
<1>6. CASE ResolveNew \/ ResolveFails  BY <1>1, <1>6, ResolveAppends, StoreAppended
<1>7. CASE SpawnOne
  <2> DEFINE e == entLength
  <2>1. /\ call.to \in ArchetypeIndex /\ call.to < archLength
        /\ e \in EntityIndex /\ archIndex[e] = 0
        /\ SetEntityArchetype(e, call.to)
        /\ cell' = Copied(e, call.to, archCode'[e])
        /\ live' = live \cup {e}
        /\ UNCHANGED << archLength, perBlock >>
        /\ LiveIntact' \subseteq LiveIntact \cup {e}
    BY <1>1, <1>7, SpawnOneMoves DEF indexVars
  <2>2. ~ Placed(e) /\ live' \subseteq EntityIndex  BY <1>1, <2>1 DEF Placed, StoreTyped, SlotShape
  <2> HIDE DEF e
  <2>3. /\ SlotShape' /\ Housed' /\ archCode'[e] \in Code
        /\ blockCount' \in [ ArchetypeIndex -> Nat ]
        /\ allocated' \subseteq ArchetypeIndex \X Nat
    BY <2>1, <2>2, StorePlaces
  <2>4. cell' \in [ Slot -> [ Component -> Value ] ]
    BY <1>1, <2>1, <2>2, <2>3, CopiedTyped
  <2> QED  BY <2>3, <2>4 DEF StoreTyped
<1>8. CASE SpawnCreateFails
  <2>1. /\ SlotShape'
        /\ \A e \in LiveIntact' :
             e \in LiveIntact /\ archIndex'[e] = archIndex[e] /\ archCode'[e] = archCode[e]
        /\ UNCHANGED << archLength, perBlock, nextIndex, freeIndexes, blockCount,
                        allocated, cell >>
    BY <1>1, <1>8, SpawnCreateFailsLoses DEF indexVars, slotVars
  <2>2. archLength <= archLength'  BY <1>1, <2>1 DEF StoreTyped, SlotShape
  <2>3. Housed'  BY <2>1, <2>2, KeptHoused
  <2> QED  BY <1>1, <2>1, <2>3 DEF StoreTyped
<1>9. CASE SpawnPlaceFails
  <2>1. /\ UNCHANGED << indexVars, placeVars, cell, live >>
        /\ NextEntity = entLength /\ entLength \in EntityIndex
        /\ archIndex[entLength] = 0
    BY <1>1, <1>9, SpawnPlaceFailsGoesOn
  <2>2. CASE UNCHANGED slotVars  BY <1>2, <2>1, <2>2 DEF storeVars
  <2>3. CASE SetEntityArchetypeFails(entLength, call.to)
    <3>1. call.to \in ArchetypeIndex /\ call.to < archLength
      BY <1>1, <1>9, SpawningSound DEF SpawnPlaceFails
    <3>2. ~ Placed(entLength) /\ UNCHANGED << archLength, perBlock, live, cell >>
      BY <2>1 DEF Placed, indexVars
    <3> QED  BY <1>1, <2>1, <2>3, <3>1, <3>2, StoreFailsToPlace DEF StoreTyped
  <2> QED  BY <1>9, <2>1, <2>2, <2>3 DEF SpawnPlaceFails
<1>10. CASE AddMove \/ RemoveMove \/ AddMoveFails \/ RemoveMoveFails
  <2> DEFINE e == call.entity
             a == call.to
             code == archCode'[e]
  <2>1. Changing /\ UNCHANGED << archLength, perBlock, live >>
    BY <1>1, <1>10, MovedGoesOn DEF indexVars
  <2>2. /\ e \in LiveIntact /\ e \in EntityIndex /\ Seated(e)
        /\ a \in ArchetypeIndex /\ a < archLength
    BY <1>1, <2>1, ChangingSound DEF Grounded
  <2>3. /\ \A f \in EntityIndex \ {e} : archIndex'[f] = archIndex[f] /\ archCode'[f] = archCode[f]
        /\ live \subseteq EntityIndex
    BY <1>1, <1>10, MovedGoesOn DEF StoreTyped, SlotShape
  <2>4. LiveIntact' \subseteq LiveIntact \cup {e}
    BY <2>1, <2>3 DEF LiveIntact, Intact
  <2>5. Given \in Value
    BY <1>1, ArchetypesAssumption DEF Given, Grounded, CallSound, CallRecord
  <2>6. CASE AddMove \/ RemoveMove
    <3>1. SetEntityArchetype(e, a)  BY <2>6 DEF AddMove, RemoveMove
    <3> HIDE DEF e, a
    <3>2. /\ SlotShape' /\ Housed' /\ code \in Code
          /\ blockCount' \in [ ArchetypeIndex -> Nat ]
          /\ allocated' \subseteq ArchetypeIndex \X Nat
      BY <2>1, <2>2, <2>3, <2>4, <3>1, StorePlaces
    <3> HIDE DEF code
    <3>3. Copied(e, a, code) \in [ Slot -> [ Component -> Value ] ]
      BY <1>1, <2>2, <3>2, CopiedTyped
    <3>4. cell' \in [ Slot -> [ Component -> Value ] ]
      <4>1. \/ cell' = Copied(e, a, code)
            \/ cell' = [ Copied(e, a, code) EXCEPT ![<< a, code >>][call.component] = Given ]
        BY <2>6 DEF AddMove, RemoveMove, e, a, code
      <4> DEFINE copied == Copied(e, a, code)
      <4>2. copied \in [ Slot -> [ Component -> Value ] ]  BY <3>3
      <4>3. cell' = copied \/ cell' = [ copied EXCEPT ![<< a, code >>][call.component] = Given ]
        BY <4>1
      <4> HIDE DEF copied
      <4> QED  BY <2>5, <4>2, <4>3
    <3> QED  BY <3>2, <3>4 DEF StoreTyped
  <2>7. CASE AddMoveFails \/ RemoveMoveFails
    <3>1. SetEntityArchetypeFails(e, a)  BY <2>7 DEF AddMoveFails, RemoveMoveFails
    <3>2. cell \in [ Slot -> [ Component -> Value ] ]  BY <1>1 DEF StoreTyped
    <3>3. cell' \in [ Slot -> [ Component -> Value ] ]
      <4>1. CASE RemoveMoveFails  BY <3>2, <4>1 DEF RemoveMoveFails
      <4>2. CASE AddMoveFails
        <5>1. PICK cells, v : v \in [ cells -> Value ] /\ cell' = Overwritten(Stays, Block, v)
          BY <4>2 DEF AddMoveFails
        <5> QED  BY <3>2, <5>1, OverwrittenTyped
      <4> QED  BY <2>7, <4>1, <4>2
    <3> HIDE DEF e, a
    <3>4. /\ SlotShape' /\ Housed'
          /\ blockCount' \in [ ArchetypeIndex -> Nat ]
          /\ allocated' \subseteq ArchetypeIndex \X Nat
      BY <2>1, <2>2, <3>1, StoreFailsToPlace
    <3> QED  BY <3>3, <3>4 DEF StoreTyped
  <2> QED  BY <1>10, <2>6, <2>7
<1> QED
  BY <1>3, <1>4, <1>5, <1>6, <1>7, <1>8, <1>9, <1>10 DEF Next, Request, Step, AsideStep

(* The parts of TypeOK that do not speak of archetypes and their storage,  *)
(* or only of the arrays that archetypes are found in.                     *)
OuterTyped ==
  /\ generation \in [ EntityIndex -> (0 .. Word - 1) \cup {Junk} ]
  /\ archCapacity \in Nat
  /\ archLost \in { "none", "index", "data" }
  /\ sorted \in BOOLEAN
  /\ LayersTypeOK
  /\ registered \in 0 .. NumComponents

LEMMA TypeOKParts == TypeOK => OuterTyped
BY DEF TypeOK, TableTypeOK, ArchetypesTypeOK, OuterTyped

LEMMA TypeOKWhole ==
  StoreTyped /\ OuterTyped /\ TableSound /\ CatalogSound /\ CallSound => TypeOK
<1> SUFFICES ASSUME StoreTyped, OuterTyped, TableSound, CatalogSound, CallSound
             PROVE  TypeOK
  OBVIOUS
<1>1. entFree \in Seq(EntityIndex \cup {Junk})  BY DEF TableSound
<1>2. entLength \in Nat  BY EntityTableAssumption DEF TableSound
<1>3. call.want \subseteq Component  BY DEF CallSound, CallRecord
<1> QED
  BY <1>1, <1>2, <1>3 DEF StoreTyped, SlotShape, OuterTyped, TableSound, CatalogSound,
                          TypeOK, TableTypeOK, ArchetypesTypeOK

LEMMA OuterGoesOn ==
  ASSUME StoreInv, [Next]_vars, GoesOn
  PROVE  OuterTyped'
<1>1. OuterTyped /\ layerLength \in Nat /\ layerLength' \in Nat /\ archLength \in Nat
  BY TypeOKParts DEF StoreInv, GoesOn, CallSound, TypeOK, ArchetypesTypeOK
<1> DEFINE Alone == UNCHANGED << generation, archCapacity, archLost, sorted >>
           AloneOut == UNCHANGED << layerCapacity, layerGeneration, layerKind, registered >>
<1>2. CASE Alone /\ AloneOut  BY <1>1, <1>2 DEF OuterTyped, LayersTypeOK
<1>3. CASE RegisterComponent
  <2>1. Alone /\ UNCHANGED layerVars /\ registered' \in 0 .. NumComponents
    BY <1>1, <1>3, ArchetypesAssumption
    DEF RegisterComponent, OuterTyped, tableVars, storeVars, indexVars
  <2> QED  BY <1>1, <2>1 DEF OuterTyped, LayersTypeOK, layerVars
<1>4. CASE NewLayer
  <2>1. Alone /\ UNCHANGED registered
    BY <1>4 DEF NewLayer, tableVars, storeVars, indexVars
  <2>2. ASSUME NEW kind \in Kind, CreateLayer(kind) PROVE LayersTypeOK'
    <3>1. layerCapacity' \in Nat
      BY <1>1, <2>2 DEF CreateLayer, OuterTyped, LayersTypeOK
    <3> QED  BY <1>1, <2>2, <3>1 DEF CreateLayer, OuterTyped, LayersTypeOK
  <2>3. CASE CreateLayerFails
    <3>1. /\ layerCapacity' = layerCapacity
          /\ layerGeneration' \in { layerGeneration, LoseLayers(layerGeneration, Junk) }
          /\ layerKind' \in { layerKind, LoseLayers(layerKind, "lost") }
      BY <2>3 DEF CreateLayerFails
    <3>2. layerGeneration' \in [ LayerIndex -> { 0, Junk } ]
      BY <1>1, <3>1 DEF LoseLayers, OuterTyped, LayersTypeOK
    <3>3. layerKind' \in [ LayerIndex -> Kind \cup { "lost" } ]
      BY <1>1, <3>1 DEF LoseLayers, OuterTyped, LayersTypeOK
    <3>4. layerCapacity' \in Nat  BY <1>1, <3>1 DEF OuterTyped, LayersTypeOK
    <3> QED  BY <1>1, <2>1, <3>2, <3>3, <3>4 DEF OuterTyped, LayersTypeOK
  <2> QED  BY <1>1, <1>4, <2>1, <2>2, <2>3 DEF NewLayer, OuterTyped
<1>5. CASE /\ AsideStep /\ ~ RegisterComponent /\ ~ NewLayer
  <2>1. UNCHANGED << tableVars, storeVars >>  BY <1>1, <1>5, AsideChanges
  <2>2. UNCHANGED << layerVars, registered >>
    BY <1>5
    DEF AsideStep, DestroyLayer, SpawnRejected, ChangeRejected, ChangeFault, ResolveFault,
        SpawnFault, MoveFault, Fault, Reject, vars
  <2> QED  BY <1>2, <2>1, <2>2 DEF tableVars, storeVars, indexVars, layerVars
<1>6. CASE SpawnCall \/ AddCall \/ RemoveCall \/ SpawnReady \/ SpawnFinish
  <2>1. UNCHANGED << tableVars, storeVars, layerVars, registered >>
    BY <1>6 DEF SpawnCall, AddCall, RemoveCall, ChangeCall, SpawnReady, SpawnFinish
  <2> QED  BY <1>2, <2>1 DEF tableVars, storeVars, indexVars, layerVars
<1>7. CASE ResolveHit \/ ResolveNew \/ ResolveFails
  <2>1. UNCHANGED generation /\ AloneOut
    BY <1>7 DEF ResolveHit, ResolveNew, ResolveFails, ResolveUnchanged, tableVars, layerVars
  <2>2. archCapacity' \in Nat /\ archLost' \in { "none", "index", "data" } /\ sorted' \in BOOLEAN
    <3>1. CapacityAfter \in Nat  BY <1>1 DEF CapacityAfter, OuterTyped
    <3>2. CASE ResolveHit  BY <1>1, <3>2 DEF ResolveHit, indexVars, OuterTyped
    <3>3. CASE ResolveNew  BY <3>1, <3>3 DEF ResolveNew, NewArchetype, Extend
    <3>4. CASE LayoutFails(call.want)  BY <3>1, <3>4 DEF LayoutFails, Extend
    <3>5. CASE \E array \in { "index", "data" } : GrowFails(call.want, array)
      BY <1>1, <3>5 DEF GrowFails, OuterTyped
    <3> QED  BY <1>7, <3>2, <3>3, <3>4, <3>5 DEF ResolveFails
  <2> QED  BY <1>1, <2>1, <2>2 DEF OuterTyped, LayersTypeOK
<1>8. CASE SpawnOne \/ SpawnPlaceFails
  BY <1>2, <1>8 DEF SpawnOne, SpawnPlaceFails, CreateEntity, indexVars, layerVars
<1>9. CASE SpawnCreateFails
  <2>1. UNCHANGED << archCapacity, archLost, sorted >> /\ AloneOut
    BY <1>9 DEF SpawnCreateFails, indexVars, layerVars
  <2>2. generation' = generation \/ generation' = Lost(generation)
    BY <1>9 DEF SpawnCreateFails, CreateFails
  <2>3. generation' \in [ EntityIndex -> (0 .. Word - 1) \cup {Junk} ]
    BY <1>1, <2>2 DEF Lost, OuterTyped
  <2> QED  BY <1>1, <2>1, <2>3 DEF OuterTyped, LayersTypeOK
<1>10. CASE AddMove \/ RemoveMove \/ AddMoveFails \/ RemoveMoveFails
  BY <1>2, <1>10
  DEF AddMove, RemoveMove, AddMoveFails, RemoveMoveFails, tableVars, indexVars, layerVars
<1> QED
  BY <1>3, <1>4, <1>5, <1>6, <1>7, <1>8, <1>9, <1>10 DEF Next, Request, Step, AsideStep

-----------------------------------------------------------------------------
(* WHAT A CALL WANTS                                                       *)

(* Entities that go nowhere keep their components, and so does the         *)
(* archetype a call has found: an archetype that was made is not changed.  *)
LEMMA MeantKept ==
  ASSUME Grounded, CallMeant, UNCHANGED << archIndex, call >>,
         \A a \in ArchetypeIndex : a < archLength => components'[a] = components[a]
  PROVE  CallMeant'
<1>1. ASSUME call.stage \in { "ready", "place" }
      PROVE  components'[call.to] = components[call.to]
  BY <1>1 DEF Grounded, CallSound
<1>2. ASSUME call.op \in { "add", "remove" }
      PROVE  Has(call.entity)' = Has(call.entity)
  <2>1. call.entity \in LiveIntact  BY <1>2 DEF Grounded, CallSound
  <2>2. Seated(call.entity)  BY <2>1 DEF Grounded
  <2> QED  BY <2>2 DEF Seated, Has
<1> QED  BY <1>1, <1>2 DEF CallMeant

LEMMA MeantNothing ==
  ASSUME call' = NoCall
  PROVE  CallMeant'
<1>1. call'.op = "none" /\ call'.stage = "idle"  BY DEF NoCall
<1> QED  BY <1>1 DEF CallMeant

LEMMA MeantGoesOn ==
  ASSUME StoreInv, [Next]_vars
  PROVE  CallMeant'
<1>1. Grounded /\ CallMeant /\ call \in CallRecord
  BY TypeOKStore DEF Grounded, Housed, StoreTyped, StoreInv, CallSound
<1>2. CASE UNCHANGED << archIndex, components, call >>  BY <1>1, <1>2, MeantKept
<1>3. CASE call' = NoCall  BY <1>3, MeantNothing
<1>4. CASE SpawnCall
  <2>1. call'.op = "spawn" /\ call'.stage = "resolve"  BY <1>4 DEF SpawnCall, NoCall
  <2> QED  BY <2>1 DEF CallMeant
<1>5. CASE AddCall \/ RemoveCall
  <2>1. PICK e \in live, c \in Component, v \in Value \cup {NoData},
             op \in { "add", "remove" }, want \in SUBSET Component :
          /\ want = IF op = "add" THEN Has(e) \cup {c} ELSE Has(e) \ {c}
          /\ ChangeCall(op, e, c, v, want)
    BY <1>1, <1>5, ChangeWanted
  <2>2. /\ call'.op = op /\ call'.stage = "resolve" /\ call'.want = want
        /\ call'.entity = e /\ call'.component = c
    BY <2>1 DEF ChangeCall, NoCall
  <2>3. UNCHANGED << archIndex, components >>
    BY <2>1 DEF ChangeCall, storeVars, indexVars, placeVars
  <2>4. Has(call.entity)' = Has(e)  BY <2>2, <2>3 DEF Has
  <2> QED  BY <2>1, <2>2, <2>4 DEF CallMeant
<1>6. CASE AsideStep
  <2>1. layerLength \in Nat  BY <1>1 DEF Grounded, CallSound
  <2>2. UNCHANGED << storeVars, call >>  BY <1>6, <2>1, AsideChanges
  <2> QED  BY <1>2, <2>2 DEF storeVars, indexVars, placeVars
<1>7. CASE ResolveHit \/ ResolveNew
  <2>1. /\ Resolving /\ ResolveUnchanged
        /\ \A a \in ArchetypeIndex : a < archLength => components'[a] = components[a]
        /\ \E a \in ArchetypeIndex : /\ components'[a] = call.want
                                     /\ call' = [ call EXCEPT !.to = a, !.stage = AfterResolve ]
    <3>1. CASE ResolveHit
      <4>1. PICK a \in Hits(call.want) :
              call' = [ call EXCEPT !.to = a, !.stage = AfterResolve ]
        BY <3>1 DEF ResolveHit
      <4>2. a \in indexed /\ components[a] = call.want  BY <4>1 DEF Hits, Matches
      <4>3. a \in ArchetypeIndex  BY <1>1, <4>2 DEF Grounded, CatalogSound
      <4>4. UNCHANGED components  BY <3>1 DEF ResolveHit, indexVars
      <4> QED  BY <3>1, <4>1, <4>2, <4>3, <4>4 DEF ResolveHit
    <3>2. CASE ResolveNew
      <4>1. /\ Appended
            /\ components' = [ components EXCEPT ![archLength] = call.want ]
        BY <1>1, <3>2, ResolveAppends
      <4>2. archLength \in ArchetypeIndex
        BY <1>1, <4>1, ArchetypesAssumption DEF Appended, Grounded, SlotShape, ArchetypeIndex
      <4>3. components'[archLength] = call.want
        BY <1>1, <4>1, <4>2 DEF Grounded, CatalogSound
      <4>4. \A a \in ArchetypeIndex : a < archLength => components'[a] = components[a]
        BY <1>1, <4>1 DEF Grounded, CatalogSound, SlotShape
      <4> QED  BY <3>2, <4>2, <4>3, <4>4 DEF ResolveNew
    <3> QED  BY <1>7, <3>1, <3>2
  <2>2. PICK a \in ArchetypeIndex :
          /\ components'[a] = call.want
          /\ call' = [ call EXCEPT !.to = a, !.stage = AfterResolve ]
    BY <2>1
  <2>3. /\ call'.op = call.op /\ call'.want = call.want /\ call'.entity = call.entity
        /\ call'.component = call.component /\ call'.to = a
    BY <1>1, <2>2 DEF CallRecord
  <2>4. call.op # "none"  BY <1>1, <2>1 DEF CallMeant, Resolving
  <2>5. ASSUME call.op \in { "add", "remove" } PROVE Has(call.entity)' = Has(call.entity)
    <3>1. Seated(call.entity)  BY <1>1, <2>5 DEF Grounded, CallSound
    <3>2. UNCHANGED archIndex  BY <2>1 DEF ResolveUnchanged, placeVars
    <3> QED  BY <2>1, <2>3, <3>1, <3>2 DEF Has, Seated
  <2> QED  BY <1>1, <2>2, <2>3, <2>4, <2>5 DEF CallMeant
<1>8. CASE ResolveFails  BY <1>3, <1>8 DEF ResolveFails, Return
<1>9. CASE SpawnReady \/ SpawnFinish
  <2>1. CASE call.stage = "ready" /\ Continue("place")
    <3>1. /\ call'.op = call.op /\ call'.want = call.want /\ call'.entity = call.entity
          /\ call'.component = call.component /\ call'.to = call.to /\ call.op # "none"
      BY <1>1, <2>1 DEF CallRecord, Continue, CallMeant
    <3>2. UNCHANGED << archIndex, components >>
      BY <1>9 DEF SpawnReady, SpawnFinish, storeVars, indexVars, placeVars
    <3>3. Has(call.entity)' = Has(call.entity)  BY <3>1, <3>2 DEF Has
    <3> QED  BY <1>1, <2>1, <3>1, <3>2, <3>3 DEF CallMeant
  <2> QED  BY <1>3, <1>9, <2>1 DEF SpawnReady, SpawnFinish, Return
<1>10. CASE SpawnOne
  <2>1. /\ call'.op = "spawn" /\ call'.want = call.want /\ call'.to = call.to
        /\ call.stage = "place" /\ UNCHANGED components
    BY <1>1, <1>10 DEF SpawnOne, Spawning, CallRecord, indexVars
  <2> QED  BY <1>1, <2>1 DEF CallMeant
<1>11. CASE SpawnCreateFails \/ SpawnPlaceFails
  BY <1>3, <1>11 DEF SpawnCreateFails, SpawnPlaceFails, Return
<1>12. CASE AddMove \/ RemoveMove \/ AddMoveFails \/ RemoveMoveFails
  BY <1>3, <1>12 DEF AddMove, RemoveMove, AddMoveFails, RemoveMoveFails, Return
<1> QED
  BY <1>4, <1>5, <1>6, <1>7, <1>8, <1>9, <1>10, <1>11, <1>12
  DEF Next, Request, Step, AsideStep

(* A new instance.                                                         *)
LEMMA InitStore == Init => StoreInv
<1> SUFFICES ASSUME Init PROVE StoreInv  OBVIOUS
<1>1. SlotInv  BY InitSlots
<1> USE DEF Init, TableInit, ArchetypesInit, LayersInit
<1>2. LiveIntact = {}  BY DEF LiveIntact
<1>3. StoreTyped
  <2>1. blockCount \in [ ArchetypeIndex -> Nat ]  OBVIOUS
  <2>2. cell \in [ Slot -> [ Component -> Value ] ]  BY ArchetypesAssumption
  <2> QED  BY <1>1, <2>1, <2>2 DEF StoreTyped, SlotInv, SlotsSound
<1>4. OuterTyped
  <2>1. 0 \in 0 .. Word - 1  BY EntityTableAssumption DEF Word
  <2>2. 0 \in 0 .. NumComponents  BY ArchetypesAssumption
  <2> QED  BY <2>1, <2>2 DEF OuterTyped, LayersTypeOK, Kind
<1>5. TypeOK  BY <1>1, <1>3, <1>4, TypeOKWhole DEF SlotInv
<1>6. Housed
  <2>1. ASSUME NEW a \in ArchetypeIndex
        PROVE  nextIndex[a] = 0 /\ blockCount[a] = 0 /\ perBlock[a] = 0 /\ freeIndexes[a] = << >>
    OBVIOUS
  <2>2. CountsCover  BY <2>1 DEF CountsCover
  <2> QED  BY <1>2, <2>1, <2>2 DEF Housed, BlocksCover, BlocksThere
<1>7. CallMeant  BY DEF CallMeant, NoCall
<1> QED  BY <1>1, <1>5, <1>6, <1>7 DEF StoreInv, SlotInv

(* One step of the library, whatever fails.                                *)
LEMMA NextStore ==
  ASSUME StoreInv, [Next]_vars
  PROVE  StoreInv'
<1>1. Grounded  BY TypeOKStore DEF Grounded, Housed, StoreTyped, StoreInv
<1>2. GoesOn  BY <1>1, CallsGoOn
<1>3. StoreTyped' /\ Housed'  BY StoreGoesOn
<1>4. OuterTyped'  BY <1>2, OuterGoesOn
<1>5. CallMeant'  BY MeantGoesOn
<1>6. TypeOK'
  <2>1. (StoreTyped /\ OuterTyped /\ TableSound /\ CatalogSound /\ CallSound => TypeOK)'
    BY TypeOKWhole, PTL
  <2> QED  BY <1>2, <1>3, <1>4, <2>1 DEF GoesOn
<1> QED  BY <1>2, <1>3, <1>5, <1>6 DEF GoesOn, StoreInv

-----------------------------------------------------------------------------
(* THEOREMS                                                                *)

(* Every state keeps StoreInv, whatever allocation fails.                  *)
THEOREM StoreStaysSound == Spec => []StoreInv
<1>1. StoreInv /\ [Next]_vars => StoreInv'  BY NextStore
<1> QED  BY <1>1, InitStore, PTL DEF Spec

(* The parts of an instance keep their shape through every call and every  *)
(* failure (local.h:66-99).                                                *)
THEOREM TypeCorrect == Spec => []TypeOK
<1>1. StoreInv => TypeOK  BY DEF StoreInv
<1> QED  BY <1>1, StoreStaysSound, PTL

(* The blocks of an archetype cover exactly the slots handed out, and an   *)
(* entity is in a block that is there, even after the allocation of a      *)
(* block failed (archetype.c:125-137).                                     *)
THEOREM SlotsInBlocks == Spec => []BlocksCover
<1>1. StoreInv => BlocksCover  BY DEF StoreInv, Housed
<1> QED  BY <1>1, StoreStaysSound, PTL

=============================================================================
