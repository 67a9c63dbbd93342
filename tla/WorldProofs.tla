---------------------------- MODULE WorldProofs ----------------------------
(***************************************************************************)
(* That the slots of World stay sound, for every number of entities,       *)
(* archetypes, blocks and components, every layout of blocks, and every    *)
(* allocation that may fail but that of a block.                           *)
(*                                                                         *)
(* The inductive invariant is SlotInv of World.  TakeSlotSound is the      *)
(* heart: the slot that is taken is held by nobody, because it comes from  *)
(* a free list that is sound or is the first one never handed out.         *)
(* LeaveSound and EnterSound say that the lists are sound when it is       *)
(* taken, MoveSound puts the entity there, and WeakenSound covers the      *)
(* steps that only lose something.                                         *)
(***************************************************************************)
EXTENDS World, Numbers

(* The hypothesis of every theorem here: the allocation of a block of      *)
(* memory does not fail.  When it does, alias_ecs_set_entity_archetype has *)
(* already put the slot of an entity that stays in it on the free list     *)
(* (archetype.c:183-188), and the properties below do not hold.            *)
BlocksToBeHad == "block" \notin Failing

-----------------------------------------------------------------------------
(* NUMBERS OF SLOTS                                                        *)

(* The codes of one archetype.                                             *)
LEMMA CodeOfSlot ==
  ASSUME NEW a \in ArchetypeIndex, NEW n \in Nat,
         perBlock \in [ ArchetypeIndex -> 0 .. MaxPerBlock ],
         perBlock[a] # 0, n \div perBlock[a] < MaxBlocks
  PROVE  /\ CodeOf(a, n) \in Code
         /\ CodeOf(a, n)[2] < perBlock[a]
         /\ LinearIndex(a, CodeOf(a, n)) = n
<1> DEFINE p == perBlock[a]
<1>1. p \in Nat \ {0} /\ p <= MaxPerBlock /\ MaxPerBlock \in Nat
  BY ArchetypesAssumption
<1>2. /\ n \div p \in Nat
      /\ n % p \in 0 .. p - 1
      /\ (n \div p) * p + (n % p) = n
  BY <1>1, CodeRoundTrip
<1>3. CodeOf(a, n) = << n \div p, n % p >>  BY DEF CodeOf
<1>4. n \div p \in 0 .. MaxBlocks - 1
  BY <1>2, ArchetypesAssumption
<1>5. n % p \in 0 .. MaxPerBlock - 1
  BY <1>1, <1>2
<1>6. CodeOf(a, n) \in Code  BY <1>3, <1>4, <1>5 DEF Code
<1>7. CodeOf(a, n)[2] < p
  <2> HIDE DEF p
  <2> QED  BY <1>1, <1>2, <1>3
<1>8. LinearIndex(a, CodeOf(a, n)) = n
  BY <1>2, <1>3 DEF LinearIndex
<1> QED  BY <1>6, <1>7, <1>8

(* Slots of an archetype with one number have one code.                    *)
LEMMA SameNumberSameCode ==
  ASSUME NEW a \in ArchetypeIndex, NEW x \in Code, NEW y \in Code,
         perBlock \in [ ArchetypeIndex -> 0 .. MaxPerBlock ],
         x[2] < perBlock[a], y[2] < perBlock[a],
         LinearIndex(a, x) = LinearIndex(a, y)
  PROVE  x = y
<1>1. perBlock[a] \in Nat  BY ArchetypesAssumption
<1>2. x[1] \in Nat /\ x[2] \in Nat /\ y[1] \in Nat /\ y[2] \in Nat
  BY ArchetypesAssumption DEF Code
<1>3. x[1] = y[1] /\ x[2] = y[2]
  <2> DEFINE p == perBlock[a]
             b == x[1]
             o == x[2]
             c == y[1]
             q == y[2]
  <2>1. b * p + o = c * p + q  BY DEF LinearIndex
  <2>2. p \in Nat /\ b \in Nat /\ o \in Nat /\ c \in Nat /\ q \in Nat /\ o < p /\ q < p
    BY <1>1, <1>2
  <2>3. b = c /\ o = q
    <3> HIDE DEF p, b, o, c, q
    <3> QED  BY <2>1, <2>2, CodeUnique
  <2> QED  BY <2>3
<1> QED  BY <1>3 DEF Code

(* The number of a slot is a natural number.                               *)
LEMMA LinearIndexType ==
  ASSUME NEW a \in ArchetypeIndex, NEW x \in Code,
         perBlock \in [ ArchetypeIndex -> 0 .. MaxPerBlock ]
  PROVE  LinearIndex(a, x) \in Nat
<1>1. perBlock[a] \in Nat  BY ArchetypesAssumption
<1>2. x[1] \in Nat /\ x[2] \in Nat  BY ArchetypesAssumption DEF Code
<1>3. x[1] * perBlock[a] \in Nat  BY <1>1, <1>2
<1> QED  BY <1>2, <1>3 DEF LinearIndex

-----------------------------------------------------------------------------
(* SLOTS                                                                   *)

(* Free lists L are sound for the entities of S: FreeSlotsSound, of lists  *)
(* that need not be those of the state.                                    *)
ListsSound(L, S) ==
  \A a \in ArchetypeIndex : \A k \in DOMAIN L[a] :
    L[a][k] # Junk =>
      /\ L[a][k] < nextIndex[a]
      /\ \A l \in DOMAIN L[a] : L[a][l] = L[a][k] => l = k
      /\ \A e \in S : ~ Holds(e, a, L[a][k])

Lists == [ ArchetypeIndex -> Seq(Nat \cup {Junk}) ]

(* What is known of a set of entities whose slots are sound.               *)
SetSound(S) ==
  /\ S \subseteq EntityIndex
  /\ \A f \in S : Seated(f) /\ owner[SlotOf(f)] = f
  /\ \A f, g \in S : SlotOf(f) = SlotOf(g) => f = g

(* The slot that TakeSlot takes: it is held by no entity of S, and the     *)
(* lists it leaves are sound and do not name it.                           *)
LEMMA TakeSlotSound ==
  ASSUME SlotShape, NEW S, SetSound(S), NEW L \in Lists, ListsSound(L, S),
         NEW a \in ArchetypeIndex, TakeSlot(a, L)
  PROVE  /\ NextSlot(a, L) \in Nat
         /\ NextSlot(a, L) < nextIndex'[a]
         /\ nextIndex' \in [ ArchetypeIndex -> Nat ]
         /\ \A b \in ArchetypeIndex : nextIndex[b] <= nextIndex'[b]
         /\ \A f \in S : ~ Holds(f, a, NextSlot(a, L))
         /\ freeIndexes' \in Lists
         /\ \A b \in ArchetypeIndex : \A k \in DOMAIN freeIndexes'[b] :
              freeIndexes'[b][k] # Junk =>
                /\ freeIndexes'[b][k] < nextIndex'[b]
                /\ \A l \in DOMAIN freeIndexes'[b] :
                     freeIndexes'[b][l] = freeIndexes'[b][k] => l = k
                /\ \A f \in S : ~ Holds(f, b, freeIndexes'[b][k])
                /\ b = a => freeIndexes'[b][k] # NextSlot(a, L)
<1> DEFINE n == NextSlot(a, L)
<1>1. L[a] \in Seq(Nat \cup {Junk})  BY DEF Lists
<1>2. nextIndex \in [ ArchetypeIndex -> Nat ]  BY DEF SlotShape
<1>3. n # Junk  BY DEF TakeSlot, HasSlot
<1>4. CASE L[a] # << >>
  <2>1. Len(L[a]) \in Nat \ {0} /\ DOMAIN L[a] = 1 .. Len(L[a])
    BY <1>1, <1>4
  <2>2. n = L[a][Len(L[a])] /\ Len(L[a]) \in DOMAIN L[a]
    BY <1>4, <2>1 DEF NextSlot, Last
  <2>3. n \in Nat
    BY <1>1, <1>3, <2>1, <2>2
  <2>4. nextIndex' = nextIndex /\ freeIndexes' = [ L EXCEPT ![a] = Front(L[a]) ]
    BY <1>4 DEF TakeSlot
  <2>5. /\ Front(L[a]) \in Seq(Nat \cup {Junk})
        /\ DOMAIN Front(L[a]) = 1 .. Len(L[a]) - 1
        /\ \A k \in 1 .. Len(L[a]) - 1 : Front(L[a])[k] = L[a][k]
    BY <1>1, <2>1 DEF Front
  <2>6. n < nextIndex[a] /\ \A f \in S : ~ Holds(f, a, n)
    BY <2>2, <1>3 DEF ListsSound
  <2>7. freeIndexes' \in Lists  BY <2>4, <2>5 DEF Lists
  <2>8. ASSUME NEW b \in ArchetypeIndex, NEW k \in DOMAIN freeIndexes'[b],
               freeIndexes'[b][k] # Junk
        PROVE  /\ freeIndexes'[b][k] < nextIndex[b]
               /\ \A l \in DOMAIN freeIndexes'[b] :
                    freeIndexes'[b][l] = freeIndexes'[b][k] => l = k
               /\ \A f \in S : ~ Holds(f, b, freeIndexes'[b][k])
               /\ b = a => freeIndexes'[b][k] # n
    <3>1. CASE b # a
      <4>1. freeIndexes'[b] = L[b]  BY <3>1, <2>4 DEF Lists
      <4> QED  BY <2>8, <3>1, <4>1 DEF ListsSound
    <3>2. CASE b = a
      <4>1. freeIndexes'[b] = Front(L[a])  BY <3>2, <2>4 DEF Lists
      <4>2. /\ k \in DOMAIN L[a] /\ k # Len(L[a])
            /\ freeIndexes'[b][k] = L[a][k]
        BY <2>1, <2>5, <4>1
      <4>3. \A l \in DOMAIN L[a] : L[a][l] = L[a][k] => l = k
        BY <2>8, <4>2 DEF ListsSound
      <4>4. L[a][k] # n  BY <4>3, <4>2, <2>2
      <4>5. \A l \in DOMAIN freeIndexes'[b] :
              freeIndexes'[b][l] = freeIndexes'[b][k] => l = k
        BY <4>1, <4>2, <4>3, <2>1, <2>5
      <4> QED  BY <2>8, <3>2, <4>2, <4>4, <4>5 DEF ListsSound
    <3> QED  BY <3>1, <3>2
  <2> QED  BY <1>2, <2>3, <2>4, <2>6, <2>7, <2>8
<1>5. CASE L[a] = << >>
  <2>1. n = nextIndex[a] /\ n \in Nat  BY <1>2, <1>5 DEF NextSlot
  <2>2. freeIndexes' = L /\ nextIndex' = [ nextIndex EXCEPT ![a] = n + 1 ]
    BY <1>5, <2>1 DEF TakeSlot
  <2>3. /\ nextIndex' \in [ ArchetypeIndex -> Nat ]
        /\ n < nextIndex'[a]
        /\ \A b \in ArchetypeIndex : nextIndex[b] <= nextIndex'[b]
    <3>1. nextIndex'[a] = n + 1 /\ \A b \in ArchetypeIndex \ {a} : nextIndex'[b] = nextIndex[b]
      BY <1>2, <2>2
    <3> QED  BY <1>2, <2>1, <2>2, <3>1
  <2>4. \A f \in S : ~ Holds(f, a, n)
    <3> SUFFICES ASSUME NEW f \in S, Holds(f, a, n) PROVE FALSE  OBVIOUS
    <3>1. Seated(f)  BY DEF SetSound
    <3> QED  BY <1>2, <2>1, <3>1 DEF Seated, Holds
  <2>5. ASSUME NEW b \in ArchetypeIndex, NEW k \in DOMAIN L[b], L[b][k] # Junk
        PROVE  L[b][k] < nextIndex'[b] /\ (b = a => L[b][k] # n)
    <3>1. L[b][k] < nextIndex[b]  BY <2>5 DEF ListsSound
    <3>2. L[b][k] \in Nat
      <4>1. L[b] \in Seq(Nat \cup {Junk})  BY DEF Lists
      <4> QED  BY <2>5, <4>1
    <3> QED  BY <1>2, <2>1, <2>3, <3>1, <3>2
  <2> QED  BY <2>1, <2>2, <2>3, <2>4, <2>5 DEF ListsSound
<1> QED  BY <1>4, <1>5

(* set_entity_archetype leaves the slots sound: those of the entities of S *)
(* it does not touch, and the one of the entity it moves.                  *)
LEMMA MoveSound ==
  ASSUME SlotShape, NEW e \in EntityIndex, NEW S, SetSound(S), e \notin S,
         ListsFor(e) \in Lists, ListsSound(ListsFor(e), S),
         NEW a \in ArchetypeIndex, a < archLength, SetEntityArchetype(e, a),
         UNCHANGED << archLength, perBlock >>,
         live' \subseteq EntityIndex, LiveIntact' \subseteq S \cup {e}
  PROVE  SlotsSound'
<1> DEFINE L == ListsFor(e)
           n == NextSlot(a, L)
           code == CodeOf(a, n)
<1>1. /\ n \in Nat
      /\ n < nextIndex'[a]
      /\ nextIndex' \in [ ArchetypeIndex -> Nat ]
      /\ \A b \in ArchetypeIndex : nextIndex[b] <= nextIndex'[b]
      /\ \A f \in S : ~ Holds(f, a, n)
      /\ freeIndexes' \in Lists
      /\ \A b \in ArchetypeIndex : \A k \in DOMAIN freeIndexes'[b] :
           freeIndexes'[b][k] # Junk =>
             /\ freeIndexes'[b][k] < nextIndex'[b]
             /\ \A l \in DOMAIN freeIndexes'[b] :
                  freeIndexes'[b][l] = freeIndexes'[b][k] => l = k
             /\ \A f \in S : ~ Holds(f, b, freeIndexes'[b][k])
             /\ b = a => freeIndexes'[b][k] # n
  BY TakeSlotSound DEF SetEntityArchetype, AllocateCode
<1>2. perBlock \in [ ArchetypeIndex -> 0 .. MaxPerBlock ]  BY DEF SlotShape
<1>3. perBlock[a] # 0 /\ n \div perBlock[a] < MaxBlocks
  BY DEF SetEntityArchetype, AllocateCode, TakeSlot, HasSlot, NextBlock
<1>4. /\ code \in Code
      /\ code[2] < perBlock[a]
      /\ LinearIndex(a, code) = n
  BY <1>1, <1>2, <1>3, CodeOfSlot
<1>5. /\ archIndex' = [ archIndex EXCEPT ![e] = a ]
      /\ archCode' = [ archCode EXCEPT ![e] = code ]
      /\ owner' = [ owner EXCEPT ![<< a, code >>] = e ]
  BY DEF SetEntityArchetype
<1> HIDE DEF L, n, code
<1>6. << a, code >> \in Slot  BY <1>4 DEF Slot
<1>7. SlotShape'
  BY <1>1, <1>4, <1>5, <1>6 DEF SlotShape, Lists
<1>8. archIndex'[e] = a /\ archCode'[e] = code /\ owner'[<< a, code >>] = e
  BY <1>5, <1>6 DEF SlotShape
<1>9. ASSUME NEW f \in S
      PROVE  /\ f \in EntityIndex
             /\ archIndex'[f] = archIndex[f]
             /\ archCode'[f] = archCode[f]
             /\ Seated(f) /\ Seated(f)'
             /\ SlotOf(f) # << a, code >>
             /\ owner'[SlotOf(f)] = f
  <2>1. Seated(f) /\ owner[SlotOf(f)] = f /\ f # e /\ f \in EntityIndex  BY DEF SetSound
  <2>2. archIndex'[f] = archIndex[f] /\ archCode'[f] = archCode[f]
    BY <2>1, <1>5 DEF SlotShape
  <2>3. Seated(f)'
    <3>1. LinearIndex(archIndex[f], archCode[f]) \in Nat
      BY <2>1, <1>2, LinearIndexType DEF Seated
    <3>2. nextIndex \in [ ArchetypeIndex -> Nat ]  BY DEF SlotShape
    <3> QED  BY <2>1, <2>2, <3>1, <3>2, <1>1 DEF Seated, LinearIndex
  <2>4. SlotOf(f) # << a, code >>
    BY <1>1, <1>4 DEF SlotOf, Holds
  <2>5. SlotOf(f) \in Slot  BY <2>1 DEF Seated, SlotOf, Slot
  <2> QED  BY <2>1, <2>2, <2>3, <2>4, <2>5, <1>5, <1>6 DEF SlotShape
<1>10. Seated(e)'
  BY <1>1, <1>4, <1>8 DEF Seated, LinearIndex
<1>11. (\A f \in LiveIntact : Seated(f))'
  BY <1>9, <1>10
<1>12. SlotExclusive'
  <2> SUFFICES ASSUME NEW f \in LiveIntact', NEW g \in LiveIntact', SlotOf(f)' = SlotOf(g)'
               PROVE  f = g
    BY DEF SlotExclusive
  <2>1. CASE f \in S /\ g \in S
    <3>1. SlotOf(f) = SlotOf(g)  BY <2>1, <1>9 DEF SlotOf
    <3> QED  BY <2>1, <3>1 DEF SetSound
  <2>2. CASE f \in S /\ g = e
    BY <2>2, <1>8, <1>9 DEF SlotOf
  <2>3. CASE f = e /\ g \in S
    BY <2>3, <1>8, <1>9 DEF SlotOf
  <2> QED  BY <2>1, <2>2, <2>3
<1>13. BackPointer'
  <2> SUFFICES ASSUME NEW f \in LiveIntact' PROVE owner'[SlotOf(f)'] = f
    BY DEF BackPointer
  <2>1. CASE f \in S  BY <2>1, <1>9 DEF SlotOf
  <2>2. CASE f = e  BY <2>2, <1>8 DEF SlotOf
  <2> QED  BY <2>1, <2>2
<1>14. FreeSlotsSound'
  <2> SUFFICES ASSUME NEW b \in ArchetypeIndex, NEW k \in DOMAIN freeIndexes'[b],
                      freeIndexes'[b][k] # Junk, NEW f \in LiveIntact'
               PROVE  ~ Holds(f, b, freeIndexes[b][k])'
    BY <1>1 DEF FreeSlotsSound
  <2>1. CASE f \in S  BY <2>1, <1>1, <1>9 DEF Holds, LinearIndex
  <2>2. CASE f = e
    <3> SUFFICES ASSUME b = a PROVE LinearIndex(b, archCode[f])' # freeIndexes'[b][k]
      BY <2>2, <1>8 DEF Holds
    <3>1. LinearIndex(b, archCode[f])' = n
      BY <2>2, <1>4, <1>8 DEF LinearIndex
    <3> QED  BY <3>1, <1>1
  <2> QED  BY <2>1, <2>2
<1> QED  BY <1>7, <1>11, <1>12, <1>13, <1>14 DEF SlotsSound

(* The slots stay sound when entities only leave, and a free list is left  *)
(* alone or lost.                                                          *)
LEMMA WeakenSound ==
  ASSUME SlotsSound, SlotShape', archLength <= archLength',
         \A b \in ArchetypeIndex : b < archLength => perBlock'[b] = perBlock[b],
         UNCHANGED << nextIndex, owner >>,
         \A b \in ArchetypeIndex :
           \/ freeIndexes'[b] = freeIndexes[b]
           \/ \A k \in DOMAIN freeIndexes'[b] : freeIndexes'[b][k] = Junk,
         LiveIntact' \subseteq LiveIntact,
         \A e \in LiveIntact' : archIndex'[e] = archIndex[e] /\ archCode'[e] = archCode[e]
  PROVE  SlotsSound'
<1>1. ASSUME NEW e \in LiveIntact'
      PROVE  /\ Seated(e)
             /\ SlotOf(e)' = SlotOf(e)
             /\ perBlock'[archIndex[e]] = perBlock[archIndex[e]]
  <2>1. Seated(e)  BY DEF SlotsSound
  <2> QED  BY <2>1 DEF SlotOf, Seated
<1>2. ASSUME NEW e \in LiveIntact' PROVE Seated(e)'
  <2>1. archLength \in Nat /\ archLength' \in Nat  BY DEF SlotsSound, SlotShape
  <2>2. archIndex[e] \in Int  BY <1>1 DEF Seated, ArchetypeIndex
  <2> QED  BY <1>1, <2>1, <2>2 DEF Seated, LinearIndex
<1>3. SlotExclusive'  BY <1>1 DEF SlotsSound, SlotExclusive
<1>4. BackPointer'  BY <1>1 DEF SlotsSound, BackPointer
<1>5. FreeSlotsSound'
  <2> SUFFICES ASSUME NEW b \in ArchetypeIndex, NEW k \in DOMAIN freeIndexes'[b],
                      freeIndexes'[b][k] # Junk
               PROVE  /\ freeIndexes'[b][k] < nextIndex'[b]
                      /\ \A l \in DOMAIN freeIndexes'[b] :
                           freeIndexes'[b][l] = freeIndexes'[b][k] => l = k
                      /\ \A e \in LiveIntact' : ~ Holds(e, b, freeIndexes[b][k])'
    BY DEF FreeSlotsSound
  <2>1. freeIndexes'[b] = freeIndexes[b]  OBVIOUS
  <2>2. /\ freeIndexes[b][k] < nextIndex[b]
        /\ \A l \in DOMAIN freeIndexes[b] : freeIndexes[b][l] = freeIndexes[b][k] => l = k
        /\ \A e \in LiveIntact : ~ Holds(e, b, freeIndexes[b][k])
    BY <2>1 DEF SlotsSound, FreeSlotsSound
  <2>3. ASSUME NEW e \in LiveIntact', Holds(e, b, freeIndexes[b][k])' PROVE FALSE
    BY <1>1, <2>1, <2>2, <2>3 DEF Holds, LinearIndex
  <2> QED  BY <2>1, <2>2, <2>3
<1> QED  BY <1>2, <1>3, <1>4, <1>5 DEF SlotsSound

(* An entity that leaves its slot: the lists, with its slot on them, are   *)
(* sound for the others.                                                   *)
LEMMA LeaveSound ==
  ASSUME SlotsSound, NEW e \in LiveIntact
  PROVE  /\ ListsFor(e) \in Lists
         /\ SetSound(LiveIntact \ {e})
         /\ ListsSound(ListsFor(e), LiveIntact \ {e})
<1> DEFINE S == LiveIntact \ {e}
           a == archIndex[e]
           n == LinearIndex(archIndex[e], archCode[e])
<1>1. SetSound(S)
  BY DEF SlotsSound, SetSound, SlotExclusive, BackPointer, LiveIntact, SlotShape
<1>2. Seated(e)  BY DEF SlotsSound
<1>3. perBlock \in [ ArchetypeIndex -> 0 .. MaxPerBlock ] /\ freeIndexes \in Lists
  BY DEF SlotsSound, SlotShape, Lists
<1>4. n \in Nat /\ n < nextIndex[a] /\ a \in ArchetypeIndex
  BY <1>2, <1>3, LinearIndexType DEF Seated
<1>5. freeIndexes[a] \in Seq(Nat \cup {Junk})  BY <1>3, <1>4 DEF Lists
<1>6. ListsSound(freeIndexes, LiveIntact)
  BY DEF SlotsSound, FreeSlotsSound, ListsSound
<1>7. \A f \in S : ~ Holds(f, a, n)
  <2> SUFFICES ASSUME NEW f \in S, Holds(f, a, n) PROVE FALSE  OBVIOUS
  <2>1. Seated(f)  BY DEF SlotsSound
  <2>2. archCode[f] = archCode[e]
    BY <1>2, <1>3, <2>1, SameNumberSameCode DEF Seated, Holds
  <2>3. SlotOf(f) = SlotOf(e)  BY <2>2 DEF Holds, SlotOf
  <2> QED  BY <2>3 DEF SlotsSound, SlotExclusive
<1>8. \A k \in DOMAIN freeIndexes[a] : freeIndexes[a][k] # n
  <2> SUFFICES ASSUME NEW k \in DOMAIN freeIndexes[a], freeIndexes[a][k] = n PROVE FALSE
    OBVIOUS
  <2>1. n # Junk  BY <1>4 DEF Junk
  <2>2. ~ Holds(e, a, n)  BY <2>1, <1>4, <1>6 DEF ListsSound
  <2> QED  BY <2>2 DEF Holds
<1>9. CASE ~ Placed(e)
  BY <1>1, <1>3, <1>6, <1>9 DEF ListsFor, ListsSound
<1>10. CASE Placed(e)
  <2>1. ListsFor(e) = [ freeIndexes EXCEPT ![a] = Append(freeIndexes[a], n) ]
    BY <1>10 DEF ListsFor, Freed
  <2> DEFINE L == ListsFor(e)
  <2> HIDE DEF n, a, S
  <2>2. L[a] = Append(freeIndexes[a], n)  BY <1>3, <1>4, <2>1 DEF Lists
  <2>3. Append(freeIndexes[a], n) \in Seq(Nat \cup {Junk})  BY <1>4, <1>5
  <2>4. L \in Lists  BY <1>3, <1>4, <2>1, <2>3 DEF Lists
  <2>5. ASSUME NEW b \in ArchetypeIndex, NEW k \in DOMAIN L[b], L[b][k] # Junk
        PROVE  /\ L[b][k] < nextIndex[b]
               /\ \A l \in DOMAIN L[b] : L[b][l] = L[b][k] => l = k
               /\ \A f \in S : ~ Holds(f, b, L[b][k])
    <3>1. CASE b # a
      <4>1. L[b] = freeIndexes[b]  BY <3>1, <1>3, <2>1 DEF Lists
      <4> QED  BY <4>1, <2>5, <1>6 DEF ListsSound, S
    <3>2. CASE b = a
      <4>1. /\ Len(freeIndexes[a]) \in Nat
            /\ DOMAIN freeIndexes[a] = 1 .. Len(freeIndexes[a])
            /\ DOMAIN L[a] = 1 .. Len(freeIndexes[a]) + 1
            /\ L[a][Len(freeIndexes[a]) + 1] = n
            /\ \A l \in DOMAIN freeIndexes[a] : L[a][l] = freeIndexes[a][l]
        BY <1>4, <1>5, <2>2
      <4>2. CASE k = Len(freeIndexes[a]) + 1
        <5>1. \A l \in DOMAIN L[a] : L[a][l] = n => l = k
          BY <4>1, <4>2, <1>8
        <5> QED  BY <3>2, <4>1, <4>2, <5>1, <1>4, <1>7
      <4>3. CASE k \in DOMAIN freeIndexes[a]
        <5>1. /\ freeIndexes[a][k] < nextIndex[a]
              /\ \A l \in DOMAIN freeIndexes[a] : freeIndexes[a][l] = freeIndexes[a][k] => l = k
              /\ \A f \in S : ~ Holds(f, a, freeIndexes[a][k])
          BY <3>2, <4>1, <4>3, <2>5, <1>6 DEF ListsSound, S
        <5>2. \A l \in DOMAIN L[a] : L[a][l] = L[a][k] => l = k
          BY <4>1, <4>3, <5>1, <1>8
        <5> QED  BY <3>2, <4>1, <4>3, <5>1, <5>2
      <4> QED  BY <3>2, <4>1, <4>2, <4>3
    <3> QED  BY <3>1, <3>2
  <2>6. ListsSound(L, S)  BY <2>5 DEF ListsSound
  <2> QED  BY <1>1, <2>4, <2>6 DEF S
<1> QED  BY <1>9, <1>10

(* A new entity leaves no slot.                                            *)
LEMMA EnterSound ==
  ASSUME SlotsSound, NEW e \in EntityIndex, e \notin live, archIndex[e] = 0
  PROVE  /\ ListsFor(e) \in Lists
         /\ SetSound(LiveIntact)
         /\ ListsSound(ListsFor(e), LiveIntact)
<1>1. ListsFor(e) = freeIndexes  BY DEF ListsFor, Placed
<1>2. SetSound(LiveIntact)
  BY DEF SlotsSound, SetSound, SlotExclusive, BackPointer, LiveIntact, SlotShape
<1> QED
  BY <1>1, <1>2 DEF SlotsSound, SlotShape, FreeSlotsSound, ListsSound, Lists

-----------------------------------------------------------------------------
(* CALLS IN PROGRESS                                                       *)

(* What a call rests on, whether or not slots are shared: the shapes, that *)
(* entities are somewhere, and what it was given when it began.  Nothing   *)
(* below, down to CallsGoOn, depends on which allocations fail.            *)
Grounded ==
  /\ SlotShape
  /\ \A e \in LiveIntact : Seated(e)
  /\ TableSound /\ CatalogSound /\ CallSound

(* The entity table and where entities are.                                *)
LEMMA TableUnchanged ==
  ASSUME TableSound, UNCHANGED << tableVars, archIndex, live >>
  PROVE  TableSound'
BY DEF TableSound, tableVars

(* The archetypes and their index.                                         *)
LEMMA CatalogUnchanged ==
  ASSUME CatalogSound, UNCHANGED indexVars
  PROVE  CatalogSound'
BY DEF CatalogSound, indexVars

(* No call is in progress: that is a record of a call, too.                *)
LEMMA CallIdle == NoCall \in CallRecord
BY ArchetypesAssumption DEF NoCall, CallRecord, NoData, NoLayer

(* Steps that leave the call in progress alone, and those that end it.     *)
LEMMA CallKept ==
  ASSUME CallSound, layerLength' \in Nat,
         UNCHANGED << call, indexVars, entLength, archIndex, archCode, live >>
  PROVE  CallSound'
<1>1. LiveIntact' = LiveIntact  BY DEF LiveIntact, Intact
<1>2. Misses(call.want)' = Misses(call.want)
  BY DEF Misses, Hits, Matches, indexVars
<1> QED  BY <1>1, <1>2 DEF CallSound, indexVars

LEMMA CallEnds ==
  ASSUME CallSound, call' = NoCall, UNCHANGED layerLength
  PROVE  CallSound'
<1>1. /\ call'.op = "none" /\ call'.stage = "idle"
      /\ call' \in CallRecord
  BY CallIdle DEF NoCall
<1> QED  BY <1>1 DEF CallSound

(* The entity table, the archetypes and the call after a step.             *)
GoesOn == TableSound' /\ CatalogSound' /\ CallSound'

(* A call that begins is given room, and one that changes an entity names  *)
(* a live one whose cells are there.                                       *)
LEMMA SpawnBegins ==
  ASSUME Grounded, SpawnCall
  PROVE  GoesOn
<1>1. UNCHANGED << tableVars, storeVars, layerVars, registered, live, fault >>
  BY DEF SpawnCall
<1>2. UNCHANGED << tableVars, indexVars, archIndex, live >>
  BY <1>1 DEF storeVars, placeVars
<1>3. TableSound' /\ CatalogSound'
  BY <1>2, TableUnchanged, CatalogUnchanged DEF Grounded
<1>4. CallSound'
  <2>1. PICK n \in 1 .. MaxSpawn, cs \in SpawnSet, l \in LayerHandle \cup {NoLayer} :
          /\ Begins(n, n, cs)
          /\ call' = [ NoCall EXCEPT !.op = "spawn", !.stage = "resolve", !.want = cs,
                                     !.left = n, !.layer = l ]
    BY DEF SpawnCall
  <2>2. l \in Int
    <3>1. layerLength \in Int  BY DEF Grounded, CallSound
    <3>2. LayerIndex \subseteq Int  BY LayersAssumption DEF LayerIndex
    <3> QED  BY <3>1, <3>2 DEF LayerHandle, NoLayer
  <2>3. cs \subseteq Component /\ n \in Nat /\ 0 \in Nat
    BY WorldAssumption, ArchetypesAssumption DEF SpawnSet
  <2>4. call' = [ op |-> "spawn", stage |-> "resolve", want |-> cs, to |-> 0, left |-> n,
                  layer |-> l, entity |-> 0, component |-> 0, data |-> NoData ]
    BY <2>1 DEF NoCall
  <2>5. call' \in CallRecord  BY <2>2, <2>3, <2>4 DEF CallRecord
  <2>6. entLength + n <= MaxEntity + 1 /\ (archLength < MaxArchetypes \/ ~ Misses(cs))
    BY <2>1 DEF Begins
  <2>7. Misses(cs)' = Misses(cs)
    BY <1>1 DEF Misses, Hits, Matches, storeVars, indexVars
  <2>8. call'.op = "spawn" /\ call'.stage = "resolve" /\ call'.want = cs /\ call'.left = n
    BY <2>4
  <2>9. UNCHANGED << entLength, archLength, indexed, layerLength >>
    BY <1>1 DEF tableVars, storeVars, indexVars, layerVars
  <2>10. Misses(call.want)' = Misses(cs)'  BY <2>8 DEF Misses, Hits, Matches
  <2> QED  BY <2>5, <2>6, <2>7, <2>8, <2>9, <2>10 DEF Grounded, CallSound
<1> QED  BY <1>3, <1>4 DEF GoesOn

(* The call that add_component_to_entity or remove_component_from_entity   *)
(* begins.                                                                 *)
LEMMA ChangeWanted ==
  ASSUME Grounded, AddCall \/ RemoveCall
  PROVE  \E e \in live, c \in Component, v \in Value \cup {NoData},
            op \in { "add", "remove" }, want \in SUBSET Component :
           /\ ~ EntityFaults(e)
           /\ Begins(0, 1, want)
           /\ want = IF op = "add" THEN Has(e) \cup {c} ELSE Has(e) \ {c}
           /\ ChangeCall(op, e, c, v, want)
<1>1. \A e \in live : Has(e) \in SUBSET Component \/ EntityFaults(e)
  <2> SUFFICES ASSUME NEW e \in live, ~ EntityFaults(e) PROVE Has(e) \in SUBSET Component
    OBVIOUS
  <2>1. Seated(e)  BY DEF Grounded, LiveIntact, Intact, EntityFaults
  <2> QED  BY <2>1 DEF Seated, Has, Grounded, CatalogSound
<1>2. CASE AddCall
  <2>1. PICK e \in live, c \in Component, v \in Value \cup {NoData} :
          /\ ~ EntityFaults(e)
          /\ Begins(0, 1, Has(e) \cup {c})
          /\ ChangeCall("add", e, c, v, Has(e) \cup {c})
    BY <1>2 DEF AddCall
  <2>2. Has(e) \cup {c} \in SUBSET Component  BY <1>1, <2>1
  <2> WITNESS e \in live, c \in Component, v \in Value \cup {NoData},
              "add" \in { "add", "remove" }, Has(e) \cup {c} \in SUBSET Component
  <2> QED  BY <2>1
<1>3. CASE RemoveCall
  <2>1. PICK e \in live, c \in Component :
          /\ ~ EntityFaults(e)
          /\ Begins(0, 1, Has(e) \ {c})
          /\ ChangeCall("remove", e, c, NoData, Has(e) \ {c})
    BY <1>3 DEF RemoveCall
  <2>2. Has(e) \ {c} \in SUBSET Component  BY <1>1, <2>1
  <2> WITNESS e \in live, c \in Component, NoData \in Value \cup {NoData},
              "remove" \in { "add", "remove" }, Has(e) \ {c} \in SUBSET Component
  <2> QED  BY <2>1
<1> QED  BY <1>2, <1>3

LEMMA ChangeBegins ==
  ASSUME Grounded, AddCall \/ RemoveCall
  PROVE  GoesOn
<1>2. PICK e \in live, c \in Component, v \in Value \cup {NoData},
           op \in { "add", "remove" }, want \in SUBSET Component :
        /\ ~ EntityFaults(e)
        /\ Begins(0, 1, want)
        /\ ChangeCall(op, e, c, v, want)
  BY ChangeWanted
<1>3. UNCHANGED << tableVars, storeVars, layerVars, registered, live, fault >>
  BY <1>2 DEF ChangeCall
<1>4. UNCHANGED << tableVars, indexVars, archIndex, archCode, live >>
  BY <1>3 DEF storeVars, placeVars
<1>5. TableSound' /\ CatalogSound'
  BY <1>4, TableUnchanged, CatalogUnchanged DEF Grounded
<1>6. CallSound'
  <2>1. call' = [ op |-> op, stage |-> "resolve", want |-> want, to |-> 0, left |-> 0,
                  layer |-> NoLayer, entity |-> e, component |-> c, data |-> v ]
    BY <1>2 DEF ChangeCall, NoCall
  <2>2. e \in Nat /\ c \in Nat /\ NoLayer \in Int
    <3>1. e \in EntityIndex  BY DEF Grounded, SlotShape
    <3> QED  BY <3>1, EntityTableAssumption, ArchetypesAssumption
             DEF EntityIndex, Component, NoLayer
  <2>3. call' \in CallRecord  BY <2>1, <2>2 DEF CallRecord
  <2>4. archLength < MaxArchetypes \/ ~ Misses(want)
    BY <1>2 DEF Begins
  <2>5. Misses(want)' = Misses(want)
    BY <1>4 DEF Misses, Hits, Matches, indexVars
  <2>6. e \in LiveIntact /\ LiveIntact' = LiveIntact
    BY <1>2, <1>4 DEF LiveIntact, Intact, EntityFaults
  <2>7. call'.op = op /\ call'.stage = "resolve" /\ call'.want = want /\ call'.entity = e
    BY <2>1
  <2>8. UNCHANGED << archLength, layerLength >>
    BY <1>3 DEF storeVars, indexVars, layerVars
  <2>9. Misses(call.want)' = Misses(want)'  BY <2>7 DEF Misses, Hits, Matches
  <2> QED  BY <2>3, <2>4, <2>5, <2>6, <2>7, <2>8, <2>9 DEF Grounded, CallSound
<1> QED  BY <1>5, <1>6 DEF GoesOn

(* Requests that are refused or only touch layers, and steps into a fault, *)
(* leave everything but the layers alone.                                  *)
AsideStep ==
  \/ RegisterComponent \/ NewLayer \/ DestroyLayer \/ SpawnRejected
  \/ ChangeRejected \/ ChangeFault \/ ResolveFault \/ SpawnFault \/ MoveFault
  \/ UNCHANGED vars

LEMMA AsideChanges ==
  ASSUME AsideStep, layerLength \in Nat
  PROVE  layerLength' \in Nat /\ UNCHANGED << tableVars, storeVars, live, call >>
<1>1. CASE NewLayer
  BY <1>1 DEF NewLayer, CreateLayer, CreateLayerFails, Idle
<1>2. CASE RegisterComponent  BY <1>2 DEF RegisterComponent, layerVars
<1>3. CASE DestroyLayer  BY <1>3 DEF DestroyLayer, Fault, Reject, layerVars
<1>4. CASE SpawnRejected  BY <1>4 DEF SpawnRejected, Fault, Reject, layerVars
<1>5. CASE ChangeRejected  BY <1>5 DEF ChangeRejected, Reject, layerVars
<1>6. CASE ChangeFault  BY <1>6 DEF ChangeFault, Fault, layerVars
<1>7. CASE ResolveFault  BY <1>7 DEF ResolveFault, Fault, layerVars
<1>8. CASE SpawnFault  BY <1>8 DEF SpawnFault, Fault, layerVars
<1>9. CASE MoveFault  BY <1>9 DEF MoveFault, Fault, layerVars
<1>10. CASE UNCHANGED vars  BY <1>10 DEF vars, layerVars
<1> QED
  BY <1>1, <1>2, <1>3, <1>4, <1>5, <1>6, <1>7, <1>8, <1>9, <1>10 DEF AsideStep

(* No step takes an entity away.                                           *)
LEMMA LiveGrows ==
  ASSUME [Next]_vars, layerLength \in Nat
  PROVE  live \subseteq live'
<1>1. CASE AsideStep  BY <1>1, AsideChanges
<1> QED
  BY <1>1
  DEF Next, Request, Step, AsideStep, vars, SpawnCall, AddCall, RemoveCall, ChangeCall,
      ResolveHit, ResolveNew, ResolveFails, ResolveUnchanged, SpawnReady, SpawnOne,
      SpawnCreateFails, SpawnPlaceFails, SpawnFinish, AddMove, AddMoveFails, RemoveMove,
      RemoveMoveFails

LEMMA AsideGoesOn ==
  ASSUME Grounded, layerLength' \in Nat, UNCHANGED << tableVars, storeVars, live, call >>
  PROVE  GoesOn
<1>1. UNCHANGED << tableVars, indexVars, archIndex, archCode, live, entLength >>
  BY DEF storeVars, placeVars, tableVars
<1> QED
  BY <1>1, TableUnchanged, CatalogUnchanged, CallKept DEF Grounded, GoesOn

(* The archetype that resolve_archetype appends, when it fails too.        *)
Appended ==
  /\ archLength < MaxArchetypes
  /\ archLength' = archLength + 1
  /\ indexed' \subseteq indexed \cup { 0, archLength }
  /\ \/ UNCHANGED << components, perBlock >>
     \/ \E want \in SUBSET Component, n \in 0 .. MaxPerBlock :
          /\ components' = [ components EXCEPT ![archLength] = want ]
          /\ perBlock' = [ perBlock EXCEPT ![archLength] = n ]

LEMMA ResolveAppends ==
  ASSUME Grounded, ResolveNew \/ ResolveFails
  PROVE  /\ Appended /\ ResolveUnchanged
         /\ ResolveNew => components' = [ components EXCEPT ![archLength] = call.want ]
         /\ ResolveFails => call' = NoCall
<1>1. /\ call.want \in SUBSET Component
      /\ Resolving => archLength < MaxArchetypes \/ ~ Misses(call.want)
  BY DEF Grounded, CallSound, CallRecord, Resolving
<1>2. CASE ResolveNew
  <2>1. Resolving /\ NewArchetype(call.want) /\ ResolveUnchanged  BY <1>2 DEF ResolveNew
  <2>2. archLength < MaxArchetypes  BY <1>1, <2>1 DEF NewArchetype
  <2>3. EntitiesPerBlock[call.want] \in 0 .. MaxPerBlock  BY <1>1, ArchetypesAssumption
  <2>4. /\ archLength' = archLength + 1
        /\ components' = [ components EXCEPT ![archLength] = call.want ]
        /\ perBlock' = [ perBlock EXCEPT ![archLength] = EntitiesPerBlock[call.want] ]
        /\ indexed' \subseteq indexed \cup { 0, archLength }
    BY <2>1 DEF NewArchetype, Extend, Kept
  <2>5. ~ ResolveFails \/ call' = NoCall  BY DEF ResolveFails, Return
  <2> QED  BY <1>1, <2>1, <2>2, <2>3, <2>4, <2>5 DEF Appended
<1>3. CASE ResolveFails /\ ~ ResolveNew
  <2>1. Resolving /\ ResolveUnchanged /\ call' = NoCall
    BY <1>3 DEF ResolveFails, Return
  <2>2. CASE LayoutFails(call.want)
    <3>1. archLength < MaxArchetypes  BY <1>1, <2>1, <2>2 DEF LayoutFails
    <3>2. /\ archLength' = archLength + 1
          /\ components' = [ components EXCEPT ![archLength] = call.want ]
          /\ perBlock' = [ perBlock EXCEPT ![archLength] = 0 ]
          /\ indexed' \subseteq indexed \cup { 0, archLength }
      BY <2>2 DEF LayoutFails, Extend, Kept
    <3>3. 0 \in 0 .. MaxPerBlock  BY ArchetypesAssumption
    <3> QED  BY <1>1, <1>3, <2>1, <3>1, <3>2, <3>3 DEF Appended
  <2>3. ASSUME NEW array \in { "index", "data" }, GrowFails(call.want, array)
        PROVE  Appended
    BY <1>1, <2>1, <2>3 DEF GrowFails, Appended
  <2> QED  BY <1>3, <2>1, <2>2, <2>3 DEF ResolveFails
<1> QED  BY <1>2, <1>3

(* A call that has its archetype goes on.                                  *)
LEMMA ResolvedGoesOn ==
  ASSUME CallSound, Resolving, NEW a \in ArchetypeIndex, a < archLength',
         call' = [ call EXCEPT !.to = a, !.stage = AfterResolve ],
         ResolveUnchanged
  PROVE  CallSound'
<1>1. call \in CallRecord  BY DEF CallSound
<1>2. AfterResolve \in { "ready", "place" }  BY DEF AfterResolve
<1>3. a \in Nat  BY DEF ArchetypeIndex
<1>4. call' \in CallRecord  BY <1>1, <1>2, <1>3 DEF CallRecord
<1>5. /\ call'.op = call.op /\ call'.left = call.left /\ call'.entity = call.entity
      /\ call'.stage \in { "ready", "place" } /\ call'.to = a
  BY <1>1, <1>2 DEF CallRecord
<1>6. LiveIntact' = LiveIntact /\ UNCHANGED << entLength, layerLength >>
  BY DEF ResolveUnchanged, LiveIntact, Intact, placeVars, tableVars, layerVars
<1> QED  BY <1>4, <1>5, <1>6 DEF CallSound

(* Finding or making the archetype, with each failure on the way.          *)
LEMMA ResolveGoesOn ==
  ASSUME Grounded, ResolveHit \/ ResolveNew \/ ResolveFails
  PROVE  GoesOn
<1>1. CASE ResolveHit
  <2>1. PICK a \in Hits(call.want) :
          call' = [ call EXCEPT !.to = a, !.stage = AfterResolve ]
    BY <1>1 DEF ResolveHit
  <2>2. UNCHANGED indexVars /\ ResolveUnchanged /\ Resolving  BY <1>1 DEF ResolveHit
  <2>3. a \in indexed  BY <2>1 DEF Hits, Matches
  <2>4. a \in ArchetypeIndex /\ a < archLength'
    BY <2>2, <2>3 DEF Grounded, CatalogSound, indexVars
  <2>5. UNCHANGED << tableVars, archIndex, live >>
    BY <2>2 DEF ResolveUnchanged, placeVars
  <2> QED
    BY <2>1, <2>2, <2>4, <2>5, TableUnchanged, CatalogUnchanged, ResolvedGoesOn
    DEF Grounded, GoesOn
<1>2. CASE ResolveNew \/ ResolveFails
  <2>1. Appended /\ ResolveUnchanged /\ (ResolveFails => call' = NoCall)
    BY <1>2, ResolveAppends
  <2>2. archLength \in ArchetypeIndex /\ 0 \in ArchetypeIndex /\ archLength \in Nat
    BY <2>1, ArchetypesAssumption DEF Appended, Grounded, SlotShape, ArchetypeIndex
  <2>3. TableSound'
    BY <2>1, TableUnchanged DEF Grounded, ResolveUnchanged, placeVars
  <2>4. CatalogSound'
    <3>1. components' \in [ ArchetypeIndex -> SUBSET Component ]
      BY <2>1, <2>2 DEF Appended, Grounded, CatalogSound
    <3>2. ASSUME NEW a \in indexed' PROVE a \in ArchetypeIndex /\ a < archLength'
      <4>1. CASE a \in indexed
        <5>1. a \in ArchetypeIndex /\ a < archLength  BY <4>1 DEF Grounded, CatalogSound
        <5>2. a \in Int  BY <5>1 DEF ArchetypeIndex
        <5> QED  BY <2>1, <2>2, <5>1, <5>2 DEF Appended
      <4>2. CASE a \in { 0, archLength }
        BY <2>1, <2>2, <4>2 DEF Appended
      <4> QED  BY <2>1, <4>1, <4>2 DEF Appended
    <3> QED  BY <3>1, <3>2 DEF CatalogSound
  <2>5. CallSound'
    <3>1. CASE ResolveNew
      <4>1. archLength < archLength'  BY <2>1, <2>2 DEF Appended
      <4> QED  BY <2>1, <2>2, <3>1, <4>1, ResolvedGoesOn DEF ResolveNew, Grounded
    <3>2. CASE ResolveFails
      BY <2>1, <3>2, CallEnds DEF Grounded, ResolveUnchanged, layerVars
    <3> QED  BY <1>2, <3>1, <3>2
  <2> QED  BY <2>3, <2>4, <2>5 DEF GoesOn
<1> QED  BY <1>1, <1>2

(* The steps of spawn that place no entity.                                *)
LEMMA SpawnWaits ==
  ASSUME Grounded, SpawnReady \/ SpawnFinish
  PROVE  GoesOn /\ UNCHANGED << tableVars, storeVars, layerVars, live >>
<1>1. UNCHANGED << tableVars, storeVars, layerVars, live >>
  BY DEF SpawnReady, SpawnFinish
<1>2. UNCHANGED << tableVars, indexVars, archIndex, archCode, live, layerLength >>
  BY <1>1 DEF storeVars, placeVars, layerVars
<1>3. TableSound' /\ CatalogSound'
  BY <1>2, TableUnchanged, CatalogUnchanged DEF Grounded
<1>4. CASE call' = NoCall
  BY <1>1, <1>2, <1>3, <1>4, CallEnds DEF Grounded, GoesOn
<1>5. CASE call.stage = "ready" /\ Continue("place")
  <2>1. call \in CallRecord  BY DEF Grounded, CallSound
  <2>2. call' = [ call EXCEPT !.stage = "place" ]  BY <1>5 DEF Continue
  <2>3. call' \in CallRecord  BY <2>1, <2>2 DEF CallRecord
  <2>4. /\ call'.op = call.op /\ call'.left = call.left /\ call'.entity = call.entity
        /\ call'.stage = "place" /\ call'.to = call.to
    BY <2>1, <2>2 DEF CallRecord
  <2>5. LiveIntact' = LiveIntact /\ UNCHANGED << entLength, archLength >>
    BY <1>2 DEF LiveIntact, Intact, tableVars, indexVars
  <2>6. CallSound'
    BY <1>2, <1>5, <2>3, <2>4, <2>5 DEF Grounded, CallSound
  <2> QED  BY <1>1, <1>3, <2>6 DEF GoesOn
<1> QED  BY <1>4, <1>5 DEF SpawnReady, SpawnFinish, Return

(* The index create_entity takes when nothing waits on its free list, as   *)
(* nothing ever does: no public function frees an entity.                  *)
LEMMA NextEntityFresh ==
  ASSUME TableSound, TakeEntity
  PROVE  /\ NextEntity = entLength /\ LengthAfter = entLength + 1
         /\ entFree' = << >> /\ entLength' = entLength + 1
         /\ entLength \in Nat
BY EntityTableAssumption DEF TableSound, TakeEntity, NextEntity, LengthAfter

(* What a spawn that is about to create an entity knows.                   *)
LEMMA SpawningSound ==
  ASSUME TableSound, CallSound, Spawning
  PROVE  /\ call.to \in ArchetypeIndex /\ call.to < archLength
         /\ call.left \in Nat \ {0}
         /\ entLength + call.left <= MaxEntity + 1
         /\ entLength \in EntityIndex
         /\ entLength + 1 \in 1 .. MaxEntity + 1
<1>1. /\ call.to \in ArchetypeIndex /\ call.to < archLength
      /\ call.left \in Nat \ {0}
      /\ entLength + call.left <= MaxEntity + 1
      /\ entLength \in 1 .. MaxEntity + 1
  BY DEF CallSound, CallRecord, TableSound, Spawning
<1> QED  BY <1>1, EntityTableAssumption DEF EntityIndex

(* One entity of spawn: a new one, that is nowhere, is placed.             *)
LEMMA SpawnOneMoves ==
  ASSUME Grounded, SpawnOne
  PROVE  /\ call.to \in ArchetypeIndex /\ call.to < archLength
         /\ entLength \in EntityIndex
         /\ entLength \notin live /\ archIndex[entLength] = 0
         /\ SetEntityArchetype(entLength, call.to)
         /\ cell' = Copied(entLength, call.to, archCode'[entLength])
         /\ live' = live \cup {entLength}
         /\ \A f \in EntityIndex \ {entLength} :
              archIndex'[f] = archIndex[f] /\ archCode'[f] = archCode[f]
         /\ entLength' = entLength + 1
         /\ UNCHANGED << generation, indexVars, layerVars >>
         /\ LiveIntact' \subseteq LiveIntact \cup {entLength}
<1> DEFINE e == entLength
<1>1. call.to \in ArchetypeIndex /\ call.to < archLength /\ e \in EntityIndex
  BY SpawningSound DEF SpawnOne, Grounded
<1>2. NextEntity = e /\ entLength' = e + 1 /\ e \in Nat /\ UNCHANGED generation
  BY NextEntityFresh DEF SpawnOne, CreateEntity, Grounded
<1>3. e \notin live /\ archIndex[e] = 0
  BY <1>1, <1>2 DEF Grounded, TableSound
<1>4. /\ SetEntityArchetype(e, call.to)
      /\ cell' = Copied(e, call.to, archCode'[e])
      /\ live' = live \cup {e}
      /\ UNCHANGED << indexVars, layerVars >>
  BY <1>2 DEF SpawnOne
<1>5. \A f \in EntityIndex \ {e} : archIndex'[f] = archIndex[f] /\ archCode'[f] = archCode[f]
  BY <1>4 DEF SetEntityArchetype, Grounded, SlotShape
<1>6. LiveIntact' \subseteq LiveIntact \cup {e}
  BY <1>4, <1>5 DEF LiveIntact, Intact, Grounded, SlotShape
<1> QED  BY <1>1, <1>2, <1>3, <1>4, <1>5, <1>6

LEMMA SpawnOneGoesOn ==
  ASSUME Grounded, SpawnOne
  PROVE  GoesOn
<1> DEFINE e == entLength
<1>1. /\ call.to \in ArchetypeIndex /\ call.to < archLength
      /\ call.left \in Nat \ {0}
      /\ entLength + call.left <= MaxEntity + 1
      /\ entLength + 1 \in 1 .. MaxEntity + 1
  BY SpawningSound DEF SpawnOne, Grounded
<1>2. /\ LengthAfter = e + 1 /\ entFree' = << >> /\ entLength' = e + 1 /\ e \in Nat
  BY NextEntityFresh DEF SpawnOne, CreateEntity, Grounded
<1>3. /\ live' = live \cup {e}
      /\ \A f \in EntityIndex \ {e} : archIndex'[f] = archIndex[f]
      /\ UNCHANGED << indexVars, layerVars >>
  BY SpawnOneMoves
<1>4. TableSound'
  <2>1. entCapacity' \in Nat
    BY <1>2 DEF SpawnOne, CreateEntity, GrownCapacity, Grounded, TableSound
  <2>2. ASSUME NEW f \in EntityIndex, f >= e + 1 PROVE f \notin live' /\ archIndex'[f] = 0
    <3>1. f \in Int /\ f # e /\ f >= e  BY <1>2, <2>2 DEF EntityIndex
    <3> QED  BY <1>3, <3>1 DEF Grounded, TableSound
  <2> QED  BY <1>1, <1>2, <2>1, <2>2 DEF TableSound
<1>5. CatalogSound'  BY <1>3, CatalogUnchanged DEF Grounded
<1>6. CallSound'
  <2>1. call \in CallRecord  BY DEF Grounded, CallSound
  <2>2. call.left - 1 \in Nat  BY <1>1
  <2>3. call' = [ call EXCEPT !.left = @ - 1 ]  BY DEF SpawnOne
  <2>4. call' \in CallRecord  BY <2>1, <2>2, <2>3 DEF CallRecord
  <2>5. /\ call'.op = "spawn" /\ call'.stage = "place" /\ call'.to = call.to
        /\ call'.left = call.left - 1
    BY <2>1, <2>3 DEF CallRecord, SpawnOne, Spawning
  <2>6. entLength' + call'.left <= MaxEntity + 1
    BY <1>1, <1>2, <2>5, EntityTableAssumption
  <2>7. UNCHANGED << archLength, layerLength >>
    BY <1>3 DEF indexVars, layerVars
  <2> QED
    BY <1>1, <2>4, <2>5, <2>6, <2>7 DEF Grounded, CallSound
<1> QED  BY <1>4, <1>5, <1>6 DEF GoesOn

(* An array of the table is lost: entities leave LiveIntact, none enters.  *)
LEMMA SpawnCreateFailsLoses ==
  ASSUME Grounded, SpawnCreateFails
  PROVE  /\ SlotShape'
         /\ \A e \in LiveIntact' :
              e \in LiveIntact /\ archIndex'[e] = archIndex[e] /\ archCode'[e] = archCode[e]
         /\ UNCHANGED << indexVars, slotVars, owner, cell, layerVars, registered, live >>
         /\ GoesOn
<1>1. PICK array \in TableArray :
        /\ CreateFails(array)
        /\ archIndex' = IF array = "archetype_index" THEN Lost(archIndex) ELSE archIndex
        /\ archCode' = [ e \in EntityIndex |->
                           IF array = "archetype_code" /\ e < entCapacity
                             THEN JunkCode ELSE archCode[e] ]
  BY DEF SpawnCreateFails
<1>2. /\ Spawning /\ call' = NoCall
      /\ UNCHANGED << indexVars, slotVars, owner, cell, layerVars, registered, live >>
  BY DEF SpawnCreateFails, Return
<1>3. /\ LengthAfter = entLength + 1 /\ entFree' = << >>
      /\ entLength' = entLength + 1 /\ entLength \in Nat
  BY <1>1, NextEntityFresh DEF CreateFails, Grounded
<1>4. entCapacity \in Nat /\ entCapacity <= entLength /\ entCapacity' = entCapacity
  BY <1>1, <1>3 DEF CreateFails, NeedsGrowth, Grounded, TableSound
<1>5. SlotShape  BY DEF Grounded
<1>6. /\ archIndex' \in [ EntityIndex -> ArchetypeIndex \cup {Junk} ]
      /\ \A e \in EntityIndex :
           \/ archIndex'[e] = archIndex[e]
           \/ archIndex'[e] = Junk /\ e < entCapacity
  <2>1. CASE array = "archetype_index"
    BY <1>1, <1>5, <2>1 DEF Lost, SlotShape
  <2>2. CASE array # "archetype_index"
    BY <1>1, <1>5, <2>2 DEF SlotShape
  <2> QED  BY <2>1, <2>2
<1>7. /\ archCode' \in [ EntityIndex -> Code \cup { << 0, 0 >>, JunkCode } ]
      /\ \A e \in EntityIndex : archCode'[e] \in { archCode[e], JunkCode }
  BY <1>1, <1>5 DEF SlotShape
<1>8. SlotShape'
  BY <1>2, <1>5, <1>6, <1>7 DEF SlotShape, indexVars, slotVars
<1>9. ASSUME NEW e \in LiveIntact'
      PROVE  e \in LiveIntact /\ archIndex'[e] = archIndex[e] /\ archCode'[e] = archCode[e]
  <2>1. e \in live /\ e \in EntityIndex  BY <1>2, <1>5 DEF LiveIntact, SlotShape
  <2> QED  BY <1>6, <1>7, <2>1 DEF LiveIntact, Intact
<1>10. TableSound'
  <2>1. entLength + 1 \in 1 .. MaxEntity + 1  BY <1>2, SpawningSound DEF Grounded
  <2>2. ASSUME NEW e \in EntityIndex, e >= entLength + 1
        PROVE  e \notin live /\ archIndex'[e] = 0
    <3>1. e \in Int /\ e >= entLength /\ ~ e < entCapacity
      BY <1>3, <1>4, <2>2 DEF EntityIndex
    <3> QED  BY <1>6, <3>1 DEF Grounded, TableSound
  <2> QED  BY <1>2, <1>3, <1>4, <2>1, <2>2 DEF TableSound
<1>11. CatalogSound'  BY <1>2, CatalogUnchanged DEF Grounded
<1>12. CallSound'  BY <1>2, CallEnds DEF Grounded, layerVars
<1> QED  BY <1>2, <1>8, <1>9, <1>10, <1>11, <1>12 DEF GoesOn

(* The entity is created, not placed, and not live.                        *)
LEMMA SpawnPlaceFailsGoesOn ==
  ASSUME Grounded, SpawnPlaceFails
  PROVE  /\ GoesOn
         /\ UNCHANGED << indexVars, placeVars, cell, layerVars, registered, live, generation >>
         /\ NextEntity = entLength /\ entLength \in EntityIndex
         /\ archIndex[entLength] = 0 /\ entLength \notin live
<1>1. /\ Spawning /\ call' = NoCall
      /\ UNCHANGED << indexVars, placeVars, cell, layerVars, registered, live, generation >>
  BY DEF SpawnPlaceFails, Return, CreateEntity
<1>2. /\ NextEntity = entLength /\ LengthAfter = entLength + 1
      /\ entFree' = << >> /\ entLength' = entLength + 1 /\ entLength \in Nat
  BY NextEntityFresh DEF SpawnPlaceFails, CreateEntity, Grounded
<1>3. entLength \in EntityIndex /\ entLength + 1 \in 1 .. MaxEntity + 1
  BY <1>1, SpawningSound DEF Grounded
<1>4. TableSound'
  <2>1. entCapacity' \in Nat
    BY <1>2 DEF SpawnPlaceFails, CreateEntity, GrownCapacity, Grounded, TableSound
  <2>2. UNCHANGED << archIndex, live >>  BY <1>1 DEF placeVars
  <2>3. \A e \in EntityIndex : e >= entLength + 1 => e >= entLength
    BY <1>2 DEF EntityIndex
  <2> QED  BY <1>2, <1>3, <2>1, <2>2, <2>3 DEF Grounded, TableSound
<1>5. CatalogSound'  BY <1>1, CatalogUnchanged DEF Grounded
<1>6. CallSound'  BY <1>1, CallEnds DEF Grounded, layerVars
<1>7. archIndex[entLength] = 0 /\ entLength \notin live
  BY <1>2, <1>3 DEF Grounded, TableSound
<1> QED  BY <1>1, <1>2, <1>3, <1>4, <1>5, <1>6, <1>7 DEF GoesOn

(* The steps that move an entity, or fail to: the call ends with them.     *)
LEMMA ChangingSound ==
  ASSUME Grounded, Changing
  PROVE  /\ call.entity \in LiveIntact /\ call.entity \in EntityIndex
         /\ call.to \in ArchetypeIndex /\ call.to < archLength
BY DEF Grounded, CallSound, Changing, LiveIntact, SlotShape

LEMMA MovedGoesOn ==
  ASSUME Grounded, AddMove \/ RemoveMove \/ AddMoveFails \/ RemoveMoveFails
  PROVE  /\ GoesOn
         /\ Changing /\ call' = NoCall
         /\ UNCHANGED << tableVars, indexVars, layerVars, registered, live >>
         /\ \A f \in EntityIndex \ {call.entity} :
              archIndex'[f] = archIndex[f] /\ archCode'[f] = archCode[f]
<1> DEFINE e == call.entity
<1>1. /\ Changing /\ call' = NoCall
      /\ SetEntityArchetype(e, call.to) \/ SetEntityArchetypeFails(e, call.to)
      /\ UNCHANGED << tableVars, indexVars, layerVars, registered, live >>
  BY DEF AddMove, RemoveMove, AddMoveFails, RemoveMoveFails, Return
<1>2. \A f \in EntityIndex \ {e} : archIndex'[f] = archIndex[f] /\ archCode'[f] = archCode[f]
  <2>1. CASE SetEntityArchetype(e, call.to)
    BY <2>1 DEF SetEntityArchetype, Grounded, SlotShape
  <2>2. CASE SetEntityArchetypeFails(e, call.to)
    BY <2>2 DEF SetEntityArchetypeFails, placeVars
  <2> QED  BY <1>1, <2>1, <2>2
<1>3. TableSound'
  <2>1. ASSUME NEW f \in EntityIndex, f >= entLength PROVE f \notin live' /\ archIndex'[f] = 0
    <3>1. f \notin live /\ archIndex[f] = 0  BY <2>1 DEF Grounded, TableSound
    <3>2. f # e  BY <1>1, <3>1, ChangingSound DEF LiveIntact
    <3> QED  BY <1>1, <1>2, <3>1, <3>2
  <2> QED  BY <1>1, <2>1 DEF Grounded, TableSound, tableVars
<1>4. CatalogSound'  BY <1>1, CatalogUnchanged DEF Grounded
<1>5. CallSound'  BY <1>1, CallEnds DEF Grounded, layerVars
<1> QED  BY <1>1, <1>2, <1>3, <1>4, <1>5 DEF GoesOn

(* Whatever step is taken, and whatever fails.                             *)
LEMMA CallsGoOn ==
  ASSUME Grounded, [Next]_vars
  PROVE  GoesOn
<1>1. CASE SpawnCall  BY <1>1, SpawnBegins
<1>2. CASE AddCall \/ RemoveCall  BY <1>2, ChangeBegins
<1>3. CASE AsideStep
  <2>1. layerLength \in Nat  BY DEF Grounded, CallSound
  <2> QED  BY <1>3, <2>1, AsideChanges, AsideGoesOn
<1>4. CASE ResolveHit \/ ResolveNew \/ ResolveFails  BY <1>4, ResolveGoesOn
<1>5. CASE SpawnReady \/ SpawnFinish  BY <1>5, SpawnWaits
<1>6. CASE SpawnOne  BY <1>6, SpawnOneGoesOn
<1>7. CASE SpawnCreateFails  BY <1>7, SpawnCreateFailsLoses
<1>8. CASE SpawnPlaceFails  BY <1>8, SpawnPlaceFailsGoesOn
<1>9. CASE AddMove \/ RemoveMove \/ AddMoveFails \/ RemoveMoveFails
  BY <1>9, MovedGoesOn
<1> QED
  BY <1>1, <1>2, <1>3, <1>4, <1>5, <1>6, <1>7, <1>8, <1>9
  DEF Next, Request, Step, AsideStep

-----------------------------------------------------------------------------
(* THE SLOTS IN EACH STEP                                                  *)

(* What SlotInv says of calls does not depend on its slots.                *)
LEMMA SlotInvGrounded == SlotInv => Grounded
BY DEF SlotInv, SlotsSound, Grounded

(* Steps that leave the slots alone.                                       *)
SeatVars == << archLength, perBlock, nextIndex, freeIndexes, placeVars, live >>

LEMMA SeatsUnchanged ==
  ASSUME SlotsSound, UNCHANGED SeatVars
  PROVE  SlotsSound'
<1>1. SlotShape'  BY DEF SlotsSound, SlotShape, SeatVars, placeVars
<1>2. LiveIntact' = LiveIntact  BY DEF LiveIntact, Intact, SeatVars, placeVars
<1>3. archLength <= archLength'  BY DEF SlotsSound, SlotShape, SeatVars
<1> QED  BY <1>1, <1>2, <1>3, WeakenSound DEF SeatVars, placeVars

LEMMA StoreUnchanged ==
  ASSUME SlotsSound, UNCHANGED << storeVars, live >>
  PROVE  SlotsSound'
BY SeatsUnchanged DEF SeatVars, storeVars, indexVars, slotVars, placeVars

(* Steps that leave the archetypes, the slots and the call alone.          *)
LEMMA Aside ==
  ASSUME SlotInv, layerLength' \in Nat, UNCHANGED << tableVars, storeVars, live, call >>
  PROVE  SlotInv'
BY SlotInvGrounded, AsideGoesOn, StoreUnchanged DEF SlotInv, GoesOn

(* A new instance has no entity to place.                                  *)
LEMMA InitSlots == Init => SlotInv
<1> SUFFICES ASSUME Init PROVE SlotInv  OBVIOUS
<1>2. 0 \in EntityIndex /\ 1 \in 1 .. MaxEntity + 1
  BY EntityTableAssumption DEF EntityIndex
<1> USE DEF Init, TableInit, ArchetypesInit, LayersInit
<1>1. LiveIntact = {}  BY DEF LiveIntact
<1>3. 0 \in ArchetypeIndex /\ MaxPerBlock \in Nat
  BY ArchetypesAssumption DEF ArchetypeIndex
<1>4. SlotShape  BY <1>2, <1>3 DEF SlotShape
<1>5. SlotsSound
  BY <1>1, <1>4 DEF SlotsSound, SlotExclusive, BackPointer, FreeSlotsSound
<1>6. CatalogSound  BY DEF CatalogSound
<1>7. TableSound
  <2>1. entCapacity \in Nat  OBVIOUS
  <2> QED  BY <1>2, <2>1 DEF TableSound
<1>8. CallSound
  <2>1. indexed = {} /\ layerLength \in Nat /\ call = NoCall  OBVIOUS
  <2> QED  BY <2>1, CallIdle DEF CallSound, NoCall
<1> QED  BY <1>5, <1>6, <1>7, <1>8 DEF SlotInv

(* An archetype that is appended has no entity yet: what it changes lies   *)
(* beyond the archetypes any entity is in.                                 *)
LEMMA AppendSound ==
  ASSUME SlotInv, ResolveNew \/ ResolveFails
  PROVE  SlotsSound'
<1>1. Appended /\ ResolveUnchanged  BY ResolveAppends, SlotInvGrounded
<1>2. archLength \in ArchetypeIndex /\ archLength \in Nat
  BY <1>1, ArchetypesAssumption DEF SlotInv, SlotsSound, SlotShape, ArchetypeIndex, Appended
<1>3. UNCHANGED << nextIndex, freeIndexes, owner, archIndex, archCode, live >>
  BY <1>1 DEF ResolveUnchanged, slotVars, placeVars
<1>4. /\ perBlock' \in [ ArchetypeIndex -> 0 .. MaxPerBlock ]
      /\ \A b \in ArchetypeIndex : b < archLength => perBlock'[b] = perBlock[b]
      /\ archLength' = archLength + 1
  BY <1>1, <1>2 DEF Appended, SlotInv, SlotsSound, SlotShape
<1>5. SlotShape'  BY <1>2, <1>3, <1>4 DEF SlotInv, SlotsSound, SlotShape
<1>6. LiveIntact' = LiveIntact  BY <1>3 DEF LiveIntact, Intact
<1> QED  BY <1>2, <1>3, <1>4, <1>5, <1>6, WeakenSound DEF SlotInv

(* The entity spawn creates is placed like one that moves.                 *)
LEMMA SpawnOneSound ==
  ASSUME SlotInv, SpawnOne
  PROVE  SlotsSound'
<1> DEFINE e == entLength
           a == call.to
<1>1. /\ a \in ArchetypeIndex /\ a < archLength
      /\ e \in EntityIndex /\ e \notin live /\ archIndex[e] = 0
      /\ SetEntityArchetype(e, a)
      /\ live' = live \cup {e}
      /\ UNCHANGED indexVars
      /\ LiveIntact' \subseteq LiveIntact \cup {e}
  BY SpawnOneMoves, SlotInvGrounded
<1>2. /\ ListsFor(e) \in Lists
      /\ SetSound(LiveIntact)
      /\ ListsSound(ListsFor(e), LiveIntact)
  BY <1>1, EnterSound DEF SlotInv
<1>3. /\ SlotShape /\ UNCHANGED << archLength, perBlock >> /\ live' \subseteq EntityIndex
      /\ e \notin LiveIntact
  BY <1>1 DEF SlotInv, SlotsSound, SlotShape, indexVars, LiveIntact
<1> HIDE DEF e, a
<1> QED  BY <1>1, <1>2, <1>3, MoveSound

(* Entities whose cells are lost are no longer spoken of.                  *)
LEMMA SpawnCreateFailsSound ==
  ASSUME SlotInv, SpawnCreateFails
  PROVE  SlotsSound'
<1>1. /\ SlotShape'
      /\ \A e \in LiveIntact' :
           e \in LiveIntact /\ archIndex'[e] = archIndex[e] /\ archCode'[e] = archCode[e]
      /\ UNCHANGED << archLength, perBlock, nextIndex, freeIndexes, owner >>
  BY SpawnCreateFailsLoses, SlotInvGrounded DEF indexVars, slotVars
<1>2. archLength <= archLength'  BY <1>1 DEF SlotInv, SlotsSound, SlotShape
<1> QED  BY <1>1, <1>2, WeakenSound DEF SlotInv

(* What is left of a free list that could not be extended is junk.         *)
LEMMA UnfreedLists ==
  ASSUME freeIndexes \in Lists, NEW a, freeIndexes' = Unfreed(a)
  PROVE  /\ freeIndexes' \in Lists
         /\ \A b \in ArchetypeIndex :
              \/ freeIndexes'[b] = freeIndexes[b]
              \/ \A k \in DOMAIN freeIndexes'[b] : freeIndexes'[b][k] = Junk
<1> DEFINE F == [ k \in DOMAIN freeIndexes[a] |-> Junk ]
<1>1. freeIndexes' = [ freeIndexes EXCEPT ![a] = F ]
  BY DEF Unfreed
<1>2. ASSUME a \in ArchetypeIndex PROVE F \in Seq(Nat \cup {Junk})
  <2>1. freeIndexes[a] \in Seq(Nat \cup {Junk})  BY <1>2 DEF Lists
  <2>2. /\ Len(freeIndexes[a]) \in Nat
        /\ DOMAIN freeIndexes[a] = 1 .. Len(freeIndexes[a])
    BY <2>1
  <2> QED  BY <2>2
<1>3. \A k \in DOMAIN F : F[k] = Junk  OBVIOUS
<1> HIDE DEF F
<1> QED  BY <1>1, <1>2, <1>3 DEF Lists

(* The slots when the old one cannot be put on the free list; that the     *)
(* block cannot be had is excluded.                                        *)
LEMMA MoveFailsSound ==
  ASSUME SlotInv, BlocksToBeHad, NEW e \in EntityIndex, NEW a,
         SetEntityArchetypeFails(e, a), UNCHANGED << indexVars, live >>
  PROVE  Placed(e) /\ SlotsSound'
<1>1. /\ Placed(e)
      /\ freeIndexes' = Unfreed(archIndex[e])
      /\ UNCHANGED << nextIndex, placeVars >>
  BY DEF SetEntityArchetypeFails, AllocateFails, AllocateMayFail, UnplaceMayFail,
         BlocksToBeHad
<1>2. SlotShape /\ freeIndexes \in Lists  BY DEF SlotInv, SlotsSound, SlotShape, Lists
<1>3. /\ freeIndexes' \in Lists
      /\ \A b \in ArchetypeIndex :
           \/ freeIndexes'[b] = freeIndexes[b]
           \/ \A k \in DOMAIN freeIndexes'[b] : freeIndexes'[b][k] = Junk
  BY <1>1, <1>2, UnfreedLists
<1>4. SlotShape'
  BY <1>1, <1>2, <1>3 DEF SlotShape, Lists, indexVars, placeVars
<1>5. LiveIntact' = LiveIntact  BY <1>1 DEF LiveIntact, Intact, placeVars
<1>6. archLength <= archLength'  BY <1>2 DEF SlotShape, indexVars
<1> QED
  BY <1>1, <1>3, <1>4, <1>5, <1>6, WeakenSound DEF SlotInv, indexVars, placeVars

(* The entity is created, and refused by its layer.                        *)
LEMMA SpawnPlaceFailsSound ==
  ASSUME SlotInv, BlocksToBeHad, SpawnPlaceFails
  PROVE  SlotsSound'
<1>1. /\ UNCHANGED << indexVars, placeVars, live >>
      /\ NextEntity = entLength /\ entLength \in EntityIndex
      /\ archIndex[entLength] = 0
  BY SpawnPlaceFailsGoesOn, SlotInvGrounded
<1>2. ~ SetEntityArchetypeFails(NextEntity, call.to)
  BY <1>1, MoveFailsSound DEF Placed
<1>3. UNCHANGED slotVars  BY <1>2 DEF SpawnPlaceFails
<1> QED  BY <1>1, <1>3, SeatsUnchanged DEF SlotInv, SeatVars, indexVars, slotVars

(* The entity leaves its slot and takes another, or the same one.          *)
LEMMA MovedSound ==
  ASSUME SlotInv, AddMove \/ RemoveMove
  PROVE  SlotsSound'
<1> DEFINE e == call.entity
           S == LiveIntact \ {e}
           a == call.to
<1>1. /\ Changing
      /\ UNCHANGED << indexVars, live >>
      /\ \A f \in EntityIndex \ {e} : archIndex'[f] = archIndex[f] /\ archCode'[f] = archCode[f]
  BY MovedGoesOn, SlotInvGrounded
<1>2. SetEntityArchetype(e, a)  BY DEF AddMove, RemoveMove
<1>3. /\ e \in LiveIntact /\ e \in EntityIndex
      /\ a \in ArchetypeIndex /\ a < archLength
  BY <1>1, ChangingSound, SlotInvGrounded
<1>4. /\ ListsFor(e) \in Lists
      /\ SetSound(S)
      /\ ListsSound(ListsFor(e), S)
  BY <1>3, LeaveSound DEF SlotInv
<1>5. SlotShape  BY DEF SlotInv, SlotsSound
<1>6. LiveIntact' \subseteq S \cup {e} /\ live' \subseteq EntityIndex
  BY <1>1, <1>5 DEF LiveIntact, Intact, SlotShape
<1>7. UNCHANGED << archLength, perBlock >>  BY <1>1 DEF indexVars
<1>8. e \notin S  OBVIOUS
<1> HIDE DEF e, S, a
<1> QED  BY <1>2, <1>3, <1>4, <1>5, <1>6, <1>7, <1>8, MoveSound

(* The entity stays, and a free list is lost.                              *)
LEMMA NotMovedSound ==
  ASSUME SlotInv, BlocksToBeHad, AddMoveFails \/ RemoveMoveFails
  PROVE  SlotsSound'
<1>1. /\ Changing
      /\ UNCHANGED << indexVars, live >>
  BY MovedGoesOn, SlotInvGrounded
<1>2. SetEntityArchetypeFails(call.entity, call.to)
  BY DEF AddMoveFails, RemoveMoveFails
<1>3. call.entity \in EntityIndex  BY <1>1, ChangingSound, SlotInvGrounded
<1> QED  BY <1>1, <1>2, <1>3, MoveFailsSound

-----------------------------------------------------------------------------
(* THEOREMS                                                                *)

(* What one step of the library does to the slots.                         *)
LEMMA SlotsGoOn ==
  ASSUME SlotInv, BlocksToBeHad, [Next]_vars
  PROVE  SlotsSound'
<1>1. SlotsSound /\ layerLength \in Nat  BY DEF SlotInv, CallSound
<1>2. CASE SpawnCall
  BY <1>1, <1>2, StoreUnchanged DEF SpawnCall
<1>3. CASE AddCall \/ RemoveCall
  BY <1>1, <1>3, StoreUnchanged DEF AddCall, RemoveCall, ChangeCall
<1>4. CASE AsideStep
  BY <1>1, <1>4, AsideChanges, StoreUnchanged
<1>5. CASE ResolveHit
  BY <1>1, <1>5, SeatsUnchanged
  DEF ResolveHit, ResolveUnchanged, SeatVars, indexVars, slotVars, placeVars
<1>6. CASE ResolveNew \/ ResolveFails  BY <1>6, AppendSound
<1>7. CASE SpawnReady \/ SpawnFinish
  BY <1>1, <1>7, StoreUnchanged DEF SpawnReady, SpawnFinish
<1>8. CASE SpawnOne  BY <1>8, SpawnOneSound
<1>9. CASE SpawnCreateFails  BY <1>9, SpawnCreateFailsSound
<1>10. CASE SpawnPlaceFails  BY <1>10, SpawnPlaceFailsSound
<1>11. CASE AddMove \/ RemoveMove  BY <1>11, MovedSound
<1>12. CASE AddMoveFails \/ RemoveMoveFails  BY <1>12, NotMovedSound
<1> QED
  BY <1>2, <1>3, <1>4, <1>5, <1>6, <1>7, <1>8, <1>9, <1>10, <1>11, <1>12
  DEF Next, Request, Step, AsideStep

(* One step of the library.                                                *)
LEMMA NextSlots ==
  ASSUME SlotInv, BlocksToBeHad, [Next]_vars
  PROVE  SlotInv'
BY SlotInvGrounded, CallsGoOn, SlotsGoOn DEF SlotInv, GoesOn

(* Every state keeps SlotInv: the slots of all archetypes stay sound       *)
(* through every call, whatever allocation but that of a block fails in    *)
(* the middle of it.                                                       *)
THEOREM SlotsStaySound == ASSUME BlocksToBeHad PROVE Spec => []SlotInv
<1>1. SlotInv /\ [Next]_vars => SlotInv'  BY NextSlots
<1> QED  BY <1>1, InitSlots, PTL DEF Spec

(* No two entities ever share a slot (archetype.c:183-207).                *)
THEOREM EntitiesApart == ASSUME BlocksToBeHad PROVE Spec => []SlotExclusive
<1>1. SlotInv => SlotExclusive  BY DEF SlotInv, SlotsSound
<1> QED  BY <1>1, SlotsStaySound, PTL

(* The hidden index in an entity's slot always names it, so that what a    *)
(* query will report for a row is the entity the row belongs to            *)
(* (archetype.c:207).                                                      *)
THEOREM RowsNameTheirEntity == ASSUME BlocksToBeHad PROVE Spec => []BackPointer
<1>1. SlotInv => BackPointer  BY DEF SlotInv, SlotsSound
<1> QED  BY <1>1, SlotsStaySound, PTL

(* No slot is free and taken, or free twice (archetype.c:119-123,          *)
(* 153-157).                                                               *)
THEOREM FreeSlotsStayFree == ASSUME BlocksToBeHad PROVE Spec => []FreeSlotsSound
<1>1. SlotInv => FreeSlotsSound  BY DEF SlotInv, SlotsSound
<1> QED  BY <1>1, SlotsStaySound, PTL

=============================================================================
