----------------------- MODULE EntityLifecycleProofs -----------------------
(***************************************************************************)
(* The entity table hands out every handle once and no entity twice, for   *)
(* every size of the table, every bound on reuse, and every choice of the  *)
(* reallocations that may fail.                                            *)
(***************************************************************************)
EXTENDS EntityLifecycle, TLAPS

(* Packing a generation and an index into a handle loses neither.          *)
LEMMA PackLemma ==
  ASSUME NEW g \in Nat, NEW i \in EntityIndex
  PROVE  /\ IndexOf(Pack(g, i)) = i
         /\ Pack(g, i) \div Word = g
         /\ Pack(g, i) \in Nat
<1>1. Word \in Nat \ {0} /\ i \in 0 .. Word - 1
  BY EntityTableAssumption DEF Word, EntityIndex
<1> DEFINE w == Word
<1>2. ASSUME NEW v \in Nat \ {0}, i \in 0 .. v - 1
      PROVE  (g * v + i) % v = i /\ (g * v + i) \div v = g /\ g * v + i \in Nat
  BY <1>2
<1>3. (g * w + i) % w = i /\ (g * w + i) \div w = g /\ g * w + i \in Nat
  <2> HIDE DEF w
  <2>1. w \in Nat \ {0} /\ i \in 0 .. w - 1
    BY <1>1 DEF w
  <2>2. QED BY <2>1, <1>2
<1>4. QED BY <1>3 DEF IndexOf, Pack

(* A handle carries an index of the table and a bounded generation.        *)
LEMMA HandleLemma ==
  ASSUME NEW h \in Handle
  PROVE  /\ IndexOf(h) \in EntityIndex \ {0}
         /\ h \div Word \in 0 .. MaxGeneration
         /\ h = Pack(h \div Word, IndexOf(h))
<1>1. PICK g \in 0 .. MaxGeneration, i \in EntityIndex \ {0} : h = Pack(g, i)
  BY DEF Handle
<1>2. IndexOf(h) = i /\ h \div Word = g
  BY <1>1, PackLemma, EntityLifecycleAssumption
<1>3. QED BY <1>1, <1>2

-----------------------------------------------------------------------------
(* The free list under the operations of the table.                        *)

LEMMA PopLemma ==
  ASSUME NEW T, NEW s \in Seq(T), s # << >>
  PROVE  /\ Last(s) \in T
         /\ Len(s) \in DOMAIN s
         /\ Last(s) = s[Len(s)]
         /\ Front(s) \in Seq(T)
         /\ DOMAIN Front(s) = 1 .. Len(s) - 1
         /\ DOMAIN Front(s) \subseteq DOMAIN s
         /\ \A k \in DOMAIN Front(s) : Front(s)[k] = s[k] /\ k # Len(s)
BY DEF Front, Last

LEMMA PushLemma ==
  ASSUME NEW T, NEW s \in Seq(T), NEW x \in T
  PROVE  /\ Append(s, x) \in Seq(T)
         /\ DOMAIN Append(s, x) = DOMAIN s \cup { Len(s) + 1 }
         /\ Append(s, x)[Len(s) + 1] = x
         /\ \A k \in DOMAIN s : Append(s, x)[k] = s[k]
OBVIOUS

LEMMA LoseLemma ==
  ASSUME NEW s \in Seq(EntityIndex \cup {Junk})
  PROVE  LET l == [ k \in DOMAIN s |-> Junk ] IN
         /\ l \in Seq(EntityIndex \cup {Junk})
         /\ DOMAIN l = DOMAIN s
         /\ \A k \in DOMAIN s : l[k] = Junk
OBVIOUS

(* The index create_entity takes is in use by no handle, and the list it   *)
(* leaves is sound and no longer holds it.                                 *)
LEMMA TakeLemma ==
  ASSUME IndInv, Room, NextEntity # Junk, TakeEntity
  PROVE  /\ NextEntity \in EntityIndex \ {0}
         /\ NextEntity < entLength'
         /\ entLength' \in 1 .. MaxEntity + 1
         /\ entLength <= entLength'
         /\ entFree' \in Seq(EntityIndex \cup {Junk})
         /\ \A h \in outstanding : IndexOf(h) # NextEntity
         /\ \A k \in DOMAIN entFree' :
              entFree'[k] # Junk =>
                /\ entFree'[k] \in 1 .. entLength' - 1
                /\ entFree'[k] # NextEntity
                /\ \A h \in outstanding : IndexOf(h) # entFree'[k]
                /\ \A l \in DOMAIN entFree' : entFree'[l] = entFree'[k] => l = k
<1> USE EntityTableAssumption DEF IndInv, TypeOK, TableTypeOK
<1>1. CASE entFree = << >>
  <2>1. NextEntity = entLength /\ entLength' = entLength + 1 /\ entFree' = << >>
    BY <1>1 DEF NextEntity, TakeEntity, LengthAfter
  <2>2. \A h \in outstanding : IndexOf(h) # entLength
    BY DEF HandlesOfEntities
  <2>3. QED BY <2>1, <2>2 DEF Room, EntityIndex
<1>2. CASE entFree # << >>
  <2>1. NextEntity = Last(entFree) /\ entLength' = entLength /\ entFree' = Front(entFree)
    BY <1>2 DEF NextEntity, TakeEntity, LengthAfter
  <2> DEFINE n == Len(entFree)
  <2>2. /\ n \in DOMAIN entFree
        /\ NextEntity = entFree[n]
        /\ entFree' \in Seq(EntityIndex \cup {Junk})
        /\ DOMAIN entFree' \subseteq DOMAIN entFree
        /\ \A k \in DOMAIN entFree' : entFree'[k] = entFree[k] /\ k # n
    BY <1>2, <2>1, PopLemma
  <2> HIDE DEF n
  <2>3. /\ entFree[n] \in 1 .. entLength - 1
        /\ \A h \in outstanding : IndexOf(h) # entFree[n]
        /\ \A l \in DOMAIN entFree : entFree[l] = entFree[n] => l = n
    BY <2>2 DEF FreeListSound
  <2>4. ASSUME NEW k \in DOMAIN entFree', entFree'[k] # Junk
        PROVE  /\ entFree'[k] \in 1 .. entLength' - 1
               /\ entFree'[k] # NextEntity
               /\ \A h \in outstanding : IndexOf(h) # entFree'[k]
               /\ \A l \in DOMAIN entFree' : entFree'[l] = entFree'[k] => l = k
    BY <2>1, <2>2, <2>3, <2>4 DEF FreeListSound
  <2>5. NextEntity \in EntityIndex \ {0} /\ NextEntity < entLength'
    BY <2>1, <2>2, <2>3 DEF EntityIndex
  <2>6. QED BY <2>1, <2>2, <2>3, <2>4, <2>5
<1>3. QED BY <1>1, <1>2

-----------------------------------------------------------------------------
(* Every step keeps the inductive invariant.                               *)

LEMMA InitLemma ==
  ASSUME Init
  PROVE  IndInv
<1> USE EntityTableAssumption, EntityLifecycleAssumption DEF Init, TableInit
<1>1. Word \in Nat \ {0}
  BY DEF Word
<1>2. TypeOK /\ entLength \in 1 .. MaxEntity + 1
  <2>1. entCapacity \in Nat /\ entLength \in Nat /\ entLength \in 1 .. MaxEntity + 1
    OBVIOUS
  <2>2. entFree \in Seq(EntityIndex \cup {Junk})
    OBVIOUS
  <2>3. generation \in [ EntityIndex -> (0 .. Word - 1) \cup {Junk} ]
    BY <1>1
  <2>4. QED BY <2>1, <2>2, <2>3 DEF TypeOK, TableTypeOK
<1>3. HandlesOfEntities
  BY DEF HandlesOfEntities
<1>4. FreeListSound /\ GenerationsAdvance
  BY DEF FreeListSound, GenerationsAdvance
<1>5. QED BY <1>2, <1>3, <1>4 DEF IndInv

(* The handle issued is new, and names an entity no other handle names.    *)
LEMMA IssueLemma ==
  ASSUME IndInv, Issue
  PROVE  /\ IndInv'
         /\ Pack(generation[NextEntity], NextEntity) \in Handle
         /\ Pack(generation[NextEntity], NextEntity) \notin outstanding \cup retired
         /\ \A g \in outstanding :
              IndexOf(g) # IndexOf(Pack(generation[NextEntity], NextEntity))
<1> DEFINE i == NextEntity
           g == generation[i]
           h == Pack(g, i)
<1>1. i # Junk /\ g # Junk /\ Room /\ TakeEntity
  BY DEF Issue, ReadsJunk, CreateEntity
<1>2. /\ i \in EntityIndex \ {0}
      /\ i < entLength'
      /\ entLength' \in 1 .. MaxEntity + 1
      /\ entLength <= entLength'
      /\ entFree' \in Seq(EntityIndex \cup {Junk})
      /\ \A o \in outstanding : IndexOf(o) # i
      /\ \A k \in DOMAIN entFree' :
           entFree'[k] # Junk =>
             /\ entFree'[k] \in 1 .. entLength' - 1
             /\ entFree'[k] # i
             /\ \A o \in outstanding : IndexOf(o) # entFree'[k]
             /\ \A l \in DOMAIN entFree' : entFree'[l] = entFree'[k] => l = k
  BY <1>1, TakeLemma
<1>3. g \in 0 .. MaxGeneration
  BY <1>1, <1>2 DEF IndInv, HandlesOfEntities
<1> HIDE DEF i
<1>4. IndexOf(h) = i /\ h \div Word = g /\ h \in Handle
  BY <1>2, <1>3, PackLemma, EntityLifecycleAssumption DEF Handle
<1>5. h \notin outstanding
  BY <1>2, <1>4
<1>6. h \notin retired
  BY <1>1, <1>3, <1>4, <1>5 DEF IndInv, GenerationsAdvance
<1>7. /\ UNCHANGED << generation, retired, fault >>
      /\ outstanding' = outstanding \cup {h}
      /\ result' = "success"
  BY DEF Issue, CreateEntity, i
<1>8. entCapacity' \in Nat
  BY EntityTableAssumption DEF Issue, CreateEntity, GrownCapacity, LengthAfter, IndInv, TypeOK, TableTypeOK
<1>9. TypeOK'
  BY <1>2, <1>4, <1>7, <1>8 DEF IndInv, TypeOK, TableTypeOK
<1>10. HandlesOfEntities'
  <2> HIDE DEF h
  <2>1. \A o \in outstanding' \cup retired' : IndexOf(o) \in 1 .. entLength' - 1
    BY <1>2, <1>4, <1>7 DEF IndInv, HandlesOfEntities, EntityIndex
  <2>2. outstanding' \cap retired' = {}
    BY <1>6, <1>7 DEF IndInv, HandlesOfEntities
  <2>3. \A o, q \in outstanding' : IndexOf(o) = IndexOf(q) => o = q
    BY <1>2, <1>4, <1>7 DEF IndInv, HandlesOfEntities
  <2>4. \A j \in EntityIndex : generation'[j] \in 0 .. MaxGeneration \cup {Junk}
    BY <1>7 DEF IndInv, HandlesOfEntities
  <2>5. QED BY <2>1, <2>2, <2>3, <2>4 DEF HandlesOfEntities, IndexOf
<1>11. FreeListSound'
  BY <1>2, <1>4, <1>7 DEF FreeListSound, IndexOf
<1>12. GenerationsAdvance'
  BY <1>4, <1>6, <1>7 DEF IndInv, GenerationsAdvance, IndexOf
<1>13. IndInv'
  BY <1>2, <1>9, <1>10, <1>11, <1>12 DEF IndInv
<1>14. QED BY <1>2, <1>4, <1>5, <1>6, <1>13 DEF i

(* A freed index is behind no handle in use, and its generation is ahead   *)
(* of every handle it ever had.                                            *)
LEMMA RetireLemma ==
  ASSUME IndInv, NEW h \in outstanding, Retire(h)
  PROVE  IndInv'
<1> DEFINE i == IndexOf(h)
<1>1. /\ i \in EntityIndex \ {0}
      /\ i \in 1 .. entLength - 1
      /\ h \in Handle /\ h \notin retired
      /\ \A o \in outstanding \ {h} : IndexOf(o) # i
  BY HandleLemma DEF IndInv, TypeOK, HandlesOfEntities
<1>2. generation[i] \in 0 .. MaxGeneration - 1 /\ generation[i] # Junk
  BY DEF Retire, Junk
<1>3. h \div Word = generation[i]
  BY <1>2 DEF IndInv, GenerationsAdvance
<1>4. /\ outstanding' = outstanding \ {h}
      /\ retired' = retired \cup {h}
      /\ UNCHANGED << entLength, entCapacity, fault >>
      /\ result' \in { "success", "out_of_memory" }
  BY DEF Retire, FreeEntity, FreeFails
<1> HIDE DEF i
<1>5. /\ generation' = [ generation EXCEPT ![i] = generation[i] + 1 ]
      /\ generation'[i] \in 1 .. MaxGeneration
      /\ generation' \in [ EntityIndex -> (0 .. Word - 1) \cup {Junk} ]
  <2>1. generation' = [ generation EXCEPT ![i] = (generation[i] + 1) % Word ]
    BY DEF Retire, FreeEntity, FreeFails, i
  <2>2. Word \in Nat \ {0} /\ generation[i] + 1 < Word /\ generation[i] + 1 \in Nat
    BY <1>2, EntityTableAssumption, EntityLifecycleAssumption DEF Word
  <2>3. (generation[i] + 1) % Word = generation[i] + 1
    <3>1. ASSUME NEW w \in Nat \ {0}, NEW n \in Nat, n < w PROVE n % w = n
      BY <3>1
    <3>2. QED BY <2>2, <3>1
  <2>4. generation' = [ generation EXCEPT ![i] = generation[i] + 1 ]
    BY <2>1, <2>3
  <2>5. generation[i] + 1 \in 1 .. MaxGeneration /\ generation[i] + 1 \in 0 .. Word - 1
    BY <1>2, <2>2, EntityLifecycleAssumption
  <2>6. generation \in [ EntityIndex -> (0 .. Word - 1) \cup {Junk} ]
    BY DEF IndInv, TypeOK, TableTypeOK
  <2>7. QED BY <1>1, <2>4, <2>5, <2>6
<1>6. /\ entFree' \in Seq(EntityIndex \cup {Junk})
      /\ \A k \in DOMAIN entFree' :
           entFree'[k] # Junk =>
             /\ entFree'[k] \in 1 .. entLength - 1
             /\ \A o \in outstanding' : IndexOf(o) # entFree'[k]
             /\ \A l \in DOMAIN entFree' : entFree'[l] = entFree'[k] => l = k
  <2>1. CASE FreeEntity(i)
    <3>1. /\ entFree' \in Seq(EntityIndex \cup {Junk})
          /\ DOMAIN entFree' = DOMAIN entFree \cup { Len(entFree) + 1 }
          /\ entFree'[Len(entFree) + 1] = i
          /\ \A k \in DOMAIN entFree : entFree'[k] = entFree[k]
      BY <1>1, <2>1, PushLemma DEF FreeEntity, IndInv, TypeOK, TableTypeOK
    <3>2. \A k \in DOMAIN entFree : entFree[k] # i
      BY <1>1 DEF IndInv, FreeListSound, i, Junk
    <3>3. /\ i \in 1 .. entLength - 1
          /\ \A o \in outstanding' : IndexOf(o) # i
      BY <1>1, <1>4
    <3>4. ASSUME NEW k \in DOMAIN entFree, entFree[k] # Junk
          PROVE  /\ entFree[k] \in 1 .. entLength - 1
                 /\ \A o \in outstanding' : IndexOf(o) # entFree[k]
                 /\ \A l \in DOMAIN entFree : entFree[l] = entFree[k] => l = k
      BY <1>4, <3>4 DEF IndInv, FreeListSound
    <3>5. Len(entFree) + 1 \notin DOMAIN entFree
      BY DEF IndInv, TypeOK, TableTypeOK
    <3>6. QED BY <3>1, <3>2, <3>3, <3>4, <3>5
  <2>2. CASE FreeFails(i)
    BY <2>2, LoseLemma DEF FreeFails, IndInv, TypeOK, TableTypeOK
  <2>3. QED BY <2>1, <2>2 DEF Retire, i
<1>7. TypeOK'
  BY <1>1, <1>4, <1>5, <1>6 DEF IndInv, TypeOK, TableTypeOK
<1>8. HandlesOfEntities'
  <2>1. outstanding' \cap retired' = {}
    BY <1>4 DEF IndInv, HandlesOfEntities
  <2>2. \A o \in outstanding' \cup retired' : IndexOf(o) \in 1 .. entLength' - 1
    BY <1>4 DEF IndInv, HandlesOfEntities
  <2>3. \A o, q \in outstanding' : IndexOf(o) = IndexOf(q) => o = q
    BY <1>4 DEF IndInv, HandlesOfEntities
  <2>4. \A j \in EntityIndex : generation'[j] \in 0 .. MaxGeneration \cup {Junk}
    BY <1>5 DEF IndInv, TypeOK, TableTypeOK, HandlesOfEntities
  <2>5. QED BY <2>1, <2>2, <2>3, <2>4 DEF HandlesOfEntities, IndexOf
<1>9. FreeListSound'
  BY <1>4, <1>6 DEF FreeListSound, IndexOf
<1>10. GenerationsAdvance'
  <2> SUFFICES ASSUME NEW o \in outstanding' \cup retired',
                      generation'[IndexOf(o)] # Junk
               PROVE  IF o \in outstanding' THEN o \div Word = generation'[IndexOf(o)]
                                            ELSE o \div Word < generation'[IndexOf(o)]
    BY DEF GenerationsAdvance, IndexOf
  <2>1. o \in outstanding \cup retired /\ o \in Handle
    BY <1>4 DEF IndInv, TypeOK
  <2>2. IndexOf(o) \in EntityIndex
    BY <2>1, HandleLemma
  <2>3. CASE IndexOf(o) = i
    <3>1. o \in retired' /\ o \notin outstanding'
      BY <1>1, <1>4, <2>3
    <3>2. o \div Word <= generation[i] /\ o \div Word \in Nat
      BY <1>2, <1>3, <1>4, <2>1, <2>3, <3>1, HandleLemma DEF IndInv, GenerationsAdvance
    <3>3. QED BY <1>1, <1>2, <1>5, <2>3, <3>1, <3>2 DEF IndInv, TypeOK, TableTypeOK
  <2>4. CASE IndexOf(o) # i
    <3>1. generation'[IndexOf(o)] = generation[IndexOf(o)] /\ o # h
      BY <1>5, <2>2, <2>4 DEF IndInv, TypeOK, TableTypeOK, i
    <3>2. QED BY <1>4, <2>1, <3>1 DEF IndInv, GenerationsAdvance
  <2>5. QED BY <2>3, <2>4
<1>11. QED BY <1>4, <1>7, <1>8, <1>9, <1>10 DEF IndInv

(* A failed growth loses cells or nothing.                                 *)
LEMMA IssueFailsLemma ==
  ASSUME IndInv, IssueFails
  PROVE  IndInv'
<1>1. PICK array \in TableArray : CreateFails(array)
  BY DEF IssueFails
<1>2. UNCHANGED << outstanding, retired, fault, entCapacity >> /\ result' = "out_of_memory"
  BY <1>1 DEF IssueFails, CreateFails
<1>3. /\ entLength' \in 1 .. MaxEntity + 1
      /\ entLength <= entLength'
      /\ entFree' \in Seq(EntityIndex \cup {Junk})
      /\ \A k \in DOMAIN entFree' :
           entFree'[k] # Junk =>
             /\ entFree'[k] \in 1 .. entLength' - 1
             /\ \A o \in outstanding : IndexOf(o) # entFree'[k]
             /\ \A l \in DOMAIN entFree' : entFree'[l] = entFree'[k] => l = k
  BY <1>1, TakeLemma DEF IssueFails, CreateFails
<1>4. /\ generation' \in [ EntityIndex -> (0 .. Word - 1) \cup {Junk} ]
      /\ \A j \in EntityIndex : generation'[j] = generation[j] \/ generation'[j] = Junk
  BY <1>1 DEF CreateFails, Lost, IndInv, TypeOK, TableTypeOK
<1>5. TypeOK'
  BY <1>2, <1>3, <1>4 DEF IndInv, TypeOK, TableTypeOK
<1>6. HandlesOfEntities'
  <2>1. \A o \in outstanding \cup retired : IndexOf(o) \in 1 .. entLength' - 1
    BY <1>3 DEF IndInv, HandlesOfEntities
  <2>2. \A j \in EntityIndex : generation'[j] \in 0 .. MaxGeneration \cup {Junk}
    BY <1>4 DEF IndInv, HandlesOfEntities
  <2>3. QED BY <1>2, <2>1, <2>2 DEF IndInv, HandlesOfEntities, IndexOf
<1>7. FreeListSound'
  BY <1>2, <1>3 DEF FreeListSound, IndexOf
<1>8. GenerationsAdvance'
  <2>1. \A o \in outstanding \cup retired : IndexOf(o) \in EntityIndex
    BY HandleLemma DEF IndInv, TypeOK
  <2>2. QED BY <1>2, <1>4, <2>1 DEF IndInv, GenerationsAdvance, IndexOf
<1>9. QED BY <1>3, <1>5, <1>6, <1>7, <1>8 DEF IndInv

LEMMA StutterLemma ==
  ASSUME IndInv, UNCHANGED << tableVars, outstanding, retired, result >>,
         fault' \in BOOLEAN
  PROVE  IndInv'
BY DEF tableVars, IndInv, TypeOK, TableTypeOK, HandlesOfEntities, FreeListSound,
       GenerationsAdvance, IndexOf

-----------------------------------------------------------------------------
(* What a step does to the indexes in circulation.                         *)

LEMMA IssueCirculation ==
  ASSUME IndInv, Issue
  PROVE  Circulating' = Circulating \cup entLength .. entLength' - 1
<1> DEFINE i == NextEntity
           h == Pack(generation[i], i)
           InUse == { IndexOf(o) : o \in outstanding }
<1>1. i # Junk /\ TakeEntity /\ Room /\ outstanding' = outstanding \cup {h}
  BY DEF Issue, CreateEntity, ReadsJunk
<1>2. IndexOf(h) = i
  <2>1. i \in EntityIndex \ {0} /\ generation[i] \in 0 .. MaxGeneration
    BY <1>1, TakeLemma DEF Issue, ReadsJunk, IndInv, HandlesOfEntities
  <2>2. QED BY <2>1, PackLemma, EntityLifecycleAssumption
<1> HIDE DEF h
<1>3. { IndexOf(o) : o \in outstanding' } = InUse \cup {i}
  BY <1>1, <1>2
<1>4. entFree \in Seq(EntityIndex \cup {Junk}) /\ entLength \in Nat
  BY DEF IndInv, TypeOK, TableTypeOK
<1>5. CASE entFree = << >>
  <2>1. i = entLength /\ entLength' = entLength + 1 /\ entFree' = << >>
    BY <1>1, <1>5 DEF NextEntity, TakeEntity, LengthAfter
  <2>2. entLength .. entLength' - 1 = {i}
    BY <2>1, <1>4
  <2>3. { entFree'[k] : k \in DOMAIN entFree' } = {} /\ { entFree[k] : k \in DOMAIN entFree } = {}
    BY <2>1, <1>5
  <2>4. QED BY <1>3, <2>2, <2>3 DEF Circulating, IndexOf
<1>6. CASE entFree # << >>
  <2>1. i = Last(entFree) /\ entLength' = entLength /\ entFree' = Front(entFree)
    BY <1>1, <1>6 DEF NextEntity, TakeEntity, LengthAfter
  <2>2. entLength .. entLength' - 1 = {}
    BY <2>1, <1>4
  <2>3. /\ i = entFree[Len(entFree)]
        /\ Len(entFree) \in DOMAIN entFree
        /\ DOMAIN entFree' = 1 .. Len(entFree) - 1
        /\ \A k \in DOMAIN entFree' : entFree'[k] = entFree[k]
    BY <1>4, <1>6, <2>1, PopLemma
  <2>4. DOMAIN entFree = DOMAIN entFree' \cup { Len(entFree) }
    <3>1. DOMAIN entFree = 1 .. Len(entFree) /\ Len(entFree) \in Nat \ {0}
      BY <1>4, <1>6
    <3>2. QED BY <2>3, <3>1
  <2> HIDE DEF i
  <2>5. { entFree[k] : k \in DOMAIN entFree } = { entFree'[k] : k \in DOMAIN entFree' } \cup {i}
    BY <2>3, <2>4
  <2>6. QED BY <1>3, <2>2, <2>5 DEF Circulating, IndexOf
<1>7. QED BY <1>5, <1>6

LEMMA RetireCirculation ==
  ASSUME IndInv, NEW h \in outstanding, Retire(h), result' = "success"
  PROVE  Circulating' = Circulating \cup entLength .. entLength' - 1
<1> DEFINE i == IndexOf(h)
<1>1. FreeEntity(i) /\ outstanding' = outstanding \ {h}
  BY DEF Retire
<1>2. entFree \in Seq(EntityIndex \cup {Junk}) /\ entLength \in Nat /\ i \in EntityIndex
  BY HandleLemma DEF IndInv, TypeOK, TableTypeOK
<1>3. entLength' = entLength /\ entLength .. entLength' - 1 = {}
  BY <1>1, <1>2 DEF FreeEntity
<1>4. /\ DOMAIN entFree' = DOMAIN entFree \cup { Len(entFree) + 1 }
      /\ entFree'[Len(entFree) + 1] = i
      /\ \A k \in DOMAIN entFree : entFree'[k] = entFree[k]
  BY <1>1, <1>2, PushLemma DEF FreeEntity
<1> HIDE DEF i
<1>5. { entFree'[k] : k \in DOMAIN entFree' } = { entFree[k] : k \in DOMAIN entFree } \cup {i}
  BY <1>4
<1>6. { IndexOf(o) : o \in outstanding } = { IndexOf(o) : o \in outstanding' } \cup {i}
  BY <1>1 DEF i
<1>7. QED BY <1>3, <1>5, <1>6 DEF Circulating, IndexOf

-----------------------------------------------------------------------------
(* The inductive invariant, from its initial states through every step.    *)
THEOREM Invariance == Spec => []IndInv
<1>1. Init => IndInv
  BY InitLemma
<1>2. IndInv /\ [Next]_vars => IndInv'
  <2> SUFFICES ASSUME IndInv, [Next]_vars PROVE IndInv'
    OBVIOUS
  <2>1. CASE Issue
    BY <2>1, IssueLemma
  <2>2. CASE IssueFails
    BY <2>2, IssueFailsLemma
  <2>3. CASE IssueFaults
    BY <2>3, StutterLemma DEF IssueFaults
  <2>4. ASSUME NEW h \in outstanding, Retire(h) PROVE IndInv'
    BY <2>4, RetireLemma
  <2>5. ASSUME NEW h \in outstanding, RetireFaults(h) PROVE IndInv'
    BY <2>5, StutterLemma DEF RetireFaults
  <2>6. CASE UNCHANGED vars
    BY <2>6, StutterLemma DEF vars, IndInv, TypeOK
  <2>7. QED BY <2>1, <2>2, <2>3, <2>4, <2>5, <2>6 DEF Next
<1>3. QED BY <1>1, <1>2, PTL DEF Spec

(* The table keeps its shape (local.h:79-87).                              *)
THEOREM TypeCorrect == Spec => []TypeOK
<1>1. IndInv => TypeOK
  BY DEF IndInv
<1>2. QED BY Invariance, <1>1, PTL

(* No index waits twice on the free list of entity.c, or waits there while *)
(* a handle in use names it.                                               *)
THEOREM FreeListCorrect == Spec => []FreeListSound
<1>1. IndInv => FreeListSound
  BY DEF IndInv
<1>2. QED BY Invariance, <1>1, PTL

(* The generation entity.c stores for an index is that of the handle in    *)
(* use and ahead of those retired.                                         *)
THEOREM GenerationsCorrect == Spec => []GenerationsAdvance
<1>1. IndInv => GenerationsAdvance
  BY DEF IndInv
<1>2. QED BY Invariance, <1>1, PTL

(* create_entity and free_entity implement the abstract handle table: no   *)
(* handle is issued twice and no two in use name one entity.               *)
THEOREM Implementation == Spec => HandlesImplemented
<1>1. Init => Abstract!Init
  BY DEF Init, Abstract!Init
<1>2. IndInv /\ [Next]_vars => [Abstract!Next]_(Abstract!vars)
  <2> SUFFICES ASSUME IndInv, [Next]_vars PROVE [Abstract!Next]_(Abstract!vars)
    OBVIOUS
  <2>1. CASE Issue
    <3> DEFINE h == Pack(generation[NextEntity], NextEntity)
    <3>1. h \in Handle \ (outstanding \cup retired)
      BY <2>1, IssueLemma
    <3>2. \A g \in outstanding : IndexOf(g) # IndexOf(h)
      BY <2>1, IssueLemma
    <3>3. issued' = issued + 1 /\ outstanding' = outstanding \cup {h} /\ UNCHANGED retired
      BY <2>1 DEF Issue
    <3> HIDE DEF h
    <3>4. Abstract!Issue
      BY <3>1, <3>2, <3>3 DEF Abstract!Issue
    <3>5. QED BY <3>4 DEF Abstract!Next
  <2>2. ASSUME NEW h \in outstanding, Retire(h) PROVE Abstract!Next
    BY <2>2 DEF Retire, Abstract!Release, Abstract!Next
  <2>3. CASE UNCHANGED << issued, outstanding, retired >>
    BY <2>3 DEF Abstract!vars
  <2>4. QED
    BY <2>1, <2>2, <2>3 DEF Next, IssueFails, IssueFaults, RetireFaults, vars
<1>3. QED BY <1>1, <1>2, Invariance, PTL DEF Spec, HandlesImplemented, Abstract!Spec

(* create_entity and free_entity lose an index only when they report a     *)
(* failure.                                                                *)
THEOREM NothingLost == Spec => NoIndexLost
<1> DEFINE Kept == result' = "success" =>
                     Circulating' = Circulating \cup entLength .. entLength' - 1
<1>1. IndInv /\ [Next]_vars => [Kept]_vars
  <2> SUFFICES ASSUME IndInv, [Next]_vars PROVE [Kept]_vars
    OBVIOUS
  <2>1. CASE Issue
    BY <2>1, IssueCirculation
  <2>2. CASE IssueFails
    BY <2>2 DEF IssueFails
  <2>3. ASSUME NEW h \in outstanding, Retire(h) PROVE Kept
    BY <2>3, RetireCirculation
  <2>4. CASE UNCHANGED << tableVars, outstanding >>
    <3>1. entLength .. entLength' - 1 = {} /\ Circulating' = Circulating
      BY <2>4 DEF Circulating, tableVars, IndexOf, IndInv, TypeOK, TableTypeOK
    <3>2. QED BY <3>1
  <2>5. QED
    BY <2>1, <2>2, <2>3, <2>4 DEF Next, IssueFaults, RetireFaults, vars
<1>2. QED BY <1>1, Invariance, PTL DEF Spec, NoIndexLost

=============================================================================
