---------------------------- MODULE MemoryProofs ----------------------------
(***************************************************************************)
(* That the library tells the allocator of each buffer the size it was     *)
(* given, uses no array beyond it, and loses no memory but where it is     *)
(* known to: for every number of components, entities, archetypes, layers  *)
(* and slots, every size of blocks, and whatever is refused.               *)
(*                                                                         *)
(* The inductive invariant is MemoryInv: the books agree for every buffer, *)
(* also for those that nothing leads to yet, but for what a refusal left   *)
(* unsure, and the lengths of the arrays are within their capacities       *)
(* (Held).  AnswersGive is the heart: when each request tells the size     *)
(* that the buffer was given, and each buffer whose size is to change is   *)
(* asked for, the books agree afterwards.  CallKeeps is that for a call    *)
(* that comes to its end, ShortKeeps for one in which a request is         *)
(* refused.  What a loop of the library leaves behind is found by          *)
(* induction on its steps (Repeated, Reached).                             *)
(***************************************************************************)
EXTENDS Memory, Numbers, FiniteSetTheorems, SequenceTheorems

-----------------------------------------------------------------------------
(* THE ALLOCATOR                                                           *)

(* Each buffer is a kind with two numbers, the second only of a block.     *)
LEMMA BufferShape ==
  /\ \A b \in Buffer : b = << b[1], b[2], b[3] >>
  /\ \A kind, n, j : << kind, n, j >> \in Buffer <=>
       \/ kind \in Single /\ n = 0 /\ j = 0
       \/ kind = "layer.entities" /\ n \in 1 .. MaxLayers /\ j = 0
       \/ kind = "required" /\ n \in 1 .. NumComponents /\ j = 0
       \/ kind \in SetArrays \cup { "free", "blocks" } /\ n \in 1 .. MaxArchetypes /\ j = 0
       \/ kind = "block" /\ n \in 1 .. MaxArchetypes /\ j \in 1 .. MaxSlots
BY DEF Buffer

(* What the kind of a buffer says of its numbers.                          *)
LEMMA Shapes ==
  \A b \in Buffer :
    /\ b[1] \in Single => b = << b[1], 0, 0 >>
    /\ b[1] = "layer.entities" => b = << b[1], b[2], 0 >> /\ b[2] \in 1 .. MaxLayers
    /\ b[1] = "required" => b = << b[1], b[2], 0 >> /\ b[2] \in 1 .. NumComponents
    /\ b[1] \in SetArrays \cup { "free", "blocks" } =>
         b = << b[1], b[2], 0 >> /\ b[2] \in 1 .. MaxArchetypes
    /\ b[1] = "block" =>
         b = << b[1], b[2], b[3] >> /\ b[2] \in 1 .. MaxArchetypes /\ b[3] \in 1 .. MaxSlots
<1> SUFFICES ASSUME NEW b \in Buffer
             PROVE  /\ b[1] \in Single => b = << b[1], 0, 0 >>
                    /\ b[1] = "layer.entities" =>
                         b = << b[1], b[2], 0 >> /\ b[2] \in 1 .. MaxLayers
                    /\ b[1] = "required" =>
                         b = << b[1], b[2], 0 >> /\ b[2] \in 1 .. NumComponents
                    /\ b[1] \in SetArrays \cup { "free", "blocks" } =>
                         b = << b[1], b[2], 0 >> /\ b[2] \in 1 .. MaxArchetypes
                    /\ b[1] = "block" =>
                         /\ b = << b[1], b[2], b[3] >> /\ b[2] \in 1 .. MaxArchetypes
                         /\ b[3] \in 1 .. MaxSlots
  OBVIOUS
<1>1. PICK kind, n, j : kind = b[1] /\ n = b[2] /\ j = b[3] /\ b = << kind, n, j >>
  BY BufferShape
<1>2. \/ kind \in Single /\ n = 0 /\ j = 0
      \/ kind = "layer.entities" /\ n \in 1 .. MaxLayers /\ j = 0
      \/ kind = "required" /\ n \in 1 .. NumComponents /\ j = 0
      \/ kind \in SetArrays \cup { "free", "blocks" } /\ n \in 1 .. MaxArchetypes /\ j = 0
      \/ kind = "block" /\ n \in 1 .. MaxArchetypes /\ j \in 1 .. MaxSlots
  BY <1>1, BufferShape
<1>3. /\ "layer.entities" \notin Single /\ "required" \notin Single /\ "block" \notin Single
      /\ \A k \in SetArrays \cup { "free", "blocks" } : k \notin Single
      /\ SetArrays = { "set", "offset_size" }
  BY DEF Single, SetArrays, EntityArrays, LayerArrays, ArchetypeArrays, QueryArrays, QueryLists
<1> QED  BY <1>1, <1>2, <1>3

(* When its size is told right, a buffer is given what is asked for, if it *)
(* is not what it was given before.                                        *)
LEMMA AnswerGives ==
  ASSUME given \in [ Buffer -> Nat ], NEW asks, Answered(asks), NEW b \in Buffer, NEW w \in Nat,
         \A ask \in asks : ask.buffer = b => /\ ask.told \in Nat /\ ask.size = w
                                             /\ ask.told = 0 => given[b] = 0,
         w = given[b] \/ \E ask \in asks : ask.buffer = b
  PROVE  given'[b] = w
<1> DEFINE heard == { ask \in asks : Reaches(ask) }
           SizeOf(c) == (CHOOSE ask \in heard : ask.buffer = c).size
<1>1. given' = [ c \in Buffer |->
                   IF \E ask \in heard : ask.buffer = c THEN SizeOf(c) ELSE given[c] ]
  BY DEF Answered
<1>2. CASE \E ask \in heard : ask.buffer = b
  <2>1. (CHOOSE ask \in heard : ask.buffer = b) \in heard
        /\ (CHOOSE ask \in heard : ask.buffer = b).buffer = b
    BY <1>2
  <2>2. SizeOf(b) = w  BY <2>1
  <2> HIDE DEF SizeOf, heard
  <2> QED  BY <1>1, <1>2, <2>2
<1>3. CASE ~ \E ask \in heard : ask.buffer = b
  <2>1. given'[b] = given[b]
    <3> HIDE DEF SizeOf, heard
    <3> QED  BY <1>1, <1>3
  <2>2. ASSUME NEW ask \in asks, ask.buffer = b PROVE given[b] = w
    <3>1. ~ Reaches(ask)  BY <1>3, <2>2
    <3>2. ask.size = w /\ given[b] \in Nat /\ ask.told \in Nat /\ (ask.told = 0 => given[b] = 0)
      BY <2>2
    <3>3. ~ w > 0 /\ ~ (given[b] > 0 /\ ask.told > 0)
      BY <2>2, <3>1, <3>2 DEF Reaches
    <3> QED  BY <3>2, <3>3
  <2> QED  BY <2>1, <2>2
<1> QED  BY <1>2, <1>3

(* What is given is a size, and the allocator was told a wrong one only of *)
(* what reached it.                                                        *)
LEMMA AnswersTyped ==
  ASSUME given \in [ Buffer -> Nat ], NEW asks, Answered(asks), \A ask \in asks : ask.size \in Nat
  PROVE  /\ given' \in [ Buffer -> Nat ] /\ mistold \subseteq mistold'
         /\ \A b \in mistold' :
              \/ b \in mistold
              \/ \E ask \in asks : ask.buffer = b /\ Reaches(ask) /\ ask.told # given[b]
<1> DEFINE heard == { ask \in asks : Reaches(ask) }
           SizeOf(c) == (CHOOSE ask \in heard : ask.buffer = c).size
<1>1. given' = [ c \in Buffer |->
                   IF \E ask \in heard : ask.buffer = c THEN SizeOf(c) ELSE given[c] ]
  BY DEF Answered
<1>2. ASSUME NEW b \in Buffer, \E ask \in heard : ask.buffer = b PROVE SizeOf(b) \in Nat
  <2>1. (CHOOSE ask \in heard : ask.buffer = b) \in heard  BY <1>2
  <2> QED  BY <2>1
<1>3. given' \in [ Buffer -> Nat ]
  <2> HIDE DEF SizeOf, heard
  <2> QED  BY <1>1, <1>2
<1>4. mistold' = mistold \cup { ask.buffer : ask \in { a \in heard : a.told # given[a.buffer] } }
  BY DEF Answered
<1> QED  BY <1>3, <1>4

(* So it is with all of them, if W is what is asked for.                   *)
LEMMA AnswersGive ==
  ASSUME given \in [ Buffer -> Nat ], NEW W \in [ Buffer -> Nat ], NEW asks, Answered(asks),
         \A ask \in asks : /\ ask.buffer \in Buffer /\ ask.told \in Nat
                           /\ ask.size = W[ask.buffer]
                           /\ ask.told = 0 => given[ask.buffer] = 0,
         \A b \in Buffer : W[b] = given[b] \/ \E ask \in asks : ask.buffer = b
  PROVE  given' = W
<1>1. ASSUME NEW b \in Buffer PROVE given'[b] = W[b]  BY AnswerGives
<1>2. \A ask \in asks : ask.size \in Nat  OBVIOUS
<1>3. given' \in [ Buffer -> Nat ]  BY <1>2, AnswersTyped
<1> QED  BY <1>1, <1>3

(* The sizes told and asked for are those that the library believes, and   *)
(* where they are no longer what was given there is a request.             *)
Right(ask) ==
  /\ ask.buffer \in Buffer
  /\ ask.told = given[ask.buffer]
  /\ ask.size = Believed(ask.buffer[1], ask.buffer[2], ask.buffer[3])'

Settled(b, asks) ==
  \/ Believed(b[1], b[2], b[3])' = given[b]
  \/ \E ask \in asks : ask.buffer = b

(* While all is well the books agree for every buffer.                     *)
BooksRight == \A b \in Buffer : given[b] = Believed(b[1], b[2], b[3])

(* A call whose requests are right and settle every buffer keeps the books.*)
LEMMA BooksKept ==
  ASSUME given \in [ Buffer -> Nat ], NEW asks, Answered(asks),
         \A ask \in asks : Right(ask), \A b \in Buffer : Settled(b, asks),
         \A b \in Buffer : Believed(b[1], b[2], b[3])' \in Nat
  PROVE  BooksRight' /\ UNCHANGED mistold /\ given' \in [ Buffer -> Nat ]
<1>1. PICK W : W = [ b \in Buffer |-> Believed(b[1], b[2], b[3])' ]  OBVIOUS
<1>2. W \in [ Buffer -> Nat ] /\ \A b \in Buffer : W[b] = Believed(b[1], b[2], b[3])'
  BY <1>1
<1>3. \A ask \in asks : /\ ask.buffer \in Buffer /\ ask.told \in Nat
                        /\ ask.size = W[ask.buffer] /\ ask.told = given[ask.buffer]
  BY <1>2 DEF Right
<1>4. \A b \in Buffer : W[b] = given[b] \/ \E ask \in asks : ask.buffer = b
  BY <1>2 DEF Settled
<1>5. given' = W  BY <1>2, <1>3, <1>4, AnswersGive
<1>6. \A ask \in asks : ask.size \in Nat  BY <1>2, <1>3
<1>7. mistold \subseteq mistold'  BY <1>6, AnswersTyped
<1>8. \A b \in mistold' : b \in mistold  BY <1>3, <1>6, AnswersTyped
<1> QED  BY <1>2, <1>5, <1>7, <1>8 DEF BooksRight

(* The requests for buffers that grow or are freed together.               *)
LEMMA RenewedRight ==
  ASSUME NEW kinds, NEW n, NEW told, NEW size,
         \A kind \in kinds : /\ << kind, n, 0 >> \in Buffer
                             /\ given[<< kind, n, 0 >>] = told
                             /\ Believed(kind, n, 0)' = size
  PROVE  /\ \A ask \in Renewed(kinds, n, told, size) : Right(ask)
         /\ \A kind \in kinds : Settled(<< kind, n, 0 >>, Renewed(kinds, n, told, size))
<1>1. CASE told = size  BY <1>1 DEF Renewed, Settled
<1>2. CASE told # size
  <2>1. Renewed(kinds, n, told, size) = { Asked(<< kind, n, 0 >>, told, size) : kind \in kinds }
    BY <1>2 DEF Renewed
  <2>2. ASSUME NEW kind \in kinds
        PROVE  /\ Right(Asked(<< kind, n, 0 >>, told, size))
               /\ Asked(<< kind, n, 0 >>, told, size).buffer = << kind, n, 0 >>
    BY DEF Right, Asked
  <2> QED  BY <2>1, <2>2 DEF Settled
<1> QED  BY <1>1, <1>2

LEMMA SettledBy ==
  ASSUME NEW b, NEW some, NEW asks, Settled(b, some), some \subseteq asks
  PROVE  Settled(b, asks)
BY DEF Settled

(* A buffer is settled without the requests for another.                   *)
LEMMA SettledWithout ==
  ASSUME NEW all, NEW r, NEW b, b # r, Settled(b, all), NEW asks,
         \A ask \in all : ask.buffer # r => ask \in asks
  PROVE  Settled(b, asks)
BY DEF Settled

-----------------------------------------------------------------------------
(* LOOPS                                                                   *)

(* What each step keeps is true after any number of them.                  *)
LEMMA EntitiesKeep ==
  ASSUME NEW S, NEW start \in S, NEW n \in Nat, \A x \in S : WithEntity(x) \in S
  PROVE  Iterate(WithEntity, start, n) \in S
<1>1. \E f : f = [ i \in 0 .. n |-> IF i = 0 THEN start ELSE WithEntity(f[i - 1]) ]
  <2>1. PICK step : step = [ x \in S |-> WithEntity(x) ]  OBVIOUS
  <2>2. step \in [ S -> S ]  BY <2>1
  <2>3. PICK f \in [ 0 .. n -> S ] : Follows(f, start, step, n)  BY <2>2, Repeated
  <2>4. \A i \in 1 .. n : f[i - 1] \in S /\ f[i] = WithEntity(f[i - 1])
    BY <2>1, <2>3 DEF Follows
  <2>5. f = [ i \in 0 .. n |-> IF i = 0 THEN start ELSE WithEntity(f[i - 1]) ]
    BY <2>3, <2>4 DEF Follows
  <2> QED  BY <2>5
<1>2. PICK f : /\ f = [ i \in 0 .. n |-> IF i = 0 THEN start ELSE WithEntity(f[i - 1]) ]
               /\ Iterate(WithEntity, start, n) = f[n]
  BY <1>1 DEF Iterate
<1>3. f[0] \in S  BY <1>2
<1>4. ASSUME NEW i \in 1 .. n, f[i - 1] \in S PROVE f[i] \in S  BY <1>2, <1>4
<1> QED  BY <1>2, <1>3, <1>4, Reached

LEMMA SlotsKeep ==
  ASSUME NEW S, NEW start \in S, NEW n \in Nat, \A x \in S : WithSlotTaken(x) \in S
  PROVE  Iterate(WithSlotTaken, start, n) \in S
<1>1. \E f : f = [ i \in 0 .. n |-> IF i = 0 THEN start ELSE WithSlotTaken(f[i - 1]) ]
  <2>1. PICK step : step = [ x \in S |-> WithSlotTaken(x) ]  OBVIOUS
  <2>2. step \in [ S -> S ]  BY <2>1
  <2>3. PICK f \in [ 0 .. n -> S ] : Follows(f, start, step, n)  BY <2>2, Repeated
  <2>4. \A i \in 1 .. n : f[i - 1] \in S /\ f[i] = WithSlotTaken(f[i - 1])
    BY <2>1, <2>3 DEF Follows
  <2>5. f = [ i \in 0 .. n |-> IF i = 0 THEN start ELSE WithSlotTaken(f[i - 1]) ]
    BY <2>3, <2>4 DEF Follows
  <2> QED  BY <2>5
<1>2. PICK f : /\ f = [ i \in 0 .. n |-> IF i = 0 THEN start ELSE WithSlotTaken(f[i - 1]) ]
               /\ Iterate(WithSlotTaken, start, n) = f[n]
  BY <1>1 DEF Iterate
<1>3. f[0] \in S  BY <1>2
<1>4. ASSUME NEW i \in 1 .. n, f[i - 1] \in S PROVE f[i] \in S  BY <1>2, <1>4
<1> QED  BY <1>2, <1>3, <1>4, Reached

(* U says what may be there after how many steps.                          *)
LEMMA TestsKeep ==
  ASSUME NEW S, NEW start \in S, NEW n \in Nat, \A x \in S : WithTested(x) \in S,
         NEW U, << 0, start >> \in U,
         \A i \in 1 .. n : \A x \in S : << i - 1, x >> \in U => << i, WithTested(x) >> \in U
  PROVE  << n, Iterate(WithTested, start, n) >> \in U
<1>1. PICK step : step = [ x \in S |-> WithTested(x) ]  OBVIOUS
<1>2. step \in [ S -> S ]  BY <1>1
<1>3. PICK f \in [ 0 .. n -> S ] : Follows(f, start, step, n)  BY <1>2, Repeated
<1>4. \A i \in 1 .. n : f[i - 1] \in S /\ f[i] = WithTested(f[i - 1])
  BY <1>1, <1>3 DEF Follows
<1>5. f = [ i \in 0 .. n |-> IF i = 0 THEN start ELSE WithTested(f[i - 1]) ]
  BY <1>3, <1>4 DEF Follows
<1>6. PICK h : /\ h = [ i \in 0 .. n |-> IF i = 0 THEN start ELSE WithTested(h[i - 1]) ]
               /\ Iterate(WithTested, start, n) = h[n]
  BY <1>5 DEF Iterate
<1>7. PICK g : g = [ i \in 0 .. n |-> << i, h[i] >> ]  OBVIOUS
<1>8. \A i \in 0 .. n : h[i] \in S
  <2>1. ASSUME NEW m \in 0 .. n PROVE h[m] \in S
    <3>1. h[0] \in S  BY <1>6
    <3>2. ASSUME NEW i \in 1 .. m, h[i - 1] \in S PROVE h[i] \in S
      <4>1. i \in 0 .. n /\ i # 0  OBVIOUS
      <4> QED  BY <1>6, <3>2, <4>1
    <3> QED  BY <3>1, <3>2, Reached
  <2> QED  BY <2>1
<1>9. g[0] \in U  BY <1>6, <1>7
<1>10. ASSUME NEW i \in 1 .. n, g[i - 1] \in U PROVE g[i] \in U
  <2>1. i \in 0 .. n /\ i # 0 /\ i - 1 \in 0 .. n  OBVIOUS
  <2>2. g[i - 1] = << i - 1, h[i - 1] >> /\ g[i] = << i, h[i] >>
        /\ h[i - 1] \in S /\ h[i] = WithTested(h[i - 1])
    BY <1>6, <1>7, <1>8, <2>1
  <2> QED  BY <1>10, <2>2
<1>11. g[n] \in U  BY <1>9, <1>10, Reached
<1> QED  BY <1>6, <1>7, <1>11

-----------------------------------------------------------------------------
(* WHAT IS TRUE IN EVERY STATE                                             *)

EntitiesFit(table) ==
  table.length <= table.capacity /\ table.free <= table.freeCapacity

(* An archetype has as many blocks as its slots need.                      *)
ArchetypeFits(arch) ==
  /\ arch.free <= arch.freeCapacity
  /\ arch.next <= arch.blocks * PerBlock
  /\ (arch.blocks - 1) * PerBlock < arch.next \/ arch.blocks = 0

(* Before the second archetype is on the list it is as long as it can be.  *)
QueryFits(q) ==
  /\ q.length <= q.capacity
  /\ q.length <= 1 => q.capacity = q.length
  /\ q.length <= q.tested /\ q.tested <= Len(archetype.data)

Held ==
  /\ stage = "open" => EntitiesFit(entity)
  /\ Len(layer.entities) <= layer.capacity /\ Len(layer.entities) <= MaxLayers
  /\ Len(component.required) <= component.capacity
  /\ Len(component.required) <= NumComponents
  /\ Len(archetype.data) <= archetype.capacity /\ Len(archetype.data) <= MaxArchetypes
  /\ \A a \in DOMAIN archetype.data :
       ArchetypeFits(archetype.data[a]) /\ archetype.data[a].next <= MaxSlots
  /\ QueryFits(query)
  /\ ~ QueryOpen => query = NoQuery

(* Before there is an instance there is nothing.                           *)
Blank ==
  /\ entity = NoEntities
  /\ layer = [ capacity |-> 0, entities |-> << >> ]
  /\ component = [ capacity |-> 0, required |-> << >> ]
  /\ archetype = [ capacity |-> 0, data |-> << >> ]
  /\ query = NoQuery
  /\ given = [ b \in Buffer |-> 0 ]
  /\ lost = {} /\ mistold = {} /\ refused = {}

(* The pointer to what was refused is NULL, and a list of a query that     *)
(* could not grow has archetypes left to be tested.                        *)
CutOff ==
  \A b \in refused :
    /\ given[b] = 0
    /\ b[1] \in QueryLists /\ QueryOpen => query.length < Len(archetype.data)

MemoryInv ==
  /\ TypeOK /\ Held /\ BooksAgree /\ OnlyKnownLosses
  /\ stage \in { "none", "open" } => refused = {}
  /\ stage = "short" => CutOff
  /\ stage = "none" => Blank

FieldsTyped ==
  /\ entity \in [ length : Nat, capacity : Nat, free : Nat, freeCapacity : Nat ]
  /\ layer \in [ capacity : Nat, entities : Seq(Nat) ]
  /\ component \in [ capacity : Nat, required : Seq(Nat) ]
  /\ archetype \in [ capacity : Nat, data : Seq(ArchetypeRecord) ]
  /\ query \in [ components : SUBSET Component, tested : Nat, length : Nat, capacity : Nat ]

(* There is nothing unsure before a refusal.                               *)
LEMMA OpenBooks ==
  ASSUME MemoryInv, stage = "open"
  PROVE  BooksRight /\ refused = {}
<1>1. refused = {}  BY DEF MemoryInv
<1>2. Unsure = {}  BY <1>1 DEF Unsure
<1> QED  BY <1>1, <1>2 DEF MemoryInv, BooksAgree, BooksRight

LEMMA OpenAgree ==
  ASSUME BooksRight'
  PROVE  BooksAgree'
BY DEF BooksRight, BooksAgree

LEMMA SetsCounted ==
  ASSUME NEW cs \in SUBSET Component
  PROVE  /\ IsFiniteSet(cs) /\ Cardinality(cs) \in Nat
         /\ cs # {} <=> Cardinality(cs) > 0
<1>1. IsFiniteSet(Component)  BY FS_Interval, MemoryAssumption DEF Component
<1>2. IsFiniteSet(cs)  BY <1>1, FS_Subset
<1>3. Cardinality(cs) \in Nat /\ (Cardinality(cs) = 0 <=> cs = {})
  BY <1>2, FS_CardinalityType, FS_EmptySet
<1> QED  BY <1>2, <1>3

(* The library believes numbers.                                           *)
LEMMA BelievedTyped ==
  ASSUME FieldsTyped'
  PROVE  \A kind, n, j : Believed(kind, n, j)' \in Nat
<1> SUFFICES ASSUME NEW kind, NEW n, NEW j PROVE Believed(kind, n, j)' \in Nat  OBVIOUS
<1>1. Cardinality(query'.components) \in Nat  BY SetsCounted DEF FieldsTyped
<1>2. Cardinality(query'.components) * query'.capacity \in Nat
  <2>1. query'.capacity \in Nat  BY DEF FieldsTyped
  <2> QED  BY <1>1, <2>1
<1>3. \A m \in DOMAIN archetype'.data :
        /\ Cardinality(archetype'.data[m].components) \in Nat
        /\ archetype'.data[m].freeCapacity \in Nat
        /\ archetype'.data[m].blocks \in Nat
  <2> SUFFICES ASSUME NEW m \in DOMAIN archetype'.data
               PROVE  /\ Cardinality(archetype'.data[m].components) \in Nat
                      /\ archetype'.data[m].freeCapacity \in Nat
                      /\ archetype'.data[m].blocks \in Nat
    OBVIOUS
  <2>1. archetype'.data[m] \in ArchetypeRecord  BY DEF FieldsTyped
  <2> QED  BY <2>1, SetsCounted DEF ArchetypeRecord
<1>4. /\ entity'.capacity \in Nat /\ entity'.freeCapacity \in Nat /\ layer'.capacity \in Nat
      /\ component'.capacity \in Nat /\ archetype'.capacity \in Nat
      /\ query'.capacity \in Nat
      /\ \A m \in DOMAIN layer'.entities : layer'.entities[m] \in Nat
      /\ \A m \in DOMAIN component'.required : component'.required[m] \in Nat
  BY SMTT(20) DEF FieldsTyped
<1> QED  BY <1>1, <1>2, <1>3, <1>4 DEF Believed, Columns

(* What is left to show of a call that succeeds or fails in order.         *)
LEMMA CallKeeps ==
  ASSUME MemoryInv, Called, UNCHANGED << stage, refused >>, FieldsTyped', Held',
         NEW asks, Answered(asks), \A ask \in asks : Right(ask),
         \A b \in Buffer : Settled(b, asks),
         NEW losses, Loses(losses), losses \subseteq Buffer,
         \A b \in losses : b[1] \in { "entities", "query" } \cup QueryArrays
  PROVE  MemoryInv'
<1>1. stage = "open" /\ lost = {} /\ mistold = {} /\ stage' = "open" /\ refused' = {}
  BY OpenBooks DEF Called
<1>2. BooksAgree' /\ mistold' = {} /\ given' \in [ Buffer -> Nat ]
  BY <1>1, BooksKept, BelievedTyped, OpenAgree DEF MemoryInv, TypeOK
<1>3. lost' = losses  BY <1>1 DEF Loses
<1>4. TypeOK'  BY <1>1, <1>2, <1>3 DEF FieldsTyped, TypeOK
<1>5. OnlyKnownLosses'
  <2>1. TheOnly("entity.free")[1] = "entity.free"  BY DEF TheOnly
  <2>2. TheOnly("entity.free") \notin lost'  BY <1>3, <2>1 DEF QueryArrays
  <2> QED  BY <1>2, <1>3, <2>2 DEF OnlyKnownLosses, LostAnyway
<1> QED  BY <1>1, <1>2, <1>4, <1>5 DEF MemoryInv

(* After a refusal the size asked for is right, or that of the buffer is   *)
(* unsure.                                                                 *)
HalfRight(ask) ==
  /\ ask.buffer \in Buffer /\ ask.told = given[ask.buffer] /\ ask.size \in Nat
  /\ \/ ask.buffer \in Unsure'
     \/ ask.size = Believed(ask.buffer[1], ask.buffer[2], ask.buffer[3])'

LEMMA RightIsHalf ==
  ASSUME FieldsTyped', NEW asks, \A ask \in asks : Right(ask)
  PROVE  \A ask \in asks : HalfRight(ask)
BY BelievedTyped DEF Right, HalfRight

LEMMA UnsureAfter ==
  ASSUME NEW r, refused' = { r }
  PROVE  /\ r \in Unsure'
         /\ \A kinds \in { EntityArrays, LayerArrays, ArchetypeArrays, QueryLists } :
              r[1] \in kinds => \A kind \in kinds : TheOnly(kind) \in Unsure'
BY DEF Unsure, Together

(* What is left to show of a call in which r is refused.                   *)
LEMMA ShortKeeps ==
  ASSUME MemoryInv, lost = {}, mistold = {}, NEW r \in Buffer, RunsShort(r),
         FieldsTyped', Held',
         r[1] \in QueryLists /\ QueryOpen' => query'.length < Len(archetype'.data),
         NEW asks, Answered(asks),
         \A ask \in asks : HalfRight(ask) /\ (ask.buffer = r => ask.size = 0),
         given[r] = 0 \/ \E ask \in asks : ask.buffer = r,
         \A b \in Buffer : b \in Unsure' \/ Settled(b, asks),
         NEW losses, Loses(losses), losses \subseteq Buffer,
         \A b \in losses : b[1] = "entities" \/ LostByRefusal(b)',
         TheOnly("entity.free") \in losses => entity'.freeCapacity > 0
  PROVE  MemoryInv'
<1>1. stage' = "short" /\ refused' = {r}  BY DEF RunsShort
<1>2. given \in [ Buffer -> Nat ]  BY DEF MemoryInv, TypeOK
<1>3. \A b \in Buffer : Believed(b[1], b[2], b[3])' \in Nat  BY BelievedTyped
<1>4. \A ask \in asks : /\ ask.buffer \in Buffer /\ ask.told \in Nat /\ ask.size \in Nat
                        /\ ask.told = given[ask.buffer]
  BY <1>2 DEF HalfRight
<1>5. given' \in [ Buffer -> Nat ] /\ mistold' = {}
  BY <1>2, <1>4, AnswersTyped
<1>6. BooksAgree'
  <2>1. ASSUME NEW b \in Buffer, b \notin Unsure'
        PROVE  given'[b] = Believed(b[1], b[2], b[3])'
    <3>1. PICK w \in Nat : w = Believed(b[1], b[2], b[3])'  BY <1>3
    <3>2. \A ask \in asks : ask.buffer = b => /\ ask.told \in Nat /\ ask.size = w
                                              /\ ask.told = 0 => given[b] = 0
      BY <1>4, <2>1, <3>1 DEF HalfRight
    <3>3. w = given[b] \/ \E ask \in asks : ask.buffer = b  BY <2>1, <3>1 DEF Settled
    <3> QED  BY <1>2, <3>1, <3>2, <3>3, AnswerGives
  <2> QED  BY <2>1 DEF BooksAgree
<1>7. CutOff'
  <2>1. \A ask \in asks : ask.buffer = r => /\ ask.told \in Nat /\ ask.size = 0
                                            /\ ask.told = 0 => given[r] = 0
    BY <1>4
  <2>2. given'[r] = 0  BY <1>2, <2>1, AnswerGives
  <2> QED  BY <1>1, <2>2 DEF CutOff
<1>8. lost' = losses  BY DEF Loses
<1>9. TypeOK'  BY <1>1, <1>5, <1>8 DEF FieldsTyped, TypeOK
<1>10. OnlyKnownLosses'  BY <1>5, <1>8 DEF OnlyKnownLosses, LostAnyway
<1> QED  BY <1>1, <1>6, <1>7, <1>9, <1>10 DEF MemoryInv

(* What the library believes, kind by kind, now and after a step.          *)
Beliefs ==
  \A n, j :
    /\ Believed("instance", n, j) = 1 /\ Believed("entities", n, j) = 0
    /\ \A kind \in EntityArrays : Believed(kind, n, j) = entity.capacity
    /\ Believed("entity.free", n, j) = entity.freeCapacity
    /\ \A kind \in LayerArrays : Believed(kind, n, j) = layer.capacity
    /\ Believed("layer.entities", n, j) =
         IF n \in DOMAIN layer.entities THEN layer.entities[n] ELSE 0
    /\ Believed("component.data", n, j) = component.capacity
    /\ Believed("required", n, j) =
         IF n \in DOMAIN component.required THEN component.required[n] ELSE 0

ArchetypeBeliefs ==
  \A n, j :
    /\ \A kind \in ArchetypeArrays : Believed(kind, n, j) = archetype.capacity
    /\ \A kind \in SetArrays : Believed(kind, n, j) =
         IF n \in DOMAIN archetype.data THEN Cardinality(archetype.data[n].components) ELSE 0
    /\ Believed("free", n, j) =
         IF n \in DOMAIN archetype.data THEN archetype.data[n].freeCapacity ELSE 0
    /\ Believed("blocks", n, j) =
         IF n \in DOMAIN archetype.data THEN archetype.data[n].blocks ELSE 0
    /\ Believed("block", n, j) =
         IF n \in DOMAIN archetype.data /\ j <= archetype.data[n].blocks THEN 1 ELSE 0

QueryBeliefs ==
  \A n, j :
    /\ Believed("query", n, j) = IF QueryOpen THEN 1 ELSE 0
    /\ \A kind \in QueryArrays : Believed(kind, n, j) = Columns
    /\ Believed("query.archetype", n, j) = query.capacity
    /\ Believed("query.offset", n, j) = Columns * query.capacity

LEMMA BeliefsHold ==
  /\ Beliefs /\ ArchetypeBeliefs /\ QueryBeliefs
  /\ Beliefs' /\ ArchetypeBeliefs' /\ QueryBeliefs'
<1>1. Beliefs /\ Beliefs'
  BY DEF Beliefs, Believed, EntityArrays, LayerArrays, ArchetypeArrays, SetArrays, QueryArrays
<1>2. ArchetypeBeliefs /\ ArchetypeBeliefs'
  BY DEF ArchetypeBeliefs, Believed, EntityArrays, LayerArrays, ArchetypeArrays, SetArrays,
         QueryArrays
<1>3. QueryBeliefs /\ QueryBeliefs'
  BY DEF QueryBeliefs, Believed, EntityArrays, LayerArrays, ArchetypeArrays, SetArrays,
         QueryArrays
<1> QED  BY <1>1, <1>2, <1>3

(* The kinds of the buffers that the fields of each table describe.        *)
OfEntities == EntityArrays \cup { "entity.free" }
OfLayers == LayerArrays \cup { "layer.entities" }
OfComponents == { "component.data", "required" }
OfArchetypes == ArchetypeArrays \cup SetArrays \cup { "free", "blocks", "block" }
OfQuery == QueryArrays \cup { "query", "query.archetype", "query.offset" }
OfNone == { "instance", "entities" }

LEMMA KindsKnown ==
  \A b \in Buffer : b[1] \in OfEntities \cup OfLayers \cup OfComponents \cup OfArchetypes
                           \cup OfQuery \cup OfNone
BY DEF Buffer, Single, QueryLists, OfEntities, OfLayers, OfComponents, OfArchetypes, OfQuery,
       OfNone

AllSettled(kinds, asks) == \A b \in Buffer : b[1] \in kinds => Settled(b, asks)

(* A table that does not change needs no request.                          *)
LEMMA Untouched ==
  ASSUME BooksRight, NEW asks
  PROVE  /\ AllSettled(OfNone, asks)
         /\ UNCHANGED entity => AllSettled(OfEntities, asks)
         /\ UNCHANGED layer => AllSettled(OfLayers, asks)
         /\ UNCHANGED component => AllSettled(OfComponents, asks)
         /\ UNCHANGED archetype => AllSettled(OfArchetypes, asks)
         /\ UNCHANGED query => AllSettled(OfQuery, asks)
<1>1. ASSUME NEW b \in Buffer, Believed(b[1], b[2], b[3])' = Believed(b[1], b[2], b[3])
      PROVE  Settled(b, asks)
  BY <1>1 DEF BooksRight, Settled
<1>2. ASSUME NEW b \in Buffer, b[1] \in OfNone PROVE Settled(b, asks)
  BY <1>1, <1>2, BeliefsHold DEF Beliefs, OfNone
<1>3. ASSUME UNCHANGED entity, NEW b \in Buffer, b[1] \in OfEntities PROVE Settled(b, asks)
  BY <1>1, <1>3, BeliefsHold DEF Beliefs, OfEntities
<1>4. ASSUME UNCHANGED layer, NEW b \in Buffer, b[1] \in OfLayers PROVE Settled(b, asks)
  BY <1>1, <1>4, BeliefsHold DEF Beliefs, OfLayers
<1>5. ASSUME UNCHANGED component, NEW b \in Buffer, b[1] \in OfComponents
      PROVE  Settled(b, asks)
  BY <1>1, <1>5, BeliefsHold DEF Beliefs, OfComponents
<1>6. ASSUME UNCHANGED archetype, NEW b \in Buffer, b[1] \in OfArchetypes
      PROVE  Settled(b, asks)
  BY <1>1, <1>6, BeliefsHold DEF ArchetypeBeliefs, OfArchetypes
<1>7. ASSUME UNCHANGED query, NEW b \in Buffer, b[1] \in OfQuery PROVE Settled(b, asks)
  BY <1>1, <1>7, BeliefsHold DEF QueryBeliefs, OfQuery, QueryOpen, Columns
<1> QED  BY <1>2, <1>3, <1>4, <1>5, <1>6, <1>7 DEF AllSettled

LEMMA RenewedAsBelieved ==
  ASSUME BooksRight, NEW kinds, NEW n, NEW told, NEW size,
         \A kind \in kinds : /\ << kind, n, 0 >> \in Buffer
                             /\ Believed(kind, n, 0) = told
                             /\ Believed(kind, n, 0)' = size
  PROVE  /\ \A ask \in Renewed(kinds, n, told, size) : Right(ask)
         /\ \A kind \in kinds : Settled(<< kind, n, 0 >>, Renewed(kinds, n, told, size))
<1>1. \A kind \in kinds : given[<< kind, n, 0 >>] = told  BY DEF BooksRight
<1> QED  BY <1>1, RenewedRight

LEMMA BelievedStill ==
  ASSUME BooksRight, NEW b \in Buffer, NEW asks,
         Believed(b[1], b[2], b[3])' = Believed(b[1], b[2], b[3])
  PROVE  Settled(b, asks)
BY DEF BooksRight, Settled

LEMMA SettledByKind ==
  ASSUME NEW asks, AllSettled(OfNone, asks), AllSettled(OfEntities, asks),
         AllSettled(OfLayers, asks), AllSettled(OfComponents, asks),
         AllSettled(OfArchetypes, asks), AllSettled(OfQuery, asks)
  PROVE  \A b \in Buffer : Settled(b, asks)
BY KindsKnown DEF AllSettled

LEMMA RegisteredIsComponents ==
  ASSUME FieldsTyped, Held
  PROVE  Registered \subseteq Component
<1>1. Len(component.required) <= NumComponents /\ Len(component.required) \in Nat
  BY DEF Held, FieldsTyped
<1> QED  BY <1>1, MemoryAssumption DEF Registered, Component

(* One archetype changes.                                                  *)
LEMMA ArchetypeReplaced ==
  ASSUME NEW d \in Seq(ArchetypeRecord), NEW a \in DOMAIN d, NEW r \in ArchetypeRecord,
         NEW e, e = [ d EXCEPT ![a] = r ]
  PROVE  /\ e \in Seq(ArchetypeRecord) /\ Len(e) = Len(d) /\ DOMAIN e = DOMAIN d
         /\ e[a] = r /\ \A n \in DOMAIN d : n # a => e[n] = d[n]
<1>1. a \in 1 .. Len(d) /\ DOMAIN d = 1 .. Len(d)  OBVIOUS
<1>2. /\ e \in Seq(ArchetypeRecord) /\ Len(e) = Len(d)
      /\ \A n \in 1 .. Len(d) : e[n] = IF n = a THEN r ELSE d[n]
  BY <1>1, ExceptSeq
<1>3. DOMAIN e = 1 .. Len(e)  BY <1>2
<1> QED  BY <1>1, <1>2, <1>3

-----------------------------------------------------------------------------
(* REFUSALS                                                                *)

(* Arrays that grow together, in their order.                              *)
LEMMA Orders ==
  /\ EntityArrays = { EntityOrder[m] : m \in DOMAIN EntityOrder }
  /\ LayerArrays = { LayerOrder[m] : m \in DOMAIN LayerOrder }
  /\ ArchetypeArrays = { ArchetypeOrder[m] : m \in DOMAIN ArchetypeOrder }
  /\ \A order \in { EntityOrder, LayerOrder, ArchetypeOrder } :
       \A k, m \in DOMAIN order : order[k] = order[m] => k = m
<1>1. /\ EntityArrays = { EntityOrder[m] : m \in DOMAIN EntityOrder }
      /\ \A k, m \in DOMAIN EntityOrder : EntityOrder[k] = EntityOrder[m] => k = m
  <2>1. DOMAIN EntityOrder = { 1, 2, 3, 4 }  BY DEF EntityOrder
  <2>2. /\ EntityOrder[1] = "entity.generation" /\ EntityOrder[2] = "entity.layer_index"
        /\ EntityOrder[3] = "entity.archetype_index"
        /\ EntityOrder[4] = "entity.archetype_code"
    BY DEF EntityOrder
  <2> QED  BY <2>1, <2>2 DEF EntityArrays
<1>2. /\ LayerArrays = { LayerOrder[m] : m \in DOMAIN LayerOrder }
      /\ \A k, m \in DOMAIN LayerOrder : LayerOrder[k] = LayerOrder[m] => k = m
  <2>1. DOMAIN LayerOrder = { 1, 2 }  BY DEF LayerOrder
  <2>2. LayerOrder[1] = "layer.generation" /\ LayerOrder[2] = "layer.data"
    BY DEF LayerOrder
  <2> QED  BY <2>1, <2>2 DEF LayerArrays
<1>3. /\ ArchetypeArrays = { ArchetypeOrder[m] : m \in DOMAIN ArchetypeOrder }
      /\ \A k, m \in DOMAIN ArchetypeOrder : ArchetypeOrder[k] = ArchetypeOrder[m] => k = m
  <2>1. DOMAIN ArchetypeOrder = { 1, 2 }  BY DEF ArchetypeOrder
  <2>2. /\ ArchetypeOrder[1] = "archetype.components_index"
        /\ ArchetypeOrder[2] = "archetype.data"
    BY DEF ArchetypeOrder
  <2> QED  BY <2>1, <2>2 DEF ArchetypeArrays
<1> QED  BY <1>1, <1>2, <1>3

(* What is asked for when the k-th of them is refused.                     *)
LEMMA CutShortHalf ==
  ASSUME NEW order \in { EntityOrder, LayerOrder, ArchetypeOrder }, NEW k \in DOMAIN order,
         NEW r, r = TheOnly(order[k]), refused' = {r},
         NEW told, NEW now \in Nat, NEW size \in Nat,
         \A m \in DOMAIN order : given[TheOnly(order[m])] = told,
         NEW asks, asks = CutShort(order, k, told, now, size)
  PROVE  /\ r \in Buffer /\ LostByRefusal(r)' /\ r[1] = order[k] /\ r[1] \notin QueryLists
         /\ \A ask \in asks : HalfRight(ask) /\ (ask.buffer = r => ask.size = 0)
         /\ \E ask \in asks : ask.buffer = r
         /\ \A m \in DOMAIN order : TheOnly(order[m]) \in Unsure'
<1>1. PICK kinds \in { EntityArrays, LayerArrays, ArchetypeArrays } :
        kinds = { order[m] : m \in DOMAIN order }
  BY Orders
<1>2. \A m \in DOMAIN order : /\ order[m] \in kinds /\ TheOnly(order[m]) \in Buffer
                              /\ TheOnly(order[m])[1] = order[m]
  <2>1. \A kind \in kinds : kind \in Single  BY DEF Single
  <2> QED  BY <1>1, <2>1, BufferShape DEF TheOnly
<1>3. \A m \in DOMAIN order : TheOnly(order[m]) \in Unsure'
  BY <1>2, UnsureAfter
<1>4. ASSUME NEW ask \in asks
      PROVE  HalfRight(ask) /\ (ask.buffer = r => ask.size = 0)
  <2>1. PICK m \in DOMAIN order :
          ask = Asked(TheOnly(order[m]), told, IF m < k THEN size ELSE IF m = k THEN 0 ELSE now)
    BY DEF CutShort
  <2>2. /\ ask.buffer = TheOnly(order[m]) /\ ask.told = told
        /\ ask.size = IF m < k THEN size ELSE IF m = k THEN 0 ELSE now
    BY <2>1 DEF Asked
  <2>3. ASSUME ask.buffer = r PROVE m = k
    <3>1. order[m] = order[k]  BY <1>2, <2>2, <2>3
    <3> QED  BY <3>1, Orders
  <2>4. m = k => ask.size = 0
    <3>1. k \in Nat  BY DEF EntityOrder, LayerOrder, ArchetypeOrder
    <3> QED  BY <2>2, <3>1
  <2> QED  BY <1>2, <1>3, <2>2, <2>3, <2>4 DEF HalfRight
<1>5. \E ask \in asks : ask.buffer = r
  <2>1. \E size1 : Asked(TheOnly(order[k]), told, size1) \in asks  BY DEF CutShort
  <2> QED  BY <2>1 DEF Asked
<1>6. r[1] \notin { "block", "offset_size" } /\ r[1] \notin QueryLists
  BY <1>2 DEF EntityArrays, LayerArrays, ArchetypeArrays, QueryLists
<1>7. LostByRefusal(r)'  BY <1>3, <1>6 DEF LostByRefusal
<1> QED  BY <1>2, <1>3, <1>4, <1>5, <1>6, <1>7

(* When nothing but the buffers changes, each of the sizes is as before.   *)
LEMMA FieldsStill ==
  ASSUME MemoryInv, stage = "open", UNCHANGED << entity, layer, component, archetype, query >>,
         NEW asks
  PROVE  FieldsTyped' /\ Held' /\ \A b \in Buffer : Settled(b, asks)
<1>1. FieldsTyped /\ Held /\ BooksRight  BY OpenBooks DEF MemoryInv, TypeOK, FieldsTyped
<1>2. FieldsTyped'  BY <1>1 DEF FieldsTyped
<1>3. Held'  BY <1>1 DEF Held, EntitiesFit, QueryFits, QueryOpen, NoQuery
<1> QED  BY <1>1, <1>2, <1>3, Untouched, SettledByKind

-----------------------------------------------------------------------------
(* THE CALLS                                                               *)

(* The archetype of an entity that is freed has one less.                  *)
LEMMA LiveLess ==
  ASSUME FieldsTyped, Held, BooksRight, EntityFreed, NEW asks
  PROVE  /\ archetype' \in [ capacity : Nat, data : Seq(ArchetypeRecord) ]
         /\ archetype'.capacity = archetype.capacity
         /\ Len(archetype'.data) = Len(archetype.data)
         /\ \A n \in DOMAIN archetype'.data :
              ArchetypeFits(archetype'.data[n]) /\ archetype'.data[n].next <= MaxSlots
         /\ AllSettled(OfArchetypes, asks)
<1>1. PICK a \in DOMAIN archetype.data :
        /\ archetype.data[a].live > 0
        /\ archetype' = [ archetype EXCEPT !.data[a].live = @ - 1 ]
  BY DEF EntityFreed
<1>2. PICK d : d = archetype.data /\ d \in Seq(ArchetypeRecord)  BY DEF FieldsTyped
<1>3. PICK s \in ArchetypeRecord : s = d[a]  BY <1>1, <1>2
<1>4. PICK r : r = [ s EXCEPT !.live = @ - 1 ]  OBVIOUS
<1>5. /\ r \in ArchetypeRecord /\ r.components = s.components /\ r.next = s.next
      /\ r.free = s.free /\ r.freeCapacity = s.freeCapacity /\ r.blocks = s.blocks
  <2>1. s.live \in Nat /\ s.live > 0  BY <1>1, <1>2, <1>3 DEF ArchetypeRecord
  <2> QED  BY <1>3, <1>4, <2>1 DEF ArchetypeRecord
<1>6. archetype' = [ archetype EXCEPT !.data = [ d EXCEPT ![a] = r ] ]
  BY <1>1, <1>2, <1>3, <1>4
<1>7. archetype'.data = [ d EXCEPT ![a] = r ] /\ archetype'.capacity = archetype.capacity
      /\ archetype' = [ capacity |-> archetype.capacity, data |-> [ d EXCEPT ![a] = r ] ]
  BY <1>6 DEF FieldsTyped
<1>8. /\ archetype'.data \in Seq(ArchetypeRecord) /\ Len(archetype'.data) = Len(d)
      /\ DOMAIN archetype'.data = DOMAIN d
      /\ archetype'.data[a] = r /\ \A n \in DOMAIN d : n # a => archetype'.data[n] = d[n]
  <2>1. PICK e : e = archetype'.data  OBVIOUS
  <2>2. a \in DOMAIN d /\ e = [ d EXCEPT ![a] = r ]  BY <1>1, <1>2, <1>7, <2>1
  <2>3. /\ e \in Seq(ArchetypeRecord) /\ Len(e) = Len(d) /\ DOMAIN e = DOMAIN d
        /\ e[a] = r /\ \A n \in DOMAIN d : n # a => e[n] = d[n]
    BY <1>2, <1>5, <2>2, ArchetypeReplaced
  <2> QED  BY <2>1, <2>3
<1>9. /\ archetype' \in [ capacity : Nat, data : Seq(ArchetypeRecord) ]
      /\ Len(archetype'.data) = Len(archetype.data)
      /\ DOMAIN archetype'.data = DOMAIN archetype.data
  BY <1>2, <1>7, <1>8 DEF FieldsTyped
<1>10. \A n \in DOMAIN archetype.data :
         /\ archetype'.data[n].components = archetype.data[n].components
         /\ archetype'.data[n].next = archetype.data[n].next
         /\ archetype'.data[n].free = archetype.data[n].free
         /\ archetype'.data[n].freeCapacity = archetype.data[n].freeCapacity
         /\ archetype'.data[n].blocks = archetype.data[n].blocks
  BY <1>2, <1>3, <1>5, <1>8
<1>11. \A n \in DOMAIN archetype'.data :
         ArchetypeFits(archetype'.data[n]) /\ archetype'.data[n].next <= MaxSlots
  BY <1>9, <1>10 DEF Held, ArchetypeFits
<1>12. AllSettled(OfArchetypes, asks)
  <2>1. ASSUME NEW b \in Buffer, b[1] \in OfArchetypes
        PROVE  Believed(b[1], b[2], b[3])' = Believed(b[1], b[2], b[3])
    BY <1>7, <1>9, <1>10, <2>1, BeliefsHold DEF ArchetypeBeliefs, OfArchetypes
  <2> QED  BY <2>1 DEF AllSettled, Settled, BooksRight
<1> QED  BY <1>7, <1>9, <1>11, <1>12

LEMMA FreeEntityKeeps ==
  ASSUME MemoryInv, FreeEntity
  PROVE  MemoryInv'
<1>1. FieldsTyped /\ Held /\ BooksRight /\ stage = "open" /\ EntityFreed /\ Called
  BY OpenBooks DEF MemoryInv, TypeOK, FieldsTyped, FreeEntity, EntityFreed, Called
<1>2. PICK capacity : capacity = VectorCapacity(entity.free, entity.freeCapacity)  OBVIOUS
<1>3. PICK asks : /\ asks = Renewed({ "entity.free" }, 0, entity.freeCapacity, capacity)
                  /\ Answered(asks)
  BY <1>2 DEF FreeEntity
<1>4. entity' = [ entity EXCEPT !.free = @ + 1, !.freeCapacity = capacity ]
      /\ UNCHANGED << stage, layer, component, query, lost, refused >>
  BY <1>2 DEF FreeEntity
<1>5. capacity \in Nat /\ entity.free + 1 <= capacity
  BY <1>1, <1>2, SMTT(20) DEF VectorCapacity, Roomy, FieldsTyped
<1>6. /\ entity' \in [ length : Nat, capacity : Nat, free : Nat, freeCapacity : Nat ]
      /\ entity'.length = entity.length /\ entity'.capacity = entity.capacity
      /\ entity'.free = entity.free + 1 /\ entity'.freeCapacity = capacity
  <2>1. PICK z \in [ length : Nat, capacity : Nat, free : Nat, freeCapacity : Nat ] : z = entity
    BY <1>1 DEF FieldsTyped
  <2>2. PICK e : e = entity'  OBVIOUS
  <2>3. e = [ z EXCEPT !.free = z.free + 1, !.freeCapacity = capacity ]  BY <1>4, <2>1, <2>2
  <2>4. e \in [ length : Nat, capacity : Nat, free : Nat, freeCapacity : Nat ]
    <3>1. z.free + 1 \in Nat  BY <2>1
    <3> QED  BY <1>5, <2>1, <2>3, <3>1
  <2>5. e.length = z.length /\ e.capacity = z.capacity
        /\ e.free = z.free + 1 /\ e.freeCapacity = capacity
    BY <2>1, <2>3
  <2> QED  BY <2>1, <2>2, <2>4, <2>5
<1>7. FieldsTyped'  BY <1>1, <1>4, <1>6, LiveLess DEF FieldsTyped
<1>8. Held'
  <2>1. EntitiesFit(entity)' /\ (~ QueryOpen => query = NoQuery)'
    BY <1>1, <1>4, <1>5, <1>6 DEF Held, FieldsTyped, EntitiesFit, QueryOpen, NoQuery
  <2>2. Len(archetype'.data) = Len(archetype.data) /\ archetype'.capacity = archetype.capacity
    BY <1>1, LiveLess
  <2>3. QueryFits(query)'  BY <1>1, <1>4, <2>2 DEF Held, QueryFits
  <2>4. \A n \in DOMAIN archetype'.data :
          ArchetypeFits(archetype.data[n])' /\ archetype'.data[n].next <= MaxSlots
    BY <1>1, LiveLess DEF ArchetypeFits
  <2> QED  BY <1>1, <1>4, <2>1, <2>2, <2>3, <2>4 DEF Held
<1>9. (\A ask \in asks : Right(ask)) /\ Settled(<< "entity.free", 0, 0 >>, asks)
  <2>1. << "entity.free", 0, 0 >> \in Buffer  BY BufferShape DEF Single
  <2>2. /\ Believed("entity.free", 0, 0) = entity.freeCapacity
        /\ Believed("entity.free", 0, 0)' = capacity
    BY <1>6, BeliefsHold DEF Beliefs
  <2> QED  BY <1>1, <1>3, <2>1, <2>2, RenewedAsBelieved
<1>10. AllSettled(OfEntities, asks)
  <2>1. ASSUME NEW b \in Buffer, b[1] \in EntityArrays PROVE Settled(b, asks)
    <3>1. Believed(b[1], b[2], b[3])' = Believed(b[1], b[2], b[3])
      BY <1>6, <2>1, BeliefsHold DEF Beliefs
    <3> QED  BY <1>1, <3>1, BelievedStill
  <2>2. ASSUME NEW b \in Buffer, b[1] = "entity.free" PROVE Settled(b, asks)
    <3>1. b = << "entity.free", 0, 0 >>  BY <2>2, Shapes DEF Single
    <3> QED  BY <1>9, <3>1
  <2> QED  BY <2>1, <2>2 DEF AllSettled, OfEntities
<1>11. \A b \in Buffer : Settled(b, asks)
  BY <1>1, <1>4, <1>10, LiveLess, Untouched, SettledByKind
<1> QED
  <2>1. Loses({})  BY <1>4 DEF Loses
  <2> QED  BY <1>1, <1>3, <1>4, <1>7, <1>8, <1>9, <1>11, <2>1, CallKeeps

LEMMA FreeEntityShortKeeps ==
  ASSUME MemoryInv, FreeEntityShort
  PROVE  MemoryInv'
<1>1. FieldsTyped /\ Held /\ BooksRight /\ stage = "open" /\ EntityFreed /\ Called
  BY OpenBooks DEF MemoryInv, TypeOK, FieldsTyped, FreeEntityShort, EntityFreed, Called
<1>2. PICK r : r = << "entity.free", 0, 0 >>  OBVIOUS
<1>3. PICK asks : asks = { Asked(r, entity.freeCapacity, 0) }  OBVIOUS
<1>4. PICK losses : losses = Dropped(r, entity.freeCapacity)  OBVIOUS
<1>5. /\ RunsShort(r) /\ Answered(asks) /\ Loses(losses)
      /\ UNCHANGED << entity, layer, component, query >>
  BY <1>2, <1>3, <1>4 DEF FreeEntityShort, Denied, TheOnly
<1>6. r \in Buffer /\ given[r] = entity.freeCapacity /\ r \in Unsure' /\ r[1] = "entity.free"
  <2>1. r \in Buffer /\ r[1] = "entity.free"  BY <1>2, BufferShape DEF Single
  <2>2. Believed("entity.free", 0, 0) = entity.freeCapacity  BY BeliefsHold DEF Beliefs
  <2> QED  BY <1>1, <1>2, <1>5, <2>1, <2>2, UnsureAfter DEF BooksRight, RunsShort
<1>7. FieldsTyped'  BY <1>1, <1>5, LiveLess DEF FieldsTyped
<1>8. Held'
  <2>1. EntitiesFit(entity)' /\ (~ QueryOpen => query = NoQuery)'
    BY <1>1, <1>5 DEF Held, EntitiesFit, QueryOpen, NoQuery
  <2>2. Len(archetype'.data) = Len(archetype.data) /\ archetype'.capacity = archetype.capacity
    BY <1>1, LiveLess
  <2>3. QueryFits(query)'  BY <1>1, <1>5, <2>2 DEF Held, QueryFits
  <2>4. \A n \in DOMAIN archetype'.data :
          ArchetypeFits(archetype.data[n])' /\ archetype'.data[n].next <= MaxSlots
    BY <1>1, LiveLess DEF ArchetypeFits
  <2> QED  BY <1>1, <1>5, <2>1, <2>2, <2>3, <2>4 DEF Held
<1>9. \A b \in Buffer : Settled(b, asks)
  BY <1>1, <1>5, LiveLess, Untouched, SettledByKind
<1>10. \A ask \in asks : HalfRight(ask) /\ (ask.buffer = r => ask.size = 0)
  BY <1>3, <1>6 DEF HalfRight, Asked
<1>11. \E ask \in asks : ask.buffer = r  BY <1>3 DEF Asked
<1>12. \A b \in losses : b = r /\ entity'.freeCapacity > 0
  BY <1>4, <1>5 DEF Dropped
<1>13. LostByRefusal(r)'  BY <1>6 DEF LostByRefusal
<1>14. lost = {} /\ mistold = {} /\ r[1] \notin QueryLists  BY <1>1, <1>6 DEF Called, QueryLists
<1>15. losses \subseteq Buffer /\ \A b \in losses : LostByRefusal(b)'
  BY <1>6, <1>12, <1>13
<1> QED
  BY <1>5, <1>6, <1>7, <1>8, <1>9, <1>10, <1>11, <1>12, <1>14, <1>15, ShortKeeps

LEMMA RoomyTyped ==
  ASSUME NEW n \in Nat
  PROVE  Roomy(n) \in Nat
BY DEF Roomy

LEMMA VectorGrows ==
  ASSUME NEW length \in Nat, NEW capacity \in Nat
  PROVE  /\ VectorCapacity(length, capacity) \in Nat
         /\ length + 1 <= VectorCapacity(length, capacity)
BY DEF VectorCapacity, Roomy

(* A call whose requests are right, but for that of a buffer which the     *)
(* library did not have and was not given.                                 *)
LEMMA LeftOutKeeps ==
  ASSUME MemoryInv, lost = {}, mistold = {}, NEW r \in Buffer, r[1] \notin QueryLists,
         given[r] = 0, RunsShort(r), FieldsTyped', Held',
         NEW all, \A ask \in all : Right(ask), \A b \in Buffer : Settled(b, all),
         NEW asks, asks \subseteq all, \A ask \in asks : ask.buffer # r,
         \A ask \in all : ask.buffer # r => ask \in asks, Answered(asks),
         NEW losses, Loses(losses), losses \subseteq Buffer,
         \A b \in losses : b[1] = "entities"
  PROVE  MemoryInv'
<1>1. r \in Unsure'  BY UnsureAfter DEF RunsShort
<1>2. \A b \in Buffer : b \in Unsure' \/ Settled(b, asks)
  <2> SUFFICES ASSUME NEW b \in Buffer PROVE b \in Unsure' \/ Settled(b, asks)  OBVIOUS
  <2>1. CASE b = r  BY <1>1, <2>1
  <2>2. CASE b # r  BY <2>2, SettledWithout
  <2> QED  BY <2>1, <2>2
<1>3. \A ask \in asks : HalfRight(ask) /\ (ask.buffer = r => ask.size = 0)
  BY RightIsHalf
<1>4. TheOnly("entity.free") \notin losses  BY DEF TheOnly
<1> QED  BY <1>2, <1>3, <1>4, ShortKeeps

LEMMA RegisterComponentKeeps ==
  ASSUME MemoryInv, RegisterComponent
  PROVE  MemoryInv'
<1>1. FieldsTyped /\ Held /\ BooksRight /\ stage = "open" /\ Called
  BY OpenBooks DEF MemoryInv, TypeOK, FieldsTyped, RegisterComponent, Called
<1>2. PICK old \in [ capacity : Nat, required : Seq(Nat) ] : old = component
  BY <1>1 DEF FieldsTyped
<1>3. PICK c : c = Len(old.required) + 1  OBVIOUS
<1>4. PICK capacity : capacity = VectorCapacity(c - 1, old.capacity)  OBVIOUS
<1>5. PICK n \in 0 .. Len(old.required) :
        /\ component' = [ capacity |-> capacity, required |-> Append(old.required, n) ]
        /\ Answered(Renewed({ "required" }, c, 0, n)
                    \cup Renewed({ "component.data" }, 0, old.capacity, capacity))
  BY <1>2, <1>3, <1>4 DEF RegisterComponent
<1>6. PICK one : one = Renewed({ "required" }, c, 0, n)  OBVIOUS
<1>7. PICK two : two = Renewed({ "component.data" }, 0, old.capacity, capacity)  OBVIOUS
<1>8. UNCHANGED << stage, entity, layer, archetype, query, lost, refused >>  BY DEF RegisterComponent
<1>9. /\ n \in Nat /\ c \in Nat /\ old.required \in Seq(Nat)
      /\ c \in 1 .. NumComponents /\ DOMAIN old.required = 1 .. c - 1
  BY <1>1, <1>2, <1>3, MemoryAssumption DEF RegisterComponent
<1>10. capacity \in Nat /\ c <= capacity
  <2>1. c - 1 \in Nat /\ old.capacity \in Nat /\ (c - 1) + 1 = c  BY <1>2, <1>9
  <2> QED  BY <1>4, <2>1, VectorGrows
<1>11. PICK e : e = Append(old.required, n)  OBVIOUS
<1>12. /\ e \in Seq(Nat) /\ Len(e) = c /\ DOMAIN e = 1 .. c
       /\ e[c] = n /\ \A i \in 1 .. c - 1 : e[i] = old.required[i]
  BY <1>3, <1>9, <1>11
<1>13. /\ component' \in [ capacity : Nat, required : Seq(Nat) ]
       /\ component'.capacity = capacity /\ component'.required = e
  BY <1>5, <1>10, <1>11, <1>12
<1>14. FieldsTyped'  BY <1>1, <1>8, <1>13 DEF FieldsTyped
<1>15. Held'
  <2>1. QueryFits(query)' /\ (~ QueryOpen => query = NoQuery)'
    BY <1>1, <1>8 DEF Held, QueryFits, QueryOpen, NoQuery
  <2>2. Len(component'.required) <= component'.capacity
        /\ Len(component'.required) <= NumComponents
    BY <1>9, <1>10, <1>12, <1>13
  <2> QED  BY <1>1, <1>8, <2>1, <2>2 DEF Held, EntitiesFit
<1>16. (\A ask \in one : Right(ask)) /\ Settled(<< "required", c, 0 >>, one)
  <2>1. << "required", c, 0 >> \in Buffer  BY <1>9, BufferShape
  <2>2. Believed("required", c, 0) = 0
    BY <1>2, <1>9, BeliefsHold DEF Beliefs
  <2>3. Believed("required", c, 0)' = n
    <3>1. c \in DOMAIN component'.required /\ component'.required[c] = n
      BY <1>9, <1>12, <1>13
    <3> QED  BY <3>1, BeliefsHold DEF Beliefs
  <2> QED  BY <1>1, <1>6, <2>1, <2>2, <2>3, RenewedAsBelieved
<1>17. (\A ask \in two : Right(ask)) /\ Settled(<< "component.data", 0, 0 >>, two)
  <2>1. << "component.data", 0, 0 >> \in Buffer  BY BufferShape DEF Single, QueryLists
  <2>2. Believed("component.data", 0, 0) = old.capacity  BY <1>2, BeliefsHold DEF Beliefs
  <2>3. Believed("component.data", 0, 0)' = capacity  BY <1>13, BeliefsHold DEF Beliefs
  <2> QED  BY <1>1, <1>7, <2>1, <2>2, <2>3, RenewedAsBelieved
<1>18. PICK asks : asks = one \cup two  OBVIOUS
<1>19. Answered(asks) /\ \A ask \in asks : Right(ask)
  BY <1>5, <1>6, <1>7, <1>16, <1>17, <1>18
<1>20. AllSettled(OfComponents, asks)
  <2>1. ASSUME NEW b \in Buffer, b[1] = "component.data" PROVE Settled(b, asks)
    <3>1. b = << "component.data", 0, 0 >>  BY <2>1, BufferShape DEF SetArrays
    <3> QED  BY <1>17, <1>18, <3>1, SettledBy
  <2>2. ASSUME NEW b \in Buffer, b[1] = "required" PROVE Settled(b, asks)
    <3>1. b = << "required", b[2], 0 >> /\ b[2] \in 1 .. NumComponents
      BY <2>2, Shapes
    <3>2. CASE b[2] = c  BY <1>16, <1>18, <3>1, <3>2, SettledBy, SMTT(20)
    <3>3. CASE b[2] # c
      <4>1. /\ b[2] \in DOMAIN component'.required <=> b[2] \in DOMAIN component.required
            /\ b[2] \in DOMAIN component.required =>
                 component'.required[b[2]] = component.required[b[2]]
        BY <1>2, <1>9, <1>12, <1>13, <3>1, <3>3
      <4>2. Believed(b[1], b[2], b[3])' = Believed(b[1], b[2], b[3])
        BY <2>2, <4>1, BeliefsHold DEF Beliefs
      <4> QED  BY <1>1, <4>2, BelievedStill
    <3> QED  BY <3>2, <3>3
  <2> QED  BY <2>1, <2>2 DEF AllSettled, OfComponents
<1>21. \A b \in Buffer : Settled(b, asks)
  BY <1>1, <1>8, <1>20, Untouched, SettledByKind
<1> QED
  <2>1. UNCHANGED << stage, refused >> /\ Loses({})  BY <1>8 DEF Loses
  <2> QED  BY <1>1, <1>14, <1>15, <1>19, <1>21, <2>1, CallKeeps

LEMMA RegisterComponentShortKeeps ==
  ASSUME MemoryInv, RegisterComponentShort
  PROVE  MemoryInv'
<1>1. FieldsTyped /\ Held /\ BooksRight /\ stage = "open" /\ Called
  BY OpenBooks DEF MemoryInv, TypeOK, FieldsTyped, RegisterComponentShort, Called
<1>2. PICK r : r = << "component.data", 0, 0 >>  OBVIOUS
<1>3. PICK set : set = << "required", Len(component.required) + 1, 0 >>  OBVIOUS
<1>4. PICK asks : asks = { Asked(r, component.capacity, 0) }  OBVIOUS
<1>5. /\ RunsShort(r) /\ Answered(asks)
      /\ UNCHANGED << entity, layer, component, archetype, query >>
      /\ Len(component.required) < NumComponents
      /\ \E n \in 0 .. Len(component.required) :
           Loses(Dropped(r, component.capacity) \cup Dropped(set, n))
  BY <1>2, <1>3, <1>4 DEF RegisterComponentShort, Denied, TheOnly
<1>6. PICK losses : Loses(losses) /\ losses \subseteq { r, set }
  BY <1>5 DEF Dropped
<1>7. r \in Buffer /\ given[r] = component.capacity /\ r \in Unsure'
      /\ r[1] = "component.data"
  <2>1. r \in Buffer /\ r[1] = "component.data"  BY <1>2, BufferShape DEF Single
  <2>2. Believed("component.data", 0, 0) = component.capacity  BY BeliefsHold DEF Beliefs
  <2> QED  BY <1>1, <1>2, <1>5, <2>1, <2>2, UnsureAfter DEF BooksRight, RunsShort
<1>8. set \in Buffer
  <2>1. Len(component.required) + 1 \in 1 .. NumComponents
    BY <1>1, <1>5, MemoryAssumption DEF FieldsTyped
  <2> QED  BY <1>3, <2>1, BufferShape
<1>9. FieldsTyped' /\ Held' /\ \A b \in Buffer : Settled(b, asks)
  BY <1>1, <1>5, FieldsStill
<1>10. \A ask \in asks : HalfRight(ask) /\ (ask.buffer = r => ask.size = 0)
  BY <1>1, <1>4, <1>7 DEF HalfRight, Asked
<1>11. \E ask \in asks : ask.buffer = r  BY <1>4 DEF Asked
<1>12. LostByRefusal(r)' /\ LostByRefusal(set)'
  BY <1>2, <1>3, <1>5, <1>7 DEF LostByRefusal, RunsShort, TheOnly
<1>13. losses \subseteq Buffer /\ \A b \in losses : LostByRefusal(b)'
  BY <1>6, <1>7, <1>8, <1>12
<1>14. TheOnly("entity.free") \notin losses
  <2>1. TheOnly("entity.free")[1] = "entity.free" /\ set[1] = "required"
    BY <1>3 DEF TheOnly
  <2> QED  BY <1>6, <1>7, <2>1
<1>15. lost = {} /\ mistold = {} /\ r[1] \notin QueryLists  BY <1>1, <1>7 DEF Called, QueryLists
<1> QED
  BY <1>5, <1>6, <1>7, <1>9, <1>10, <1>11, <1>13, <1>14, <1>15, ShortKeeps

LEMMA CreateLayerShortKeeps ==
  ASSUME MemoryInv, CreateLayerShort
  PROVE  MemoryInv'
<1>1. FieldsTyped /\ Held /\ BooksRight /\ stage = "open" /\ Called
  BY OpenBooks DEF MemoryInv, TypeOK, FieldsTyped, CreateLayerShort, Called
<1>2. PICK k \in DOMAIN LayerOrder :
        /\ RunsShort(TheOnly(LayerOrder[k]))
        /\ Answered(CutShort(LayerOrder, k, layer.capacity, layer.capacity,
                             Roomy(Len(layer.entities) + 1)))
        /\ Loses(Dropped(TheOnly(LayerOrder[k]), layer.capacity))
  BY DEF CreateLayerShort
<1>3. PICK r : r = TheOnly(LayerOrder[k])  OBVIOUS
<1>4. PICK asks : asks = CutShort(LayerOrder, k, layer.capacity, layer.capacity,
                                  Roomy(Len(layer.entities) + 1))
  OBVIOUS
<1>5. PICK losses : losses = Dropped(r, layer.capacity)  OBVIOUS
<1>6. /\ RunsShort(r) /\ Answered(asks) /\ Loses(losses)
      /\ UNCHANGED << entity, layer, component, archetype, query >>
  BY <1>2, <1>3, <1>4, <1>5 DEF CreateLayerShort
<1>7. \A m \in DOMAIN LayerOrder : given[TheOnly(LayerOrder[m])] = layer.capacity
  <2>1. \A kind \in LayerArrays : /\ << kind, 0, 0 >> \in Buffer
                                  /\ Believed(kind, 0, 0) = layer.capacity
    BY BufferShape, BeliefsHold DEF Single, Beliefs
  <2>2. ASSUME NEW kind \in LayerArrays PROVE given[<< kind, 0, 0 >>] = layer.capacity
    BY <1>1, <2>1 DEF BooksRight
  <2> QED  BY <2>2, Orders DEF TheOnly
<1>8. layer.capacity \in Nat /\ Roomy(Len(layer.entities) + 1) \in Nat
  BY <1>1 DEF FieldsTyped, Roomy
<1>9. /\ r \in Buffer /\ LostByRefusal(r)' /\ r[1] = LayerOrder[k] /\ r[1] \notin QueryLists
      /\ \A ask \in asks : HalfRight(ask) /\ (ask.buffer = r => ask.size = 0)
      /\ \E ask \in asks : ask.buffer = r
  BY <1>3, <1>4, <1>6, <1>7, <1>8, CutShortHalf DEF RunsShort
<1>10. FieldsTyped' /\ Held' /\ \A b \in Buffer : Settled(b, asks)
  BY <1>1, <1>6, FieldsStill
<1>11. losses \subseteq { r }  BY <1>5 DEF Dropped
<1>12. TheOnly("entity.free") \notin losses
  <2>1. LayerOrder[k] \in LayerArrays  BY Orders
  <2>2. TheOnly("entity.free")[1] = "entity.free"  BY DEF TheOnly
  <2> QED  BY <1>9, <1>11, <2>1, <2>2 DEF LayerArrays
<1>13. lost = {} /\ mistold = {}  BY <1>1 DEF Called
<1>14. losses \subseteq Buffer /\ \A b \in losses : LostByRefusal(b)'  BY <1>9, <1>11
<1> QED  BY <1>6, <1>9, <1>10, <1>12, <1>13, <1>14, ShortKeeps

LEMMA CreateLayerKeeps ==
  ASSUME MemoryInv, CreateLayer
  PROVE  MemoryInv'
<1>1. FieldsTyped /\ Held /\ BooksRight /\ stage = "open" /\ Called
  BY OpenBooks DEF MemoryInv, TypeOK, FieldsTyped, CreateLayer, Called
<1>2. PICK old \in [ capacity : Nat, entities : Seq(Nat) ] : old = layer
  BY <1>1 DEF FieldsTyped
<1>3. PICK l : l = Len(old.entities) + 1  OBVIOUS
<1>4. PICK capacity : capacity = IF l > old.capacity THEN Roomy(l) ELSE old.capacity
  OBVIOUS
<1>5. PICK max \in ListsGranted :
        /\ layer' = [ capacity |-> capacity, entities |-> Append(old.entities, max) ]
        /\ Answered(Renewed(LayerArrays, 0, old.capacity, capacity)
                    \cup Renewed({ "layer.entities" }, l, 0, max))
  BY <1>2, <1>3, <1>4 DEF CreateLayer
<1>6. PICK one : one = Renewed(LayerArrays, 0, old.capacity, capacity)  OBVIOUS
<1>7. PICK two : two = Renewed({ "layer.entities" }, l, 0, max)  OBVIOUS
<1>8. UNCHANGED << stage, entity, component, archetype, query, lost, refused >>  BY DEF CreateLayer
<1>9. /\ max \in Nat /\ l \in Nat /\ old.entities \in Seq(Nat)
      /\ l \in 1 .. MaxLayers /\ DOMAIN old.entities = 1 .. l - 1
  BY <1>1, <1>2, <1>3, MemoryAssumption DEF CreateLayer, ListsGranted
<1>10. capacity \in Nat /\ l <= capacity
  <2>1. old.capacity \in Nat  BY <1>2
  <2> QED  BY <1>4, <1>9, <2>1 DEF Roomy
<1>11. PICK e : e = Append(old.entities, max)  OBVIOUS
<1>12. /\ e \in Seq(Nat) /\ Len(e) = l /\ DOMAIN e = 1 .. l
       /\ e[l] = max /\ \A i \in 1 .. l - 1 : e[i] = old.entities[i]
  BY <1>3, <1>9, <1>11
<1>13. /\ layer' \in [ capacity : Nat, entities : Seq(Nat) ]
       /\ layer'.capacity = capacity /\ layer'.entities = e
  BY <1>5, <1>10, <1>11, <1>12
<1>14. FieldsTyped'  BY <1>1, <1>8, <1>13 DEF FieldsTyped
<1>15. Held'
  <2>1. QueryFits(query)' /\ (~ QueryOpen => query = NoQuery)'
    BY <1>1, <1>8 DEF Held, QueryFits, QueryOpen, NoQuery
  <2>2. Len(layer'.entities) <= layer'.capacity /\ Len(layer'.entities) <= MaxLayers
    BY <1>9, <1>10, <1>12, <1>13
  <2> QED  BY <1>1, <1>8, <2>1, <2>2 DEF Held, EntitiesFit
<1>16. (\A ask \in one : Right(ask)) /\ \A kind \in LayerArrays : Settled(<< kind, 0, 0 >>, one)
  <2>1. \A kind \in LayerArrays : /\ << kind, 0, 0 >> \in Buffer
                                  /\ Believed(kind, 0, 0) = old.capacity
                                  /\ Believed(kind, 0, 0)' = capacity
    BY <1>2, <1>13, BufferShape, BeliefsHold DEF Single, Beliefs
  <2> QED  BY <1>1, <1>6, <2>1, RenewedAsBelieved
<1>17. (\A ask \in two : Right(ask)) /\ Settled(<< "layer.entities", l, 0 >>, two)
  <2>1. << "layer.entities", l, 0 >> \in Buffer  BY <1>9, BufferShape
  <2>2. Believed("layer.entities", l, 0) = 0
    BY <1>2, <1>9, BeliefsHold DEF Beliefs
  <2>3. Believed("layer.entities", l, 0)' = max
    <3>1. l \in DOMAIN layer'.entities /\ layer'.entities[l] = max  BY <1>9, <1>12, <1>13
    <3> QED  BY <3>1, BeliefsHold DEF Beliefs
  <2> QED  BY <1>1, <1>7, <2>1, <2>2, <2>3, RenewedAsBelieved
<1>18. PICK asks : asks = one \cup two  OBVIOUS
<1>19. Answered(asks) /\ \A ask \in asks : Right(ask)
  BY <1>5, <1>6, <1>7, <1>16, <1>17, <1>18
<1>20. AllSettled(OfLayers, asks)
  <2>1. ASSUME NEW b \in Buffer, b[1] \in LayerArrays PROVE Settled(b, asks)
    <3>1. b = << b[1], 0, 0 >>  BY <2>1, BufferShape DEF SetArrays, LayerArrays
    <3> QED  BY <1>16, <1>18, <2>1, <3>1, SettledBy
  <2>2. ASSUME NEW b \in Buffer, b[1] = "layer.entities" PROVE Settled(b, asks)
    <3>1. b = << "layer.entities", b[2], 0 >> /\ b[2] \in 1 .. MaxLayers
      BY <2>2, Shapes
    <3>2. CASE b[2] = l  BY <1>17, <1>18, <3>1, <3>2, SettledBy
    <3>3. CASE b[2] # l
      <4>1. /\ b[2] \in DOMAIN layer'.entities <=> b[2] \in DOMAIN layer.entities
            /\ b[2] \in DOMAIN layer.entities =>
                 layer'.entities[b[2]] = layer.entities[b[2]]
        BY <1>2, <1>9, <1>12, <1>13, <3>1, <3>3
      <4>2. Believed(b[1], b[2], b[3])' = Believed(b[1], b[2], b[3])
        BY <2>2, <4>1, BeliefsHold DEF Beliefs
      <4> QED  BY <1>1, <4>2, BelievedStill
    <3> QED  BY <3>2, <3>3
  <2> QED  BY <2>1, <2>2 DEF AllSettled, OfLayers
<1>21. \A b \in Buffer : Settled(b, asks)
  BY <1>1, <1>8, <1>20, Untouched, SettledByKind
<1> QED
  <2>1. UNCHANGED << stage, refused >> /\ Loses({})  BY <1>8 DEF Loses
  <2> QED  BY <1>1, <1>14, <1>15, <1>19, <1>21, <2>1, CallKeeps

-----------------------------------------------------------------------------
(* The queries                                                             *)

LEMMA CreateQueryKeeps ==
  ASSUME MemoryInv, CreateQuery
  PROVE  MemoryInv'
<1>1. FieldsTyped /\ Held /\ BooksRight /\ stage = "open" /\ Called /\ query = NoQuery
  BY OpenBooks DEF MemoryInv, TypeOK, FieldsTyped, CreateQuery, Called, Held
<1>2. UNCHANGED << stage, entity, layer, component, archetype, lost, refused >>  BY DEF CreateQuery
<1>3. PICK cs \in (SUBSET Registered) \ {{}} :
        /\ query' = [ NoQuery EXCEPT !.components = cs ]
        /\ Answered({ Asked(TheOnly("query"), 0, 1) }
                    \cup Renewed(QueryArrays, 0, 0, Cardinality(cs)))
  BY DEF CreateQuery
<1>4. cs \in SUBSET Component /\ cs # {}  BY <1>1, <1>3, RegisteredIsComponents
<1>5. query' = [ components |-> cs, tested |-> 0, length |-> 0, capacity |-> 0 ]
  BY <1>3 DEF NoQuery
<1>6. QueryOpen' /\ ~ QueryOpen /\ Columns' = Cardinality(cs) /\ Columns = 0
      /\ Cardinality(cs) \in Nat
  <2>1. Cardinality({}) = 0  BY FS_EmptySet
  <2>2. query'.components = cs /\ query.components = {}  BY <1>1, <1>5 DEF NoQuery
  <2> QED  BY <1>4, <2>1, <2>2, SetsCounted DEF QueryOpen, Columns
<1>7. FieldsTyped'
  <2>1. query' \in [ components : SUBSET Component, tested : Nat, length : Nat, capacity : Nat ]
    BY <1>4, <1>5
  <2> QED  BY <1>1, <1>2, <2>1 DEF FieldsTyped
<1>8. Held'
  <2>1. QueryFits(query)'  BY <1>1, <1>2, <1>5 DEF Held, FieldsTyped, QueryFits
  <2> QED  BY <1>1, <1>2, <1>6, <2>1 DEF Held, EntitiesFit
<1>9. PICK one : one = { Asked(TheOnly("query"), 0, 1) }  OBVIOUS
<1>10. PICK two : two = Renewed(QueryArrays, 0, 0, Cardinality(cs))  OBVIOUS
<1>11. PICK asks : asks = one \cup two  OBVIOUS
<1>12. (\A ask \in one : Right(ask)) /\ Settled(<< "query", 0, 0 >>, one)
  <2>1. << "query", 0, 0 >> \in Buffer  BY BufferShape DEF Single, QueryLists
  <2>2. Believed("query", 0, 0)' = 1 /\ Believed("query", 0, 0) = 0
    BY <1>6, BeliefsHold DEF QueryBeliefs
  <2>3. given[<< "query", 0, 0 >>] = 0  BY <1>1, <2>1, <2>2 DEF BooksRight
  <2> QED  BY <1>9, <2>1, <2>2, <2>3 DEF Right, Settled, Asked, TheOnly
<1>13. (\A ask \in two : Right(ask)) /\ \A kind \in QueryArrays : Settled(<< kind, 0, 0 >>, two)
  <2>1. \A kind \in QueryArrays : /\ << kind, 0, 0 >> \in Buffer
                                  /\ Believed(kind, 0, 0) = 0
                                  /\ Believed(kind, 0, 0)' = Cardinality(cs)
    BY <1>6, BufferShape, BeliefsHold DEF Single, QueryBeliefs
  <2> QED  BY <1>1, <1>10, <2>1, RenewedAsBelieved
<1>14. Answered(asks) /\ \A ask \in asks : Right(ask)
  BY <1>3, <1>9, <1>10, <1>11, <1>12, <1>13
<1>15. AllSettled(OfQuery, asks)
  <2>1. ASSUME NEW b \in Buffer, b[1] = "query" PROVE Settled(b, asks)
    <3>1. b = << "query", 0, 0 >>  BY <2>1, BufferShape DEF SetArrays
    <3> QED  BY <1>11, <1>12, <3>1, SettledBy
  <2>2. ASSUME NEW b \in Buffer, b[1] \in QueryArrays PROVE Settled(b, asks)
    <3>1. b = << b[1], 0, 0 >>  BY <2>2, BufferShape DEF SetArrays, QueryArrays
    <3> QED  BY <1>11, <1>13, <2>2, <3>1, SettledBy
  <2>3. ASSUME NEW b \in Buffer, b[1] \in { "query.archetype", "query.offset" }
        PROVE  Settled(b, asks)
    <3>1. query.capacity = 0 /\ query'.capacity = 0  BY <1>1, <1>5 DEF NoQuery
    <3>2. Believed(b[1], b[2], b[3])' = 0 /\ Believed(b[1], b[2], b[3]) = 0
      BY <1>6, <2>3, <3>1, BeliefsHold DEF QueryBeliefs
    <3> QED  BY <1>1, <3>2, BelievedStill
  <2> QED  BY <2>1, <2>2, <2>3 DEF AllSettled, OfQuery
<1>16. \A b \in Buffer : Settled(b, asks)
  BY <1>1, <1>2, <1>15, Untouched, SettledByKind
<1> QED
  <2>1. UNCHANGED << stage, refused >> /\ Loses({})  BY <1>2 DEF Loses
  <2> QED  BY <1>1, <1>7, <1>8, <1>14, <1>16, <2>1, CallKeeps

LEMMA CreateQueryFailsKeeps ==
  ASSUME MemoryInv, CreateQueryFails
  PROVE  MemoryInv'
<1>1. PICK n \in DOMAIN MadeInOrder : Loses({ TheOnly(MadeInOrder[m]) : m \in 1 .. n - 1 })
  BY DEF CreateQueryFails
<1>2. PICK losses : losses = { TheOnly(MadeInOrder[m]) : m \in 1 .. n - 1 }  OBVIOUS
<1>3. n \in 1 .. 5  BY <1>1 DEF MadeInOrder
<1>4. ASSUME NEW b \in losses PROVE b \in Buffer /\ b[1] \in { "query" } \cup QueryArrays
  <2>1. PICK m \in 1 .. n - 1 : b = TheOnly(MadeInOrder[m])  BY <1>2
  <2>2. m \in 1 .. 5  BY <1>3
  <2>3. MadeInOrder[m] \in { "query" } \cup QueryArrays
    BY <2>2 DEF MadeInOrder, QueryArrays
  <2> QED  BY <2>1, <2>3, BufferShape DEF TheOnly, Single, QueryLists
<1>5. lost = {} /\ mistold = {} /\ lost' = losses
  BY <1>1, <1>2 DEF CreateQueryFails, Called, Loses
<1>6. UNCHANGED << stage, entity, layer, component, archetype, query, given, mistold, refused >>
      /\ stage = "open"
  BY DEF CreateQueryFails, Called
<1>7. TypeOK'  BY <1>4, <1>5, <1>6 DEF MemoryInv, TypeOK
<1>8. Held'  BY <1>6 DEF MemoryInv, Held, EntitiesFit, QueryFits, QueryOpen, NoQuery
<1>9. BooksAgree' /\ refused' = {}
  <2>1. BooksRight /\ refused = {}  BY <1>6, OpenBooks
  <2>2. \A kind, k, j : Believed(kind, k, j)' = Believed(kind, k, j)
    BY <1>6 DEF Believed, QueryOpen, Columns
  <2>3. BooksRight'  BY <1>6, <2>1, <2>2 DEF BooksRight
  <2> QED  BY <1>6, <2>1, <2>3, OpenAgree
<1>10. OnlyKnownLosses'
  <2>1. TheOnly("entity.free") \notin losses
    <3>1. TheOnly("entity.free")[1] = "entity.free"  BY DEF TheOnly
    <3> QED  BY <1>4, <3>1 DEF QueryArrays
  <2> QED  BY <1>4, <1>5, <1>6, <2>1 DEF OnlyKnownLosses, LostAnyway
<1> QED  BY <1>6, <1>7, <1>8, <1>9, <1>10 DEF MemoryInv

(* What an execution leaves of a query, after so many tests.               *)
TestedFrom(q, i, x) ==
  /\ x.components = q.components /\ x.tested = q.tested + i
  /\ x.length <= x.capacity /\ x.length <= x.tested
  /\ x.length <= 1 => x.capacity = x.length

LEMMA ExecuteQueryTests ==
  ASSUME FieldsTyped, Held, NEW n \in Nat, NEW done, done = Iterate(WithTested, query, n)
  PROVE  /\ done \in [ components : SUBSET Component, tested : Nat, length : Nat, capacity : Nat ]
         /\ WithTested(done) \in
              [ components : SUBSET Component, tested : Nat, length : Nat, capacity : Nat ]
         /\ TestedFrom(query, n, done)
<1>1. FieldsTyped /\ Held  OBVIOUS
<1>2. PICK S : S = [ components : SUBSET Component, tested : Nat, length : Nat, capacity : Nat ]
  OBVIOUS
<1>4. query \in S /\ query.tested \in Nat
  BY <1>1, <1>2 DEF FieldsTyped, Held, QueryFits
<1>5. PICK U : U = { pair \in Nat \X S : TestedFrom(query, pair[1], pair[2]) }  OBVIOUS
<1>6. ASSUME NEW x \in S
      PROVE  /\ WithTested(x) \in S
             /\ WithTested(x).components = x.components
             /\ WithTested(x).tested = x.tested + 1
             /\ \/ WithTested(x).length = x.length /\ WithTested(x).capacity = x.capacity
                \/ /\ WithTested(x).length = x.length + 1
                   /\ WithTested(x).capacity =
                        IF x.length + 1 >= x.capacity THEN Roomy(x.length + 1) ELSE x.capacity
  <2>1. x.tested + 1 \in Nat /\ x.length + 1 \in Nat /\ Roomy(x.length + 1) \in Nat
        /\ x.capacity \in Nat
    BY <1>2 DEF Roomy
  <2>2. CASE ~ (x.components \subseteq archetype.data[x.tested + 1].components)
    <3>1. WithTested(x) = [ x EXCEPT !.tested = x.tested + 1 ]  BY <2>2 DEF WithTested
    <3> QED  BY <1>2, <2>1, <3>1
  <2>3. CASE x.components \subseteq archetype.data[x.tested + 1].components
    <3>1. PICK c : c = IF x.length + 1 >= x.capacity THEN Roomy(x.length + 1) ELSE x.capacity
      OBVIOUS
    <3>2. WithTested(x) = [ x EXCEPT !.tested = x.tested + 1, !.length = x.length + 1,
                                     !.capacity = c ]
      BY <2>3, <3>1 DEF WithTested
    <3>3. c \in Nat  BY <2>1, <3>1
    <3>4. PICK y : y = WithTested(x)  OBVIOUS
    <3>5. y \in S /\ y.components = x.components /\ y.tested = x.tested + 1
          /\ y.length = x.length + 1 /\ y.capacity = c
      BY <1>2, <2>1, <3>2, <3>3, <3>4
    <3> QED  BY <3>1, <3>4, <3>5
  <2> QED  BY <2>2, <2>3
<1>7. << 0, query >> \in U
  <2>1. TestedFrom(query, 0, query)
    BY <1>1, <1>4 DEF TestedFrom, Held, QueryFits
  <2> QED  BY <1>4, <1>5, <2>1
<1>8. ASSUME NEW i \in 1 .. n, NEW x \in S, << i - 1, x >> \in U
      PROVE  << i, WithTested(x) >> \in U
  <2>1. TestedFrom(query, i - 1, x)  BY <1>5, <1>8
  <2>2. PICK y \in S :
          /\ y = WithTested(x) /\ y.components = x.components /\ y.tested = x.tested + 1
          /\ \/ y.length = x.length /\ y.capacity = x.capacity
             \/ /\ y.length = x.length + 1
                /\ y.capacity = IF x.length + 1 >= x.capacity THEN Roomy(x.length + 1)
                                ELSE x.capacity
    BY <1>6
  <2>3. /\ x.tested \in Nat /\ x.length \in Nat /\ x.capacity \in Nat
        /\ y.tested \in Nat /\ y.length \in Nat /\ y.capacity \in Nat
    BY <1>2
  <2>4. y.tested = query.tested + i /\ y.length <= y.tested
    BY <1>4, <2>1, <2>2, <2>3 DEF TestedFrom
  <2>5. y.length <= y.capacity /\ (y.length <= 1 => y.capacity = y.length)
    BY <2>1, <2>2, <2>3 DEF TestedFrom, Roomy
  <2>6. TestedFrom(query, i, y)  BY <2>1, <2>2, <2>4, <2>5 DEF TestedFrom
  <2> QED  BY <1>5, <2>2, <2>6
<1>9. PICK y : y = Iterate(WithTested, query, n)  OBVIOUS
<1>10. << n, y >> \in U
  <2>1. \A x \in S : WithTested(x) \in S  BY <1>6
  <2>2. \A i \in 1 .. n : \A x \in S : << i - 1, x >> \in U => << i, WithTested(x) >> \in U
    BY <1>8
  <2>3. << n, Iterate(WithTested, query, n) >> \in U
    BY <1>4, <1>7, <2>1, <2>2, TestsKeep
  <2> QED  BY <1>9, <2>3
<1>11. y \in S /\ TestedFrom(query, n, y)  BY <1>5, <1>10
<1> QED  BY <1>2, <1>6, <1>9, <1>11

LEMMA ExecuteQueryKeeps ==
  ASSUME MemoryInv, ExecuteQuery
  PROVE  MemoryInv'
<1>1. FieldsTyped /\ Held /\ BooksRight /\ stage = "open" /\ Called /\ QueryOpen
  BY OpenBooks DEF MemoryInv, TypeOK, FieldsTyped, ExecuteQuery, Called
<1>2. UNCHANGED << stage, entity, layer, component, archetype, lost, refused >>  BY DEF ExecuteQuery
<1>3. PICK done : done = Iterate(WithTested, query, Len(archetype.data) - query.tested)  OBVIOUS
<1>4. PICK n : n = Len(archetype.data) - query.tested  OBVIOUS
<1>5. /\ done \in [ components : SUBSET Component, tested : Nat, length : Nat, capacity : Nat ]
      /\ TestedFrom(query, n, done) /\ done.tested = Len(archetype.data)
  <2>1. n \in Nat /\ query.tested \in Nat /\ Len(archetype.data) \in Nat
    BY <1>1, <1>4 DEF FieldsTyped, Held, QueryFits
  <2>2. /\ done \in [ components : SUBSET Component, tested : Nat, length : Nat, capacity : Nat ]
        /\ TestedFrom(query, n, done)
    BY <1>1, <1>3, <1>4, <2>1, ExecuteQueryTests
  <2>3. done.tested = Len(archetype.data)  BY <1>4, <2>1, <2>2 DEF TestedFrom
  <2> QED  BY <2>2, <2>3
<1>6. PICK one : one = Renewed({ "query.archetype" }, 0, query.capacity, done.capacity)  OBVIOUS
<1>7. PICK two : two = Renewed({ "query.offset" }, 0, Columns * query.capacity,
                               Columns * done.capacity)
  OBVIOUS
<1>8. PICK asks : asks = one \cup two  OBVIOUS
<1>9. query' = done /\ Answered(asks)
  BY <1>3, <1>6, <1>7, <1>8 DEF ExecuteQuery, Columns
<1>10. Columns' = Columns /\ QueryOpen'
  BY <1>1, <1>5, <1>9 DEF TestedFrom, Columns, QueryOpen
<1>11. FieldsTyped'  BY <1>1, <1>2, <1>5, <1>9 DEF FieldsTyped
<1>12. Held'
  <2>1. QueryFits(query)'
    <3>1. QueryFits(done)
      BY <1>1, <1>5 DEF TestedFrom, QueryFits, FieldsTyped
    <3> QED  BY <1>2, <1>9, <3>1 DEF QueryFits
  <2> QED  BY <1>1, <1>2, <1>10, <2>1 DEF Held, EntitiesFit
<1>13. (\A ask \in one : Right(ask)) /\ Settled(<< "query.archetype", 0, 0 >>, one)
  <2>1. << "query.archetype", 0, 0 >> \in Buffer  BY BufferShape DEF Single, QueryLists
  <2>2. /\ Believed("query.archetype", 0, 0) = query.capacity
        /\ Believed("query.archetype", 0, 0)' = done.capacity
    BY <1>9, BeliefsHold DEF QueryBeliefs
  <2> QED  BY <1>1, <1>6, <2>1, <2>2, RenewedAsBelieved
<1>14. (\A ask \in two : Right(ask)) /\ Settled(<< "query.offset", 0, 0 >>, two)
  <2>1. << "query.offset", 0, 0 >> \in Buffer  BY BufferShape DEF Single, QueryLists
  <2>2. /\ Believed("query.offset", 0, 0) = Columns * query.capacity
        /\ Believed("query.offset", 0, 0)' = Columns * done.capacity
    BY <1>9, <1>10, BeliefsHold DEF QueryBeliefs
  <2> QED  BY <1>1, <1>7, <2>1, <2>2, RenewedAsBelieved
<1>15. AllSettled(OfQuery, asks)
  <2>1. ASSUME NEW b \in Buffer, b[1] = "query.archetype" PROVE Settled(b, asks)
    <3>1. b = << "query.archetype", 0, 0 >>  BY <2>1, BufferShape DEF SetArrays
    <3> QED  BY <1>8, <1>13, <3>1, SettledBy
  <2>2. ASSUME NEW b \in Buffer, b[1] = "query.offset" PROVE Settled(b, asks)
    <3>1. b = << "query.offset", 0, 0 >>  BY <2>2, BufferShape DEF SetArrays
    <3> QED  BY <1>8, <1>14, <3>1, SettledBy
  <2>3. ASSUME NEW b \in Buffer, b[1] \in QueryArrays \cup { "query" }
        PROVE  Settled(b, asks)
    <3>1. Believed(b[1], b[2], b[3])' = Believed(b[1], b[2], b[3])
      BY <1>1, <1>10, <2>3, BeliefsHold DEF QueryBeliefs
    <3> QED  BY <1>1, <3>1, BelievedStill
  <2> QED  BY <2>1, <2>2, <2>3 DEF AllSettled, OfQuery
<1>16. \A b \in Buffer : Settled(b, asks)
  BY <1>1, <1>2, <1>15, Untouched, SettledByKind
<1> QED
  <2>1. UNCHANGED << stage, refused >> /\ Loses({})  BY <1>2 DEF Loses
  <2>2. \A ask \in asks : Right(ask)  BY <1>8, <1>13, <1>14
  <2> QED  BY <1>1, <1>9, <1>11, <1>12, <1>16, <2>1, <2>2, CallKeeps

LEMMA ExecuteQueryShortKeeps ==
  ASSUME MemoryInv, ExecuteQueryShort
  PROVE  MemoryInv'
<1>1. FieldsTyped /\ Held /\ BooksRight /\ stage = "open" /\ Called /\ QueryOpen
  BY OpenBooks DEF MemoryInv, TypeOK, FieldsTyped, ExecuteQueryShort, Called
<1>2. PICK list : list = << "query.archetype", 0, 0 >>  OBVIOUS
<1>3. PICK offset : offset = << "query.offset", 0, 0 >>  OBVIOUS
<1>4. UNCHANGED << entity, layer, component, archetype >>  BY DEF ExecuteQueryShort
<1>5. PICK n \in 0 .. Len(archetype.data) - query.tested - 1 :
        LET last == Iterate(WithTested, query, n) IN
        /\ query' = last
        /\ \/ /\ RunsShort(list)
              /\ Answered({ Denied(list, query.capacity),
                            Asked(offset, Columns * query.capacity, Columns * last.capacity) })
              /\ Loses(Dropped(list, last.capacity))
           \/ /\ RunsShort(offset)
              /\ Answered({ Asked(list, query.capacity, WithTested(last).capacity),
                            Denied(offset, Columns * query.capacity) })
              /\ Loses(Dropped(offset, Columns * last.capacity))
  BY <1>2, <1>3 DEF ExecuteQueryShort, Columns, TheOnly
<1>6. PICK done : done = Iterate(WithTested, query, n)  OBVIOUS
<1>7. n \in Nat /\ query.tested \in Nat /\ Len(archetype.data) \in Nat
      /\ query.tested + n < Len(archetype.data)
  BY <1>1 DEF FieldsTyped, Held, QueryFits
<1>8. /\ done \in [ components : SUBSET Component, tested : Nat, length : Nat, capacity : Nat ]
      /\ WithTested(done).capacity \in Nat
      /\ TestedFrom(query, n, done)
  BY <1>1, <1>6, <1>7, ExecuteQueryTests
<1>9. /\ done.capacity \in Nat /\ query.capacity \in Nat
      /\ query'.tested = query.tested + n /\ query'.length <= query'.tested
      /\ query'.length < Len(archetype'.data) /\ Columns' = Columns /\ Columns \in Nat
      /\ QueryOpen' /\ query'.length \in Nat
  <2>1. query' = done  BY <1>5, <1>6
  <2>2. done.capacity \in Nat /\ query.capacity \in Nat /\ done.length \in Nat
        /\ done.tested \in Nat
    BY <1>1, <1>8 DEF FieldsTyped
  <2>3. Columns' = Columns /\ QueryOpen'
    BY <1>1, <1>8, <2>1 DEF TestedFrom, Columns, QueryOpen
  <2>4. Columns \in Nat
    <3>1. query.components \in SUBSET Component  BY <1>1 DEF FieldsTyped
    <3> QED  BY <3>1, SetsCounted DEF Columns
  <2> QED  BY <1>4, <1>7, <1>8, <2>1, <2>2, <2>3, <2>4 DEF TestedFrom
<1>10. FieldsTyped'  BY <1>1, <1>4, <1>5, <1>6, <1>8 DEF FieldsTyped
<1>11. Held'
  <2>1. QueryFits(query)'
    <3>1. QueryFits(done)
      BY <1>7, <1>8, <1>9 DEF TestedFrom, QueryFits
    <3> QED  BY <1>4, <1>5, <1>6, <3>1 DEF QueryFits
  <2> QED  BY <1>1, <1>4, <1>9, <2>1 DEF Held, EntitiesFit
<1>12. /\ list \in Buffer /\ offset \in Buffer
       /\ given[list] = query.capacity /\ given[offset] = Columns * query.capacity
       /\ list[1] = "query.archetype" /\ offset[1] = "query.offset"
  <2>1. /\ list \in Buffer /\ list[1] = "query.archetype"
        /\ offset \in Buffer /\ offset[1] = "query.offset"
    BY <1>2, <1>3, BufferShape DEF Single, QueryLists
  <2>2. /\ Believed("query.archetype", 0, 0) = query.capacity
        /\ Believed("query.offset", 0, 0) = Columns * query.capacity
    BY BeliefsHold DEF QueryBeliefs
  <2> QED  BY <1>1, <1>2, <1>3, <2>1, <2>2 DEF BooksRight
<1>13. ASSUME NEW r \in { list, offset }, RunsShort(r)
       PROVE  list \in Unsure' /\ offset \in Unsure' /\ LostByRefusal(r)'
  <2>1. r[1] \in QueryLists  BY <1>12, <1>13 DEF QueryLists
  <2>2. \A kind \in QueryLists : TheOnly(kind) \in Unsure'
    BY <1>13, <2>1, UnsureAfter DEF RunsShort
  <2>3. list \in Unsure' /\ offset \in Unsure'
    BY <1>2, <1>3, <2>2 DEF QueryLists, TheOnly
  <2> QED  BY <1>12, <1>13, <2>3 DEF LostByRefusal
<1>14. ASSUME NEW r \in { list, offset }, RunsShort(r), NEW asks,
              NEW b \in Buffer
       PROVE  b \in Unsure' \/ Settled(b, asks)
  <2>1. CASE b[1] \in QueryLists
    <3>1. b = << b[1], 0, 0 >>  BY <2>1, Shapes DEF Single
    <3>2. b = list \/ b = offset  BY <1>2, <1>3, <2>1, <3>1 DEF QueryLists
    <3> QED  BY <1>13, <1>14, <3>2
  <2>2. CASE b[1] \in QueryArrays \cup { "query" }
    <3>1. Believed(b[1], b[2], b[3])' = Believed(b[1], b[2], b[3])
      BY <1>1, <1>9, <2>2, BeliefsHold DEF QueryBeliefs
    <3> QED  BY <1>1, <3>1, BelievedStill
  <2>3. CASE b[1] \notin OfQuery
    BY <1>1, <1>4, <2>3, Untouched, KindsKnown DEF AllSettled
  <2> QED  BY <2>1, <2>2, <2>3 DEF OfQuery, QueryLists
<1>15. /\ lost = {} /\ mistold = {} /\ TheOnly("entity.free") \notin { list, offset }
       /\ list # offset
  <2>1. TheOnly("entity.free")[1] = "entity.free"  BY DEF TheOnly
  <2> QED  BY <1>1, <1>12, <2>1 DEF Called
<1>16. \A c, m \in Nat : c * m \in Nat  OBVIOUS
<1>17. CASE RunsShort(list)
            /\ Answered({ Denied(list, query.capacity),
                          Asked(offset, Columns * query.capacity, Columns * done.capacity) })
            /\ Loses(Dropped(list, done.capacity))
  <2>1. PICK asks : asks = { Asked(list, query.capacity, 0),
                             Asked(offset, Columns * query.capacity, Columns * done.capacity) }
    OBVIOUS
  <2>2. PICK losses : losses = Dropped(list, done.capacity)  OBVIOUS
  <2>3. RunsShort(list) /\ Answered(asks) /\ Loses(losses) /\ losses \subseteq { list }
    BY <1>17, <2>1, <2>2 DEF Denied, Dropped
  <2>4. Columns * done.capacity \in Nat  BY <1>9, <1>16
  <2>5. \A ask \in asks : HalfRight(ask) /\ (ask.buffer = list => ask.size = 0)
    BY <1>12, <1>13, <1>15, <2>1, <2>3, <2>4 DEF HalfRight, Asked
  <2>6. \E ask \in asks : ask.buffer = list  BY <2>1 DEF Asked
  <2>7. losses \subseteq Buffer /\ (\A b \in losses : LostByRefusal(b)')
        /\ TheOnly("entity.free") \notin losses
    BY <1>12, <1>13, <1>15, <2>3
  <2>8. \A b \in Buffer : b \in Unsure' \/ Settled(b, asks)  BY <1>14, <2>3
  <2> QED
    BY <1>9, <1>10, <1>11, <1>12, <1>15, <2>3, <2>5, <2>6, <2>7, <2>8, ShortKeeps
<1>18. CASE RunsShort(offset)
            /\ Answered({ Asked(list, query.capacity, WithTested(done).capacity),
                          Denied(offset, Columns * query.capacity) })
            /\ Loses(Dropped(offset, Columns * done.capacity))
  <2>1. PICK asks : asks = { Asked(list, query.capacity, WithTested(done).capacity),
                             Asked(offset, Columns * query.capacity, 0) }
    OBVIOUS
  <2>2. PICK losses : losses = Dropped(offset, Columns * done.capacity)  OBVIOUS
  <2>3. RunsShort(offset) /\ Answered(asks) /\ Loses(losses) /\ losses \subseteq { offset }
    BY <1>18, <2>1, <2>2 DEF Denied, Dropped
  <2>5. \A ask \in asks : HalfRight(ask) /\ (ask.buffer = offset => ask.size = 0)
    BY <1>8, <1>12, <1>13, <1>15, <2>1, <2>3 DEF HalfRight, Asked
  <2>6. \E ask \in asks : ask.buffer = offset  BY <2>1 DEF Asked
  <2>7. losses \subseteq Buffer /\ (\A b \in losses : LostByRefusal(b)')
        /\ TheOnly("entity.free") \notin losses
    BY <1>12, <1>13, <1>15, <2>3
  <2>8. \A b \in Buffer : b \in Unsure' \/ Settled(b, asks)  BY <1>14, <2>3
  <2> QED
    BY <1>9, <1>10, <1>11, <1>12, <1>15, <2>3, <2>5, <2>6, <2>7, <2>8, ShortKeeps
<1> QED  BY <1>5, <1>6, <1>17, <1>18

(* The sizes told of what is freed are those that the library believes.    *)
LEMMA SureBooks ==
  ASSUME MemoryInv, stage \in { "open", "short" }
  PROVE  /\ \A b \in Buffer \ Unsure : given[b] = Believed(b[1], b[2], b[3])
         /\ \A b \in refused : given[b] = 0
         /\ \A b \in refused : b[1] \in QueryLists /\ QueryOpen => query.length < Len(archetype.data)
         /\ \A b \in Unsure \ refused :
              \E r \in refused : \E kinds \in { EntityArrays, LayerArrays, ArchetypeArrays, QueryLists } :
                r[1] \in kinds /\ b[1] \in kinds
<1>1. \A b \in Buffer \ Unsure : given[b] = Believed(b[1], b[2], b[3])
  BY DEF MemoryInv, BooksAgree
<1>2. \A b \in refused : /\ given[b] = 0
                         /\ b[1] \in QueryLists /\ QueryOpen => query.length < Len(archetype.data)
  BY DEF MemoryInv, CutOff
<1>3. ASSUME NEW b \in Unsure \ refused
      PROVE  \E r \in refused : \E kinds \in { EntityArrays, LayerArrays, ArchetypeArrays, QueryLists } :
               r[1] \in kinds /\ b[1] \in kinds
  <2>1. PICK r \in refused : b \in Together(r)  BY <1>3 DEF Unsure
  <2>2. PICK kinds \in { EntityArrays, LayerArrays, ArchetypeArrays, QueryLists } :
          r[1] \in kinds /\ b \in { TheOnly(kind) : kind \in kinds }
    BY <2>1 DEF Together
  <2>3. PICK kind \in kinds : b = TheOnly(kind)  BY <2>2
  <2>4. b[1] = kind  BY <2>3 DEF TheOnly
  <2> QED  BY <2>2, <2>4
<1> QED  BY <1>1, <1>2, <1>3

(* The lists are told by their length.  They are as long as they can be    *)
(* while there is one archetype on them.                                   *)
LEMMA DestroyQueryKeeps ==
  ASSUME MemoryInv, DestroyQuery
  PROVE  MemoryInv'
<1>1. /\ FieldsTyped /\ Held /\ stage \in { "open", "short" } /\ QueryOpen /\ OnlyKnownLosses
      /\ given \in [ Buffer -> Nat ]
  BY DEF MemoryInv, TypeOK, FieldsTyped, DestroyQuery
<1>2. UNCHANGED << stage, entity, layer, component, archetype, refused >> /\ query' = NoQuery
  BY DEF DestroyQuery
<1>3. PICK lists : lists = { Asked(TheOnly("query"), 1, 0),
                             Asked(TheOnly("query.archetype"), query.length, 0),
                             Asked(TheOnly("query.offset"), query.length * Columns, 0) }
  OBVIOUS
<1>4. PICK arrays : arrays = Renewed(QueryArrays, 0, Columns, 0)  OBVIOUS
<1>5. PICK asks : asks = lists \cup arrays  OBVIOUS
<1>6. Answered(asks)  BY <1>3, <1>4, <1>5 DEF DestroyQuery, Columns
<1>7. Columns' = 0 /\ ~ QueryOpen' /\ Columns \in Nat /\ Columns > 0
  <2>1. Cardinality({}) = 0  BY FS_EmptySet
  <2>2. query'.components = {}  BY <1>2 DEF NoQuery
  <2>3. query.components \in SUBSET Component  BY <1>1 DEF FieldsTyped
  <2> QED  BY <1>1, <2>1, <2>2, <2>3, SetsCounted DEF QueryOpen, Columns
<1>8. /\ query.length \in Nat /\ query.capacity \in Nat /\ query'.capacity = 0
      /\ query.length <= 1 => query.capacity = query.length
      /\ query.length <= Len(archetype.data) /\ Len(archetype.data) \in Nat
  BY <1>1, <1>2 DEF FieldsTyped, Held, QueryFits, NoQuery
<1>9. FieldsTyped' /\ Held'
  <2>1. query' \in [ components : SUBSET Component, tested : Nat, length : Nat, capacity : Nat ]
    BY <1>2 DEF NoQuery
  <2>2. QueryFits(query)'  BY <1>1, <1>2, <1>8 DEF QueryFits, NoQuery
  <2>3. FieldsTyped'  BY <1>1, <1>2, <2>1 DEF FieldsTyped
  <2> QED  BY <1>1, <1>2, <1>7, <2>2, <2>3 DEF Held, EntitiesFit
<1>10. Unsure' = Unsure  BY <1>2 DEF Unsure, Together
<1>11. arrays = { Asked(<< kind, 0, 0 >>, Columns, 0) : kind \in QueryArrays }
  BY <1>4, <1>7 DEF Renewed
<1>12. PICK list : list = << "query.archetype", 0, 0 >>  OBVIOUS
<1>13. PICK offset : offset = << "query.offset", 0, 0 >>  OBVIOUS
<1>14. /\ list \in Buffer /\ offset \in Buffer /\ list[1] = "query.archetype"
       /\ offset[1] = "query.offset"
       /\ TheOnly("query.archetype") = list /\ TheOnly("query.offset") = offset
       /\ { TheOnly(kind) : kind \in QueryLists } = { list, offset }
  BY <1>12, <1>13, BufferShape DEF Single, QueryLists, TheOnly
<1>15. /\ list \notin Unsure => given[list] = query.capacity
       /\ offset \notin Unsure => given[offset] = Columns * query.capacity
  <2>1. /\ Believed("query.archetype", 0, 0) = query.capacity
        /\ Believed("query.offset", 0, 0) = Columns * query.capacity
    BY BeliefsHold DEF QueryBeliefs
  <2> QED  BY <1>1, <1>12, <1>13, <1>14, <2>1, SureBooks
<1>16. PICK c \in Nat : c = Columns /\ c > 0  BY <1>7
<1>17. PICK l \in Nat : l = query.length  BY <1>8
<1>18. l * c \in Nat /\ (l * c = 0 => l = 0) /\ l * c = c * l  BY <1>16
<1>19. /\ query.capacity = l => Columns * query.capacity = c * l
       /\ query.capacity = 0 => Columns * query.capacity = 0
  BY <1>16
<1>20. ASSUME NEW b \in { list, offset }, NEW told, told = IF b = list THEN l ELSE l * c
       PROVE  /\ told \in Nat
              /\ b \notin Unsure /\ told = 0 => given[b] = 0
              /\ told > 0 /\ told # given[b] /\ given[b] > 0 => Len(archetype.data) > 1
  <2>1. told \in Nat  BY <1>18, <1>20
  <2>2. told = 0 => l = 0  BY <1>18, <1>20
  <2>3. b \notin Unsure => given[b] = IF b = list THEN query.capacity ELSE Columns * query.capacity
    BY <1>14, <1>15, <1>20
  <2>4. l <= 1 /\ b \notin Unsure => told = given[b]
    BY <1>8, <1>17, <1>18, <1>19, <1>20, <2>3
  <2>5. ASSUME told > 0, told # given[b], given[b] > 0 PROVE Len(archetype.data) > 1
    <3>1. l > 0  BY <1>17, <1>20, <2>5
    <3>2. CASE b \notin Unsure  BY <1>8, <1>17, <2>4, <2>5, <3>2
    <3>3. CASE b \in Unsure
      <4>1. b \notin refused  BY <1>1, <2>5, SureBooks
      <4>2. PICK r \in refused :
              \E kinds \in { EntityArrays, LayerArrays, ArchetypeArrays, QueryLists } :
                r[1] \in kinds /\ b[1] \in kinds
        BY <1>1, <3>3, <4>1, SureBooks
      <4>3. r[1] \in QueryLists
        BY <1>14, <1>20, <4>2 DEF EntityArrays, LayerArrays, ArchetypeArrays, QueryLists
      <4>4. query.length < Len(archetype.data)  BY <1>1, <4>3, SureBooks
      <4> QED  BY <1>8, <1>17, <3>1, <4>4
    <3> QED  BY <3>2, <3>3
  <2> QED  BY <2>1, <2>2, <2>4, <2>5
<1>21. ASSUME NEW b \in Buffer, b[1] \in QueryArrays \cup { "query" }
       PROVE  /\ b = << b[1], 0, 0 >>
              /\ given[b] = 0 \/ given[b] = Believed(b[1], b[2], b[3])
              /\ Believed(b[1], b[2], b[3]) = IF b[1] = "query" THEN 1 ELSE Columns
              /\ Believed(b[1], b[2], b[3])' = 0
              /\ b \notin Unsure => given[b] = Believed(b[1], b[2], b[3])
  <2>1. b = << b[1], 0, 0 >>  BY <1>21, Shapes DEF Single
  <2>2. b[1] \notin EntityArrays \cup LayerArrays \cup ArchetypeArrays \cup QueryLists
    BY <1>21 DEF QueryArrays, EntityArrays, LayerArrays, ArchetypeArrays, QueryLists
  <2>3. b \in Unsure => b \in refused  BY <1>1, <2>2, SureBooks
  <2>4. /\ Believed(b[1], b[2], b[3]) = IF b[1] = "query" THEN 1 ELSE Columns
        /\ Believed(b[1], b[2], b[3])' = 0
    <3>1. "query" \notin QueryArrays  BY DEF QueryArrays
    <3> QED  BY <1>1, <1>7, <1>21, <3>1, BeliefsHold DEF QueryBeliefs
  <2> QED  BY <1>1, <2>1, <2>3, <2>4, SureBooks
<1>22. ASSUME NEW ask \in asks
       PROVE  /\ ask.size = 0 /\ ask.told \in Nat /\ ask.buffer \in Buffer
              /\ \/ /\ ask.buffer[1] \in QueryArrays \cup { "query" }
                    /\ ask.told = Believed(ask.buffer[1], ask.buffer[2], ask.buffer[3])
                    /\ ask.told > 0
                 \/ /\ ask.buffer \in { list, offset }
                    /\ ask.told = IF ask.buffer = list THEN l ELSE l * c
  <2>1. CASE ask \in arrays
    <3>1. PICK kind \in QueryArrays : ask = Asked(<< kind, 0, 0 >>, Columns, 0)
      BY <1>11, <2>1
    <3>2. PICK b \in Buffer : b = << kind, 0, 0 >> /\ b[1] = kind
      <4>1. << kind, 0, 0 >> \in Buffer  BY BufferShape DEF Single
      <4> QED  BY <4>1
    <3>3. b[1] # "query"  BY <3>2 DEF QueryArrays
    <3>4. Believed(b[1], b[2], b[3]) = Columns  BY <1>21, <3>2, <3>3
    <3> QED  BY <1>7, <3>1, <3>2, <3>4 DEF Asked
  <2>2. CASE ask = Asked(TheOnly("query"), 1, 0)
    <3>1. PICK b \in Buffer : b = << "query", 0, 0 >> /\ b[1] = "query"
      <4>1. << "query", 0, 0 >> \in Buffer  BY BufferShape DEF Single
      <4> QED  BY <4>1
    <3>2. Believed(b[1], b[2], b[3]) = 1  BY <1>21, <3>1
    <3> QED  BY <2>2, <3>1, <3>2 DEF Asked, TheOnly
  <2>3. CASE ask = Asked(TheOnly("query.archetype"), query.length, 0)
    BY <1>14, <1>17, <2>3 DEF Asked
  <2>4. CASE ask = Asked(TheOnly("query.offset"), query.length * Columns, 0)
    BY <1>14, <1>16, <1>17, <1>18, <2>4 DEF Asked
  <2> QED  BY <1>3, <1>5, <2>1, <2>2, <2>3, <2>4
<1>23. given' \in [ Buffer -> Nat ]  BY <1>1, <1>6, <1>22, AnswersTyped
<1>24. ASSUME NEW b \in Buffer, given[b] = 0 PROVE given'[b] = 0
  BY <1>1, <1>6, <1>22, <1>24, AnswerGives
<1>25. ASSUME NEW b \in Buffer, b \notin Unsure
       PROVE  given'[b] = Believed(b[1], b[2], b[3])'
  <2>1. CASE b[1] \in QueryArrays \cup { "query" }
    <3>1. \E ask \in asks : ask.buffer = b
      <4>1. b = << b[1], 0, 0 >>  BY <1>21, <2>1
      <4>2. CASE b[1] = "query"
        <5>1. Asked(TheOnly("query"), 1, 0) \in asks  BY <1>3, <1>5
        <5> QED  BY <4>1, <4>2, <5>1 DEF Asked, TheOnly
      <4>3. CASE b[1] \in QueryArrays
        <5>1. Asked(<< b[1], 0, 0 >>, Columns, 0) \in asks  BY <1>5, <1>11, <4>3
        <5> QED  BY <4>1, <5>1 DEF Asked
      <4> QED  BY <2>1, <4>2, <4>3
    <3>2. ASSUME NEW ask \in asks, ask.buffer = b
          PROVE  ask.told \in Nat /\ ask.size = 0 /\ ask.told # 0
      <4>1. b \notin { list, offset }  BY <1>14, <2>1 DEF QueryArrays
      <4> QED  BY <1>22, <3>2, <4>1
    <3>3. given'[b] = 0  BY <1>1, <1>6, <3>1, <3>2, AnswerGives
    <3> QED  BY <1>21, <2>1, <3>3
  <2>2. CASE b \in { list, offset }
    <3>1. \E ask \in asks : ask.buffer = b
      <4>1. Asked(list, query.length, 0) \in asks /\ Asked(offset, query.length * Columns, 0) \in asks
        BY <1>3, <1>5, <1>14
      <4> QED  BY <2>2, <4>1 DEF Asked
    <3>2. ASSUME NEW ask \in asks, ask.buffer = b
          PROVE  ask.told \in Nat /\ ask.size = 0 /\ (ask.told = 0 => given[b] = 0)
      <4>1. b[1] \notin QueryArrays \cup { "query" }  BY <1>14, <2>2 DEF QueryArrays
      <4> QED  BY <1>20, <1>22, <1>25, <2>2, <3>2, <4>1
    <3>3. given'[b] = 0  BY <1>1, <1>6, <3>1, <3>2, AnswerGives
    <3>4. Believed(b[1], b[2], b[3])' = 0
      <4>1. Columns' * query'.capacity = 0  BY <1>7, <1>8
      <4> QED  BY <1>8, <1>14, <2>2, <4>1, BeliefsHold DEF QueryBeliefs
    <3> QED  BY <3>3, <3>4
  <2>3. CASE b[1] \notin OfQuery
    <3>1. \A ask \in asks : ask.buffer # b
      BY <1>14, <1>22, <2>3 DEF OfQuery
    <3>2. given[b] \in Nat  BY <1>1
    <3>3. given'[b] = given[b]  BY <1>1, <1>6, <3>1, <3>2, AnswerGives
    <3>4. Believed(b[1], b[2], b[3])' = Believed(b[1], b[2], b[3])
      BY <1>2, <2>3, BeliefsHold, KindsKnown
      DEF Beliefs, ArchetypeBeliefs, OfEntities, OfLayers, OfComponents, OfArchetypes, OfNone
    <3> QED  BY <1>1, <1>25, <3>3, <3>4, SureBooks
  <2>4. ASSUME b[1] \in { "query.archetype", "query.offset" } PROVE b \in { list, offset }
    <3>1. b = << b[1], 0, 0 >>  BY <2>4, Shapes DEF Single, QueryLists
    <3> QED  BY <1>12, <1>13, <2>4, <3>1
  <2> QED  BY <2>1, <2>2, <2>3, <2>4 DEF OfQuery
<1>26. ASSUME NEW b \in mistold', b \notin mistold
       PROVE  b \in { list, offset } /\ Len(archetype.data) > 1
  <2>1. PICK ask \in asks : ask.buffer = b /\ Reaches(ask) /\ ask.told # given[b]
    BY <1>1, <1>6, <1>22, <1>26, AnswersTyped
  <2>2. given[b] > 0 /\ ask.told > 0  BY <1>22, <2>1 DEF Reaches
  <2>3. b \in { list, offset }  BY <1>21, <1>22, <2>1, <2>2
  <2>4. b[1] \notin QueryArrays \cup { "query" }  BY <1>14, <2>3 DEF QueryArrays
  <2> QED  BY <1>20, <1>22, <2>1, <2>2, <2>3, <2>4
<1>27. PICK losses : losses = { TheOnly(kind) : kind \in { k \in QueryLists : given'[TheOnly(k)] > 0 } }
  OBVIOUS
<1>28. lost' = lost \cup losses /\ \A b \in losses : b \in { list, offset } /\ given'[b] > 0
  <2>1. Loses(losses)  BY <1>27 DEF DestroyQuery
  <2>2. \A b \in losses : \E kind \in QueryLists : b = TheOnly(kind) /\ given'[b] > 0  BY <1>27
  <2> QED  BY <1>14, <2>1, <2>2 DEF Loses
<1>29. ASSUME NEW b \in losses PROVE LostByRefusal(b) /\ b # TheOnly("entity.free")
  <2>1. b \in Unsure
    <3>1. SUFFICES ASSUME b \notin Unsure PROVE FALSE  OBVIOUS
    <3>2. Columns' * query'.capacity = 0  BY <1>7, <1>8
    <3>3. Believed(b[1], b[2], b[3])' = 0
      BY <1>8, <1>14, <1>28, <1>29, <3>2, BeliefsHold DEF QueryBeliefs
    <3> QED  BY <1>14, <1>25, <1>28, <1>29, <3>1, <3>3
  <2>2. b[1] \notin { "block", "offset_size", "entity.free" }  BY <1>14, <1>28, <1>29
  <2>3. TheOnly("entity.free")[1] = "entity.free"  BY DEF TheOnly
  <2> QED  BY <2>1, <2>2, <2>3 DEF LostByRefusal
<1>30. OnlyKnownLosses'
  <2>1. \A b : LostByRefusal(b)' = LostByRefusal(b)  BY <1>2, <1>10 DEF LostByRefusal
  <2>2. \A b \in lost' : b[1] \in LostAnyway \/ LostByRefusal(b)'
    BY <1>1, <1>28, <1>29, <2>1 DEF OnlyKnownLosses
  <2>3. TheOnly("entity.free") \in lost' => entity'.freeCapacity > 0
    BY <1>1, <1>2, <1>28, <1>29 DEF OnlyKnownLosses
  <2>4. \A b \in mistold' : \/ (b[1] \in QueryLists /\ Len(archetype'.data) > 1)
                            \/ (b[1] \in EntityArrays /\ b \in Unsure')
    BY <1>1, <1>2, <1>10, <1>14, <1>26 DEF OnlyKnownLosses, QueryLists
  <2> QED  BY <2>2, <2>3, <2>4 DEF OnlyKnownLosses
<1>31. TypeOK'
  <2>1. lost' \subseteq Buffer /\ mistold' \subseteq Buffer
    BY <1>14, <1>26, <1>28 DEF MemoryInv, TypeOK
  <2>2. refused' \subseteq Buffer /\ stage' \in { "none", "open", "short", "destroyed", "faulted" }
    BY <1>2 DEF MemoryInv, TypeOK
  <2> QED  BY <1>9, <1>23, <2>1, <2>2 DEF TypeOK, FieldsTyped
<1>32. BooksAgree'  BY <1>10, <1>25 DEF BooksAgree
<1>33. CutOff'
  <2>1. \A b \in refused : b \in Buffer /\ given[b] = 0  BY <1>1, SureBooks DEF MemoryInv, TypeOK
  <2> QED  BY <1>2, <1>7, <1>24, <2>1 DEF CutOff
<1>34. stage' \in { "none", "open" } => refused' = {}  BY <1>1, <1>2 DEF MemoryInv
<1> QED  BY <1>1, <1>2, <1>9, <1>30, <1>31, <1>32, <1>33, <1>34 DEF MemoryInv

-----------------------------------------------------------------------------
(* The beginning and the end                                               *)

LEMMA InitKeeps ==
  ASSUME Init
  PROVE  MemoryInv
<1>1. Cardinality({}) = 0  BY FS_EmptySet
<1>2. TypeOK  BY DEF Init, TypeOK, NoEntities, NoQuery
<1>3. Held
  <2>1. Len(layer.entities) = 0 /\ Len(component.required) = 0 /\ Len(archetype.data) = 0
        /\ DOMAIN archetype.data = {}
    BY DEF Init
  <2> QED
    BY <2>1, MemoryAssumption
    DEF Init, Held, EntitiesFit, QueryFits, NoEntities, NoQuery
<1>4. BooksAgree  BY DEF Init, BooksAgree
<1>5. OnlyKnownLosses  BY DEF Init, OnlyKnownLosses
<1> QED  BY <1>2, <1>3, <1>4, <1>5 DEF Init, MemoryInv, Blank

Entities == [ length : Nat, capacity : Nat, free : Nat, freeCapacity : Nat ]

LEMMA EntityTaken ==
  ASSUME NEW x \in Entities, EntitiesFit(x)
  PROVE  /\ WithEntity(x) \in Entities /\ EntitiesFit(WithEntity(x))
         /\ WithEntity(x).freeCapacity = x.freeCapacity
<1>1. /\ x.length \in Nat /\ x.capacity \in Nat /\ x.free \in Nat /\ x.freeCapacity \in Nat
      /\ x.length <= x.capacity /\ x.free <= x.freeCapacity
  BY DEF Entities, EntitiesFit
<1>2. CASE x.free > 0
  <2>1. PICK y : y = [ x EXCEPT !.free = x.free - 1 ] /\ y = WithEntity(x)
    BY <1>2 DEF WithEntity
  <2>2. x.free - 1 \in Nat  BY <1>1, <1>2
  <2>3. y \in Entities  BY <2>1, <2>2 DEF Entities
  <2>4. y.length = x.length /\ y.capacity = x.capacity /\ y.free = x.free - 1
        /\ y.freeCapacity = x.freeCapacity
    BY <2>1 DEF Entities
  <2>5. EntitiesFit(y)  BY <1>1, <1>2, <2>4 DEF EntitiesFit
  <2> QED  BY <2>1, <2>3, <2>4, <2>5
<1>3. CASE ~ (x.free > 0)
  <2>1. PICK c : c = IF x.length + 1 > x.capacity THEN Roomy(x.length + 2) ELSE x.capacity
    OBVIOUS
  <2>2. c \in Nat /\ x.length + 1 \in Nat /\ x.length + 1 <= c  BY <1>1, <2>1 DEF Roomy
  <2>3. PICK y : y = [ x EXCEPT !.length = x.length + 1, !.capacity = c ] /\ y = WithEntity(x)
    BY <1>3, <2>1 DEF WithEntity
  <2>4. y \in Entities  BY <2>2, <2>3 DEF Entities
  <2>5. y.length = x.length + 1 /\ y.capacity = c /\ y.free = x.free
        /\ y.freeCapacity = x.freeCapacity
    BY <2>3 DEF Entities
  <2>6. EntitiesFit(y)  BY <1>1, <2>2, <2>5 DEF EntitiesFit
  <2> QED  BY <2>3, <2>4, <2>5, <2>6
<1> QED  BY <1>2, <1>3

(* What the first entity does not change is believed to be empty.          *)
LEMMA BlankBelieves ==
  ASSUME Blank, UNCHANGED << layer, component, archetype, query >>, entity'.freeCapacity = 0,
         NEW b \in Buffer, b[1] \notin EntityArrays \cup { "instance" }, NEW asks
  PROVE  Settled(b, asks)
<1>1. /\ layer'.capacity = 0 /\ DOMAIN layer'.entities = {}
      /\ component'.capacity = 0 /\ DOMAIN component'.required = {}
      /\ archetype'.capacity = 0 /\ DOMAIN archetype'.data = {}
  BY DEF Blank
<1>2. query'.components = {} /\ query'.capacity = 0  BY DEF Blank, NoQuery
<1>3. ~ QueryOpen' /\ Columns' = 0 /\ Columns' * query'.capacity = 0
  BY <1>2, FS_EmptySet DEF QueryOpen, Columns
<1>4. Believed(b[1], b[2], b[3])' = 0
  <2>1. CASE b[1] \in OfEntities \cup OfLayers \cup OfComponents \cup OfNone
    BY <1>1, <2>1, BeliefsHold
    DEF Beliefs, OfEntities, OfLayers, OfComponents, OfNone
  <2>2. CASE b[1] \in OfArchetypes
    BY <1>1, <2>2, BeliefsHold DEF ArchetypeBeliefs, OfArchetypes
  <2>3. CASE b[1] \in OfQuery
    BY <1>2, <1>3, <2>3, BeliefsHold DEF QueryBeliefs, OfQuery
  <2> QED  BY <2>1, <2>2, <2>3, KindsKnown
<1> QED  BY <1>4 DEF Blank, Settled

LEMMA CreateInstanceKeeps ==
  ASSUME MemoryInv, CreateInstance
  PROVE  MemoryInv'
<1>1. Blank /\ FieldsTyped /\ Held
  BY DEF MemoryInv, CreateInstance, TypeOK, FieldsTyped
<1>2. UNCHANGED << layer, component, archetype, query, lost, refused >> /\ stage' = "open"
  BY DEF CreateInstance
<1>3. PICK filled : filled = WithEntity(NoEntities)  OBVIOUS
<1>4. /\ entity' = filled /\ filled \in Entities /\ EntitiesFit(filled)
      /\ filled.freeCapacity = 0
  <2>1. NoEntities \in Entities /\ EntitiesFit(NoEntities) /\ NoEntities.freeCapacity = 0
    BY DEF NoEntities, Entities, EntitiesFit
  <2>2. entity' = filled  BY <1>3 DEF CreateInstance
  <2> QED  BY <1>3, <2>1, <2>2, EntityTaken
<1>5. PICK one : one = { Asked(TheOnly("instance"), 0, 1) }  OBVIOUS
<1>6. PICK two : two = Renewed(EntityArrays, 0, 0, filled.capacity)  OBVIOUS
<1>7. PICK asks : asks = one \cup two  OBVIOUS
<1>8. Answered(asks)  BY <1>3, <1>5, <1>6, <1>7 DEF CreateInstance
<1>9. \A b \in Buffer : given[b] = 0  BY <1>1 DEF Blank
<1>10. FieldsTyped'  BY <1>1, <1>2, <1>4 DEF FieldsTyped, Entities
<1>11. Held'
  <2>1. QueryFits(query)' /\ (~ QueryOpen => query = NoQuery)'
    BY <1>1, <1>2 DEF Held, QueryFits, QueryOpen, NoQuery
  <2>2. EntitiesFit(entity)'  BY <1>4 DEF EntitiesFit
  <2> QED  BY <1>1, <1>2, <2>1, <2>2 DEF Held
<1>12. (\A ask \in one : Right(ask)) /\ Settled(<< "instance", 0, 0 >>, one)
  <2>1. << "instance", 0, 0 >> \in Buffer  BY BufferShape DEF Single, QueryLists
  <2>2. Believed("instance", 0, 0)' = 1  BY BeliefsHold DEF Beliefs
  <2> QED  BY <1>5, <1>9, <2>1, <2>2 DEF Right, Settled, Asked, TheOnly
<1>13. (\A ask \in two : Right(ask)) /\ \A kind \in EntityArrays : Settled(<< kind, 0, 0 >>, two)
  <2>1. \A kind \in EntityArrays : /\ << kind, 0, 0 >> \in Buffer
                                   /\ given[<< kind, 0, 0 >>] = 0
                                   /\ Believed(kind, 0, 0)' = filled.capacity
    BY <1>4, <1>9, BufferShape, BeliefsHold DEF Single, Beliefs
  <2> QED  BY <1>6, <2>1, RenewedRight
<1>14. ASSUME NEW b \in Buffer PROVE Settled(b, asks)
  <2>1. CASE b[1] = "instance"
    <3>1. b = << "instance", 0, 0 >>  BY <2>1, BufferShape DEF SetArrays
    <3> QED  BY <1>7, <1>12, <3>1, SettledBy
  <2>2. CASE b[1] \in EntityArrays
    <3>1. b = << b[1], 0, 0 >>  BY <2>2, BufferShape DEF SetArrays, EntityArrays
    <3> QED  BY <1>7, <1>13, <2>2, <3>1, SettledBy
  <2>3. CASE b[1] \notin EntityArrays \cup { "instance" }
    BY <1>1, <1>2, <1>4, <2>3, BlankBelieves
  <2> QED  BY <2>1, <2>2, <2>3
<1>15. BooksRight' /\ UNCHANGED mistold /\ given' \in [ Buffer -> Nat ]
  <2>1. \A ask \in asks : Right(ask)  BY <1>7, <1>12, <1>13
  <2>2. given \in [ Buffer -> Nat ]  BY DEF MemoryInv, TypeOK
  <2>3. \A b \in Buffer : Believed(b[1], b[2], b[3])' \in Nat  BY <1>10, BelievedTyped
  <2> QED  BY <1>8, <1>14, <2>1, <2>2, <2>3, BooksKept
<1>16. lost' = {} /\ mistold' = {} /\ refused' = {}  BY <1>1, <1>2, <1>15 DEF Blank
<1>17. TypeOK' /\ OnlyKnownLosses'
  BY <1>2, <1>10, <1>15, <1>16 DEF TypeOK, FieldsTyped, OnlyKnownLosses
<1> QED  BY <1>2, <1>11, <1>15, <1>16, <1>17, OpenAgree DEF MemoryInv

LEMMA CreateInstanceShortKeeps ==
  ASSUME MemoryInv, CreateInstanceShort
  PROVE  MemoryInv'
<1>1. Blank /\ FieldsTyped /\ Held
  BY DEF MemoryInv, CreateInstanceShort, TypeOK, FieldsTyped
<1>2. UNCHANGED << layer, component, archetype, query, lost >>
  BY DEF CreateInstanceShort
<1>3. PICK filled : filled = WithEntity(NoEntities)  OBVIOUS
<1>4. PICK k \in DOMAIN EntityOrder :
        /\ RunsShort(TheOnly(EntityOrder[k]))
        /\ Answered({ Asked(TheOnly("instance"), 0, 1) }
                    \cup CutShort(EntityOrder, k, 0, 0, filled.capacity))
  BY <1>3 DEF CreateInstanceShort
<1>5. filled \in Entities /\ filled.freeCapacity = 0
  <2>1. NoEntities \in Entities /\ EntitiesFit(NoEntities) /\ NoEntities.freeCapacity = 0
    BY DEF NoEntities, Entities, EntitiesFit
  <2> QED  BY <1>3, <2>1, EntityTaken
<1>6. entity' \in Entities /\ entity'.freeCapacity = 0
  <2>1. entity' = [ filled EXCEPT !.capacity = 0 ]  BY <1>3 DEF CreateInstanceShort
  <2>2. PICK e : e = entity'  OBVIOUS
  <2>3. e \in Entities /\ e.freeCapacity = 0  BY <1>5, <2>1, <2>2 DEF Entities
  <2> QED  BY <2>2, <2>3
<1>7. PICK r : r = TheOnly(EntityOrder[k])  OBVIOUS
<1>8. PICK one : one = { Asked(TheOnly("instance"), 0, 1) }  OBVIOUS
<1>9. PICK two : two = CutShort(EntityOrder, k, 0, 0, filled.capacity)  OBVIOUS
<1>10. PICK asks : asks = one \cup two  OBVIOUS
<1>11. Answered(asks) /\ RunsShort(r)  BY <1>4, <1>7, <1>8, <1>9, <1>10
<1>12. \A b \in Buffer : given[b] = 0  BY <1>1 DEF Blank
<1>13. FieldsTyped'  BY <1>1, <1>2, <1>6 DEF FieldsTyped, Entities
<1>14. Held'
  <2>1. QueryFits(query)' /\ (~ QueryOpen => query = NoQuery)' /\ ~ stage' = "open"
    BY <1>1, <1>2, <1>11 DEF Held, QueryFits, QueryOpen, NoQuery, RunsShort
  <2> QED  BY <1>1, <1>2, <2>1 DEF Held
<1>15. (\A ask \in one : Right(ask)) /\ Settled(<< "instance", 0, 0 >>, one)
  <2>1. << "instance", 0, 0 >> \in Buffer  BY BufferShape DEF Single
  <2>2. Believed("instance", 0, 0)' = 1  BY BeliefsHold DEF Beliefs
  <2> QED  BY <1>8, <1>12, <2>1, <2>2 DEF Right, Settled, Asked, TheOnly
<1>16. /\ r \in Buffer /\ r[1] = EntityOrder[k] /\ r[1] \notin QueryLists
       /\ \A ask \in two : HalfRight(ask) /\ (ask.buffer = r => ask.size = 0)
       /\ \E ask \in two : ask.buffer = r
       /\ \A m \in DOMAIN EntityOrder : TheOnly(EntityOrder[m]) \in Unsure'
  <2>1. \A m \in DOMAIN EntityOrder : given[TheOnly(EntityOrder[m])] = 0
    <3>1. \A kind \in EntityArrays : << kind, 0, 0 >> \in Buffer  BY BufferShape DEF Single
    <3> QED  BY <1>12, <3>1, Orders DEF TheOnly
  <2>2. filled.capacity \in Nat  BY <1>5 DEF Entities
  <2> QED  BY <1>7, <1>9, <1>11, <2>1, <2>2, CutShortHalf DEF RunsShort
<1>17. \A ask \in asks : HalfRight(ask) /\ (ask.buffer = r => ask.size = 0)
  <2>1. EntityOrder[k] \in EntityArrays  BY Orders
  <2>2. \A ask \in one : ask.buffer # r
    BY <1>8, <1>16, <2>1 DEF Asked, TheOnly, EntityArrays
  <2>3. \A ask \in one : HalfRight(ask)  BY <1>13, <1>15, RightIsHalf
  <2> QED  BY <1>10, <1>16, <2>2, <2>3
<1>18. ASSUME NEW b \in Buffer PROVE b \in Unsure' \/ Settled(b, asks)
  <2>1. CASE b[1] = "instance"
    <3>1. b = << "instance", 0, 0 >>  BY <2>1, Shapes DEF Single
    <3> QED  BY <1>10, <1>15, <3>1, SettledBy
  <2>2. CASE b[1] \in EntityArrays
    <3>1. b = TheOnly(b[1])  BY <2>2, Shapes DEF Single, TheOnly
    <3> QED  BY <1>16, <2>2, <3>1, Orders
  <2>3. CASE b[1] \notin EntityArrays \cup { "instance" }
    BY <1>1, <1>2, <1>6, <2>3, BlankBelieves
  <2> QED  BY <2>1, <2>2, <2>3
<1>19. lost = {} /\ mistold = {} /\ Loses({})  BY <1>1, <1>2 DEF Blank, Loses
<1> QED
  BY <1>10, <1>11, <1>13, <1>14, <1>16, <1>17, <1>18, <1>19, ShortKeeps

(* A buffer that the library had is freed, whole if it is what the library *)
(* believes.                                                               *)
Freed(ask) ==
  /\ ask.buffer \in Buffer /\ ask.size = 0
  /\ ask.told = Believed(ask.buffer[1], ask.buffer[2], ask.buffer[3])
  /\ ask.told \in Nat \ {0}

Covered(b, asks) ==
  Believed(b[1], b[2], b[3]) = 0 \/ \E ask \in asks : ask.buffer = b

LEMMA RenewedFreed ==
  ASSUME NEW kinds, NEW n, NEW told \in Nat,
         \A kind \in kinds : /\ << kind, n, 0 >> \in Buffer
                             /\ Believed(kind, n, 0) = told
  PROVE  /\ \A ask \in Renewed(kinds, n, told, 0) : Freed(ask)
         /\ \A kind \in kinds : Covered(<< kind, n, 0 >>, Renewed(kinds, n, told, 0))
<1>1. CASE told = 0  BY <1>1 DEF Renewed, Covered
<1>2. CASE told # 0
  <2>1. Renewed(kinds, n, told, 0) = { Asked(<< kind, n, 0 >>, told, 0) : kind \in kinds }
    BY <1>2 DEF Renewed
  <2>2. ASSUME NEW kind \in kinds
        PROVE  /\ Freed(Asked(<< kind, n, 0 >>, told, 0))
               /\ Asked(<< kind, n, 0 >>, told, 0).buffer = << kind, n, 0 >>
    BY <1>2 DEF Freed, Asked
  <2> QED  BY <2>1, <2>2 DEF Covered
<1> QED  BY <1>1, <1>2

LEMMA CoveredBy ==
  ASSUME NEW b, NEW some, NEW asks, Covered(b, some), some \subseteq asks
  PROVE  Covered(b, asks)
BY DEF Covered

(* An archetype needs no more blocks than it has slots.                    *)
LEMMA BlocksWithin ==
  ASSUME NEW arch \in ArchetypeRecord, ArchetypeFits(arch)
  PROVE  arch.blocks <= arch.next
<1>1. arch.blocks \in Nat /\ arch.next \in Nat /\ PerBlock \in Nat \ {0}
  BY MemoryAssumption DEF ArchetypeRecord
<1>2. PICK b \in Nat : b = arch.blocks  BY <1>1
<1>3. PICK p \in Nat \ {0} : p = PerBlock  BY <1>1
<1>4. CASE b = 0  BY <1>1, <1>2, <1>4
<1>5. CASE b # 0
  <2>1. PICK c \in Nat : b = c + 1  BY <1>5
  <2>2. c * p >= c
    <3>1. PICK q \in Nat : p = q + 1  BY <1>3
    <3>2. c * q \in Nat /\ c * p = c * q + c  BY <3>1
    <3> QED  BY <3>2
  <2>3. c * p < arch.next
    <3>1. (b - 1) * p < arch.next  BY <1>2, <1>3, <1>5 DEF ArchetypeFits
    <3>2. b - 1 = c  BY <2>1
    <3> QED  BY <3>1, <3>2
  <2>4. c * p \in Nat  OBVIOUS
  <2> QED  BY <1>1, <1>2, <2>1, <2>2, <2>3, <2>4
<1> QED  BY <1>4, <1>5

LEMMA ArchetypeIsFreed ==
  ASSUME FieldsTyped, Held, NEW a \in DOMAIN archetype.data
  PROVE  /\ \A ask \in ArchetypeFreed(a) : Freed(ask)
         /\ \A kind \in SetArrays \cup { "free", "blocks" } :
              Covered(<< kind, a, 0 >>, ArchetypeFreed(a))
         /\ \A j \in 1 .. MaxSlots : Covered(<< "block", a, j >>, ArchetypeFreed(a))
<1>1. FieldsTyped /\ Held  OBVIOUS
<1>2. PICK arch \in ArchetypeRecord : arch = archetype.data[a]
  BY <1>1 DEF FieldsTyped
<1>3. a \in 1 .. MaxArchetypes
  <2>1. archetype.data \in Seq(ArchetypeRecord) /\ Len(archetype.data) <= MaxArchetypes
    BY <1>1 DEF FieldsTyped, Held
  <2> QED  BY <2>1, MemoryAssumption
<1>4. arch.blocks \in Nat /\ arch.blocks <= MaxSlots
  <2>1. ArchetypeFits(arch) /\ arch.next <= MaxSlots  BY <1>1, <1>2 DEF Held
  <2>2. arch.next \in Nat /\ arch.blocks \in Nat  BY DEF ArchetypeRecord
  <2> QED  BY <2>1, <2>2, BlocksWithin, MemoryAssumption
<1>5. PICK sets : sets = Renewed(SetArrays, a, Cardinality(arch.components), 0)  OBVIOUS
<1>6. PICK frees : frees = Renewed({ "free" }, a, arch.freeCapacity, 0)  OBVIOUS
<1>7. PICK each : each = { Asked(<< "block", a, j >>, 1, 0) : j \in 1 .. arch.blocks }  OBVIOUS
<1>8. PICK lists : lists = Renewed({ "blocks" }, a, arch.blocks, 0)  OBVIOUS
<1>9. ArchetypeFreed(a) = sets \cup frees \cup each \cup lists
  BY <1>2, <1>5, <1>6, <1>7, <1>8 DEF ArchetypeFreed
<1>10. /\ \A ask \in sets : Freed(ask)
       /\ \A kind \in SetArrays : Covered(<< kind, a, 0 >>, sets)
  <2>1. \A kind \in SetArrays : /\ << kind, a, 0 >> \in Buffer
                                /\ Believed(kind, a, 0) = Cardinality(arch.components)
    BY <1>2, <1>3, BufferShape, BeliefsHold DEF ArchetypeBeliefs
  <2>2. Cardinality(arch.components) \in Nat  BY SetsCounted DEF ArchetypeRecord
  <2> QED  BY <1>5, <2>1, <2>2, RenewedFreed
<1>11. (\A ask \in frees : Freed(ask)) /\ Covered(<< "free", a, 0 >>, frees)
  <2>1. << "free", a, 0 >> \in Buffer  BY <1>3, BufferShape
  <2>2. Believed("free", a, 0) = arch.freeCapacity  BY <1>2, BeliefsHold DEF ArchetypeBeliefs
  <2>3. arch.freeCapacity \in Nat  BY DEF ArchetypeRecord
  <2> QED  BY <1>6, <2>1, <2>2, <2>3, RenewedFreed
<1>12. (\A ask \in lists : Freed(ask)) /\ Covered(<< "blocks", a, 0 >>, lists)
  <2>1. << "blocks", a, 0 >> \in Buffer  BY <1>3, BufferShape
  <2>2. Believed("blocks", a, 0) = arch.blocks  BY <1>2, BeliefsHold DEF ArchetypeBeliefs
  <2> QED  BY <1>4, <1>8, <2>1, <2>2, RenewedFreed
<1>13. ASSUME NEW j \in 1 .. MaxSlots
       PROVE  /\ << "block", a, j >> \in Buffer
              /\ Believed("block", a, j) = IF j <= arch.blocks THEN 1 ELSE 0
  <2>1. << "block", a, j >> \in Buffer  BY <1>3, BufferShape
  <2>2. Believed("block", a, j) = IF j <= arch.blocks THEN 1 ELSE 0
    BY <1>2, BeliefsHold DEF ArchetypeBeliefs
  <2> QED  BY <2>1, <2>2
<1>14. ASSUME NEW ask \in each PROVE Freed(ask)
  <2>1. PICK j \in 1 .. arch.blocks : ask = Asked(<< "block", a, j >>, 1, 0)  BY <1>7
  <2>2. j \in 1 .. MaxSlots /\ j <= arch.blocks  BY <1>4, MemoryAssumption
  <2> QED  BY <1>13, <2>1, <2>2 DEF Freed, Asked
<1>15. ASSUME NEW j \in 1 .. MaxSlots PROVE Covered(<< "block", a, j >>, each)
  <2>1. CASE j <= arch.blocks
    <3>1. Asked(<< "block", a, j >>, 1, 0) \in each  BY <1>4, <1>7, <2>1
    <3> QED  BY <3>1 DEF Covered, Asked
  <2>2. CASE ~ (j <= arch.blocks)  BY <1>13, <2>2 DEF Covered
  <2> QED  BY <2>1, <2>2
<1> QED  BY <1>9, <1>10, <1>11, <1>12, <1>14, <1>15, CoveredBy

LEMMA DestroyInstanceKeeps ==
  ASSUME MemoryInv, DestroyInstance
  PROVE  MemoryInv'
<1>1. /\ FieldsTyped /\ Held /\ stage \in { "open", "short" } /\ ~ QueryOpen /\ query = NoQuery
      /\ OnlyKnownLosses /\ given \in [ Buffer -> Nat ]
  BY DEF MemoryInv, TypeOK, FieldsTyped, DestroyInstance, Held
<1>2. UNCHANGED << entity, layer, component, archetype, query, refused >> /\ stage' = "destroyed"
      /\ Answered(InstanceFreed) /\ Loses({ b \in Buffer : given'[b] > 0 })
  BY DEF DestroyInstance
<1>3. ~ ReadBeyond  BY DEF DestroyInstance
<1>4. PICK one : one = { Asked(TheOnly("instance"), 1, 0) }  OBVIOUS
<1>5. PICK two : two = Renewed(LayerArrays, 0, layer.capacity, 0)  OBVIOUS
<1>6. PICK three : three = LayersFreed  OBVIOUS
<1>7. PICK four : four = RequirementsFreed  OBVIOUS
<1>8. PICK five : five = Renewed({ "component.data" }, 0, component.capacity, 0)  OBVIOUS
<1>9. PICK six : six = Renewed(EntityArrays, 0, entity.capacity, 0)  OBVIOUS
<1>10. PICK seven : seven = ArchetypesFreed  OBVIOUS
<1>11. PICK eight : eight = Renewed(ArchetypeArrays, 0, archetype.capacity, 0)  OBVIOUS
<1>12. PICK asks : /\ asks = InstanceFreed
                   /\ asks = one \cup two \cup three \cup four \cup five \cup six \cup seven
                              \cup eight
  BY <1>4, <1>5, <1>6, <1>7, <1>8, <1>9, <1>10, <1>11 DEF InstanceFreed
<1>22. /\ layer.capacity \in Nat /\ component.capacity \in Nat /\ entity.capacity \in Nat
       /\ archetype.capacity \in Nat
       /\ \A l \in DOMAIN layer.entities : layer.entities[l] \in Nat
       /\ \A c \in DOMAIN component.required : component.required[c] \in Nat
  BY <1>1 DEF FieldsTyped
<1>13. (\A ask \in one : Freed(ask)) /\ Covered(<< "instance", 0, 0 >>, one)
  <2>1. << "instance", 0, 0 >> \in Buffer  BY BufferShape DEF Single, QueryLists
  <2>2. Believed("instance", 0, 0) = 1  BY BeliefsHold DEF Beliefs
  <2> QED  BY <1>4, <2>1, <2>2 DEF Freed, Covered, Asked, TheOnly
<1>14. (\A ask \in two : Freed(ask)) /\ \A kind \in LayerArrays : Covered(<< kind, 0, 0 >>, two)
  <2>1. \A kind \in LayerArrays : << kind, 0, 0 >> \in Buffer /\ Believed(kind, 0, 0) = layer.capacity
    BY BufferShape, BeliefsHold DEF Single, Beliefs
  <2> QED  BY <1>5, <1>22, <2>1, RenewedFreed
<1>15. /\ \A ask \in three : Freed(ask)
       /\ \A l \in DOMAIN layer.entities : Covered(<< "layer.entities", l, 0 >>, three)
  <2>1. ASSUME NEW l \in DOMAIN layer.entities
        PROVE  /\ \A ask \in Renewed({ "layer.entities" }, l, layer.entities[l], 0) : Freed(ask)
               /\ Covered(<< "layer.entities", l, 0 >>,
                          Renewed({ "layer.entities" }, l, layer.entities[l], 0))
    <3>1. l \in 1 .. MaxLayers
      <4>1. layer.entities \in Seq(Nat) /\ Len(layer.entities) <= MaxLayers
        BY <1>1 DEF FieldsTyped, Held
      <4> QED  BY <4>1, MemoryAssumption
    <3>2. << "layer.entities", l, 0 >> \in Buffer
          /\ Believed("layer.entities", l, 0) = layer.entities[l]
      BY <3>1, BufferShape, BeliefsHold DEF Beliefs
    <3> QED  BY <1>22, <3>2, RenewedFreed
  <2>2. \A l \in DOMAIN layer.entities :
          Renewed({ "layer.entities" }, l, layer.entities[l], 0) \subseteq three
    BY <1>6 DEF LayersFreed
  <2>3. \A ask \in three : \E l \in DOMAIN layer.entities :
          ask \in Renewed({ "layer.entities" }, l, layer.entities[l], 0)
    BY <1>6 DEF LayersFreed
  <2> QED  BY <2>1, <2>2, <2>3, CoveredBy
<1>16. /\ \A ask \in four : Freed(ask)
       /\ \A c \in DOMAIN component.required : Covered(<< "required", c, 0 >>, four)
  <2>1. ASSUME NEW c \in DOMAIN component.required
        PROVE  /\ \A ask \in Renewed({ "required" }, c, component.required[c], 0) : Freed(ask)
               /\ Covered(<< "required", c, 0 >>,
                          Renewed({ "required" }, c, component.required[c], 0))
    <3>1. c \in 1 .. NumComponents
      <4>1. component.required \in Seq(Nat) /\ Len(component.required) <= NumComponents
        BY <1>1 DEF FieldsTyped, Held
      <4> QED  BY <4>1, MemoryAssumption
    <3>2. << "required", c, 0 >> \in Buffer
          /\ Believed("required", c, 0) = component.required[c]
      BY <3>1, BufferShape, BeliefsHold DEF Beliefs
    <3> QED  BY <1>22, <3>2, RenewedFreed
  <2>2. \A c \in DOMAIN component.required :
          Renewed({ "required" }, c, component.required[c], 0) \subseteq four
    BY <1>7 DEF RequirementsFreed
  <2>3. \A ask \in four : \E c \in DOMAIN component.required :
          ask \in Renewed({ "required" }, c, component.required[c], 0)
    BY <1>7 DEF RequirementsFreed
  <2> QED  BY <2>1, <2>2, <2>3, CoveredBy
<1>17. (\A ask \in five : Freed(ask)) /\ Covered(<< "component.data", 0, 0 >>, five)
  <2>1. << "component.data", 0, 0 >> \in Buffer
        /\ Believed("component.data", 0, 0) = component.capacity
    BY BufferShape, BeliefsHold DEF Single, Beliefs
  <2> QED  BY <1>8, <1>22, <2>1, RenewedFreed
<1>18. (\A ask \in six : Freed(ask)) /\ \A kind \in EntityArrays : Covered(<< kind, 0, 0 >>, six)
  <2>1. \A kind \in EntityArrays : << kind, 0, 0 >> \in Buffer /\ Believed(kind, 0, 0) = entity.capacity
    BY BufferShape, BeliefsHold DEF Single, Beliefs
  <2> QED  BY <1>9, <1>22, <2>1, RenewedFreed
<1>19. /\ \A ask \in seven : Freed(ask)
       /\ \A a \in DOMAIN archetype.data :
            /\ \A kind \in SetArrays \cup { "free", "blocks" } : Covered(<< kind, a, 0 >>, seven)
            /\ \A j \in 1 .. MaxSlots : Covered(<< "block", a, j >>, seven)
  BY <1>1, <1>10, ArchetypeIsFreed, CoveredBy DEF ArchetypesFreed
<1>20. /\ \A ask \in eight : Freed(ask)
       /\ \A kind \in ArchetypeArrays : Covered(<< kind, 0, 0 >>, eight)
  <2>1. \A kind \in ArchetypeArrays :
          << kind, 0, 0 >> \in Buffer /\ Believed(kind, 0, 0) = archetype.capacity
    BY BufferShape, BeliefsHold DEF Single, ArchetypeBeliefs
  <2> QED  BY <1>11, <1>22, <2>1, RenewedFreed
<1>21. \A ask \in asks : Freed(ask)
  BY <1>12, <1>13, <1>14, <1>15, <1>16, <1>17, <1>18, <1>19, <1>20
<1>23. ASSUME NEW b \in Buffer, b[1] # "entity.free" PROVE Covered(b, asks)
  <2>1. CASE b[1] \in OfNone
    <3>1. CASE b[1] = "instance"
      <4>1. b = << "instance", 0, 0 >>  BY <3>1, BufferShape DEF SetArrays
      <4> QED  BY <1>12, <1>13, <4>1, CoveredBy
    <3>2. CASE b[1] = "entities"  BY <3>2, BeliefsHold DEF Beliefs, Covered
    <3> QED  BY <2>1, <3>1, <3>2 DEF OfNone
  <2>2. CASE b[1] \in EntityArrays
    <3>1. b = << b[1], 0, 0 >>  BY <2>2, BufferShape DEF SetArrays, EntityArrays
    <3> QED  BY <1>12, <1>18, <2>2, <3>1, CoveredBy
  <2>3. CASE b[1] \in LayerArrays
    <3>1. b = << b[1], 0, 0 >>  BY <2>3, BufferShape DEF SetArrays, LayerArrays
    <3> QED  BY <1>12, <1>14, <2>3, <3>1, CoveredBy
  <2>4. CASE b[1] = "layer.entities"
    <3>1. b = << "layer.entities", b[2], 0 >>
      BY <2>4, Shapes
    <3>2. CASE b[2] \in DOMAIN layer.entities  BY <1>12, <1>15, <3>1, <3>2, CoveredBy
    <3>3. CASE b[2] \notin DOMAIN layer.entities
      BY <2>4, <3>3, BeliefsHold DEF Beliefs, Covered
    <3> QED  BY <3>2, <3>3
  <2>5. CASE b[1] = "component.data"
    <3>1. b = << "component.data", 0, 0 >>  BY <2>5, BufferShape DEF SetArrays
    <3> QED  BY <1>12, <1>17, <3>1, CoveredBy
  <2>6. CASE b[1] = "required"
    <3>1. b = << "required", b[2], 0 >>
      BY <2>6, Shapes
    <3>2. CASE b[2] \in DOMAIN component.required  BY <1>12, <1>16, <3>1, <3>2, CoveredBy
    <3>3. CASE b[2] \notin DOMAIN component.required
      BY <2>6, <3>3, BeliefsHold DEF Beliefs, Covered
    <3> QED  BY <3>2, <3>3
  <2>7. CASE b[1] \in ArchetypeArrays
    <3>1. b = << b[1], 0, 0 >>  BY <2>7, BufferShape DEF SetArrays, ArchetypeArrays
    <3> QED  BY <1>12, <1>20, <2>7, <3>1, CoveredBy
  <2>8. CASE b[1] \in SetArrays \cup { "free", "blocks" }
    <3>1. b = << b[1], b[2], 0 >>
      BY <2>8, Shapes
    <3>2. CASE b[2] \in DOMAIN archetype.data  BY <1>12, <1>19, <2>8, <3>1, <3>2, CoveredBy
    <3>3. CASE b[2] \notin DOMAIN archetype.data
      BY <2>8, <3>3, BeliefsHold DEF ArchetypeBeliefs, Covered
    <3> QED  BY <3>2, <3>3
  <2>9. CASE b[1] = "block"
    <3>1. b = << "block", b[2], b[3] >> /\ b[3] \in 1 .. MaxSlots
      BY <2>9, Shapes
    <3>2. CASE b[2] \in DOMAIN archetype.data  BY <1>12, <1>19, <3>1, <3>2, CoveredBy
    <3>3. CASE b[2] \notin DOMAIN archetype.data
      BY <2>9, <3>3, BeliefsHold DEF ArchetypeBeliefs, Covered
    <3> QED  BY <3>2, <3>3
  <2>10. CASE b[1] \in OfQuery
    <3>1. query.components = {} /\ query.capacity = 0  BY <1>1 DEF NoQuery
    <3>2. Columns = 0 /\ Columns * query.capacity = 0
      BY <3>1, FS_EmptySet DEF Columns
    <3>3. Believed(b[1], b[2], b[3]) = 0
      BY <1>1, <2>10, <3>1, <3>2, BeliefsHold DEF QueryBeliefs, OfQuery
    <3> QED  BY <3>3 DEF Covered
  <2> QED
    BY <1>23, <2>1, <2>2, <2>3, <2>4, <2>5, <2>6, <2>7, <2>8, <2>9, <2>10, KindsKnown
    DEF OfEntities, OfLayers, OfComponents, OfArchetypes
<1>24. \A ask \in asks : ask.buffer \in Buffer /\ ask.told \in Nat \ {0} /\ ask.size = 0
  BY <1>21 DEF Freed
<1>25. given' \in [ Buffer -> Nat ]  BY <1>1, <1>2, <1>12, <1>24, AnswersTyped
<1>26. ASSUME NEW b \in Buffer, given'[b] > 0
       PROVE  (b[1] = "entity.free" /\ entity.freeCapacity > 0) \/ (b \in Unsure \ refused)
  <2>1. given[b] \in Nat  BY <1>1
  <2>2. ~ \E ask \in asks : ask.buffer = b
    <3>1. SUFFICES ASSUME \E ask \in asks : ask.buffer = b PROVE FALSE  OBVIOUS
    <3>2. given'[b] = 0  BY <1>1, <1>2, <1>12, <1>24, <3>1, AnswerGives
    <3> QED  BY <1>26, <3>2
  <2>3. given'[b] = given[b]  BY <1>1, <1>2, <1>12, <2>1, <2>2, AnswerGives
  <2>4. b \notin refused  BY <1>1, <1>26, <2>3, SureBooks
  <2>5. CASE b \notin Unsure
    <3>1. Believed(b[1], b[2], b[3]) > 0  BY <1>1, <1>26, <2>3, <2>5, SureBooks
    <3>2. b[1] = "entity.free"  BY <1>23, <2>2, <3>1 DEF Covered
    <3>3. Believed(b[1], b[2], b[3]) = entity.freeCapacity  BY <3>2, BeliefsHold DEF Beliefs
    <3> QED  BY <3>1, <3>2, <3>3
  <2> QED  BY <2>4, <2>5
<1>27. ASSUME NEW b \in Unsure \ refused
       PROVE  LostByRefusal(b) /\ b # TheOnly("entity.free")
  <2>1. PICK kinds \in { EntityArrays, LayerArrays, ArchetypeArrays, QueryLists } : b[1] \in kinds
    BY <1>1, SureBooks
  <2>2. b[1] \notin { "block", "offset_size", "entity.free" }
    BY <2>1 DEF EntityArrays, LayerArrays, ArchetypeArrays, QueryLists
  <2>3. TheOnly("entity.free")[1] = "entity.free"  BY DEF TheOnly
  <2> QED  BY <2>2, <2>3 DEF LostByRefusal
<1>28. ASSUME NEW b \in mistold', b \notin mistold
       PROVE  b[1] \in EntityArrays /\ b \in Unsure
  <2>1. PICK ask \in asks : ask.buffer = b /\ Reaches(ask) /\ ask.told # given[b]
    BY <1>1, <1>2, <1>12, <1>24, <1>28, AnswersTyped
  <2>2. b \in Buffer /\ given[b] > 0 /\ Believed(b[1], b[2], b[3]) = ask.told /\ ask.told > 0
    BY <1>21, <2>1 DEF Freed, Reaches
  <2>3. b \in Unsure \ refused  BY <1>1, <2>1, <2>2, SureBooks
  <2>4. PICK r \in refused :
          \E kinds \in { EntityArrays, LayerArrays, ArchetypeArrays, QueryLists } :
            r[1] \in kinds /\ b[1] \in kinds
    BY <1>1, <2>3, SureBooks
  <2>5. ~ (b[1] \in LayerArrays /\ r[1] \in LayerArrays)
    <3>1. b[1] \in LayerArrays => layer.capacity > 0  BY <2>2, BeliefsHold DEF Beliefs
    <3> QED  BY <1>3, <3>1 DEF ReadBeyond
  <2>6. r[1] \notin ArchetypeArrays  BY <1>3 DEF ReadBeyond
  <2>7. b[1] \notin QueryLists
    <3>1. query.components = {} /\ query.capacity = 0  BY <1>1 DEF NoQuery
    <3>2. Columns * query.capacity = 0  BY <3>1, FS_EmptySet DEF Columns
    <3> QED  BY <2>2, <3>1, <3>2, BeliefsHold DEF QueryBeliefs, QueryLists
  <2> QED  BY <2>3, <2>4, <2>5, <2>6, <2>7
<1>29. lost' = lost \cup { b \in Buffer : given'[b] > 0 }  BY <1>2 DEF Loses
<1>30. Unsure' = Unsure /\ \A b : LostByRefusal(b)' = LostByRefusal(b)
  BY <1>2 DEF LostByRefusal, Unsure, Together
<1>31. OnlyKnownLosses'
  <2>1. \A b \in lost' : b[1] \in LostAnyway \/ LostByRefusal(b)'
    BY <1>1, <1>26, <1>27, <1>29, <1>30 DEF OnlyKnownLosses, LostAnyway
  <2>2. TheOnly("entity.free") \in lost' => entity'.freeCapacity > 0
    BY <1>1, <1>2, <1>26, <1>27, <1>29 DEF OnlyKnownLosses
  <2>3. \A b \in mistold' : \/ (b[1] \in QueryLists /\ Len(archetype'.data) > 1)
                            \/ (b[1] \in EntityArrays /\ b \in Unsure')
    BY <1>1, <1>2, <1>28, <1>30 DEF OnlyKnownLosses
  <2> QED  BY <2>1, <2>2, <2>3 DEF OnlyKnownLosses
<1>32. TypeOK'
  <2>1. lost' \subseteq Buffer  BY <1>29 DEF MemoryInv, TypeOK
  <2>2. mistold' \subseteq Buffer /\ refused' \subseteq Buffer
    <3>1. \A b \in mistold' : b \in mistold \/ \E ask \in asks : ask.buffer = b
      BY <1>1, <1>2, <1>12, <1>24, AnswersTyped
    <3> QED  BY <1>2, <1>24, <3>1 DEF MemoryInv, TypeOK
  <2> QED  BY <1>1, <1>2, <1>25, <2>1, <2>2 DEF TypeOK, FieldsTyped
<1>33. Held'  BY <1>1, <1>2 DEF Held, EntitiesFit, QueryFits, QueryOpen, NoQuery
<1> QED  BY <1>2, <1>31, <1>32, <1>33 DEF MemoryInv, BooksAgree

-----------------------------------------------------------------------------
(* Entities that enter archetypes                                          *)

(* What becomes of an archetype whose slots are taken.                     *)
Fuller(arch, x) ==
  /\ ArchetypeFits(x) /\ x.components = arch.components
  /\ x.freeCapacity = arch.freeCapacity /\ arch.blocks <= x.blocks

LEMMA SlotTaken ==
  ASSUME NEW arch \in ArchetypeRecord, ArchetypeFits(arch)
  PROVE  WithSlotTaken(arch) \in ArchetypeRecord /\ Fuller(arch, WithSlotTaken(arch))
<1>1. /\ arch.live \in Nat /\ arch.next \in Nat /\ arch.free \in Nat
      /\ arch.freeCapacity \in Nat /\ arch.blocks \in Nat
      /\ arch.components \in SUBSET Component
  BY DEF ArchetypeRecord
<1>2. PICK p \in Nat \ {0} : p = PerBlock  BY MemoryAssumption
<1>3. CASE arch.free > 0
  <2>1. PICK y : /\ y = WithSlotTaken(arch)
                 /\ y = [ arch EXCEPT !.free = arch.free - 1, !.live = arch.live + 1 ]
    BY <1>3 DEF WithSlotTaken
  <2>2. arch.free - 1 \in Nat /\ arch.live + 1 \in Nat  BY <1>1, <1>3
  <2>3. y \in ArchetypeRecord  BY <2>1, <2>2 DEF ArchetypeRecord
  <2>4. /\ y.components = arch.components /\ y.next = arch.next /\ y.free = arch.free - 1
        /\ y.freeCapacity = arch.freeCapacity /\ y.blocks = arch.blocks
    BY <2>1 DEF ArchetypeRecord
  <2>5. y.free <= y.freeCapacity  BY <1>1, <2>4 DEF ArchetypeFits
  <2>6. ArchetypeFits(y)  BY <2>4, <2>5 DEF ArchetypeFits
  <2>7. Fuller(arch, y)  BY <1>1, <2>4, <2>6 DEF Fuller
  <2> QED  BY <2>1, <2>3, <2>7
<1>4. CASE ~ (arch.free > 0)
  <2>1. PICK b : b = IF arch.next \div p = arch.blocks THEN arch.blocks + 1 ELSE arch.blocks
    OBVIOUS
  <2>2. b \in Nat /\ arch.blocks <= b /\ arch.next + 1 \in Nat /\ arch.live + 1 \in Nat
    BY <1>1, <2>1
  <2>3. PICK y : /\ y = WithSlotTaken(arch)
                 /\ y = [ arch EXCEPT !.next = arch.next + 1, !.live = arch.live + 1,
                                      !.blocks = b ]
    BY <1>2, <1>4, <2>1 DEF WithSlotTaken
  <2>4. y \in ArchetypeRecord  BY <2>2, <2>3 DEF ArchetypeRecord
  <2>5. /\ y.components = arch.components /\ y.next = arch.next + 1 /\ y.free = arch.free
        /\ y.freeCapacity = arch.freeCapacity /\ y.blocks = b
    BY <2>3 DEF ArchetypeRecord
  <2>6. arch.next + 1 <= b * p /\ (b - 1) * p < arch.next + 1
    <3>1. PICK n \in Nat : n = arch.next  BY <1>1
    <3>2. PICK c \in Nat : c = arch.blocks  BY <1>1
    <3>3. n <= c * p /\ ((c - 1) * p < n \/ c = 0)
      BY <1>2, <3>1, <3>2 DEF ArchetypeFits
    <3>4. /\ n \div p = c => (n + 1 <= (c + 1) * p /\ c * p < n + 1)
          /\ n \div p # c => (n + 1 <= c * p /\ (c - 1) * p < n + 1)
      BY <3>3, BlocksFollow
    <3>5. CASE n \div p = c
      <4>1. b = c + 1 /\ b - 1 = c  BY <2>1, <3>1, <3>2, <3>5
      <4> QED  BY <3>1, <3>4, <3>5, <4>1
    <3>6. CASE n \div p # c
      <4>1. b = c  BY <2>1, <3>1, <3>2, <3>6
      <4> QED  BY <3>1, <3>4, <3>6, <4>1
    <3> QED  BY <3>5, <3>6
  <2>7. ArchetypeFits(y)
    <3>1. y.free <= y.freeCapacity  BY <2>5 DEF ArchetypeFits
    <3>2. y.next <= y.blocks * PerBlock /\ (y.blocks - 1) * PerBlock < y.next
      BY <1>2, <2>5, <2>6
    <3> QED  BY <3>1, <3>2 DEF ArchetypeFits
  <2>8. Fuller(arch, y)  BY <2>2, <2>5, <2>7 DEF Fuller
  <2> QED  BY <2>3, <2>4, <2>8
<1> QED  BY <1>3, <1>4

LEMMA SlotsTaken ==
  ASSUME NEW arch \in ArchetypeRecord, ArchetypeFits(arch), NEW n \in Nat
  PROVE  WithSlotsTaken(arch, n) \in ArchetypeRecord /\ Fuller(arch, WithSlotsTaken(arch, n))
<1>1. PICK S : S = { x \in ArchetypeRecord : Fuller(arch, x) }  OBVIOUS
<1>2. arch \in S
  <2>1. arch.blocks \in Nat  BY DEF ArchetypeRecord
  <2> QED  BY <1>1, <2>1 DEF Fuller
<1>3. ASSUME NEW x \in S PROVE WithSlotTaken(x) \in S
  <2>1. x \in ArchetypeRecord /\ Fuller(arch, x) /\ ArchetypeFits(x)  BY <1>1 DEF Fuller
  <2>2. PICK y \in ArchetypeRecord : y = WithSlotTaken(x) /\ Fuller(x, y)
    BY <2>1, SlotTaken
  <2>3. arch.blocks \in Nat /\ x.blocks \in Nat /\ y.blocks \in Nat
    BY <2>1 DEF ArchetypeRecord
  <2>4. Fuller(arch, y)  BY <2>1, <2>2, <2>3 DEF Fuller
  <2> QED  BY <1>1, <2>2, <2>4
<1>4. Iterate(WithSlotTaken, arch, n) \in S  BY <1>2, <1>3, SlotsKeep
<1> QED  BY <1>1, <1>4 DEF WithSlotsTaken

LEMMA EntitiesTaken ==
  ASSUME entity \in Entities, EntitiesFit(entity), NEW n \in Nat
  PROVE  /\ WithEntities(n) \in Entities /\ EntitiesFit(WithEntities(n))
         /\ WithEntities(n).freeCapacity = entity.freeCapacity
<1>1. PICK S : S = { x \in Entities : EntitiesFit(x) /\ x.freeCapacity = entity.freeCapacity }
  OBVIOUS
<1>2. entity \in S  BY <1>1
<1>3. \A x \in S : WithEntity(x) \in S  BY <1>1, EntityTaken
<1>4. Iterate(WithEntity, entity, n) \in S  BY <1>2, <1>3, EntitiesKeep
<1> QED  BY <1>1, <1>4 DEF WithEntities

(* The bound on the slots is one on those of each archetype.               *)
LEMMA SlotsBounded ==
  ASSUME NEW d \in Seq(ArchetypeRecord), InBounds(d)
  PROVE  Len(d) <= MaxArchetypes /\ \A a \in DOMAIN d : d[a].next <= MaxSlots
<1>1. SUFFICES ASSUME NEW a \in DOMAIN d, ~ (d[a].next <= MaxSlots) PROVE FALSE
  BY DEF InBounds
<1>2. MaxSlots \in Nat /\ d[a].next \in Nat
  <2>1. d[a] \in ArchetypeRecord  OBVIOUS
  <2> QED  BY <2>1, MemoryAssumption DEF ArchetypeRecord
<1>3. PICK all : all = 1 .. MaxSlots + 1  OBVIOUS
<1>4. IsFiniteSet(all) /\ Cardinality(all) = MaxSlots + 1
  BY <1>2, <1>3, FS_Interval
<1>5. IsFiniteSet({a}) /\ Cardinality({a}) = 1  BY FS_Singleton
<1>6. IsFiniteSet({a} \X all) /\ Cardinality({a} \X all) = MaxSlots + 1
  BY <1>2, <1>4, <1>5, FS_Product
<1>7. IsFiniteSet(DOMAIN d)
  <2>1. DOMAIN d = 1 .. Len(d) /\ Len(d) \in Int  OBVIOUS
  <2> QED  BY <2>1, FS_Interval
<1>8. IsFiniteSet((DOMAIN d) \X all)  BY <1>4, <1>7, FS_Product
<1>9. SlotsOf(d) \subseteq (DOMAIN d) \X all  BY <1>3 DEF SlotsOf
<1>10. {a} \X all \subseteq SlotsOf(d)
  <2> SUFFICES ASSUME NEW slot \in {a} \X all PROVE slot \in SlotsOf(d)  OBVIOUS
  <2>1. slot \in (DOMAIN d) \X all /\ slot[1] = a /\ slot[2] \in all  OBVIOUS
  <2>2. slot[2] <= d[a].next  BY <1>1, <1>2, <1>3, <2>1
  <2> QED  BY <1>3, <2>1, <2>2 DEF SlotsOf
<1>11. IsFiniteSet(SlotsOf(d))  BY <1>8, <1>9, FS_Subset
<1>12. Cardinality({a} \X all) <= Cardinality(SlotsOf(d))  BY <1>10, <1>11, FS_Subset
<1>13. Cardinality(SlotsOf(d)) \in Nat  BY <1>11, FS_CardinalityType
<1> QED  BY <1>2, <1>6, <1>12, <1>13 DEF InBounds

(* The archetype of a set is found or appended, empty.                     *)
Extended(A, cs) ==
  /\ A \in [ capacity : Nat, data : Seq(ArchetypeRecord) ]
  /\ Len(A.data) <= A.capacity /\ Len(archetype.data) <= Len(A.data)
  /\ DOMAIN A.data = 1 .. Len(A.data) /\ DOMAIN archetype.data = 1 .. Len(archetype.data)
  /\ \A n \in DOMAIN archetype.data : A.data[n] = archetype.data[n]
  /\ \A n \in DOMAIN A.data :
       n \notin DOMAIN archetype.data => A.data[n] = NewArchetype(cs)
  /\ \A n \in DOMAIN A.data : ArchetypeFits(A.data[n]) /\ A.data[n].next <= MaxSlots
  /\ \E n \in DOMAIN A.data : A.data[n].components = cs
  /\ Known(cs) => A = archetype
  /\ ~ Known(cs) => Len(A.data) = Len(archetype.data) + 1

LEMMA NewFits ==
  ASSUME NEW cs \in SUBSET Component
  PROVE  /\ NewArchetype(cs) \in ArchetypeRecord /\ ArchetypeFits(NewArchetype(cs))
         /\ NewArchetype(cs).components = cs /\ NewArchetype(cs).next = 0
         /\ NewArchetype(cs).freeCapacity = 0 /\ NewArchetype(cs).blocks = 0
<1>1. NewArchetype(cs) \in ArchetypeRecord  BY DEF NewArchetype, ArchetypeRecord
<1>2. /\ NewArchetype(cs).components = cs /\ NewArchetype(cs).next = 0
      /\ NewArchetype(cs).free = 0
      /\ NewArchetype(cs).freeCapacity = 0 /\ NewArchetype(cs).blocks = 0
  BY DEF NewArchetype
<1>3. 0 <= 0 * PerBlock  BY MemoryAssumption
<1> QED  BY <1>1, <1>2, <1>3 DEF ArchetypeFits

LEMMA ResolvedExtends ==
  ASSUME FieldsTyped, Held, NEW cs \in SUBSET Component
  PROVE  Extended(Resolved(cs), cs)
<1>1. PICK old \in [ capacity : Nat, data : Seq(ArchetypeRecord) ] : old = archetype
  BY DEF FieldsTyped
<1>2. PICK d \in Seq(ArchetypeRecord) : d = old.data  BY <1>1
<1>3. /\ old.capacity \in Nat /\ Len(d) \in Nat /\ DOMAIN d = 1 .. Len(d)
      /\ Len(d) <= old.capacity
      /\ \A n \in DOMAIN d : ArchetypeFits(d[n]) /\ d[n].next <= MaxSlots
  BY <1>1, <1>2 DEF Held
<1>4. CASE Known(cs)
  <2>1. Resolved(cs) = old  BY <1>1, <1>4 DEF Resolved
  <2>2. \E n \in DOMAIN d : d[n].components = cs  BY <1>1, <1>2, <1>4 DEF Known
  <2> QED  BY <1>1, <1>2, <1>3, <1>4, <2>1, <2>2 DEF Extended
<1>5. CASE ~ Known(cs)
  <2>1. PICK n : n = Len(d) + 1  OBVIOUS
  <2>2. PICK c : c = IF n > old.capacity THEN Roomy(n) ELSE old.capacity  OBVIOUS
  <2>3. PICK e : e = Append(d, NewArchetype(cs))  OBVIOUS
  <2>4. Resolved(cs) = [ capacity |-> c, data |-> e ]
    BY <1>1, <1>2, <1>5, <2>1, <2>2, <2>3 DEF Resolved
  <2>5. c \in Nat /\ n <= c /\ n \in Nat  BY <1>3, <2>1, <2>2 DEF Roomy
  <2>6. /\ e \in Seq(ArchetypeRecord) /\ Len(e) = n /\ DOMAIN e = 1 .. n
        /\ e[n] = NewArchetype(cs) /\ \A m \in 1 .. Len(d) : e[m] = d[m]
    BY <1>3, <2>1, <2>3, NewFits
  <2>7. \A m \in DOMAIN e : m \notin DOMAIN d => m = n  BY <1>3, <2>1, <2>6
  <2>8. \A m \in DOMAIN e : ArchetypeFits(e[m]) /\ e[m].next <= MaxSlots
    BY <1>3, <2>6, <2>7, NewFits, MemoryAssumption
  <2>9. e[n].components = cs /\ n \in DOMAIN e  BY <1>3, <2>1, <2>6, NewFits
  <2>10. PICK A : A = Resolved(cs)  OBVIOUS
  <2>11. A \in [ capacity : Nat, data : Seq(ArchetypeRecord) ] /\ A.capacity = c /\ A.data = e
    BY <2>4, <2>5, <2>6, <2>10
  <2>12. Len(d) <= Len(e) /\ Len(e) <= c  BY <1>3, <2>1, <2>5, <2>6
  <2>13. Extended(A, cs)
    BY <1>1, <1>2, <1>3, <1>5, <2>1, <2>6, <2>7, <2>8, <2>9, <2>11, <2>12 DEF Extended
  <2> QED  BY <2>10, <2>13
<1> QED  BY <1>4, <1>5

(* What the archetypes were given before the call is as the extended list  *)
(* tells it.                                                               *)
GivenAs(A) ==
  \A n \in 1 .. MaxArchetypes :
    /\ given[<< "free", n, 0 >>] = IF n \in DOMAIN A.data THEN A.data[n].freeCapacity ELSE 0
    /\ given[<< "blocks", n, 0 >>] = IF n \in DOMAIN A.data THEN A.data[n].blocks ELSE 0
    /\ \A j \in 1 .. MaxSlots : given[<< "block", n, j >>] =
         IF n \in DOMAIN A.data /\ j <= A.data[n].blocks THEN 1 ELSE 0

LEMMA ExtendedGiven ==
  ASSUME BooksRight, NEW cs \in SUBSET Component, NEW A, Extended(A, cs)
  PROVE  GivenAs(A)
<1> SUFFICES ASSUME NEW n \in 1 .. MaxArchetypes
             PROVE  /\ given[<< "free", n, 0 >>] =
                         IF n \in DOMAIN A.data THEN A.data[n].freeCapacity ELSE 0
                    /\ given[<< "blocks", n, 0 >>] =
                         IF n \in DOMAIN A.data THEN A.data[n].blocks ELSE 0
                    /\ \A j \in 1 .. MaxSlots : given[<< "block", n, j >>] =
                         IF n \in DOMAIN A.data /\ j <= A.data[n].blocks THEN 1 ELSE 0
  BY DEF GivenAs
<1>1. /\ << "free", n, 0 >> \in Buffer /\ << "blocks", n, 0 >> \in Buffer
      /\ \A j \in 1 .. MaxSlots : << "block", n, j >> \in Buffer
  BY BufferShape
<1>2. /\ given[<< "free", n, 0 >>] = Believed("free", n, 0)
      /\ given[<< "blocks", n, 0 >>] = Believed("blocks", n, 0)
      /\ \A j \in 1 .. MaxSlots : given[<< "block", n, j >>] = Believed("block", n, j)
  BY <1>1 DEF BooksRight
<1>3. CASE n \in DOMAIN archetype.data
  <2>1. n \in DOMAIN A.data /\ A.data[n] = archetype.data[n]  BY <1>3 DEF Extended
  <2> QED  BY <1>2, <1>3, <2>1, BeliefsHold DEF ArchetypeBeliefs
<1>4. CASE n \notin DOMAIN archetype.data
  <2>1. n \in DOMAIN A.data => (A.data[n].freeCapacity = 0 /\ A.data[n].blocks = 0)
    BY <1>4, NewFits DEF Extended
  <2>2. \A j \in 1 .. MaxSlots : ~ j <= 0  BY MemoryAssumption
  <2>3. /\ Believed("free", n, 0) = 0 /\ Believed("blocks", n, 0) = 0
        /\ \A j \in 1 .. MaxSlots : Believed("block", n, j) = 0
    BY <1>4, BeliefsHold DEF ArchetypeBeliefs
  <2> QED  BY <1>2, <2>1, <2>2, <2>3
<1> QED  BY <1>3, <1>4

(* Afterwards there are these archetypes, of the same components.          *)
Becomes(A) ==
  /\ archetype' \in [ capacity : Nat, data : Seq(ArchetypeRecord) ]
  /\ archetype'.capacity = A.capacity
  /\ Len(archetype'.data) = Len(A.data) /\ DOMAIN archetype'.data = DOMAIN A.data
  /\ Len(A.data) <= MaxArchetypes
  /\ \A n \in DOMAIN A.data : archetype'.data[n].components = A.data[n].components

LEMMA ResolveAsked ==
  ASSUME FieldsTyped, BooksRight, NEW cs \in SUBSET Component,
         NEW A, A = Resolved(cs), Extended(A, cs), Becomes(A)
  PROVE  /\ \A ask \in ResolveAsks(cs) : Right(ask)
         /\ AllSettled(ArchetypeArrays \cup SetArrays, ResolveAsks(cs))
<1>1. CASE Known(cs)
  <2>1. ResolveAsks(cs) = {}  BY <1>1 DEF ResolveAsks
  <2>2. A = archetype  BY <1>1 DEF Extended
  <2>3. ASSUME NEW b \in Buffer, b[1] \in ArchetypeArrays \cup SetArrays
        PROVE  Settled(b, {})
    <3>1. Believed(b[1], b[2], b[3])' = Believed(b[1], b[2], b[3])
      BY <2>2, <2>3, BeliefsHold DEF Becomes, ArchetypeBeliefs
    <3> QED  BY <3>1, BelievedStill
  <2> QED  BY <2>1, <2>3 DEF AllSettled
<1>2. CASE ~ Known(cs)
  <2>1. PICK n : n = Len(archetype.data) + 1  OBVIOUS
  <2>2. /\ n \in 1 .. MaxArchetypes /\ n \in DOMAIN A.data /\ n \notin DOMAIN archetype.data
        /\ \A m \in DOMAIN A.data : m # n => m \in DOMAIN archetype.data
        /\ \A m \in DOMAIN archetype.data : m # n /\ m \in DOMAIN A.data
    <3>1. archetype.data \in Seq(ArchetypeRecord)  BY DEF FieldsTyped
    <3>2. Len(archetype.data) \in Nat  BY <3>1
    <3>3. Len(A.data) = n /\ n <= MaxArchetypes /\ DOMAIN A.data = 1 .. n
          /\ DOMAIN archetype.data = 1 .. n - 1
      BY <1>2, <2>1, <3>2 DEF Extended, Becomes
    <3> QED  BY <2>1, <3>2, <3>3, MemoryAssumption
  <2>3. A.data[n].components = cs  BY <2>2, NewFits DEF Extended
  <2>4. PICK one : one = Renewed(ArchetypeArrays, 0, archetype.capacity, A.capacity)  OBVIOUS
  <2>5. PICK two : two = Renewed(SetArrays, n, 0, Cardinality(cs))  OBVIOUS
  <2>6. PICK asks : asks = ResolveAsks(cs)  OBVIOUS
  <2>7. asks = one \cup two  BY <1>2, <2>1, <2>4, <2>5, <2>6 DEF ResolveAsks
  <2>8. /\ \A ask \in one : Right(ask)
        /\ \A kind \in ArchetypeArrays : Settled(<< kind, 0, 0 >>, one)
    <3>1. \A kind \in ArchetypeArrays : /\ << kind, 0, 0 >> \in Buffer
                                        /\ Believed(kind, 0, 0) = archetype.capacity
                                        /\ Believed(kind, 0, 0)' = A.capacity
      BY BufferShape, BeliefsHold DEF Single, ArchetypeBeliefs, Becomes
    <3> QED  BY <2>4, <3>1, RenewedAsBelieved
  <2>9. /\ \A ask \in two : Right(ask)
        /\ \A kind \in SetArrays : Settled(<< kind, n, 0 >>, two)
    <3>1. \A kind \in SetArrays : /\ << kind, n, 0 >> \in Buffer
                                  /\ Believed(kind, n, 0) = 0
                                  /\ Believed(kind, n, 0)' = Cardinality(cs)
      BY <2>2, <2>3, BufferShape, BeliefsHold DEF ArchetypeBeliefs, Becomes
    <3> QED  BY <2>5, <3>1, RenewedAsBelieved
  <2>10. ASSUME NEW b \in Buffer, b[1] \in ArchetypeArrays PROVE Settled(b, asks)
    <3>1. b = << b[1], 0, 0 >>  BY <2>10, BufferShape DEF SetArrays, ArchetypeArrays
    <3> QED  BY <2>7, <2>8, <2>10, <3>1, SettledBy
  <2>11. ASSUME NEW b \in Buffer, b[1] \in SetArrays PROVE Settled(b, asks)
    <3>1. b = << b[1], b[2], 0 >>
      BY <2>11, Shapes
    <3>2. CASE b[2] = n  BY <2>7, <2>9, <2>11, <3>1, <3>2, SettledBy
    <3>3. CASE b[2] # n
      <4>1. /\ b[2] \in DOMAIN archetype'.data <=> b[2] \in DOMAIN archetype.data
            /\ b[2] \in DOMAIN archetype.data =>
                 archetype'.data[b[2]].components = archetype.data[b[2]].components
        BY <2>2, <3>3 DEF Becomes, Extended
      <4>2. Believed(b[1], b[2], b[3])' = Believed(b[1], b[2], b[3])
        BY <2>11, <4>1, BeliefsHold DEF ArchetypeBeliefs
      <4> QED  BY <4>2, BelievedStill
    <3> QED  BY <3>2, <3>3
  <2> QED  BY <2>6, <2>7, <2>8, <2>9, <2>10, <2>11 DEF AllSettled
<1> QED  BY <1>1, <1>2

(* The blocks that the slots of one archetype need.                        *)
LEMMA BlocksAsked ==
  ASSUME NEW A, GivenAs(A), Becomes(A), NEW a \in DOMAIN A.data, a \in 1 .. MaxArchetypes,
         NEW before, before = A.data[a], NEW after, archetype'.data[a].blocks = after.blocks,
         before.blocks \in Nat, after.blocks \in Nat,
         before.blocks <= after.blocks, after.blocks <= MaxSlots,
         NEW asks, asks = BlockAsks(a, before, after)
  PROVE  /\ \A ask \in asks : Right(ask)
         /\ Settled(<< "blocks", a, 0 >>, asks)
         /\ \A j \in 1 .. MaxSlots : Settled(<< "block", a, j >>, asks)
<1>1. PICK lists : lists = Renewed({ "blocks" }, a, before.blocks, after.blocks)  OBVIOUS
<1>2. PICK each : each = { Asked(<< "block", a, j >>, 0, 1) : j \in before.blocks + 1 .. after.blocks }
  OBVIOUS
<1>3. asks = lists \cup each  BY <1>1, <1>2 DEF BlockAsks
<1>4. a \in DOMAIN archetype'.data  BY DEF Becomes
<1>5. (\A ask \in lists : Right(ask)) /\ Settled(<< "blocks", a, 0 >>, lists)
  <2>1. << "blocks", a, 0 >> \in Buffer /\ given[<< "blocks", a, 0 >>] = before.blocks
    BY BufferShape DEF GivenAs
  <2>2. Believed("blocks", a, 0)' = after.blocks
    BY <1>4, BeliefsHold DEF ArchetypeBeliefs
  <2> QED  BY <1>1, <2>1, <2>2, RenewedRight
<1>6. ASSUME NEW j \in 1 .. MaxSlots
      PROVE  /\ << "block", a, j >> \in Buffer
             /\ given[<< "block", a, j >>] = IF j <= before.blocks THEN 1 ELSE 0
             /\ Believed("block", a, j)' = IF j <= after.blocks THEN 1 ELSE 0
  <2>1. << "block", a, j >> \in Buffer  BY BufferShape
  <2>2. given[<< "block", a, j >>] = IF j <= before.blocks THEN 1 ELSE 0  BY DEF GivenAs
  <2>3. Believed("block", a, j)' = IF j <= after.blocks THEN 1 ELSE 0
    BY <1>4, BeliefsHold DEF ArchetypeBeliefs
  <2> QED  BY <2>1, <2>2, <2>3
<1>7. ASSUME NEW ask \in each PROVE Right(ask)
  <2>1. PICK j \in before.blocks + 1 .. after.blocks : ask = Asked(<< "block", a, j >>, 0, 1)
    BY <1>2
  <2>2. j \in 1 .. MaxSlots /\ ~ j <= before.blocks /\ j <= after.blocks  BY MemoryAssumption
  <2>3. ask.buffer = << "block", a, j >> /\ ask.told = 0 /\ ask.size = 1  BY <2>1 DEF Asked
  <2>4. ask.buffer[1] = "block" /\ ask.buffer[2] = a /\ ask.buffer[3] = j  BY <2>3
  <2> QED  BY <1>6, <2>2, <2>3, <2>4 DEF Right
<1>8. ASSUME NEW j \in 1 .. MaxSlots PROVE Settled(<< "block", a, j >>, asks)
  <2>1. CASE j \in before.blocks + 1 .. after.blocks
    <3>1. Asked(<< "block", a, j >>, 0, 1) \in asks  BY <1>2, <1>3, <2>1
    <3> QED  BY <3>1 DEF Settled, Asked
  <2>2. CASE j \notin before.blocks + 1 .. after.blocks
    <3>1. j <= before.blocks <=> j <= after.blocks  BY <2>2
    <3> QED  BY <1>6, <3>1 DEF Settled
  <2> QED  BY <2>1, <2>2
<1> QED  BY <1>3, <1>5, <1>7, <1>8, SettledBy

(* All buffers of archetypes.                                              *)
LEMMA ArchetypesSettled ==
  ASSUME FieldsTyped, BooksRight, NEW cs \in SUBSET Component,
         NEW A, A = Resolved(cs), Extended(A, cs), GivenAs(A), Becomes(A),
         NEW asks, ResolveAsks(cs) \subseteq asks,
         \A n \in DOMAIN A.data :
           \/ archetype'.data[n].freeCapacity = A.data[n].freeCapacity
           \/ Settled(<< "free", n, 0 >>, asks),
         \A n \in DOMAIN A.data :
           \/ archetype'.data[n].blocks = A.data[n].blocks
           \/ /\ Settled(<< "blocks", n, 0 >>, asks)
              /\ \A j \in 1 .. MaxSlots : Settled(<< "block", n, j >>, asks)
  PROVE  AllSettled(OfArchetypes, asks)
<1>1. ASSUME NEW b \in Buffer, b[1] \in ArchetypeArrays \cup SetArrays PROVE Settled(b, asks)
  <2>1. Settled(b, ResolveAsks(cs))  BY <1>1, ResolveAsked DEF AllSettled
  <2> QED  BY <2>1, SettledBy
<1>2. ASSUME NEW b \in Buffer, b[1] = "free" PROVE Settled(b, asks)
  <2>1. b = << "free", b[2], 0 >> /\ b[2] \in 1 .. MaxArchetypes
    BY <1>2, Shapes
  <2>2. given[b] = IF b[2] \in DOMAIN A.data THEN A.data[b[2]].freeCapacity ELSE 0
    BY <2>1 DEF GivenAs
  <2>3. Believed(b[1], b[2], b[3])' =
          IF b[2] \in DOMAIN A.data THEN archetype'.data[b[2]].freeCapacity ELSE 0
    BY <1>2, BeliefsHold DEF ArchetypeBeliefs, Becomes
  <2> QED  BY <2>1, <2>2, <2>3 DEF Settled
<1>3. ASSUME NEW b \in Buffer, b[1] = "blocks" PROVE Settled(b, asks)
  <2>1. b = << "blocks", b[2], 0 >> /\ b[2] \in 1 .. MaxArchetypes
    BY <1>3, Shapes
  <2>2. given[b] = IF b[2] \in DOMAIN A.data THEN A.data[b[2]].blocks ELSE 0
    BY <2>1 DEF GivenAs
  <2>3. Believed(b[1], b[2], b[3])' =
          IF b[2] \in DOMAIN A.data THEN archetype'.data[b[2]].blocks ELSE 0
    BY <1>3, BeliefsHold DEF ArchetypeBeliefs, Becomes
  <2> QED  BY <2>1, <2>2, <2>3 DEF Settled
<1>4. ASSUME NEW b \in Buffer, b[1] = "block" PROVE Settled(b, asks)
  <2>1. b = << "block", b[2], b[3] >> /\ b[2] \in 1 .. MaxArchetypes /\ b[3] \in 1 .. MaxSlots
    BY <1>4, Shapes
  <2>2. given[b] = IF b[2] \in DOMAIN A.data /\ b[3] <= A.data[b[2]].blocks THEN 1 ELSE 0
    BY <2>1 DEF GivenAs
  <2>3. Believed(b[1], b[2], b[3])' =
          IF b[2] \in DOMAIN A.data /\ b[3] <= archetype'.data[b[2]].blocks THEN 1 ELSE 0
    BY <1>4, BeliefsHold DEF ArchetypeBeliefs, Becomes
  <2> QED  BY <2>1, <2>2, <2>3 DEF Settled
<1> QED  BY <1>1, <1>2, <1>3, <1>4 DEF AllSettled, OfArchetypes

(* What is left to show of a call that changes archetypes.                 *)
LEMMA ArchetypesHeld ==
  ASSUME FieldsTyped, Held, NEW cs \in SUBSET Component, NEW A, Extended(A, cs), Becomes(A),
         stage' = "open" => EntitiesFit(entity'), UNCHANGED << layer, component, query >>,
         \A n \in DOMAIN A.data :
           ArchetypeFits(archetype'.data[n]) /\ archetype'.data[n].next <= MaxSlots
  PROVE  Held'
<1>1. QueryFits(query)'
  <2>1. Len(archetype.data) \in Nat /\ Len(A.data) \in Nat /\ query.tested \in Nat
    BY DEF FieldsTyped, Extended
  <2>2. query.tested <= Len(archetype'.data)
    BY <2>1 DEF Held, QueryFits, Extended, Becomes
  <2> QED  BY <2>2 DEF Held, QueryFits
<1>2. (~ QueryOpen => query = NoQuery)'  BY DEF Held, QueryOpen, NoQuery
<1>3. /\ Len(archetype'.data) <= archetype'.capacity /\ Len(archetype'.data) <= MaxArchetypes
      /\ \A n \in DOMAIN archetype'.data :
           ArchetypeFits(archetype'.data[n]) /\ archetype'.data[n].next <= MaxSlots
  BY DEF Extended, Becomes
<1>4. \A n \in DOMAIN archetype'.data : ArchetypeFits(archetype.data[n])'
  BY <1>3 DEF ArchetypeFits
<1> QED  BY <1>1, <1>2, <1>3, <1>4 DEF Held, EntitiesFit

LEMMA InBoundsAfter ==
  ASSUME archetype' \in [ capacity : Nat, data : Seq(ArchetypeRecord) ],
         InBounds(archetype'.data)
  PROVE  /\ Len(archetype'.data) <= MaxArchetypes
         /\ \A n \in DOMAIN archetype'.data : archetype'.data[n].next <= MaxSlots
<1>1. PICK e : e = archetype'.data  OBVIOUS
<1>2. e \in Seq(ArchetypeRecord) /\ InBounds(e)  BY <1>1
<1>3. Len(e) <= MaxArchetypes /\ \A n \in DOMAIN e : e[n].next <= MaxSlots
  BY <1>2, SlotsBounded
<1> QED  BY <1>1, <1>3

LEMMA UnchangedKeeps ==
  ASSUME MemoryInv, UNCHANGED vars
  PROVE  MemoryInv'
<1>1. UNCHANGED << stage, entity, layer, component, archetype, query, given, lost, mistold,
                 refused >>
  BY DEF vars
<1>2. TypeOK'  BY <1>1 DEF MemoryInv, TypeOK
<1>3. Held'  BY <1>1 DEF MemoryInv, Held, EntitiesFit, QueryFits, QueryOpen, NoQuery
<1>4. BooksAgree'
  <2>1. Unsure' = Unsure  BY <1>1 DEF Unsure, Together
  <2>2. \A kind, n, j : Believed(kind, n, j)' = Believed(kind, n, j)
    BY <1>1 DEF Believed, QueryOpen, Columns
  <2> QED  BY <1>1, <2>1, <2>2 DEF MemoryInv, BooksAgree
<1>5. OnlyKnownLosses'
  BY <1>1 DEF MemoryInv, OnlyKnownLosses, LostByRefusal, Unsure, Together
<1>6. (stage = "none" => Blank)'  BY <1>1 DEF MemoryInv, Blank, NoEntities, NoQuery
<1>7. (stage = "short" => CutOff)'  BY <1>1 DEF MemoryInv, CutOff, QueryOpen
<1> QED  BY <1>1, <1>2, <1>3, <1>4, <1>5, <1>6, <1>7 DEF MemoryInv

(* What kinds of buffers are asked for.                                    *)
LEMMA KindsAsked ==
  /\ \A kinds, n, told, size :
       \A ask \in Renewed(kinds, n, told, size) : ask.buffer[1] \in kinds
  /\ \A cs : \A ask \in ResolveAsks(cs) : ask.buffer[1] \in ArchetypeArrays \cup SetArrays
  /\ \A a, before, after : \A ask \in BlockAsks(a, before, after) :
       ask.buffer[1] \in { "blocks", "block" }
<1>1. ASSUME NEW kinds, NEW n, NEW told, NEW size, NEW ask \in Renewed(kinds, n, told, size)
      PROVE  ask.buffer[1] \in kinds
  BY DEF Renewed, Asked
<1>2. ASSUME NEW cs, NEW ask \in ResolveAsks(cs)
      PROVE  ask.buffer[1] \in ArchetypeArrays \cup SetArrays
  BY <1>1 DEF ResolveAsks
<1>3. ASSUME NEW a, NEW before, NEW after, NEW ask \in BlockAsks(a, before, after)
      PROVE  ask.buffer[1] \in { "blocks", "block" }
  <2>1. CASE ask \in Renewed({ "blocks" }, a, before.blocks, after.blocks)  BY <1>1, <2>1
  <2>2. CASE ask \notin Renewed({ "blocks" }, a, before.blocks, after.blocks)
    BY <1>3, <2>2 DEF BlockAsks, Asked
  <2> QED  BY <2>1, <2>2
<1> QED  BY <1>1, <1>2, <1>3

(* The arrays of the entity table, when they grow.                         *)
LEMMA EntitiesAsked ==
  ASSUME BooksRight, entity'.freeCapacity = entity.freeCapacity,
         NEW some, some = Renewed(EntityArrays, 0, entity.capacity, entity'.capacity),
         NEW asks, some \subseteq asks
  PROVE  (\A ask \in some : Right(ask)) /\ AllSettled(OfEntities, asks)
<1>1. (\A ask \in some : Right(ask)) /\ \A kind \in EntityArrays : Settled(<< kind, 0, 0 >>, some)
  <2>1. \A kind \in EntityArrays : /\ << kind, 0, 0 >> \in Buffer
                                   /\ Believed(kind, 0, 0) = entity.capacity
                                   /\ Believed(kind, 0, 0)' = entity'.capacity
    BY BufferShape, BeliefsHold DEF Single, Beliefs
  <2> QED  BY <2>1, RenewedAsBelieved
<1>2. ASSUME NEW b \in Buffer, b[1] \in EntityArrays PROVE Settled(b, asks)
  <2>1. b = << b[1], 0, 0 >>  BY <1>2, Shapes DEF Single
  <2> QED  BY <1>1, <1>2, <2>1, SettledBy
<1>3. ASSUME NEW b \in Buffer, b[1] = "entity.free" PROVE Settled(b, asks)
  <2>1. Believed(b[1], b[2], b[3])' = Believed(b[1], b[2], b[3])
    BY <1>3, BeliefsHold DEF Beliefs
  <2> QED  BY <2>1, BelievedStill
<1> QED  BY <1>1, <1>2, <1>3 DEF AllSettled, OfEntities

(* The archetype of a set has its place.                                   *)
LEMMA IndexFound ==
  ASSUME NEW cs, NEW A, Extended(A, cs), NEW a, a = IndexOf(A.data, cs)
  PROVE  /\ a \in DOMAIN A.data /\ A.data[a].components = cs
         /\ A.data[a] \in ArchetypeRecord /\ ArchetypeFits(A.data[a])
<1>1. a \in DOMAIN A.data /\ A.data[a].components = cs  BY DEF Extended, IndexOf
<1>2. A.data \in Seq(ArchetypeRecord)  BY DEF Extended
<1> QED  BY <1>1, <1>2 DEF Extended

(* What a call finds or makes, and leaves as it is.                        *)
LEMMA ArchetypeFound ==
  ASSUME FieldsTyped, Held, BooksRight, NEW cs \in SUBSET Component,
         NEW A, A = Resolved(cs), Extended(A, cs), archetype' = A, Len(A.data) <= MaxArchetypes
  PROVE  /\ archetype' \in [ capacity : Nat, data : Seq(ArchetypeRecord) ]
         /\ Becomes(A) /\ GivenAs(A)
         /\ \A n \in DOMAIN A.data :
              ArchetypeFits(archetype'.data[n]) /\ archetype'.data[n].next <= MaxSlots
         /\ \A ask \in ResolveAsks(cs) : Right(ask)
         /\ AllSettled(OfArchetypes, ResolveAsks(cs))
<1>1. archetype' \in [ capacity : Nat, data : Seq(ArchetypeRecord) ]  BY DEF Extended
<1>2. Becomes(A)  BY <1>1 DEF Becomes
<1>3. \A n \in DOMAIN A.data :
        ArchetypeFits(archetype'.data[n]) /\ archetype'.data[n].next <= MaxSlots
  BY DEF Extended
<1>4. \A ask \in ResolveAsks(cs) : Right(ask)  BY <1>2, ResolveAsked
<1>5. GivenAs(A)  BY ExtendedGiven
<1>6. AllSettled(OfArchetypes, ResolveAsks(cs))
  <2>1. \A n \in DOMAIN A.data : /\ archetype'.data[n].freeCapacity = A.data[n].freeCapacity
                                 /\ archetype'.data[n].blocks = A.data[n].blocks
    OBVIOUS
  <2>2. PICK asks : asks = ResolveAsks(cs)  OBVIOUS
  <2> QED  BY <1>2, <1>5, <2>1, <2>2, ArchetypesSettled
<1> QED  BY <1>1, <1>2, <1>3, <1>4, <1>5, <1>6

(* Slots of one archetype are taken.                                       *)
Filling(A, cs, a, before, after) ==
  /\ A = Resolved(cs) /\ Extended(A, cs) /\ a \in DOMAIN A.data
  /\ before = A.data[a] /\ after \in ArchetypeRecord /\ Fuller(before, after)
  /\ archetype' = [ A EXCEPT !.data[a] = after ] /\ InBounds(archetype'.data)

LEMMA ArchetypeFilled ==
  ASSUME FieldsTyped, Held, BooksRight, NEW cs \in SUBSET Component,
         NEW A, NEW a, NEW before, NEW after, Filling(A, cs, a, before, after),
         NEW some, some = ResolveAsks(cs) \cup BlockAsks(a, before, after),
         NEW asks, some \subseteq asks
  PROVE  /\ archetype' \in [ capacity : Nat, data : Seq(ArchetypeRecord) ]
         /\ Becomes(A) /\ GivenAs(A) /\ a \in 1 .. MaxArchetypes /\ after.blocks <= MaxSlots
         /\ \A m \in DOMAIN A.data :
              ArchetypeFits(archetype'.data[m]) /\ archetype'.data[m].next <= MaxSlots
         /\ \A ask \in some : Right(ask)
         /\ AllSettled(OfArchetypes, asks)
<1> USE DEF Filling
<1>1. PICK d \in Seq(ArchetypeRecord) : d = A.data  BY DEF Extended
<1>2. PICK e : e = [ d EXCEPT ![a] = after ]  OBVIOUS
<1>3. /\ e \in Seq(ArchetypeRecord) /\ Len(e) = Len(d) /\ DOMAIN e = DOMAIN d
      /\ e[a] = after /\ \A m \in DOMAIN d : m # a => e[m] = d[m]
  BY <1>1, <1>2, ArchetypeReplaced
<1>4. /\ archetype' \in [ capacity : Nat, data : Seq(ArchetypeRecord) ]
      /\ archetype'.capacity = A.capacity /\ archetype'.data = e
  <2>1. archetype' = [ A EXCEPT !.data = e ]  BY <1>1, <1>2
  <2>2. A \in [ capacity : Nat, data : Seq(ArchetypeRecord) ]  BY DEF Extended
  <2> QED  BY <1>3, <2>1, <2>2
<1>5. Becomes(A)
  <2>1. \A m \in DOMAIN A.data : archetype'.data[m].components = A.data[m].components
    BY <1>1, <1>3, <1>4 DEF Fuller
  <2> QED  BY <1>1, <1>3, <1>4, <2>1, InBoundsAfter DEF Becomes
<1>6. \A m \in DOMAIN A.data : archetype'.data[m].next <= MaxSlots
  BY <1>1, <1>3, <1>4, InBoundsAfter
<1>7. \A m \in DOMAIN A.data : ArchetypeFits(archetype'.data[m])
  BY <1>1, <1>3, <1>4 DEF Extended, Fuller
<1>8. GivenAs(A)  BY ExtendedGiven
<1>9. a \in 1 .. MaxArchetypes  BY <1>1, <1>5, MemoryAssumption DEF Becomes
<1>10. before \in ArchetypeRecord  BY <1>1
<1>11. before.blocks \in Nat /\ after.blocks \in Nat /\ after.next \in Nat
       /\ before.blocks <= after.blocks
  BY <1>10 DEF ArchetypeRecord, Fuller
<1>12. after.blocks <= MaxSlots
  <2>1. after.blocks <= after.next  BY BlocksWithin DEF Fuller
  <2>2. after.next <= MaxSlots  BY <1>1, <1>3, <1>4, <1>6
  <2> QED  BY <1>11, <2>1, <2>2, MemoryAssumption
<1>13. \A ask \in ResolveAsks(cs) : Right(ask)  BY <1>5, ResolveAsked
<1>14. PICK blocks : blocks = BlockAsks(a, before, after)  OBVIOUS
<1>15. /\ \A ask \in blocks : Right(ask)
       /\ Settled(<< "blocks", a, 0 >>, blocks)
       /\ \A j \in 1 .. MaxSlots : Settled(<< "block", a, j >>, blocks)
  <2>1. archetype'.data[a].blocks = after.blocks  BY <1>1, <1>3, <1>4
  <2> QED  BY <1>5, <1>8, <1>9, <1>11, <1>12, <1>14, <2>1, BlocksAsked
<1>16. AllSettled(OfArchetypes, asks)
  <2>1. \A m \in DOMAIN A.data : archetype'.data[m].freeCapacity = A.data[m].freeCapacity
    BY <1>1, <1>3, <1>4 DEF Fuller
  <2>2. ASSUME NEW m \in DOMAIN A.data
        PROVE  \/ archetype'.data[m].blocks = A.data[m].blocks
               \/ /\ Settled(<< "blocks", m, 0 >>, asks)
                  /\ \A j \in 1 .. MaxSlots : Settled(<< "block", m, j >>, asks)
    <3>1. CASE m = a  BY <1>14, <1>15, <3>1, SettledBy
    <3>2. CASE m # a  BY <1>1, <1>3, <1>4, <3>2
    <3> QED  BY <3>1, <3>2
  <2>3. ResolveAsks(cs) \subseteq asks  OBVIOUS
  <2> QED  BY <1>5, <1>8, <2>1, <2>2, <2>3, ArchetypesSettled
<1> QED  BY <1>4, <1>5, <1>6, <1>7, <1>8, <1>9, <1>12, <1>13, <1>14, <1>15, <1>16

LEMMA SpawnFailsKeeps ==
  ASSUME MemoryInv, SpawnFails
  PROVE  MemoryInv'
<1>1. CASE UNCHANGED << archetype, given, lost, mistold >>
  BY <1>1, UnchangedKeeps DEF SpawnFails, vars
<1>2. CASE ~ UNCHANGED << archetype, given, lost, mistold >>
  <2>1. FieldsTyped /\ Held /\ BooksRight /\ stage = "open" /\ Called
    BY OpenBooks DEF MemoryInv, TypeOK, FieldsTyped, SpawnFails, Called
  <2>2. UNCHANGED << stage, entity, layer, component, query, refused >>  BY DEF SpawnFails
  <2>3. PICK cs \in (SUBSET Registered) \ {{}} :
          /\ archetype' = Resolved(cs) /\ InBounds(archetype'.data)
          /\ Answered(ResolveAsks(cs)) /\ Loses(ResolveLoses(cs))
    BY <1>2 DEF SpawnFails
  <2>4. cs \in SUBSET Component  BY <2>1, <2>3, RegisteredIsComponents
  <2>5. PICK A : A = Resolved(cs)  OBVIOUS
  <2>6. Extended(A, cs)  BY <2>1, <2>4, <2>5, ResolvedExtends
  <2>7. archetype' = A /\ Len(A.data) <= MaxArchetypes  BY <2>3, <2>5 DEF InBounds
  <2>8. PICK asks : asks = ResolveAsks(cs)  OBVIOUS
  <2>9. /\ archetype' \in [ capacity : Nat, data : Seq(ArchetypeRecord) ] /\ Becomes(A)
        /\ \A n \in DOMAIN A.data :
             ArchetypeFits(archetype'.data[n]) /\ archetype'.data[n].next <= MaxSlots
        /\ \A ask \in asks : Right(ask)
        /\ AllSettled(OfArchetypes, asks)
    BY <2>1, <2>4, <2>5, <2>6, <2>7, <2>8, ArchetypeFound
  <2>10. FieldsTyped'  BY <2>1, <2>2, <2>9 DEF FieldsTyped
  <2>11. Held'
    <3>1. EntitiesFit(entity')  BY <2>1, <2>2 DEF Held
    <3> QED  BY <2>1, <2>2, <2>4, <2>6, <2>9, <3>1, ArchetypesHeld
  <2>12. \A b \in Buffer : Settled(b, asks)
    BY <2>1, <2>2, <2>9, Untouched, SettledByKind
  <2> QED
    <3>1. Answered(asks) /\ Loses({})  BY <2>3, <2>8 DEF ResolveLoses
    <3> QED  BY <2>1, <2>2, <2>9, <2>10, <2>11, <2>12, <3>1, CallKeeps
<1> QED  BY <1>1, <1>2

LEMMA HandlesAre ==
  ASSUME NEW own
  PROVE  /\ HandlesLost(own) \subseteq { TheOnly("entities") }
         /\ TheOnly("entities") \in Buffer /\ TheOnly("entities")[1] = "entities"
BY BufferShape DEF HandlesLost, TheOnly, Single

LEMMA SpawnKeeps ==
  ASSUME MemoryInv, Spawn
  PROVE  MemoryInv'
<1>1. FieldsTyped /\ Held /\ BooksRight /\ stage = "open" /\ Called
  BY OpenBooks DEF MemoryInv, TypeOK, FieldsTyped, Spawn, Called
<1>2. UNCHANGED << stage, layer, component, query, refused >>  BY DEF Spawn
<1>3. PICK cs \in (SUBSET Registered) \ {{}}, n \in 1 .. MaxSpawn, own \in BOOLEAN :
        LET data == Resolved(cs).data
            a == IndexOf(data, cs)
            filled == WithSlotsTaken(data[a], n) IN
        /\ entity' = WithEntities(n)
        /\ archetype' = [ Resolved(cs) EXCEPT !.data[a] = filled ]
        /\ InBounds(archetype'.data)
        /\ Answered(ResolveAsks(cs)
                    \cup Renewed(EntityArrays, 0, entity.capacity, entity'.capacity)
                    \cup BlockAsks(a, data[a], filled))
        /\ Loses(HandlesLost(own) \cup ResolveLoses(cs))
  BY DEF Spawn
<1>4. cs \in SUBSET Component /\ n \in Nat
  BY <1>1, <1>3, RegisteredIsComponents, MemoryAssumption
<1>5. PICK A : A = Resolved(cs)  OBVIOUS
<1>6. Extended(A, cs)  BY <1>1, <1>4, <1>5, ResolvedExtends
<1>7. PICK a : a = IndexOf(A.data, cs)  OBVIOUS
<1>8. PICK before : before = A.data[a]  OBVIOUS
<1>9. a \in DOMAIN A.data /\ before \in ArchetypeRecord /\ ArchetypeFits(before)
  BY <1>6, <1>7, <1>8, IndexFound
<1>10. PICK after : after = WithSlotsTaken(before, n)  OBVIOUS
<1>11. after \in ArchetypeRecord /\ Fuller(before, after)
  BY <1>4, <1>9, <1>10, SlotsTaken
<1>12. PICK one : one = ResolveAsks(cs) \cup BlockAsks(a, before, after)  OBVIOUS
<1>13. PICK two : two = Renewed(EntityArrays, 0, entity.capacity, entity'.capacity)  OBVIOUS
<1>14. PICK asks : asks = one \cup two  OBVIOUS
<1>15. Answered(asks)
  <2>1. asks = ResolveAsks(cs) \cup two \cup BlockAsks(a, before, after)  BY <1>12, <1>14
  <2> QED  BY <1>3, <1>5, <1>7, <1>8, <1>10, <1>13, <2>1
<1>16. archetype' = [ A EXCEPT !.data[a] = after ] /\ InBounds(archetype'.data)
  BY <1>3, <1>5, <1>7, <1>8, <1>10
<1>17. /\ archetype' \in [ capacity : Nat, data : Seq(ArchetypeRecord) ] /\ Becomes(A)
       /\ \A m \in DOMAIN A.data :
            ArchetypeFits(archetype'.data[m]) /\ archetype'.data[m].next <= MaxSlots
       /\ \A ask \in one : Right(ask)
       /\ AllSettled(OfArchetypes, asks)
  <2>1. Filling(A, cs, a, before, after)  BY <1>5, <1>6, <1>8, <1>9, <1>11, <1>16 DEF Filling
  <2>2. one \subseteq asks  BY <1>14
  <2> QED  BY <1>1, <1>4, <1>12, <2>1, <2>2, ArchetypeFilled
<1>18. /\ entity' \in Entities /\ EntitiesFit(entity')
       /\ entity'.freeCapacity = entity.freeCapacity
  <2>1. entity \in Entities /\ EntitiesFit(entity)
    BY <1>1 DEF FieldsTyped, Held, Entities
  <2>2. entity' = WithEntities(n)  BY <1>3
  <2> QED  BY <1>4, <2>1, <2>2, EntitiesTaken
<1>19. FieldsTyped'  BY <1>1, <1>2, <1>17, <1>18 DEF FieldsTyped, Entities
<1>20. Held'  BY <1>1, <1>2, <1>4, <1>6, <1>17, <1>18, ArchetypesHeld
<1>21. (\A ask \in two : Right(ask)) /\ AllSettled(OfEntities, asks)
  BY <1>1, <1>13, <1>14, <1>18, EntitiesAsked
<1>22. \A b \in Buffer : Settled(b, asks)
  BY <1>1, <1>2, <1>17, <1>21, Untouched, SettledByKind
<1>23. PICK losses : losses = HandlesLost(own)  OBVIOUS
<1>24. Loses(losses) /\ losses \subseteq Buffer /\ \A b \in losses : b[1] = "entities"
  <2>1. Loses(losses)  BY <1>3, <1>23 DEF ResolveLoses
  <2> QED  BY <1>23, <2>1, HandlesAre
<1> QED
  <2>1. \A ask \in asks : Right(ask)  BY <1>14, <1>17, <1>21
  <2> QED  BY <1>1, <1>2, <1>15, <1>19, <1>20, <1>22, <1>24, <2>1, CallKeeps

(* The arrays of archetypes do not grow, and the set of the new one is in  *)
(* nobody's hands.                                                         *)
LEMMA DirectoryShortKeeps ==
  ASSUME MemoryInv, Called, UNCHANGED << entity, layer, component, query >>,
         NEW cs \in SUBSET Component, Len(archetype.data) < MaxArchetypes, DirectoryShort(cs)
  PROVE  MemoryInv'
<1>1. FieldsTyped /\ Held /\ BooksRight /\ stage = "open"
  BY OpenBooks DEF MemoryInv, TypeOK, FieldsTyped, Called
<1>2. PICK size : size = Roomy(Len(archetype.data) + 1)  OBVIOUS
<1>3. PICK set : set = << "set", Len(archetype.data) + 1, 0 >>  OBVIOUS
<1>4. PICK k \in DOMAIN ArchetypeOrder :
        /\ RunsShort(TheOnly(ArchetypeOrder[k]))
        /\ Answered(CutShort(ArchetypeOrder, k, archetype.capacity, archetype.capacity, size))
        /\ Loses(Dropped(TheOnly(ArchetypeOrder[k]), archetype.capacity)
                 \cup Dropped(set, Cardinality(cs)))
  BY <1>2, <1>3 DEF DirectoryShort
<1>5. PICK r : r = TheOnly(ArchetypeOrder[k])  OBVIOUS
<1>6. PICK asks :
        asks = CutShort(ArchetypeOrder, k, archetype.capacity, archetype.capacity, size)
  OBVIOUS
<1>7. PICK losses : losses = Dropped(r, archetype.capacity) \cup Dropped(set, Cardinality(cs))
  OBVIOUS
<1>8. RunsShort(r) /\ Answered(asks) /\ Loses(losses) /\ UNCHANGED archetype
  BY <1>4, <1>5, <1>6, <1>7 DEF DirectoryShort
<1>9. \A m \in DOMAIN ArchetypeOrder :
        given[TheOnly(ArchetypeOrder[m])] = archetype.capacity
  <2>1. \A kind \in ArchetypeArrays : /\ << kind, 0, 0 >> \in Buffer
                                      /\ Believed(kind, 0, 0) = archetype.capacity
    BY BufferShape, BeliefsHold DEF Single, ArchetypeBeliefs
  <2>2. ASSUME NEW kind \in ArchetypeArrays PROVE given[<< kind, 0, 0 >>] = archetype.capacity
    BY <1>1, <2>1 DEF BooksRight
  <2> QED  BY <2>2, Orders DEF TheOnly
<1>10. /\ archetype.capacity \in Nat /\ size \in Nat
       /\ Len(archetype.data) + 1 \in 1 .. MaxArchetypes
  <2>1. archetype.data \in Seq(ArchetypeRecord) /\ archetype.capacity \in Nat
    BY <1>1 DEF FieldsTyped
  <2>2. PICK n \in Nat : n = Len(archetype.data)  BY <2>1
  <2>3. size \in Nat
    <3>1. size = Roomy(n + 1) /\ n + 1 \in Nat  BY <1>2, <2>2
    <3> QED  BY <3>1, RoomyTyped
  <2>4. n + 1 \in 1 .. MaxArchetypes  BY <2>2, MemoryAssumption
  <2> QED  BY <2>1, <2>2, <2>3, <2>4
<1>11. /\ r \in Buffer /\ LostByRefusal(r)' /\ r[1] = ArchetypeOrder[k]
       /\ r[1] \notin QueryLists
       /\ \A ask \in asks : HalfRight(ask) /\ (ask.buffer = r => ask.size = 0)
       /\ \E ask \in asks : ask.buffer = r
  BY <1>5, <1>6, <1>8, <1>9, <1>10, CutShortHalf DEF RunsShort
<1>12. FieldsTyped' /\ Held' /\ \A b \in Buffer : Settled(b, asks)
  BY <1>1, <1>8, FieldsStill
<1>13. ArchetypeOrder[k] \in ArchetypeArrays  BY Orders
<1>14. set \in Buffer /\ set[1] = "set"  BY <1>3, <1>10, BufferShape DEF SetArrays
<1>15. LostByRefusal(set)'
  BY <1>3, <1>5, <1>8, <1>13 DEF LostByRefusal, RunsShort
<1>16. losses \subseteq { r, set }  BY <1>7 DEF Dropped
<1>17. TheOnly("entity.free") \notin losses
  <2>1. TheOnly("entity.free")[1] = "entity.free"  BY DEF TheOnly
  <2> QED  BY <1>11, <1>13, <1>14, <1>16, <2>1 DEF ArchetypeArrays
<1>18. lost = {} /\ mistold = {}  BY DEF Called
<1>19. losses \subseteq Buffer /\ \A b \in losses : LostByRefusal(b)'
  BY <1>11, <1>14, <1>15, <1>16
<1> QED  BY <1>8, <1>11, <1>12, <1>17, <1>18, <1>19, ShortKeeps

(* A new archetype has no offsets of its columns.                          *)
LEMMA LayoutShortKeeps ==
  ASSUME MemoryInv, Called, UNCHANGED << entity, layer, component, query >>,
         NEW cs \in SUBSET Component, Len(archetype.data) < MaxArchetypes, ~ Known(cs),
         LayoutShort(cs)
  PROVE  MemoryInv'
<1>1. FieldsTyped /\ Held /\ BooksRight /\ stage = "open"
  BY OpenBooks DEF MemoryInv, TypeOK, FieldsTyped, Called
<1>2. PICK r : r = << "offset_size", Len(archetype.data) + 1, 0 >>  OBVIOUS
<1>3. PICK all : all = ResolveAsks(cs)  OBVIOUS
<1>4. PICK asks : asks = { ask \in all : ask.buffer # r }  OBVIOUS
<1>5. PICK A : A = Resolved(cs)  OBVIOUS
<1>6. RunsShort(r) /\ archetype' = A /\ Answered(asks) /\ UNCHANGED lost
  BY <1>2, <1>3, <1>4, <1>5 DEF LayoutShort
<1>7. Len(archetype.data) \in Nat /\ Len(archetype.data) + 1 \in 1 .. MaxArchetypes
  <2>1. archetype.data \in Seq(ArchetypeRecord)  BY <1>1 DEF FieldsTyped
  <2> QED  BY <2>1, MemoryAssumption
<1>8. r \in Buffer /\ r[1] = "offset_size" /\ r[2] = Len(archetype.data) + 1
  BY <1>2, <1>7, BufferShape DEF SetArrays
<1>9. given[r] = 0
  <2>1. r[2] \notin DOMAIN archetype.data
    <3>1. archetype.data \in Seq(ArchetypeRecord)  BY <1>1 DEF FieldsTyped
    <3> QED  BY <1>7, <1>8, <3>1
  <2>2. Believed(r[1], r[2], r[3]) = 0
    BY <1>8, <2>1, BeliefsHold DEF ArchetypeBeliefs, SetArrays
  <2> QED  BY <1>1, <1>8, <2>2 DEF BooksRight
<1>10. Extended(A, cs)  BY <1>1, <1>5, ResolvedExtends
<1>11. Len(A.data) <= MaxArchetypes  BY <1>7, <1>10 DEF Extended
<1>12. /\ archetype' \in [ capacity : Nat, data : Seq(ArchetypeRecord) ] /\ Becomes(A)
       /\ \A n \in DOMAIN A.data :
            ArchetypeFits(archetype'.data[n]) /\ archetype'.data[n].next <= MaxSlots
       /\ \A ask \in all : Right(ask)
       /\ AllSettled(OfArchetypes, all)
  BY <1>1, <1>3, <1>5, <1>6, <1>10, <1>11, ArchetypeFound
<1>13. FieldsTyped'  BY <1>1, <1>12 DEF FieldsTyped
<1>14. Held'
  <2>1. EntitiesFit(entity')  BY <1>1 DEF Held
  <2> QED  BY <1>1, <1>10, <1>12, <2>1, ArchetypesHeld
<1>15. \A b \in Buffer : Settled(b, all)  BY <1>1, <1>12, Untouched, SettledByKind
<1>16. lost = {} /\ mistold = {} /\ r[1] \notin QueryLists /\ Loses({})
  BY <1>6, <1>8 DEF Called, QueryLists, Loses
<1>17. /\ asks \subseteq all /\ \A ask \in asks : ask.buffer # r
       /\ \A ask \in all : ask.buffer # r => ask \in asks
  BY <1>4
<1> QED
  BY <1>6, <1>8, <1>9, <1>12, <1>13, <1>14, <1>15, <1>16, <1>17, LeftOutKeeps

LEMMA ResolveShortKeeps ==
  ASSUME MemoryInv, ResolveShort
  PROVE  MemoryInv'
<1>1. FieldsTyped /\ Held /\ Called /\ Len(archetype.data) < MaxArchetypes
      /\ UNCHANGED << entity, layer, component, query >>
  BY DEF MemoryInv, TypeOK, FieldsTyped, ResolveShort
<1>2. PICK cs \in SUBSET Registered :
        ~ Known(cs) /\ (DirectoryShort(cs) \/ LayoutShort(cs))
  BY DEF ResolveShort
<1>3. cs \in SUBSET Component  BY <1>1, RegisteredIsComponents
<1> QED  BY <1>1, <1>2, <1>3, DirectoryShortKeeps, LayoutShortKeeps

(* The entity table does not grow; what the spawn had made before stays.   *)
LEMMA TableShortKeeps ==
  ASSUME MemoryInv, Called, UNCHANGED << layer, component, query >>,
         NEW cs \in SUBSET Component, NEW n \in Nat, NEW own, TableShort(cs, n),
         Loses(HandlesLost(own)
               \cup { b \in refused' : b[1] \in EntityArrays /\ WithEntities(n).capacity > 0 })
  PROVE  MemoryInv'
<1>1. FieldsTyped /\ Held /\ BooksRight /\ stage = "open"
  BY OpenBooks DEF MemoryInv, TypeOK, FieldsTyped, Called
<1>2. PICK A : A = Resolved(cs)  OBVIOUS
<1>3. Extended(A, cs)  BY <1>1, <1>2, ResolvedExtends
<1>4. PICK a : a = IndexOf(A.data, cs)  OBVIOUS
<1>5. PICK before : before = A.data[a]  OBVIOUS
<1>6. a \in DOMAIN A.data /\ before \in ArchetypeRecord /\ ArchetypeFits(before)
  BY <1>3, <1>4, <1>5, IndexFound
<1>7. PICK after : after = WithSlotsTaken(before, n)  OBVIOUS
<1>8. after \in ArchetypeRecord /\ Fuller(before, after)  BY <1>6, <1>7, SlotsTaken
<1>9. PICK table : table = WithEntities(n)  OBVIOUS
<1>10. PICK next : next = WithEntity(table)  OBVIOUS
<1>11. /\ table \in Entities /\ next \in Entities /\ next.freeCapacity = entity.freeCapacity
  <2>1. entity \in Entities /\ EntitiesFit(entity)
    BY <1>1 DEF FieldsTyped, Held, Called, Entities
  <2>2. table \in Entities /\ EntitiesFit(table) /\ table.freeCapacity = entity.freeCapacity
    BY <1>9, <2>1, EntitiesTaken
  <2> QED  BY <1>10, <2>2, EntityTaken
<1>12. PICK k \in DOMAIN EntityOrder :
         /\ RunsShort(TheOnly(EntityOrder[k]))
         /\ Answered(ResolveAsks(cs) \cup BlockAsks(a, before, after)
                     \cup CutShort(EntityOrder, k, entity.capacity, table.capacity,
                                   next.capacity))
  BY <1>2, <1>4, <1>5, <1>7, <1>9, <1>10 DEF TableShort
<1>13. /\ entity' = [ next EXCEPT !.capacity = table.capacity ]
       /\ archetype' = [ A EXCEPT !.data[a] = after ] /\ InBounds(archetype'.data)
  BY <1>2, <1>4, <1>5, <1>7, <1>9, <1>10 DEF TableShort
<1>14. PICK r : r = TheOnly(EntityOrder[k])  OBVIOUS
<1>15. PICK one : one = ResolveAsks(cs) \cup BlockAsks(a, before, after)  OBVIOUS
<1>16. PICK two :
         two = CutShort(EntityOrder, k, entity.capacity, table.capacity, next.capacity)
  OBVIOUS
<1>17. PICK asks : asks = one \cup two  OBVIOUS
<1>18. RunsShort(r) /\ Answered(asks)  BY <1>12, <1>14, <1>15, <1>16, <1>17
<1>19. /\ archetype' \in [ capacity : Nat, data : Seq(ArchetypeRecord) ] /\ Becomes(A)
       /\ \A m \in DOMAIN A.data :
            ArchetypeFits(archetype'.data[m]) /\ archetype'.data[m].next <= MaxSlots
       /\ \A ask \in one : Right(ask)
       /\ AllSettled(OfArchetypes, asks)
  <2>1. Filling(A, cs, a, before, after)
    BY <1>2, <1>3, <1>5, <1>6, <1>8, <1>13 DEF Filling
  <2>2. one \subseteq asks  BY <1>17
  <2> QED  BY <1>1, <1>15, <2>1, <2>2, ArchetypeFilled
<1>20. entity' \in Entities /\ entity'.freeCapacity = entity.freeCapacity
  <2>1. PICK e : e = entity'  OBVIOUS
  <2>2. table.capacity \in Nat  BY <1>11 DEF Entities
  <2>3. e \in Entities /\ e.freeCapacity = next.freeCapacity
    BY <1>11, <1>13, <2>1, <2>2 DEF Entities
  <2> QED  BY <1>11, <2>1, <2>3
<1>21. FieldsTyped'  BY <1>1, <1>19, <1>20 DEF FieldsTyped, Entities
<1>22. Held'
  <2>1. stage' # "open"  BY <1>18 DEF RunsShort
  <2> QED  BY <1>1, <1>3, <1>19, <2>1, ArchetypesHeld
<1>23. \A m \in DOMAIN EntityOrder : given[TheOnly(EntityOrder[m])] = entity.capacity
  <2>1. \A kind \in EntityArrays : /\ << kind, 0, 0 >> \in Buffer
                                   /\ Believed(kind, 0, 0) = entity.capacity
    BY BufferShape, BeliefsHold DEF Single, Beliefs
  <2>2. ASSUME NEW kind \in EntityArrays PROVE given[<< kind, 0, 0 >>] = entity.capacity
    BY <1>1, <2>1 DEF BooksRight
  <2> QED  BY <2>2, Orders DEF TheOnly
<1>24. /\ r \in Buffer /\ LostByRefusal(r)' /\ r[1] = EntityOrder[k] /\ r[1] \notin QueryLists
       /\ \A ask \in two : HalfRight(ask) /\ (ask.buffer = r => ask.size = 0)
       /\ \E ask \in two : ask.buffer = r
       /\ \A m \in DOMAIN EntityOrder : TheOnly(EntityOrder[m]) \in Unsure'
  <2>1. table.capacity \in Nat /\ next.capacity \in Nat  BY <1>11 DEF Entities
  <2> QED  BY <1>14, <1>16, <1>18, <1>23, <2>1, CutShortHalf DEF RunsShort
<1>25. r[1] \in EntityArrays  BY <1>24, Orders
<1>26. \A ask \in asks : HalfRight(ask) /\ (ask.buffer = r => ask.size = 0)
  <2>1. \A ask \in one : HalfRight(ask)  BY <1>19, <1>21, RightIsHalf
  <2>2. \A ask \in one : ask.buffer[1] \in ArchetypeArrays \cup SetArrays \cup { "blocks", "block" }
    BY <1>15, KindsAsked
  <2>3. \A ask \in one : ask.buffer # r
    BY <1>25, <2>2 DEF EntityArrays, ArchetypeArrays, SetArrays
  <2> QED  BY <1>17, <1>24, <2>1, <2>3
<1>27. ASSUME NEW b \in Buffer PROVE b \in Unsure' \/ Settled(b, asks)
  <2>1. CASE b[1] \in EntityArrays
    <3>1. b = TheOnly(b[1])  BY <2>1, Shapes DEF Single, TheOnly
    <3> QED  BY <1>24, <2>1, <3>1, Orders
  <2>2. CASE b[1] = "entity.free"
    <3>1. Believed(b[1], b[2], b[3])' = Believed(b[1], b[2], b[3])
      BY <1>20, <2>2, BeliefsHold DEF Beliefs
    <3> QED  BY <1>1, <3>1, BelievedStill
  <2>3. CASE b[1] \notin OfEntities
    <3>1. b[1] \in OfLayers \cup OfComponents \cup OfArchetypes \cup OfQuery \cup OfNone
      BY <2>3, KindsKnown
    <3> QED  BY <1>1, <1>19, <3>1, Untouched DEF AllSettled
  <2> QED  BY <2>1, <2>2, <2>3 DEF OfEntities
<1>28. PICK losses :
         losses = HandlesLost(own)
                  \cup { b \in refused' : b[1] \in EntityArrays /\ WithEntities(n).capacity > 0 }
  OBVIOUS
<1>29. Loses(losses) /\ losses \subseteq { r, TheOnly("entities") }
  BY <1>18, <1>28, HandlesAre DEF RunsShort
<1>30. losses \subseteq Buffer /\ \A b \in losses : b[1] = "entities" \/ LostByRefusal(b)'
  BY <1>24, <1>29, HandlesAre
<1>31. TheOnly("entity.free") \notin losses
  <2>1. TheOnly("entity.free")[1] = "entity.free"  BY DEF TheOnly
  <2> QED  BY <1>25, <1>29, <2>1, HandlesAre DEF EntityArrays
<1>32. lost = {} /\ mistold = {} /\ \E ask \in asks : ask.buffer = r
  BY <1>17, <1>24 DEF Called
<1> QED
  BY <1>18, <1>21, <1>22, <1>24, <1>26, <1>27, <1>29, <1>30, <1>31, <1>32, ShortKeeps

(* The last block that slots of an archetype need is not there.            *)
LEMMA LastBlock ==
  ASSUME NEW A, GivenAs(A), NEW a \in DOMAIN A.data, a \in 1 .. MaxArchetypes,
         NEW before \in ArchetypeRecord, before = A.data[a], NEW after \in ArchetypeRecord,
         before.blocks < after.blocks, after.blocks <= MaxSlots,
         NEW r, r = << "block", a, after.blocks >>
  PROVE  r \in Buffer /\ given[r] = 0 /\ r[1] = "block" /\ r[1] \notin QueryLists
<1>1. before.blocks \in Nat /\ after.blocks \in Nat  BY DEF ArchetypeRecord
<1>2. after.blocks \in 1 .. MaxSlots /\ ~ after.blocks <= before.blocks
  BY <1>1, MemoryAssumption
<1>3. r \in Buffer /\ r[1] = "block"  BY <1>2, BufferShape
<1>4. given[r] = 0  BY <1>2 DEF GivenAs
<1> QED  BY <1>3, <1>4 DEF QueryLists

LEMMA SpawnBlockShortKeeps ==
  ASSUME MemoryInv, Called, UNCHANGED << layer, component, query >>,
         NEW cs \in SUBSET Component, NEW n \in Nat, NEW own, SpawnBlockShort(cs, n),
         Loses(HandlesLost(own)
               \cup { b \in refused' : b[1] \in EntityArrays /\ WithEntities(n).capacity > 0 })
  PROVE  MemoryInv'
<1>1. FieldsTyped /\ Held /\ BooksRight /\ stage = "open"
  BY OpenBooks DEF MemoryInv, TypeOK, FieldsTyped, Called
<1>2. PICK A : A = Resolved(cs)  OBVIOUS
<1>3. Extended(A, cs)  BY <1>1, <1>2, ResolvedExtends
<1>4. PICK a : a = IndexOf(A.data, cs)  OBVIOUS
<1>5. PICK before : before = A.data[a]  OBVIOUS
<1>6. a \in DOMAIN A.data /\ before \in ArchetypeRecord /\ ArchetypeFits(before)
  BY <1>3, <1>4, <1>5, IndexFound
<1>7. PICK filled : filled = WithSlotsTaken(before, n)  OBVIOUS
<1>8. filled \in ArchetypeRecord /\ Fuller(before, filled)  BY <1>6, <1>7, SlotsTaken
<1>9. PICK full : full = WithSlotTaken(filled)  OBVIOUS
<1>10. full \in ArchetypeRecord /\ Fuller(filled, full)  BY <1>8, <1>9, SlotTaken DEF Fuller
<1>11. PICK after : after = [ full EXCEPT !.live = filled.live ]  OBVIOUS
<1>12. /\ after \in ArchetypeRecord /\ after.components = full.components
       /\ after.next = full.next /\ after.free = full.free
       /\ after.freeCapacity = full.freeCapacity /\ after.blocks = full.blocks
  <2>1. filled.live \in Nat  BY <1>8 DEF ArchetypeRecord
  <2> QED  BY <1>10, <1>11, <2>1 DEF ArchetypeRecord
<1>13. /\ full.blocks # filled.blocks /\ RunsShort(<< "block", a, full.blocks >>)
       /\ entity' = WithEntities(n + 1)
       /\ archetype' = [ A EXCEPT !.data[a] = after ] /\ InBounds(archetype'.data)
       /\ Answered(ResolveAsks(cs)
                   \cup Renewed(EntityArrays, 0, entity.capacity, entity'.capacity)
                   \cup BlockAsksButLast(a, before, full))
  BY <1>2, <1>4, <1>5, <1>7, <1>9, <1>11 DEF SpawnBlockShort
<1>14. Fuller(before, after) /\ before.blocks < after.blocks
  <2>1. before.blocks \in Nat /\ filled.blocks \in Nat /\ full.blocks \in Nat
    BY <1>6, <1>8, <1>10 DEF ArchetypeRecord
  <2>2. ArchetypeFits(after)  BY <1>10, <1>12 DEF Fuller, ArchetypeFits
  <2> QED  BY <1>8, <1>10, <1>12, <1>13, <2>1, <2>2 DEF Fuller
<1>15. PICK r : r = << "block", a, after.blocks >>  OBVIOUS
<1>16. PICK one : one = ResolveAsks(cs) \cup BlockAsks(a, before, after)  OBVIOUS
<1>17. PICK two : two = Renewed(EntityArrays, 0, entity.capacity, entity'.capacity)  OBVIOUS
<1>18. PICK all : all = one \cup two  OBVIOUS
<1>19. PICK asks : asks = ResolveAsks(cs) \cup two \cup BlockAsksButLast(a, before, full)
  OBVIOUS
<1>20. RunsShort(r) /\ Answered(asks)  BY <1>12, <1>13, <1>15, <1>17, <1>19
<1>21. /\ archetype' \in [ capacity : Nat, data : Seq(ArchetypeRecord) ] /\ Becomes(A)
       /\ GivenAs(A) /\ a \in 1 .. MaxArchetypes /\ after.blocks <= MaxSlots
       /\ \A m \in DOMAIN A.data :
            ArchetypeFits(archetype'.data[m]) /\ archetype'.data[m].next <= MaxSlots
       /\ \A ask \in one : Right(ask)
       /\ AllSettled(OfArchetypes, all)
  <2>1. Filling(A, cs, a, before, after)
    BY <1>2, <1>3, <1>5, <1>6, <1>12, <1>13, <1>14 DEF Filling
  <2>2. one \subseteq all  BY <1>18
  <2> QED  BY <1>1, <1>16, <2>1, <2>2, ArchetypeFilled
<1>22. /\ entity' \in Entities /\ entity'.freeCapacity = entity.freeCapacity
  <2>1. entity \in Entities /\ EntitiesFit(entity)
    BY <1>1 DEF FieldsTyped, Held, Entities
  <2> QED  BY <1>13, <2>1, EntitiesTaken
<1>23. FieldsTyped'  BY <1>1, <1>21, <1>22 DEF FieldsTyped, Entities
<1>24. Held'
  <2>1. stage' # "open"  BY <1>20 DEF RunsShort
  <2> QED  BY <1>1, <1>3, <1>21, <2>1, ArchetypesHeld
<1>25. (\A ask \in two : Right(ask)) /\ AllSettled(OfEntities, all)
  <2>1. two \subseteq all  BY <1>18
  <2> QED  BY <1>1, <1>17, <1>22, <2>1, EntitiesAsked
<1>26. (\A ask \in all : Right(ask)) /\ \A b \in Buffer : Settled(b, all)
  <2>1. \A ask \in all : Right(ask)  BY <1>18, <1>21, <1>25
  <2> QED  BY <1>1, <1>21, <1>25, <2>1, Untouched, SettledByKind
<1>27. r \in Buffer /\ given[r] = 0 /\ r[1] = "block" /\ r[1] \notin QueryLists
  BY <1>5, <1>6, <1>12, <1>14, <1>15, <1>21, LastBlock
<1>28. /\ asks \subseteq all /\ \A ask \in asks : ask.buffer # r
       /\ \A ask \in all : ask.buffer # r => ask \in asks
  <2>1. BlockAsks(a, before, full) = BlockAsks(a, before, after)  BY <1>12 DEF BlockAsks
  <2>2. BlockAsksButLast(a, before, full) =
          { ask \in BlockAsks(a, before, after) : ask.buffer # r }
    BY <1>12, <1>15, <2>1 DEF BlockAsksButLast
  <2>3. \A ask \in ResolveAsks(cs) \cup two : ask.buffer # r
    <3>1. \A ask \in ResolveAsks(cs) \cup two :
            ask.buffer[1] \in ArchetypeArrays \cup SetArrays \cup EntityArrays
      BY <1>17, KindsAsked
    <3> QED  BY <1>27, <3>1 DEF ArchetypeArrays, SetArrays, EntityArrays
  <2> QED  BY <1>16, <1>18, <1>19, <2>2, <2>3
<1>29. PICK losses :
         losses = HandlesLost(own)
                  \cup { b \in refused' : b[1] \in EntityArrays /\ WithEntities(n).capacity > 0 }
  OBVIOUS
<1>30. Loses(losses) /\ losses \subseteq { TheOnly("entities") }
  <2>1. \A b \in refused' : b[1] \notin EntityArrays
    BY <1>20, <1>27 DEF RunsShort, EntityArrays
  <2> QED  BY <1>29, <2>1, HandlesAre
<1>31. losses \subseteq Buffer /\ \A b \in losses : b[1] = "entities"  BY <1>30, HandlesAre
<1>32. lost = {} /\ mistold = {}  BY DEF Called
<1> QED
  BY <1>20, <1>23, <1>24, <1>26, <1>27, <1>28, <1>30, <1>31, <1>32, LeftOutKeeps

LEMMA SpawnShortKeeps ==
  ASSUME MemoryInv, SpawnShort
  PROVE  MemoryInv'
<1>1. FieldsTyped /\ Held /\ Called /\ UNCHANGED << layer, component, query >>
  BY DEF MemoryInv, TypeOK, FieldsTyped, SpawnShort
<1>2. PICK cs \in (SUBSET Registered) \ {{}}, n \in 0 .. MaxSpawn - 1, own \in BOOLEAN :
        /\ TableShort(cs, n) \/ SpawnBlockShort(cs, n)
        /\ Loses(HandlesLost(own)
                 \cup { b \in refused' : b[1] \in EntityArrays /\ WithEntities(n).capacity > 0 })
  BY DEF SpawnShort
<1>3. cs \in SUBSET Component /\ n \in Nat
  BY <1>1, <1>2, RegisteredIsComponents, MemoryAssumption
<1> QED  BY <1>1, <1>2, <1>3, TableShortKeeps, SpawnBlockShortKeeps

(* An entity gives up its slot, if the archetype is not the first.         *)
Emptier(arch, x) ==
  /\ ArchetypeFits(x) /\ x.components = arch.components /\ x.next = arch.next
  /\ x.blocks = arch.blocks

LEMMA SlotGiven ==
  ASSUME NEW arch \in ArchetypeRecord, ArchetypeFits(arch), arch.live > 0
  PROVE  /\ [ arch EXCEPT !.live = @ - 1 ] \in ArchetypeRecord
         /\ Emptier(arch, [ arch EXCEPT !.live = @ - 1 ])
         /\ [ arch EXCEPT !.live = @ - 1 ].freeCapacity = arch.freeCapacity
         /\ WithSlotGiven(arch) \in ArchetypeRecord /\ Emptier(arch, WithSlotGiven(arch))
<1>1. /\ arch.live \in Nat /\ arch.next \in Nat /\ arch.free \in Nat
      /\ arch.freeCapacity \in Nat /\ arch.blocks \in Nat
  BY DEF ArchetypeRecord
<1>2. arch.live - 1 \in Nat /\ arch.free + 1 \in Nat  BY <1>1
<1>3. PICK x : x = [ arch EXCEPT !.live = @ - 1 ]  OBVIOUS
<1>4. /\ x \in ArchetypeRecord /\ x.components = arch.components /\ x.next = arch.next
      /\ x.free = arch.free /\ x.freeCapacity = arch.freeCapacity /\ x.blocks = arch.blocks
  BY <1>2, <1>3 DEF ArchetypeRecord
<1>5. Emptier(arch, x)  BY <1>4 DEF Emptier, ArchetypeFits
<1>6. PICK c : c = VectorCapacity(arch.free, arch.freeCapacity)  OBVIOUS
<1>7. c \in Nat /\ arch.free + 1 <= c  BY <1>1, <1>6, VectorGrows
<1>8. PICK y : y = WithSlotGiven(arch)  OBVIOUS
<1>9. y = [ arch EXCEPT !.free = arch.free + 1, !.live = arch.live - 1, !.freeCapacity = c ]
  BY <1>6, <1>8 DEF WithSlotGiven
<1>10. y \in ArchetypeRecord  BY <1>2, <1>7, <1>9 DEF ArchetypeRecord
<1>11. /\ y.components = arch.components /\ y.next = arch.next /\ y.free = arch.free + 1
       /\ y.freeCapacity = c /\ y.blocks = arch.blocks
  BY <1>9 DEF ArchetypeRecord
<1>12. Emptier(arch, y)  BY <1>7, <1>11 DEF Emptier, ArchetypeFits
<1> QED  BY <1>3, <1>4, <1>5, <1>8, <1>10, <1>12

(* A slot of one archetype is given up and one of another is taken.        *)
Moving(A, cs, a, b, from, leaves, before, after) ==
  /\ A = Resolved(cs) /\ Extended(A, cs)
  /\ a \in DOMAIN A.data /\ b \in DOMAIN A.data /\ a # b
  /\ from = A.data[a] /\ leaves \in ArchetypeRecord /\ Emptier(from, leaves)
  /\ before = A.data[b] /\ after \in ArchetypeRecord /\ Fuller(before, after)
  /\ archetype' = [ A EXCEPT !.data[a] = leaves, !.data[b] = after ]
  /\ InBounds(archetype'.data)

LEMMA ArchetypesMoved ==
  ASSUME FieldsTyped, Held, BooksRight, NEW cs \in SUBSET Component,
         NEW A, NEW a, NEW b, NEW from, NEW leaves, NEW before, NEW after,
         Moving(A, cs, a, b, from, leaves, before, after),
         NEW free, free = Renewed({ "free" }, a, from.freeCapacity, leaves.freeCapacity),
         NEW asks, asks = ResolveAsks(cs) \cup free \cup BlockAsks(b, before, after)
  PROVE  /\ archetype' \in [ capacity : Nat, data : Seq(ArchetypeRecord) ]
         /\ Becomes(A) /\ GivenAs(A) /\ b \in 1 .. MaxArchetypes /\ after.blocks <= MaxSlots
         /\ \A m \in DOMAIN A.data :
              ArchetypeFits(archetype'.data[m]) /\ archetype'.data[m].next <= MaxSlots
         /\ \A ask \in asks : Right(ask)
         /\ AllSettled(OfArchetypes, asks)
<1> USE DEF Moving
<1>1. PICK d \in Seq(ArchetypeRecord) : d = A.data  BY DEF Extended
<1>2. PICK e : e = [ d EXCEPT ![a] = leaves ]  OBVIOUS
<1>3. /\ e \in Seq(ArchetypeRecord) /\ Len(e) = Len(d) /\ DOMAIN e = DOMAIN d
      /\ e[a] = leaves /\ \A m \in DOMAIN d : m # a => e[m] = d[m]
  BY <1>1, <1>2, ArchetypeReplaced
<1>4. PICK f : f = [ e EXCEPT ![b] = after ]  OBVIOUS
<1>5. /\ f \in Seq(ArchetypeRecord) /\ Len(f) = Len(d) /\ DOMAIN f = DOMAIN d
      /\ f[a] = leaves /\ f[b] = after
      /\ \A m \in DOMAIN d : (m # a /\ m # b) => f[m] = d[m]
  <2>1. b \in DOMAIN e /\ a \in DOMAIN e  BY <1>1, <1>3
  <2>2. /\ f \in Seq(ArchetypeRecord) /\ Len(f) = Len(e) /\ DOMAIN f = DOMAIN e
        /\ f[b] = after /\ \A m \in DOMAIN e : m # b => f[m] = e[m]
    BY <1>3, <1>4, <2>1, ArchetypeReplaced
  <2> QED  BY <1>3, <2>1, <2>2
<1>6. /\ archetype' \in [ capacity : Nat, data : Seq(ArchetypeRecord) ]
      /\ archetype'.capacity = A.capacity /\ archetype'.data = f
  <2>1. A \in [ capacity : Nat, data : Seq(ArchetypeRecord) ]  BY DEF Extended
  <2>2. PICK B : B = [ A EXCEPT !.data = e ]  OBVIOUS
  <2>3. B.data = e /\ B.capacity = A.capacity
        /\ B \in [ capacity : Nat, data : Seq(ArchetypeRecord) ]
    BY <1>3, <2>1, <2>2
  <2>4. archetype' = [ B EXCEPT !.data = [ B.data EXCEPT ![b] = after ] ]
    BY <1>1, <1>2, <2>2, <2>3
  <2>5. archetype' = [ B EXCEPT !.data = f ]  BY <1>4, <2>3, <2>4
  <2> QED  BY <1>5, <2>3, <2>5
<1>7. Becomes(A)
  <2>1. \A m \in DOMAIN A.data : archetype'.data[m].components = A.data[m].components
    BY <1>1, <1>5, <1>6 DEF Fuller, Emptier
  <2> QED  BY <1>1, <1>5, <1>6, <2>1, InBoundsAfter DEF Becomes
<1>8. \A m \in DOMAIN A.data : archetype'.data[m].next <= MaxSlots
  BY <1>1, <1>5, <1>6, InBoundsAfter
<1>9. \A m \in DOMAIN A.data : ArchetypeFits(archetype'.data[m])
  BY <1>1, <1>5, <1>6 DEF Extended, Fuller, Emptier
<1>10. GivenAs(A)  BY ExtendedGiven
<1>11. a \in 1 .. MaxArchetypes /\ b \in 1 .. MaxArchetypes
  BY <1>1, <1>7, MemoryAssumption DEF Becomes
<1>12. before \in ArchetypeRecord /\ from \in ArchetypeRecord  BY <1>1
<1>13. before.blocks \in Nat /\ after.blocks \in Nat /\ after.next \in Nat
       /\ before.blocks <= after.blocks
  BY <1>12 DEF ArchetypeRecord, Fuller
<1>14. after.blocks <= MaxSlots
  <2>1. after.blocks <= after.next  BY BlocksWithin DEF Fuller
  <2>2. after.next <= MaxSlots  BY <1>1, <1>5, <1>6, <1>8
  <2> QED  BY <1>13, <2>1, <2>2, MemoryAssumption
<1>15. \A ask \in ResolveAsks(cs) : Right(ask)  BY <1>7, ResolveAsked
<1>16. (\A ask \in free : Right(ask)) /\ Settled(<< "free", a, 0 >>, free)
  <2>1. << "free", a, 0 >> \in Buffer  BY <1>11, BufferShape
  <2>2. given[<< "free", a, 0 >>] = from.freeCapacity  BY <1>10, <1>11 DEF GivenAs
  <2>3. Believed("free", a, 0)' = leaves.freeCapacity
    <3>1. a \in DOMAIN archetype'.data /\ archetype'.data[a] = leaves  BY <1>1, <1>5, <1>6
    <3> QED  BY <3>1, BeliefsHold DEF ArchetypeBeliefs
  <2> QED  BY <2>1, <2>2, <2>3, RenewedRight
<1>17. PICK blocks : blocks = BlockAsks(b, before, after)  OBVIOUS
<1>18. /\ \A ask \in blocks : Right(ask)
       /\ Settled(<< "blocks", b, 0 >>, blocks)
       /\ \A j \in 1 .. MaxSlots : Settled(<< "block", b, j >>, blocks)
  <2>1. archetype'.data[b].blocks = after.blocks  BY <1>1, <1>5, <1>6
  <2> QED  BY <1>7, <1>10, <1>11, <1>13, <1>14, <1>17, <2>1, BlocksAsked
<1>19. AllSettled(OfArchetypes, asks)
  <2>1. ASSUME NEW m \in DOMAIN A.data
        PROVE  \/ archetype'.data[m].freeCapacity = A.data[m].freeCapacity
               \/ Settled(<< "free", m, 0 >>, asks)
    <3>1. CASE m = a  BY <1>16, <3>1, SettledBy
    <3>2. CASE m # a  BY <1>1, <1>5, <1>6, <3>2 DEF Fuller
    <3> QED  BY <3>1, <3>2
  <2>2. ASSUME NEW m \in DOMAIN A.data
        PROVE  \/ archetype'.data[m].blocks = A.data[m].blocks
               \/ /\ Settled(<< "blocks", m, 0 >>, asks)
                  /\ \A j \in 1 .. MaxSlots : Settled(<< "block", m, j >>, asks)
    <3>1. CASE m = b  BY <1>17, <1>18, <3>1, SettledBy
    <3>2. CASE m # b  BY <1>1, <1>5, <1>6, <3>2 DEF Emptier
    <3> QED  BY <3>1, <3>2
  <2>3. ResolveAsks(cs) \subseteq asks  OBVIOUS
  <2> QED  BY <1>7, <1>10, <2>1, <2>2, <2>3, ArchetypesSettled
<1> QED
  BY <1>6, <1>7, <1>8, <1>9, <1>10, <1>11, <1>14, <1>15, <1>16, <1>17, <1>18, <1>19

(* An archetype that is there has the same place after the search.         *)
LEMMA StillThere ==
  ASSUME FieldsTyped, NEW cs, NEW A, Extended(A, cs), NEW a \in DOMAIN archetype.data
  PROVE  a \in DOMAIN A.data /\ A.data[a] = archetype.data[a]
<1>1. archetype.data \in Seq(ArchetypeRecord) /\ A.data \in Seq(ArchetypeRecord)
  BY DEF FieldsTyped, Extended
<1>2. Len(archetype.data) \in Nat /\ Len(A.data) \in Nat  BY <1>1
<1> QED  BY <1>2 DEF Extended

LEMMA MoveKeeps ==
  ASSUME MemoryInv, Called, UNCHANGED << stage, entity, layer, component, query, refused >>,
         NEW a \in DOMAIN archetype.data, archetype.data[a].live > 0,
         NEW cs \in SUBSET Component, cs # archetype.data[a].components, Move(a, cs)
  PROVE  MemoryInv'
<1>1. FieldsTyped /\ Held /\ BooksRight /\ stage = "open"
  BY OpenBooks DEF MemoryInv, TypeOK, FieldsTyped, Called
<1>2. PICK A : A = Resolved(cs)  OBVIOUS
<1>3. Extended(A, cs)  BY <1>1, <1>2, ResolvedExtends
<1>4. PICK b : b = IndexOf(A.data, cs)  OBVIOUS
<1>5. PICK before : before = A.data[b]  OBVIOUS
<1>6. /\ b \in DOMAIN A.data /\ before.components = cs
      /\ before \in ArchetypeRecord /\ ArchetypeFits(before)
  BY <1>3, <1>4, <1>5, IndexFound
<1>7. PICK from : from = A.data[a]  OBVIOUS
<1>8. a \in DOMAIN A.data /\ from = archetype.data[a]  BY <1>1, <1>3, <1>7, StillThere
<1>9. from \in ArchetypeRecord /\ ArchetypeFits(from) /\ from.live > 0
  BY <1>1, <1>8 DEF FieldsTyped, Held
<1>10. PICK leaves : leaves = IF a = 1 THEN [ from EXCEPT !.live = @ - 1 ] ELSE WithSlotGiven(from)
  OBVIOUS
<1>11. leaves \in ArchetypeRecord /\ Emptier(from, leaves)  BY <1>9, <1>10, SlotGiven
<1>12. PICK after : after = WithSlotTaken(before)  OBVIOUS
<1>13. after \in ArchetypeRecord /\ Fuller(before, after)  BY <1>6, <1>12, SlotTaken
<1>14. PICK free : free = Renewed({ "free" }, a, from.freeCapacity, leaves.freeCapacity)
  OBVIOUS
<1>15. PICK asks : asks = ResolveAsks(cs) \cup free \cup BlockAsks(b, before, after)  OBVIOUS
<1>16. /\ archetype' = [ A EXCEPT !.data[a] = leaves, !.data[b] = after ]
       /\ InBounds(archetype'.data)
       /\ Answered(asks)
       /\ Loses(ResolveLoses(cs))
  BY <1>2, <1>4, <1>5, <1>7, <1>10, <1>12, <1>14, <1>15 DEF Move
<1>17. /\ archetype' \in [ capacity : Nat, data : Seq(ArchetypeRecord) ] /\ Becomes(A)
       /\ \A m \in DOMAIN A.data :
            ArchetypeFits(archetype'.data[m]) /\ archetype'.data[m].next <= MaxSlots
       /\ \A ask \in asks : Right(ask)
       /\ AllSettled(OfArchetypes, asks)
  <2>1. a # b  BY <1>5, <1>6, <1>7, <1>8
  <2>2. Moving(A, cs, a, b, from, leaves, before, after)
    BY <1>2, <1>3, <1>5, <1>6, <1>7, <1>8, <1>11, <1>13, <1>16, <2>1 DEF Moving
  <2> QED  BY <1>1, <1>14, <1>15, <2>2, ArchetypesMoved
<1>18. FieldsTyped'  BY <1>1, <1>17 DEF FieldsTyped
<1>19. Held'
  <2>1. EntitiesFit(entity')  BY <1>1 DEF Held
  <2> QED  BY <1>1, <1>3, <1>17, <2>1, ArchetypesHeld
<1>20. \A n \in Buffer : Settled(n, asks)  BY <1>1, <1>17, Untouched, SettledByKind
<1> QED
  <2>1. Loses({})  BY <1>16 DEF ResolveLoses
  <2> QED  BY <1>16, <1>17, <1>18, <1>19, <1>20, <2>1, CallKeeps

(* There is no memory to give up the old slot.                             *)
LEMMA FreeShortKeeps ==
  ASSUME MemoryInv, Called, UNCHANGED << entity, layer, component, query >>,
         NEW a \in DOMAIN archetype.data, NEW cs \in SUBSET Component, FreeShort(a, cs)
  PROVE  MemoryInv'
<1>1. FieldsTyped /\ Held /\ BooksRight /\ stage = "open"
  BY OpenBooks DEF MemoryInv, TypeOK, FieldsTyped, Called
<1>2. PICK A : A = Resolved(cs)  OBVIOUS
<1>3. Extended(A, cs)  BY <1>1, <1>2, ResolvedExtends
<1>4. a \in DOMAIN A.data  BY <1>1, <1>3, StillThere
<1>5. PICK r : r = << "free", a, 0 >>  OBVIOUS
<1>6. PICK capacity : capacity = A.data[a].freeCapacity  OBVIOUS
<1>7. PICK one : one = ResolveAsks(cs)  OBVIOUS
<1>8. PICK asks : asks = one \cup { Asked(r, capacity, 0) }  OBVIOUS
<1>9. PICK losses : losses = Dropped(r, capacity)  OBVIOUS
<1>10. /\ RunsShort(r) /\ archetype' = A /\ InBounds(archetype'.data)
       /\ Answered(asks) /\ Loses(losses)
  BY <1>2, <1>5, <1>6, <1>7, <1>8, <1>9 DEF FreeShort, Denied
<1>11. Len(A.data) <= MaxArchetypes  BY <1>10 DEF InBounds
<1>12. /\ archetype' \in [ capacity : Nat, data : Seq(ArchetypeRecord) ]
       /\ Becomes(A) /\ GivenAs(A)
       /\ \A n \in DOMAIN A.data :
            ArchetypeFits(archetype'.data[n]) /\ archetype'.data[n].next <= MaxSlots
       /\ \A ask \in one : Right(ask)
       /\ AllSettled(OfArchetypes, one)
  BY <1>1, <1>2, <1>3, <1>7, <1>10, <1>11, ArchetypeFound
<1>13. a \in 1 .. MaxArchetypes
  <2>1. PICK d \in Seq(ArchetypeRecord) : d = A.data  BY <1>3 DEF Extended
  <2> QED  BY <1>4, <1>11, <2>1, MemoryAssumption
<1>14. r \in Buffer /\ r[1] = "free" /\ r[1] \notin QueryLists /\ given[r] = capacity
  <2>1. r \in Buffer /\ r[1] = "free"  BY <1>5, <1>13, BufferShape
  <2>2. given[r] = capacity  BY <1>4, <1>5, <1>6, <1>12, <1>13 DEF GivenAs
  <2> QED  BY <2>1, <2>2 DEF QueryLists
<1>15. r \in Unsure' /\ LostByRefusal(r)'
  <2>1. r \in Unsure'  BY <1>10, UnsureAfter DEF RunsShort
  <2> QED  BY <1>14, <2>1 DEF LostByRefusal
<1>16. FieldsTyped'  BY <1>1, <1>12 DEF FieldsTyped
<1>17. Held'
  <2>1. EntitiesFit(entity')  BY <1>1 DEF Held
  <2> QED  BY <1>1, <1>3, <1>12, <2>1, ArchetypesHeld
<1>18. \A b \in Buffer : Settled(b, asks)
  <2>1. one \subseteq asks  BY <1>8
  <2>2. \A b \in Buffer : Settled(b, one)  BY <1>1, <1>12, Untouched, SettledByKind
  <2> QED  BY <2>1, <2>2, SettledBy
<1>19. \A ask \in asks : HalfRight(ask) /\ (ask.buffer = r => ask.size = 0)
  <2>1. \A ask \in one : HalfRight(ask)  BY <1>12, <1>16, RightIsHalf
  <2>2. \A ask \in one : ask.buffer[1] \in ArchetypeArrays \cup SetArrays  BY <1>7, KindsAsked
  <2>3. \A ask \in one : ask.buffer # r  BY <1>14, <2>2 DEF ArchetypeArrays, SetArrays
  <2>4. PICK two : two = { Asked(r, capacity, 0) }  OBVIOUS
  <2>5. \A ask \in two : HalfRight(ask) /\ ask.size = 0
    BY <1>14, <1>15, <2>4 DEF HalfRight, Asked
  <2>6. asks = one \cup two  BY <1>8, <2>4
  <2>7. \A ask \in one : HalfRight(ask) /\ (ask.buffer = r => ask.size = 0)  BY <2>1, <2>3
  <2>8. \A ask \in two : HalfRight(ask) /\ (ask.buffer = r => ask.size = 0)  BY <2>5
  <2>9. SUFFICES ASSUME NEW ask \in asks
                 PROVE  HalfRight(ask) /\ (ask.buffer = r => ask.size = 0)
    OBVIOUS
  <2>10. CASE ask \in one  BY <2>7, <2>10
  <2>11. CASE ask \in two  BY <2>8, <2>11
  <2> QED  BY <2>6, <2>10, <2>11
<1>20. \E ask \in asks : ask.buffer = r
  <2>1. Asked(r, capacity, 0) \in asks  BY <1>8
  <2> QED  BY <2>1 DEF Asked
<1>21. losses \subseteq { r } /\ TheOnly("entity.free") # r
  BY <1>9, <1>14 DEF Dropped, TheOnly
<1>22. losses \subseteq Buffer /\ \A b \in losses : LostByRefusal(b)'  BY <1>14, <1>15, <1>21
<1>23. lost = {} /\ mistold = {}  BY DEF Called
<1> QED
  BY <1>10, <1>14, <1>16, <1>17, <1>18, <1>19, <1>20, <1>21, <1>22, <1>23, ShortKeeps

(* The new slot has no block: the old one is given up, the number of the   *)
(* new one is used up.                                                     *)
LEMMA MoveBlockShortKeeps ==
  ASSUME MemoryInv, Called, UNCHANGED << entity, layer, component, query >>,
         NEW a \in DOMAIN archetype.data, archetype.data[a].live > 0,
         NEW cs \in SUBSET Component, cs # archetype.data[a].components, MoveBlockShort(a, cs)
  PROVE  MemoryInv'
<1>1. FieldsTyped /\ Held /\ BooksRight /\ stage = "open"
  BY OpenBooks DEF MemoryInv, TypeOK, FieldsTyped, Called
<1>2. PICK A : A = Resolved(cs)  OBVIOUS
<1>3. Extended(A, cs)  BY <1>1, <1>2, ResolvedExtends
<1>4. PICK b : b = IndexOf(A.data, cs)  OBVIOUS
<1>5. PICK before : before = A.data[b]  OBVIOUS
<1>6. /\ b \in DOMAIN A.data /\ before.components = cs
      /\ before \in ArchetypeRecord /\ ArchetypeFits(before)
  BY <1>3, <1>4, <1>5, IndexFound
<1>7. PICK from : from = A.data[a]  OBVIOUS
<1>8. a \in DOMAIN A.data /\ from = archetype.data[a]  BY <1>1, <1>3, <1>7, StillThere
<1>9. from \in ArchetypeRecord /\ ArchetypeFits(from) /\ from.live > 0
  BY <1>1, <1>8 DEF FieldsTyped, Held
<1>10. PICK leaves :
         leaves = IF a = 1 THEN from ELSE [ WithSlotGiven(from) EXCEPT !.live = @ + 1 ]
  OBVIOUS
<1>11. leaves \in ArchetypeRecord /\ Emptier(from, leaves)
  <2>1. Emptier(from, from)  BY <1>9 DEF Emptier
  <2>2. PICK x : x = WithSlotGiven(from)  OBVIOUS
  <2>3. x \in ArchetypeRecord /\ Emptier(from, x)  BY <1>9, <2>2, SlotGiven
  <2>4. PICK y : y = [ x EXCEPT !.live = @ + 1 ]  OBVIOUS
  <2>5. /\ y \in ArchetypeRecord /\ y.components = x.components /\ y.next = x.next
        /\ y.free = x.free /\ y.freeCapacity = x.freeCapacity /\ y.blocks = x.blocks
    <3>1. x.live + 1 \in Nat  BY <2>3 DEF ArchetypeRecord
    <3> QED  BY <2>3, <2>4, <3>1 DEF ArchetypeRecord
  <2>6. Emptier(from, y)  BY <2>3, <2>5 DEF Emptier, ArchetypeFits
  <2> QED  BY <1>9, <1>10, <2>1, <2>2, <2>4, <2>5, <2>6
<1>12. PICK enters : enters = WithSlotTaken(before)  OBVIOUS
<1>13. enters \in ArchetypeRecord /\ Fuller(before, enters)  BY <1>6, <1>12, SlotTaken
<1>14. /\ enters.blocks # before.blocks /\ RunsShort(<< "block", b, enters.blocks >>)
       /\ archetype' = [ A EXCEPT !.data[a] = leaves,
                                  !.data[b] = [ enters EXCEPT !.live = @ - 1 ] ]
       /\ InBounds(archetype'.data)
       /\ Answered(ResolveAsks(cs)
                   \cup Renewed({ "free" }, a, from.freeCapacity, leaves.freeCapacity)
                   \cup BlockAsksButLast(b, before, enters))
       /\ UNCHANGED lost
  BY <1>2, <1>4, <1>5, <1>7, <1>10, <1>12 DEF MoveBlockShort
<1>15. PICK after : after = [ enters EXCEPT !.live = @ - 1 ]  OBVIOUS
<1>16. /\ after \in ArchetypeRecord /\ after.components = enters.components
       /\ after.next = enters.next /\ after.free = enters.free
       /\ after.freeCapacity = enters.freeCapacity /\ after.blocks = enters.blocks
  <2>1. enters.live - 1 \in Nat
    <3>1. before.live \in Nat  BY <1>6 DEF ArchetypeRecord
    <3>2. enters.live = before.live + 1
      BY <1>6, <1>12 DEF WithSlotTaken, ArchetypeRecord
    <3> QED  BY <3>1, <3>2
  <2> QED  BY <1>13, <1>15, <2>1 DEF ArchetypeRecord
<1>17. Fuller(before, after) /\ before.blocks < after.blocks
  <2>1. before.blocks \in Nat /\ enters.blocks \in Nat  BY <1>6, <1>13 DEF ArchetypeRecord
  <2>2. ArchetypeFits(after)  BY <1>13, <1>16 DEF Fuller, ArchetypeFits
  <2> QED  BY <1>13, <1>14, <1>16, <2>1, <2>2 DEF Fuller
<1>18. PICK r : r = << "block", b, after.blocks >>  OBVIOUS
<1>19. PICK free : free = Renewed({ "free" }, a, from.freeCapacity, leaves.freeCapacity)
  OBVIOUS
<1>20. PICK all : all = ResolveAsks(cs) \cup free \cup BlockAsks(b, before, after)  OBVIOUS
<1>21. PICK asks : asks = ResolveAsks(cs) \cup free \cup BlockAsksButLast(b, before, enters)
  OBVIOUS
<1>22. RunsShort(r) /\ Answered(asks) /\ Loses({})
  BY <1>14, <1>16, <1>18, <1>19, <1>21 DEF Loses
<1>23. /\ archetype' \in [ capacity : Nat, data : Seq(ArchetypeRecord) ] /\ Becomes(A)
       /\ GivenAs(A) /\ b \in 1 .. MaxArchetypes /\ after.blocks <= MaxSlots
       /\ \A m \in DOMAIN A.data :
            ArchetypeFits(archetype'.data[m]) /\ archetype'.data[m].next <= MaxSlots
       /\ \A ask \in all : Right(ask)
       /\ AllSettled(OfArchetypes, all)
  <2>1. a # b  BY <1>5, <1>6, <1>7, <1>8
  <2>2. Moving(A, cs, a, b, from, leaves, before, after)
    BY <1>2, <1>3, <1>5, <1>6, <1>7, <1>8, <1>11, <1>14, <1>15, <1>16, <1>17, <2>1 DEF Moving
  <2> QED  BY <1>1, <1>19, <1>20, <2>2, ArchetypesMoved
<1>24. FieldsTyped'  BY <1>1, <1>23 DEF FieldsTyped
<1>25. Held'
  <2>1. EntitiesFit(entity')  BY <1>1 DEF Held
  <2> QED  BY <1>1, <1>3, <1>23, <2>1, ArchetypesHeld
<1>26. \A n \in Buffer : Settled(n, all)  BY <1>1, <1>23, Untouched, SettledByKind
<1>27. r \in Buffer /\ given[r] = 0 /\ r[1] = "block" /\ r[1] \notin QueryLists
  BY <1>5, <1>6, <1>16, <1>17, <1>18, <1>23, LastBlock
<1>28. /\ asks \subseteq all /\ \A ask \in asks : ask.buffer # r
       /\ \A ask \in all : ask.buffer # r => ask \in asks
  <2>1. BlockAsks(b, before, enters) = BlockAsks(b, before, after)  BY <1>16 DEF BlockAsks
  <2>2. BlockAsksButLast(b, before, enters) =
          { ask \in BlockAsks(b, before, after) : ask.buffer # r }
    BY <1>16, <1>18, <2>1 DEF BlockAsksButLast
  <2>3. \A ask \in ResolveAsks(cs) \cup free : ask.buffer # r
    <3>1. \A ask \in ResolveAsks(cs) \cup free :
            ask.buffer[1] \in ArchetypeArrays \cup SetArrays \cup { "free" }
      BY <1>19, KindsAsked
    <3> QED  BY <1>27, <3>1 DEF ArchetypeArrays, SetArrays
  <2> QED  BY <1>20, <1>21, <2>2, <2>3
<1>29. lost = {} /\ mistold = {}  BY DEF Called
<1> QED
  BY <1>22, <1>23, <1>24, <1>25, <1>26, <1>27, <1>28, <1>29, LeftOutKeeps

LEMMA MoveShortKeeps ==
  ASSUME MemoryInv, MoveShort
  PROVE  MemoryInv'
<1>1. FieldsTyped /\ Held /\ Called /\ UNCHANGED << entity, layer, component, query >>
  BY DEF MemoryInv, TypeOK, FieldsTyped, MoveShort
<1>2. PICK a \in DOMAIN archetype.data, cs \in SUBSET Registered :
        Changes(a, cs) /\ (FreeShort(a, cs) \/ MoveBlockShort(a, cs))
  BY DEF MoveShort
<1>3. cs \in SUBSET Component  BY <1>1, RegisteredIsComponents
<1>4. archetype.data[a].live > 0 /\ cs # archetype.data[a].components  BY <1>2 DEF Changes
<1> QED  BY <1>1, <1>2, <1>3, <1>4, FreeShortKeeps, MoveBlockShortKeeps

(* After a fault nothing is claimed but that the losses are known.         *)
LEMMA FaultKeeps ==
  ASSUME MemoryInv, Faults
  PROVE  MemoryInv'
<1>1. /\ stage' = "faulted"
      /\ UNCHANGED << entity, layer, component, archetype, query, given, lost, mistold, refused >>
  BY DEF Faults
<1>2. TypeOK'  BY <1>1 DEF MemoryInv, TypeOK
<1>3. Held'  BY <1>1 DEF MemoryInv, Held, EntitiesFit, QueryFits, QueryOpen, NoQuery
<1>4. BooksAgree'  BY <1>1 DEF BooksAgree
<1>5. OnlyKnownLosses'
  BY <1>1 DEF MemoryInv, OnlyKnownLosses, LostByRefusal, Unsure, Together
<1> QED  BY <1>1, <1>2, <1>3, <1>4, <1>5 DEF MemoryInv

LEMMA AddComponentKeeps ==
  ASSUME MemoryInv, AddComponent
  PROVE  MemoryInv'
<1>1. FieldsTyped /\ Held  BY DEF MemoryInv, TypeOK, FieldsTyped
<1>2. PICK a \in DOMAIN archetype.data, c \in Registered :
        /\ archetype.data[a].live > 0
        /\ c \notin archetype.data[a].components
        /\ Move(a, archetype.data[a].components \cup {c})
  BY DEF AddComponent
<1>3. archetype.data[a].components \in SUBSET Component
  <2>1. archetype.data[a] \in ArchetypeRecord  BY <1>1 DEF FieldsTyped
  <2> QED  BY <2>1 DEF ArchetypeRecord
<1>4. PICK cs : cs = archetype.data[a].components \cup {c}  OBVIOUS
<1>5. cs \in SUBSET Component /\ cs # archetype.data[a].components
  BY <1>1, <1>2, <1>3, <1>4, RegisteredIsComponents
<1> QED
  <2>1. Called /\ UNCHANGED << stage, entity, layer, component, query, refused >>  BY DEF AddComponent
  <2> QED  BY <1>2, <1>4, <1>5, <2>1, MoveKeeps

LEMMA RemoveComponentKeeps ==
  ASSUME MemoryInv, RemoveComponent
  PROVE  MemoryInv'
<1>1. FieldsTyped /\ Held  BY DEF MemoryInv, TypeOK, FieldsTyped
<1>2. PICK a \in DOMAIN archetype.data :
        /\ archetype.data[a].live > 0
        /\ \E c \in archetype.data[a].components : Move(a, archetype.data[a].components \ {c})
  BY DEF RemoveComponent
<1>3. PICK c \in archetype.data[a].components : Move(a, archetype.data[a].components \ {c})
  BY <1>2
<1>4. archetype.data[a].components \in SUBSET Component
  <2>1. archetype.data[a] \in ArchetypeRecord  BY <1>1 DEF FieldsTyped
  <2> QED  BY <2>1 DEF ArchetypeRecord
<1>5. PICK cs : cs = archetype.data[a].components \ {c}  OBVIOUS
<1>6. cs \in SUBSET Component /\ cs # archetype.data[a].components
  BY <1>3, <1>4, <1>5
<1> QED
  <2>1. Called /\ UNCHANGED << stage, entity, layer, component, query, refused >>  BY DEF RemoveComponent
  <2> QED  BY <1>2, <1>3, <1>5, <1>6, <2>1, MoveKeeps

-----------------------------------------------------------------------------
(* EVERY STEP                                                              *)

LEMMA NextKeeps ==
  ASSUME MemoryInv, [Next]_vars
  PROVE  MemoryInv'
<1>1. CASE UNCHANGED vars  BY <1>1, UnchangedKeeps
<1>2. CASE CreateInstanceFails \/ RegisterComponentFails \/ ChangeFails
  BY <1>2, UnchangedKeeps DEF CreateInstanceFails, RegisterComponentFails, ChangeFails
<1>3. CASE CreateInstance  BY <1>3, CreateInstanceKeeps
<1>4. CASE FreeEntity  BY <1>4, FreeEntityKeeps
<1>5. CASE RegisterComponent  BY <1>5, RegisterComponentKeeps
<1>6. CASE CreateLayer  BY <1>6, CreateLayerKeeps
<1>7. CASE Spawn  BY <1>7, SpawnKeeps
<1>8. CASE SpawnFails  BY <1>8, SpawnFailsKeeps
<1>9. CASE AddComponent  BY <1>9, AddComponentKeeps
<1>10. CASE RemoveComponent  BY <1>10, RemoveComponentKeeps
<1>11. CASE CreateQuery  BY <1>11, CreateQueryKeeps
<1>12. CASE CreateQueryFails  BY <1>12, CreateQueryFailsKeeps
<1>13. CASE ExecuteQuery  BY <1>13, ExecuteQueryKeeps
<1>14. CASE DestroyQuery  BY <1>14, DestroyQueryKeeps
<1>15. CASE DestroyInstance  BY <1>15, DestroyInstanceKeeps
<1>16. CASE CreateInstanceShort  BY <1>16, CreateInstanceShortKeeps
<1>17. CASE FreeEntityShort  BY <1>17, FreeEntityShortKeeps
<1>18. CASE RegisterComponentShort  BY <1>18, RegisterComponentShortKeeps
<1>19. CASE CreateLayerShort  BY <1>19, CreateLayerShortKeeps
<1>20. CASE ResolveShort  BY <1>20, ResolveShortKeeps
<1>21. CASE SpawnShort  BY <1>21, SpawnShortKeeps
<1>22. CASE MoveShort  BY <1>22, MoveShortKeeps
<1>23. CASE ExecuteQueryShort  BY <1>23, ExecuteQueryShortKeeps
<1>24. CASE SpawnFaults \/ MoveFaults \/ DestroyInstanceFaults
  BY <1>24, FaultKeeps DEF SpawnFaults, MoveFaults, DestroyInstanceFaults, BlocksFault
<1> QED
  BY <1>1, <1>2, <1>3, <1>4, <1>5, <1>6, <1>7, <1>8, <1>9, <1>10, <1>11, <1>12, <1>13,
     <1>14, <1>15, <1>16, <1>17, <1>18, <1>19, <1>20, <1>21, <1>22, <1>23, <1>24
  DEF Next

(* No array is used beyond what it was given: the lengths are within the   *)
(* capacities, and the books agree with those.                             *)
LEMMA InvFits == MemoryInv => Fits
<1> SUFFICES ASSUME MemoryInv, stage = "open" PROVE Fits  BY DEF Fits
<1>1. FieldsTyped /\ Held /\ BooksRight  BY OpenBooks DEF MemoryInv, TypeOK, FieldsTyped
<1>2. \A kind, n, j : << kind, n, j >> \in Buffer => given[<< kind, n, j >>] = Believed(kind, n, j)
  <2> SUFFICES ASSUME NEW kind, NEW n, NEW j, << kind, n, j >> \in Buffer
               PROVE  given[<< kind, n, j >>] = Believed(kind, n, j)
    OBVIOUS
  <2>1. PICK b \in Buffer : b = << kind, n, j >>  OBVIOUS
  <2>2. b[1] = kind /\ b[2] = n /\ b[3] = j  BY <2>1
  <2>3. given[b] = Believed(b[1], b[2], b[3])  BY <1>1 DEF BooksRight
  <2> QED  BY <2>1, <2>2, <2>3
<1>3. \A kind \in Single : << kind, 0, 0 >> \in Buffer  BY BufferShape
<1>4. /\ \A kind \in EntityArrays : entity.length <= given[TheOnly(kind)]
      /\ entity.free <= given[TheOnly("entity.free")]
  BY <1>1, <1>2, <1>3, BeliefsHold DEF Held, EntitiesFit, Beliefs, TheOnly, Single
<1>5. /\ \A kind \in LayerArrays : Len(layer.entities) <= given[TheOnly(kind)]
      /\ Len(component.required) <= given[TheOnly("component.data")]
  BY <1>1, <1>2, <1>3, BeliefsHold DEF Held, Beliefs, TheOnly, Single
<1>6. \A kind \in ArchetypeArrays : Len(archetype.data) <= given[TheOnly(kind)]
  <2> SUFFICES ASSUME NEW kind \in ArchetypeArrays
               PROVE  Len(archetype.data) <= given[TheOnly(kind)]
    OBVIOUS
  <2>1. kind \in Single  BY DEF Single
  <2>2. Believed(kind, 0, 0) = archetype.capacity  BY BeliefsHold DEF ArchetypeBeliefs
  <2>3. given[<< kind, 0, 0 >>] = archetype.capacity  BY <1>2, <1>3, <2>1, <2>2
  <2>4. Len(archetype.data) <= archetype.capacity  BY <1>1 DEF Held
  <2> QED  BY <2>3, <2>4 DEF TheOnly
<1>7. ASSUME NEW a \in DOMAIN archetype.data
      PROVE  /\ archetype.data[a].free <= given[<< "free", a, 0 >>]
             /\ archetype.data[a].next <= PerBlock * Cardinality(BlocksGiven(a))
  <2>1. a \in 1 .. MaxArchetypes
    <3>1. archetype.data \in Seq(ArchetypeRecord) /\ Len(archetype.data) <= MaxArchetypes
      BY <1>1 DEF FieldsTyped, Held
    <3> QED  BY <3>1, MemoryAssumption
  <2>2. PICK arch \in ArchetypeRecord : arch = archetype.data[a]  BY <1>1 DEF FieldsTyped
  <2>3. ArchetypeFits(arch) /\ arch.next <= MaxSlots  BY <1>1, <2>2 DEF Held
  <2>4. arch.blocks \in Nat /\ arch.next \in Nat  BY DEF ArchetypeRecord
  <2>5. arch.blocks <= MaxSlots  BY <2>3, <2>4, BlocksWithin, MemoryAssumption
  <2>6. arch.free <= given[<< "free", a, 0 >>]
    <3>1. << "free", a, 0 >> \in Buffer  BY <2>1, BufferShape
    <3> QED  BY <1>2, <2>2, <2>3, <3>1, BeliefsHold DEF ArchetypeBeliefs, ArchetypeFits
  <2>7. BlocksGiven(a) = 1 .. arch.blocks
    <3>1. ASSUME NEW j \in 1 .. MaxSlots
          PROVE  given[<< "block", a, j >>] = IF j <= arch.blocks THEN 1 ELSE 0
      <4>1. << "block", a, j >> \in Buffer  BY <2>1, BufferShape
      <4> QED  BY <1>2, <2>2, <4>1, BeliefsHold DEF ArchetypeBeliefs
    <3> QED  BY <2>4, <2>5, <3>1, MemoryAssumption DEF BlocksGiven
  <2>8. Cardinality(BlocksGiven(a)) = arch.blocks  BY <2>4, <2>7, FS_Interval
  <2>9. arch.next <= PerBlock * arch.blocks
    <3>1. PerBlock * arch.blocks = arch.blocks * PerBlock  BY <2>4, MemoryAssumption
    <3> QED  BY <2>3, <3>1 DEF ArchetypeFits
  <2> QED  BY <2>2, <2>6, <2>8, <2>9
<1>8. query.length <= given[TheOnly("query.archetype")]
  BY <1>1, <1>2, <1>3, BeliefsHold DEF Held, QueryFits, QueryBeliefs, TheOnly, Single, QueryLists
<1>9. query.length * Columns <= given[TheOnly("query.offset")]
  <2>1. given[TheOnly("query.offset")] = Columns * query.capacity
    BY <1>2, <1>3, BeliefsHold DEF QueryBeliefs, TheOnly, Single, QueryLists
  <2>2. query.components \in SUBSET Component /\ query.length \in Nat /\ query.capacity \in Nat
        /\ query.length <= query.capacity
    BY <1>1 DEF FieldsTyped, Held, QueryFits
  <2>3. PICK c \in Nat : c = Columns  BY <2>2, SetsCounted DEF Columns
  <2>4. PICK more \in Nat : query.capacity = query.length + more
    <3>1. query.capacity - query.length \in Nat  BY <2>2
    <3> QED  BY <2>2, <3>1
  <2>5. PICK l \in Nat : l = query.length  BY <2>2
  <2>6. c * (l + more) = l * c + c * more /\ c * more \in Nat /\ l * c \in Nat  OBVIOUS
  <2>7. l * c <= c * (l + more)  BY <2>6
  <2> QED  BY <2>1, <2>3, <2>4, <2>5, <2>7
<1> QED  BY <1>4, <1>5, <1>6, <1>7, <1>8, <1>9 DEF Fits

-----------------------------------------------------------------------------
(* THE THEOREMS                                                            *)

LEMMA AlwaysMemory == Spec => []MemoryInv
<1>1. Init => MemoryInv  BY InitKeeps
<1>2. MemoryInv /\ [Next]_vars => MemoryInv'  BY NextKeeps
<1> QED  BY <1>1, <1>2, PTL DEF Spec

(* Lengths and capacities stay numbers, and what is lost or told wrong is  *)
(* one of the buffers of the library.                                      *)
THEOREM MemoryTypesKept == Spec => []TypeOK
<1>1. MemoryInv => TypeOK  BY DEF MemoryInv
<1> QED  BY <1>1, AlwaysMemory, PTL

(* No call tells the allocator a size that it did not give, and what the   *)
(* library has no pointer to was not given anything (memory.c:20-47), from *)
(* the first call to the destruction of the instance; after a refusal that *)
(* is so for all but the arrays that were to grow together.                *)
THEOREM BooksStayRight == Spec => []BooksAgree
<1>1. MemoryInv => BooksAgree  BY DEF MemoryInv
<1> QED  BY <1>1, AlwaysMemory, PTL

(* Every array is enlarged before it is written beyond its end, and every  *)
(* slot lies in a block that was allocated (local.h:285, entity.c:32,      *)
(* layer.c:113, archetype.c:57, archetype.c:130, query.c:57).              *)
THEOREM ArraysFit == Spec => []Fits
<1>1. MemoryInv => Fits  BY InvFits
<1> QED  BY <1>1, AlwaysMemory, PTL

(* All memory is given back but the known losses: without a refusal those  *)
(* of entity.c:99, instance.c:64 and query.c:134; with one also those of   *)
(* query.c:15, memory.c:28, component.c:32 and archetype.c:60.  Any        *)
(* allocation and any growth may be the one that is refused.               *)
THEOREM LossesStayKnown == Spec => []OnlyKnownLosses
<1>1. MemoryInv => OnlyKnownLosses  BY DEF MemoryInv
<1> QED  BY <1>1, AlwaysMemory, PTL

=============================================================================
