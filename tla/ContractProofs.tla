--------------------------- MODULE ContractProofs ---------------------------
(***************************************************************************)
(* What holds in World unless an allocation that is named here fails, for  *)
(* every number of entities, archetypes, blocks and components and every   *)
(* layout: the components of entities change as EcsContract says,          *)
(* archetypes are unique, no slot is lost, data is kept and disturbed by   *)
(* nobody else, and nothing undefined is reached.  All of it rests on      *)
(* StoreInv, which holds whatever fails, the data also on SlotInv.         *)
(***************************************************************************)
EXTENDS StoreProofs

-----------------------------------------------------------------------------
(* ENTITIES WHOSE CELLS ARE THERE                                          *)

(* The arrays of the entity table can be extended.  When they cannot, the  *)
(* cells of all entities are lost, and with them what they have.           *)
TableToBeHad == "entity_table" \notin Failing

AllIntact == live = LiveIntact

LEMMA StoreGrounded == StoreInv => Grounded /\ StoreTyped /\ call \in CallRecord
BY TypeOKStore DEF Grounded, Housed, StoreTyped, StoreInv, CallSound

(* The entity that is moved or placed is somewhere afterwards.             *)
LEMMA MovedIsThere ==
  ASSUME StoreInv, NEW e \in EntityIndex, Placed(e) => e \in LiveIntact,
         NEW a \in ArchetypeIndex, a < archLength, SetEntityArchetype(e, a),
         UNCHANGED indexVars, live' \subseteq EntityIndex,
         LiveIntact' \subseteq LiveIntact \cup {e}
  PROVE  /\ archIndex'[e] = a /\ a # Junk
         /\ archCode'[e] \in Code /\ archCode'[e] # JunkCode
<1>1. archIndex'[e] = a /\ archCode'[e] \in Code
  BY StorePlaces DEF StoreInv, indexVars
<1>2. JunkCode \notin Code  BY ArchetypesAssumption DEF JunkCode, Junk, Code
<1>3. Junk \notin ArchetypeIndex  BY ArchetypesAssumption DEF Junk, ArchetypeIndex
<1> QED  BY <1>1, <1>2, <1>3

(* A new instance has no entity.                                           *)
LEMMA InitIntact == Init => AllIntact
BY DEF Init, AllIntact, LiveIntact

(* Every entity that spawn placed stays somewhere.                         *)
LEMMA NextIntact ==
  ASSUME TableToBeHad, StoreInv, AllIntact, [Next]_vars
  PROVE  AllIntact'
<1>1. Grounded /\ SlotShape /\ live \subseteq EntityIndex
  BY StoreGrounded DEF Grounded, SlotShape
<1>2. CASE UNCHANGED << archIndex, archCode, live >>
  BY <1>2 DEF AllIntact, LiveIntact, Intact
<1>3. CASE SpawnCall \/ AddCall \/ RemoveCall \/ SpawnReady \/ SpawnFinish
  BY <1>2, <1>3
  DEF SpawnCall, AddCall, RemoveCall, ChangeCall, SpawnReady, SpawnFinish, storeVars, placeVars
<1>4. CASE AsideStep
  <2>1. layerLength \in Nat  BY <1>1 DEF Grounded, CallSound
  <2> QED  BY <1>2, <1>4, <2>1, AsideChanges DEF storeVars, placeVars
<1>5. CASE ResolveHit \/ ResolveNew \/ ResolveFails
  BY <1>2, <1>5 DEF ResolveHit, ResolveNew, ResolveFails, ResolveUnchanged, placeVars
<1>6. CASE SpawnOne
  <2> DEFINE e == entLength
  <2>1. /\ call.to \in ArchetypeIndex /\ call.to < archLength
        /\ e \in EntityIndex /\ e \notin live /\ archIndex[e] = 0
        /\ SetEntityArchetype(e, call.to)
        /\ live' = live \cup {e}
        /\ UNCHANGED indexVars
        /\ LiveIntact' \subseteq LiveIntact \cup {e}
        /\ \A f \in EntityIndex \ {e} :
             archIndex'[f] = archIndex[f] /\ archCode'[f] = archCode[f]
    BY <1>1, <1>6, SpawnOneMoves
  <2>2. ~ Placed(e) /\ live' \subseteq EntityIndex  BY <1>1, <2>1 DEF Placed
  <2> HIDE DEF e
  <2>3. archIndex'[e] # Junk /\ archCode'[e] # JunkCode  BY <2>1, <2>2, MovedIsThere
  <2> QED  BY <1>1, <2>1, <2>3 DEF AllIntact, LiveIntact, Intact
<1>7. CASE SpawnCreateFails
  BY <1>7 DEF SpawnCreateFails, CreateFails, TableToBeHad
<1>8. CASE SpawnPlaceFails
  BY <1>2, <1>8 DEF SpawnPlaceFails, placeVars
<1>9. CASE AddMove \/ RemoveMove \/ AddMoveFails \/ RemoveMoveFails
  <2> DEFINE e == call.entity
  <2>1. /\ Changing /\ UNCHANGED << indexVars, live >>
        /\ \A f \in EntityIndex \ {e} :
             archIndex'[f] = archIndex[f] /\ archCode'[f] = archCode[f]
    BY <1>1, <1>9, MovedGoesOn
  <2>2. /\ e \in LiveIntact /\ e \in EntityIndex
        /\ call.to \in ArchetypeIndex /\ call.to < archLength
    BY <1>1, <2>1, ChangingSound
  <2>3. LiveIntact' \subseteq LiveIntact \cup {e} /\ live' \subseteq EntityIndex
    BY <1>1, <2>1 DEF LiveIntact, Intact
  <2>4. CASE AddMove \/ RemoveMove
    <3>1. SetEntityArchetype(e, call.to)  BY <2>4 DEF AddMove, RemoveMove
    <3> HIDE DEF e
    <3>2. archIndex'[e] # Junk /\ archCode'[e] # JunkCode
      BY <2>1, <2>2, <2>3, <3>1, MovedIsThere
    <3> QED  BY <1>1, <2>1, <3>2 DEF AllIntact, LiveIntact, Intact
  <2>5. CASE AddMoveFails \/ RemoveMoveFails
    BY <1>2, <2>1, <2>5
    DEF AddMoveFails, RemoveMoveFails, SetEntityArchetypeFails, placeVars
  <2> QED  BY <1>9, <2>4, <2>5
<1> QED
  BY <1>2, <1>3, <1>4, <1>5, <1>6, <1>7, <1>8, <1>9 DEF Next, Request, Step, AsideStep

-----------------------------------------------------------------------------
(* THE COMPONENTS OF ENTITIES                                              *)

(* Entities that go nowhere keep their components.                         *)
LEMMA HeldKept ==
  ASSUME StoreInv, AllIntact, UNCHANGED << archIndex, live >>,
         \A a \in ArchetypeIndex : a < archLength => components'[a] = components[a]
  PROVE  Held' = Held
<1>1. ASSUME NEW e \in live PROVE Has(e)' = Has(e)
  <2>1. Seated(e)  BY StoreGrounded DEF AllIntact, Grounded
  <2> QED  BY <2>1 DEF Seated, Has
<1> QED  BY <1>1 DEF Held

(* A call that returns: what was asked for is no longer wanted.            *)
LEMMA ReturnReturns ==
  ASSUME call.op # "none", call' = NoCall, Held' = Held
  PROVE  Contract!Return
<1>1. call'.op = "none"  BY DEF NoCall
<1>2. Asked' = [ op |-> "none" ]  BY <1>1 DEF Asked
<1>3. Asked # [ op |-> "none" ]
  <2>1. CASE call.op = "spawn"
    <3>1. Asked.op = "spawn"  BY <2>1 DEF Asked
    <3> QED  BY <3>1
  <2>2. CASE call.op # "spawn"
    <3>1. Asked.op = call.op  BY <2>2 DEF Asked
    <3> QED  BY <3>1
  <2> QED  BY <2>1, <2>2
<1> QED  BY <1>2, <1>3 DEF Contract!Return, Contract!NoRequest

(* Steps that neither begin nor end a call nor change an entity.           *)
LEMMA AskedKept ==
  ASSUME /\ call'.op = call.op /\ call'.want = call.want /\ call'.left = call.left
         /\ call'.entity = call.entity /\ call'.component = call.component
  PROVE  Asked' = Asked
BY DEF Asked

(* A call that begins asks for something.                                  *)
LEMMA SpawnAsks ==
  ASSUME StoreInv, AllIntact, SpawnCall
  PROVE  Contract!Ask
<1>1. PICK n \in 1 .. MaxSpawn, cs \in SpawnSet, l \in LayerHandle \cup {NoLayer} :
        /\ Begins(n, n, cs)
        /\ call' = [ NoCall EXCEPT !.op = "spawn", !.stage = "resolve", !.want = cs,
                                   !.left = n, !.layer = l ]
  BY DEF SpawnCall
<1>2. call'.op = "spawn" /\ call'.want = cs /\ call'.left = n  BY <1>1 DEF NoCall
<1>3. Asked' = [ op |-> "spawn", components |-> cs, left |-> n ]  BY <1>2 DEF Asked
<1>4. cs \in SUBSET Component /\ n \in Nat \ {0}
  BY WorldAssumption, ArchetypesAssumption DEF SpawnSet
<1>5. Asked = [ op |-> "none" ]
  <2>1. call.op = "none"  BY <1>1 DEF Begins, Idle, NoCall
  <2> QED  BY <2>1 DEF Asked
<1>6. Held' = Held
  BY HeldKept DEF SpawnCall, storeVars, indexVars, placeVars
<1> QED  BY <1>3, <1>4, <1>5, <1>6 DEF Contract!Ask, Contract!NoRequest

LEMMA ChangeAsks ==
  ASSUME StoreInv, AllIntact, AddCall \/ RemoveCall
  PROVE  Contract!Ask
<1>1. PICK e \in live, c \in Component, v \in Value \cup {NoData},
           op \in { "add", "remove" }, want \in SUBSET Component :
        /\ Begins(0, 1, want)
        /\ ChangeCall(op, e, c, v, want)
  BY StoreGrounded, ChangeWanted
<1>2. call'.op = op /\ call'.entity = e /\ call'.component = c
  BY <1>1 DEF ChangeCall, NoCall
<1>3. Asked' = [ op |-> op, entity |-> e, component |-> c ]  BY <1>2 DEF Asked
<1>4. Asked = [ op |-> "none" ]
  <2>1. call.op = "none"  BY <1>1 DEF Begins, Idle, NoCall
  <2> QED  BY <2>1 DEF Asked
<1>5. Held' = Held
  BY <1>1, HeldKept DEF ChangeCall, storeVars, indexVars, placeVars
<1>6. DOMAIN Held = live  BY DEF Held
<1> QED  BY <1>3, <1>4, <1>5, <1>6 DEF Contract!Ask, Contract!NoRequest

(* The entity spawn places appears with the components asked for.          *)
LEMMA SpawnOneSpawns ==
  ASSUME StoreInv, AllIntact, SpawnOne
  PROVE  \E e \in EntityIndex : Contract!Spawn(e)
<1>1. Grounded /\ StoreTyped /\ call \in CallRecord  BY StoreGrounded
<1>2. PICK e \in EntityIndex :
      /\ call.to \in ArchetypeIndex /\ call.to < archLength
      /\ e \notin live /\ archIndex[e] = 0
      /\ SetEntityArchetype(e, call.to)
      /\ live' = live \cup {e}
      /\ UNCHANGED indexVars
      /\ LiveIntact' \subseteq LiveIntact \cup {e}
      /\ \A f \in EntityIndex \ {e} :
           archIndex'[f] = archIndex[f] /\ archCode'[f] = archCode[f]
  BY <1>1, SpawnOneMoves
<1>3. ~ Placed(e) /\ live' \subseteq EntityIndex /\ live \subseteq EntityIndex
  BY <1>1, <1>2 DEF Placed, StoreTyped, SlotShape
<1>4. /\ call.op = "spawn" /\ call.stage = "place" /\ call.left > 0
      /\ call' = [ call EXCEPT !.left = @ - 1 ]
  BY DEF SpawnOne, Spawning
<1>5. Asked = [ op |-> "spawn", components |-> call.want, left |-> call.left ]
  BY <1>4 DEF Asked
<1>6. call'.op = "spawn" /\ call'.want = call.want /\ call'.left = call.left - 1
  BY <1>1, <1>4 DEF CallRecord
<1>7. Asked' = [ op |-> "spawn", components |-> call.want, left |-> call.left - 1 ]
  BY <1>6 DEF Asked
<1>8. Asked' = [ Asked EXCEPT !.left = @ - 1 ]  BY <1>5, <1>7
<1>9. archIndex'[e] = call.to  BY <1>2, <1>3, MovedIsThere
<1>10. Has(e)' = call.want
  <2>1. components[call.to] = call.want  BY <1>4 DEF StoreInv, CallMeant
  <2> QED  BY <1>2, <1>9, <2>1 DEF Has, indexVars
<1>11. \A f \in live : Has(f)' = Has(f)
  BY <1>2, <1>3 DEF Has, indexVars
<1>12. DOMAIN Held = live /\ \A x \in live : Held[x] = Has(x)  BY DEF Held
<1>13. Held' = [ x \in DOMAIN Held \cup {e} |-> IF x = e THEN Asked.components ELSE Held[x] ]
  <2>1. Held' = [ x \in live' |-> Has(x)' ]  BY DEF Held
  <2>2. live' = DOMAIN Held \cup {e}  BY <1>2, <1>12
  <2>3. ASSUME NEW x \in live'
        PROVE  Has(x)' = IF x = e THEN Asked.components ELSE Held[x]
    BY <1>2, <1>5, <1>10, <1>11, <1>12, <2>3
  <2> QED  BY <2>1, <2>2, <2>3
<1>14. Asked.op = "spawn" /\ Asked.left > 0 /\ e \notin DOMAIN Held
  BY <1>2, <1>4, <1>5, <1>12
<1>15. Contract!Spawn(e)
  BY <1>8, <1>13, <1>14 DEF Contract!Spawn
<1> QED  BY <1>2, <1>15

(* The entity that is moved has one component more, or one less.           *)
LEMMA MoveChanges ==
  ASSUME StoreInv, AllIntact, AddMove \/ RemoveMove
  PROVE  Contract!Change
<1>1. Grounded /\ StoreTyped /\ call \in CallRecord  BY StoreGrounded
<1>2. PICK e \in EntityIndex :
      /\ e = call.entity
      /\ Changing /\ UNCHANGED << indexVars, live >> /\ call' = NoCall
      /\ \A f \in EntityIndex \ {e} :
           archIndex'[f] = archIndex[f] /\ archCode'[f] = archCode[f]
  BY <1>1, MovedGoesOn, ChangingSound
<1>3. /\ e \in LiveIntact /\ e \in EntityIndex
      /\ call.to \in ArchetypeIndex /\ call.to < archLength
  BY <1>1, <1>2, ChangingSound
<1>4. LiveIntact' \subseteq LiveIntact \cup {e} /\ live' \subseteq EntityIndex
      /\ live \subseteq EntityIndex
  BY <1>1, <1>2 DEF LiveIntact, Intact, StoreTyped, SlotShape
<1>5. SetEntityArchetype(e, call.to)  BY <1>2 DEF AddMove, RemoveMove
<1>6. call.op \in { "add", "remove" } /\ call.stage = "place"  BY <1>2 DEF Changing
<1>7. Asked = [ op |-> call.op, entity |-> e, component |-> call.component ]
  BY <1>2, <1>6 DEF Asked
<1>8. Asked' = [ op |-> "none" ]
  <2>1. call'.op = "none"  BY <1>2 DEF NoCall
  <2> QED  BY <2>1 DEF Asked
<1>9. /\ components[call.to] = call.want
      /\ call.want = IF call.op = "add" THEN Has(e) \cup {call.component}
                                        ELSE Has(e) \ {call.component}
  BY <1>2, <1>6 DEF StoreInv, CallMeant
<1>10. archIndex'[e] = call.to  BY <1>2, <1>3, <1>4, <1>5, MovedIsThere
<1>11. Has(e)' = call.want  BY <1>2, <1>9, <1>10 DEF Has, indexVars
<1>12. \A f \in live \ {e} : Has(f)' = Has(f)
  BY <1>2, <1>4 DEF Has, indexVars
<1>13. Held' = [ Held EXCEPT ![e] = call.want ]
  BY <1>2, <1>11, <1>12 DEF Held
<1>14. e \in live  BY <1>3 DEF LiveIntact
<1>15. Held[e] = Has(e) /\ Asked.op = call.op /\ Asked.entity = e
       /\ Asked.component = call.component
  BY <1>7, <1>14 DEF Held
<1>16. Held' = [ Held EXCEPT ![Asked.entity] =
                   IF Asked.op = "add" THEN @ \cup {Asked.component}
                                       ELSE @ \ {Asked.component} ]
  BY <1>9, <1>13, <1>15
<1> QED  BY <1>6, <1>8, <1>15, <1>16 DEF Contract!Change, Contract!NoRequest

(* Every step does what was asked for, ends the call, or changes nothing.  *)
LEMMA NextContract ==
  ASSUME TableToBeHad, StoreInv, AllIntact, [Next]_vars
  PROVE  [Contract!Next]_<< Held, Asked >>
<1>1. Grounded /\ StoreTyped /\ call \in CallRecord /\ CallMeant
  BY StoreGrounded DEF StoreInv
<1>2. CASE SpawnCall  BY <1>2, SpawnAsks DEF Contract!Next
<1>3. CASE AddCall \/ RemoveCall  BY <1>3, ChangeAsks DEF Contract!Next
<1>4. CASE AsideStep
  <2>1. layerLength \in Nat  BY <1>1 DEF Grounded, CallSound
  <2>2. UNCHANGED << archIndex, components, live, call >>
    BY <1>4, <2>1, AsideChanges DEF storeVars, indexVars, placeVars
  <2> QED  BY <2>2, HeldKept, AskedKept
<1>5. CASE ResolveHit \/ ResolveNew
  <2>1. /\ UNCHANGED << archIndex, live >>
        /\ \E a : call' = [ call EXCEPT !.to = a, !.stage = AfterResolve ]
    BY <1>5 DEF ResolveHit, ResolveNew, ResolveUnchanged, placeVars
  <2>2. \A a \in ArchetypeIndex : a < archLength => components'[a] = components[a]
    <3>1. CASE ResolveHit  BY <3>1 DEF ResolveHit, indexVars
    <3>2. CASE ResolveNew
      <4>1. components' = [ components EXCEPT ![archLength] = call.want ]
        BY <1>1, <3>2, ResolveAppends
      <4> QED  BY <1>1, <4>1 DEF Grounded, CatalogSound, SlotShape
    <3> QED  BY <1>5, <3>1, <3>2
  <2>3. Asked' = Asked  BY <1>1, <2>1, AskedKept DEF CallRecord
  <2> QED  BY <2>1, <2>2, <2>3, HeldKept
<1>6. CASE ResolveFails
  <2>1. Appended /\ ResolveUnchanged /\ call' = NoCall  BY <1>1, <1>6, ResolveAppends
  <2>2. UNCHANGED << archIndex, live >>  BY <2>1 DEF ResolveUnchanged, placeVars
  <2>3. \A a \in ArchetypeIndex : a < archLength => components'[a] = components[a]
    BY <1>1, <2>1 DEF Appended, Grounded, CatalogSound, SlotShape
  <2>4. call.op # "none"  BY <1>1, <1>6 DEF CallMeant, ResolveFails, Resolving
  <2> QED  BY <2>1, <2>2, <2>3, <2>4, HeldKept, ReturnReturns DEF Contract!Next
<1>7. CASE SpawnReady \/ SpawnFinish
  <2>1. call.op # "none" /\ UNCHANGED << archIndex, components, live >>
    BY <1>1, <1>7 DEF CallMeant, SpawnReady, SpawnFinish, storeVars, indexVars, placeVars
  <2>2. CASE Continue("place")
    <3>1. Asked' = Asked  BY <1>1, <2>2, AskedKept DEF Continue, CallRecord
    <3> QED  BY <2>1, <3>1, HeldKept
  <2>3. CASE call' = NoCall
    BY <2>1, <2>3, HeldKept, ReturnReturns DEF Contract!Next
  <2> QED  BY <1>7, <2>2, <2>3 DEF SpawnReady, SpawnFinish, Return
<1>8. CASE SpawnOne  BY <1>8, SpawnOneSpawns DEF Contract!Next
<1>9. CASE SpawnCreateFails
  BY <1>9 DEF SpawnCreateFails, CreateFails, TableToBeHad
<1>10. CASE SpawnPlaceFails
  <2>1. /\ call.op # "none" /\ call' = NoCall
        /\ UNCHANGED << archIndex, components, live >>
    BY <1>10 DEF SpawnPlaceFails, Spawning, Return, placeVars, indexVars
  <2> QED  BY <2>1, HeldKept, ReturnReturns DEF Contract!Next
<1>11. CASE AddMove \/ RemoveMove  BY <1>11, MoveChanges DEF Contract!Next
<1>12. CASE AddMoveFails \/ RemoveMoveFails
  <2>1. /\ call.op # "none" /\ call' = NoCall
        /\ UNCHANGED << archIndex, components, live >>
    BY <1>12 DEF AddMoveFails, RemoveMoveFails, Changing, Return, SetEntityArchetypeFails,
                 placeVars, indexVars
  <2> QED  BY <2>1, HeldKept, ReturnReturns DEF Contract!Next
<1> QED
  BY <1>2, <1>3, <1>4, <1>5, <1>6, <1>7, <1>8, <1>9, <1>10, <1>11, <1>12
  DEF Next, Request, Step, AsideStep

(* A new instance has no entity, and nothing was asked for.                *)
LEMMA InitContract == Init => Contract!Init
<1> SUFFICES ASSUME Init PROVE Contract!Init  OBVIOUS
<1>1. Held = << >>  BY DEF Init, Held
<1>2. Asked = [ op |-> "none" ]
  <2>1. call.op = "none"  BY DEF Init, NoCall
  <2> QED  BY <2>1 DEF Asked
<1> QED  BY <1>1, <1>2 DEF Contract!Init, Contract!NoRequest

-----------------------------------------------------------------------------
(* ARCHETYPES                                                              *)

(* The arrays of archetypes can be extended, and column offsets be had.    *)
ArchetypesToBeHad == Failing \cap { "archetype_table", "offset_size" } = {}

(* A call that found no archetype of its components makes the only one.    *)
LEMMA NextUnique ==
  ASSUME ArchetypesToBeHad, StoreInv, archLost = "none", ArchetypesUnique, [Next]_vars
  PROVE  archLost' = "none" /\ ArchetypesUnique'
<1>1. Grounded /\ archLength \in Nat
  BY StoreGrounded DEF Grounded, SlotShape
<1>2. CASE UNCHANGED indexVars  BY <1>2 DEF ArchetypesUnique, indexVars
<1>3. CASE SpawnCall \/ AddCall \/ RemoveCall \/ SpawnReady \/ SpawnFinish
  BY <1>2, <1>3
  DEF SpawnCall, AddCall, RemoveCall, ChangeCall, SpawnReady, SpawnFinish, storeVars
<1>4. CASE AsideStep
  <2>1. layerLength \in Nat  BY <1>1 DEF Grounded, CallSound
  <2> QED  BY <1>2, <1>4, <2>1, AsideChanges DEF storeVars
<1>5. CASE ResolveHit  BY <1>2, <1>5 DEF ResolveHit
<1>6. CASE ResolveFails
  BY <1>6 DEF ResolveFails, LayoutFails, GrowFails, ArchetypesToBeHad
<1>7. CASE ResolveNew
  <2> DEFINE n == archLength
  <2>1. /\ components' = [ components EXCEPT ![n] = call.want ]
        /\ archLength' = n + 1 /\ n \in ArchetypeIndex
    <3>1. Appended /\ components' = [ components EXCEPT ![n] = call.want ]
      BY <1>1, <1>7, ResolveAppends
    <3>2. n < MaxArchetypes /\ archLength' = n + 1  BY <3>1 DEF Appended
    <3> QED  BY <1>1, <3>1, <3>2, ArchetypesAssumption DEF ArchetypeIndex
  <2>2. /\ Misses(call.want) /\ archLost' = "none"
        /\ indexed' = indexed \cup {n} /\ sorted' = TRUE
    BY <1>7 DEF ResolveNew, NewArchetype, Extend, Kept
  <2>3. \A a \in indexed : components[a] # call.want
    BY <2>2 DEF Misses, Hits, Matches, ArchetypesUnique
  <2>4. \A a \in indexed : a \in ArchetypeIndex /\ a < n
    BY <1>1 DEF Grounded, CatalogSound
  <2>5. /\ components'[n] = call.want
        /\ \A a \in indexed : components'[a] = components[a]
    BY <1>1, <2>1, <2>4 DEF Grounded, CatalogSound
  <2>6. indexed' = 0 .. archLength' - 1
    BY <1>1, <2>1, <2>2 DEF ArchetypesUnique
  <2>7. \A a, b \in indexed' : components'[a] = components'[b] => a = b
    BY <2>2, <2>3, <2>5 DEF ArchetypesUnique
  <2> QED  BY <2>2, <2>6, <2>7 DEF ArchetypesUnique
<1>8. CASE \/ SpawnOne \/ SpawnCreateFails \/ SpawnPlaceFails
           \/ AddMove \/ RemoveMove \/ AddMoveFails \/ RemoveMoveFails
  BY <1>2, <1>8
  DEF SpawnOne, SpawnCreateFails, SpawnPlaceFails, AddMove, RemoveMove, AddMoveFails,
      RemoveMoveFails
<1> QED
  BY <1>2, <1>3, <1>4, <1>5, <1>6, <1>7, <1>8 DEF Next, Request, Step, AsideStep

-----------------------------------------------------------------------------
(* SLOTS LOST                                                              *)

(* Neither a block nor the place of a slot on a free list is refused, so   *)
(* that every entity that is to move moves; and no entity loses its cells. *)
MovesToBeHad == BlocksToBeHad /\ "free_indexes" \notin Failing

SlotsToBeHad == TableToBeHad /\ MovesToBeHad

LEMMA MovesSucceed ==
  ASSUME MovesToBeHad, NEW e, NEW a
  PROVE  ~ SetEntityArchetypeFails(e, a)
BY DEF SetEntityArchetypeFails, UnplaceMayFail, AllocateFails, AllocateMayFail, MovesToBeHad,
       BlocksToBeHad

Listed(L, b, n) == \E k \in DOMAIN L[b] : L[b][k] = n

(* A list that is left alone, or gets one slot more, names what it did.    *)
LEMMA ListsForKeeps ==
  ASSUME SlotShape, NEW e \in EntityIndex, Placed(e) => Seated(e)
  PROVE  /\ ListsFor(e) \in Lists
         /\ \A b \in ArchetypeIndex : \A n \in Nat :
              Listed(freeIndexes, b, n) => Listed(ListsFor(e), b, n)
         /\ Placed(e) => Listed(ListsFor(e), archIndex[e],
                                LinearIndex(archIndex[e], archCode[e]))
<1>1. freeIndexes \in Lists  BY DEF SlotShape, Lists
<1>2. CASE ~ Placed(e)  BY <1>1, <1>2 DEF ListsFor
<1>3. CASE Placed(e)
  <2> DEFINE a == archIndex[e]
             m == LinearIndex(archIndex[e], archCode[e])
             L == ListsFor(e)
  <2>1. a \in ArchetypeIndex /\ m \in Nat
    BY <1>3, LinearIndexType DEF Seated, SlotShape
  <2>2. L = [ freeIndexes EXCEPT ![a] = Append(freeIndexes[a], m) ]
    BY <1>3 DEF ListsFor, Freed
  <2> HIDE DEF a, m, L
  <2>3. freeIndexes[a] \in Seq(Nat \cup {Junk})  BY <1>1, <2>1 DEF Lists
  <2>4. Append(freeIndexes[a], m) \in Seq(Nat \cup {Junk})  BY <2>1, <2>3
  <2>5. L \in Lists /\ L[a] = Append(freeIndexes[a], m)
    BY <1>1, <2>1, <2>2, <2>4 DEF Lists
  <2>6. /\ DOMAIN freeIndexes[a] \subseteq DOMAIN L[a]
        /\ \A k \in DOMAIN freeIndexes[a] : L[a][k] = freeIndexes[a][k]
        /\ Len(freeIndexes[a]) + 1 \in DOMAIN L[a]
        /\ L[a][Len(freeIndexes[a]) + 1] = m
    BY <2>1, <2>3, <2>5
  <2>7. \A b \in ArchetypeIndex \ {a} : L[b] = freeIndexes[b]
    BY <1>1, <2>2 DEF Lists
  <2>8. Listed(L, a, m)  BY <2>6 DEF Listed
  <2>9. ASSUME NEW b \in ArchetypeIndex, NEW n \in Nat, Listed(freeIndexes, b, n)
        PROVE  Listed(L, b, n)
    <3>1. CASE b = a  BY <2>6, <2>9, <3>1 DEF Listed
    <3>2. CASE b # a  BY <2>7, <2>9, <3>2 DEF Listed
    <3> QED  BY <3>1, <3>2
  <2> QED  BY <2>5, <2>8, <2>9 DEF a, m, L
<1> QED  BY <1>2, <1>3

(* Taking a slot takes that one off the lists and no other.                *)
LEMMA TakeSlotKeeps ==
  ASSUME SlotShape, NEW L \in Lists, NEW a \in ArchetypeIndex, TakeSlot(a, L),
         NEW b \in ArchetypeIndex, NEW n \in Nat, n < nextIndex'[b],
         ~ (b = a /\ n = NextSlot(a, L))
  PROVE  n < nextIndex[b] /\ (Listed(L, b, n) => Listed(freeIndexes', b, n))
<1>1. L[a] \in Seq(Nat \cup {Junk}) /\ nextIndex \in [ ArchetypeIndex -> Nat ]
  BY DEF SlotShape, Lists
<1>2. CASE L[a] # << >>
  <2>1. Len(L[a]) \in Nat \ {0} /\ DOMAIN L[a] = 1 .. Len(L[a])  BY <1>1, <1>2
  <2>2. /\ nextIndex' = nextIndex /\ freeIndexes' = [ L EXCEPT ![a] = Front(L[a]) ]
        /\ NextSlot(a, L) = L[a][Len(L[a])]
    BY <1>2, <2>1 DEF TakeSlot, NextSlot, Last
  <2>3. /\ DOMAIN Front(L[a]) = 1 .. Len(L[a]) - 1
        /\ \A k \in 1 .. Len(L[a]) - 1 : Front(L[a])[k] = L[a][k]
    BY <1>1, <2>1 DEF Front
  <2>4. CASE b = a
    <3>1. freeIndexes'[b] = Front(L[a])  BY <2>2, <2>4 DEF Lists
    <3>2. ASSUME NEW k \in DOMAIN L[b], L[b][k] = n
          PROVE  k \in DOMAIN freeIndexes'[b] /\ freeIndexes'[b][k] = n
      <4>1. k # Len(L[a])  BY <2>2, <2>4, <3>2
      <4> QED  BY <2>1, <2>3, <2>4, <3>1, <3>2, <4>1
    <3> QED  BY <2>2, <3>2 DEF Listed
  <2>5. CASE b # a
    <3>1. freeIndexes'[b] = L[b]  BY <2>2, <2>5 DEF Lists
    <3> QED  BY <2>2, <3>1 DEF Listed
  <2> QED  BY <2>4, <2>5
<1>3. CASE L[a] = << >>
  <2>1. NextSlot(a, L) = nextIndex[a]  BY <1>3 DEF NextSlot
  <2>2. freeIndexes' = L /\ nextIndex' = [ nextIndex EXCEPT ![a] = nextIndex[a] + 1 ]
    BY <1>3 DEF TakeSlot
  <2>3. n < nextIndex[b]  BY <1>1, <2>1, <2>2
  <2> QED  BY <2>2, <2>3
<1> QED  BY <1>2, <1>3

(* Moving an entity, or placing a new one, loses no slot: the one it       *)
(* leaves is put on a free list, and the one that is taken is its own.     *)
LEMMA MoveKeepsSlots ==
  ASSUME StoreInv, AllIntact, NoSlotLost, NEW e \in EntityIndex,
         e \in live \/ archIndex[e] = 0,
         NEW a \in ArchetypeIndex, a < archLength, SetEntityArchetype(e, a),
         UNCHANGED indexVars, live' = live \cup {e}
  PROVE  NoSlotLost'
<1> DEFINE L == ListsFor(e)
<1> PICK m : m = NextSlot(a, L)  OBVIOUS
<1>1. SlotShape /\ Grounded  BY StoreGrounded DEF Grounded
<1>2. e \in live => e \in LiveIntact /\ Seated(e)
  BY <1>1 DEF AllIntact, Grounded
<1>3. (Placed(e) => Seated(e)) /\ (Placed(e) => e \in LiveIntact)
  BY <1>2 DEF Placed
<1>4. /\ L \in Lists
      /\ \A b \in ArchetypeIndex : \A n \in Nat :
           Listed(freeIndexes, b, n) => Listed(L, b, n)
      /\ Placed(e) => Listed(L, archIndex[e], LinearIndex(archIndex[e], archCode[e]))
  BY <1>1, <1>3, ListsForKeeps
<1>5. /\ TakeSlot(a, L)
      /\ archIndex' = [ archIndex EXCEPT ![e] = a ]
      /\ archCode' = [ archCode EXCEPT ![e] = CodeOf(a, m) ]
      /\ UNCHANGED perBlock
  BY DEF SetEntityArchetype, AllocateCode, indexVars
<1>6. m \in Nat
  <2>1. L \in Lists /\ ListsBelow(L)  BY <1>3, LeftBelow DEF StoreInv
  <2> QED  BY <1>1, <1>5, <2>1, ShapeOfStore, TakenHoused DEF StoreInv, Housed, BlocksCover
<1>7. LinearIndex(a, CodeOf(a, m)) = m
  <2>1. /\ perBlock \in [ ArchetypeIndex -> 0 .. MaxPerBlock ]
        /\ perBlock[a] # 0 /\ m \div perBlock[a] < MaxBlocks
    BY <1>1, <1>5 DEF SlotShape, TakeSlot, HasSlot, NextBlock
  <2> QED  BY <1>6, <2>1, CodeOfSlot
<1>8. Holds(e, a, m)' /\ e \in live'
  <2>1. archIndex'[e] = a /\ archCode'[e] = CodeOf(a, m)  BY <1>1, <1>5 DEF SlotShape
  <2> QED  BY <1>5, <1>7, <2>1 DEF Holds, LinearIndex
<1>9. \A f \in live \ {e} : \A b, n : Holds(f, b, n) => Holds(f, b, n)'
  <2>1. \A f \in live \ {e} : archIndex'[f] = archIndex[f] /\ archCode'[f] = archCode[f]
    BY <1>1, <1>5 DEF SlotShape
  <2> QED  BY <1>5, <2>1 DEF Holds, LinearIndex
<1> HIDE DEF L
<1> SUFFICES ASSUME NEW b \in ArchetypeIndex \ {0}, NEW n \in 0 .. nextIndex'[b] - 1
             PROVE  (\E f \in live' : Holds(f, b, n)') \/ Listed(freeIndexes', b, n)
  BY DEF NoSlotLost, Listed
<1>10. CASE b = a /\ n = m  BY <1>8, <1>10
<1>11. CASE ~ (b = a /\ n = m)
  <2>1. n \in Nat /\ nextIndex'[b] \in Int => n < nextIndex'[b]  OBVIOUS
  <2>2. nextIndex'[b] \in Int
    <3>1. nextIndex \in [ ArchetypeIndex -> Nat ]  BY <1>1 DEF SlotShape
    <3> QED  BY <1>5, <3>1 DEF TakeSlot
  <2>3. n \in Nat /\ n < nextIndex'[b]  BY <2>1, <2>2
  <2>4. n < nextIndex[b] /\ (Listed(L, b, n) => Listed(freeIndexes', b, n))
    BY <1>1, <1>4, <1>5, <1>11, <2>3, TakeSlotKeeps
  <2>5. nextIndex[b] \in Nat  BY <1>1 DEF SlotShape
  <2>6. (\E f \in live : Holds(f, b, n)) \/ Listed(freeIndexes, b, n)
    BY <2>3, <2>4, <2>5 DEF NoSlotLost, Listed
  <2>7. CASE Listed(freeIndexes, b, n)  BY <1>4, <2>3, <2>4, <2>7
  <2>8. ASSUME NEW f \in live, Holds(f, b, n)
        PROVE  (\E g \in live' : Holds(g, b, n)') \/ Listed(freeIndexes', b, n)
    <3>1. CASE f # e  BY <1>9, <2>8, <3>1
    <3>2. CASE f = e
      <4>1. archIndex[e] = b /\ LinearIndex(b, archCode[e]) = n  BY <2>8, <3>2 DEF Holds
      <4> QED  BY <1>4, <2>4, <4>1 DEF Placed
    <3> QED  BY <3>1, <3>2
  <2> QED  BY <2>6, <2>7, <2>8
<1> QED  BY <1>10, <1>11

(* Steps that leave entities and slots alone, though they may append an    *)
(* archetype.                                                              *)
LEMMA SlotsStay ==
  ASSUME StoreInv, NoSlotLost,
         UNCHANGED << archIndex, archCode, live, nextIndex, freeIndexes >>,
         \A b \in ArchetypeIndex : b < archLength => perBlock'[b] = perBlock[b]
  PROVE  NoSlotLost'
<1>1. archLength \in Nat /\ nextIndex \in [ ArchetypeIndex -> Nat ]
  BY StoreGrounded DEF Grounded, SlotShape
<1> SUFFICES ASSUME NEW b \in ArchetypeIndex \ {0}, NEW n \in 0 .. nextIndex[b] - 1
             PROVE  \/ \E f \in live : Holds(f, b, n)'
                    \/ \E k \in DOMAIN freeIndexes[b] : freeIndexes[b][k] = n
  BY DEF NoSlotLost
<1>2. b < archLength
  <2> SUFFICES ASSUME b >= archLength PROVE FALSE  BY <1>1 DEF ArchetypeIndex
  <2>1. nextIndex[b] = 0  BY DEF StoreInv, Housed
  <2> QED  BY <2>1
<1>3. perBlock'[b] = perBlock[b]  BY <1>2
<1>4. \A f \in live : Holds(f, b, n) => Holds(f, b, n)'
  BY <1>3 DEF Holds, LinearIndex
<1> QED  BY <1>4 DEF NoSlotLost

(* One step of the library.                                                *)
LEMMA NextLosesNoSlot ==
  ASSUME SlotsToBeHad, StoreInv, AllIntact, NoSlotLost, [Next]_vars
  PROVE  NoSlotLost'
<1>1. Grounded /\ SlotShape  BY StoreGrounded DEF Grounded
<1>2. ~ \E e, a : SetEntityArchetypeFails(e, a)  BY MovesSucceed DEF SlotsToBeHad
<1>3. CASE UNCHANGED << storeVars, live >>
  BY <1>3, SlotsStay DEF storeVars, indexVars, slotVars, placeVars
<1>4. CASE SpawnCall \/ AddCall \/ RemoveCall \/ SpawnReady \/ SpawnFinish
  BY <1>3, <1>4
  DEF SpawnCall, AddCall, RemoveCall, ChangeCall, SpawnReady, SpawnFinish
<1>5. CASE AsideStep
  <2>1. layerLength \in Nat  BY <1>1 DEF Grounded, CallSound
  <2> QED  BY <1>3, <1>5, <2>1, AsideChanges
<1>6. CASE ResolveHit  BY <1>3, <1>6 DEF ResolveHit, ResolveUnchanged, storeVars
<1>7. CASE ResolveNew \/ ResolveFails
  <2>1. Appended /\ ResolveUnchanged  BY <1>1, <1>7, ResolveAppends
  <2>2. \A b \in ArchetypeIndex : b < archLength => perBlock'[b] = perBlock[b]
    BY <1>1, <2>1 DEF Appended, SlotShape
  <2> QED  BY <2>1, <2>2, SlotsStay DEF ResolveUnchanged, slotVars, placeVars
<1>8. CASE SpawnOne  BY <1>1, <1>8, SpawnOneMoves, MoveKeepsSlots
<1>9. CASE SpawnCreateFails
  BY <1>9 DEF SpawnCreateFails, CreateFails, SlotsToBeHad, TableToBeHad
<1>10. CASE SpawnPlaceFails
  BY <1>2, <1>3, <1>10 DEF SpawnPlaceFails, storeVars
<1>11. CASE AddMove \/ RemoveMove
  <2>1. /\ Changing /\ UNCHANGED << indexVars, live >>
        /\ SetEntityArchetype(call.entity, call.to)
    BY <1>11 DEF AddMove, RemoveMove
  <2>2. /\ call.entity \in live /\ call.entity \in EntityIndex
        /\ call.to \in ArchetypeIndex /\ call.to < archLength
    BY <1>1, <2>1, ChangingSound DEF LiveIntact
  <2>3. live' = live \cup {call.entity}  BY <2>1, <2>2
  <2> QED  BY <2>1, <2>2, <2>3, MoveKeepsSlots
<1>12. CASE AddMoveFails \/ RemoveMoveFails
  BY <1>2, <1>12 DEF AddMoveFails, RemoveMoveFails
<1> QED
  BY <1>3, <1>4, <1>5, <1>6, <1>7, <1>8, <1>9, <1>10, <1>11, <1>12
  DEF Next, Request, Step, AsideStep

-----------------------------------------------------------------------------
(* DATA                                                                    *)

(* What the components of an entity are, and the cells they are read from. *)
RowKept(e) ==
  /\ archIndex'[e] = archIndex[e] /\ archCode'[e] = archCode[e]
  /\ Has(e)' = Has(e)
  /\ cell'[SlotOf(e)] = cell[SlotOf(e)]

LEMMA RowKeepsData ==
  ASSUME NEW e, RowKept(e)
  PROVE  DataOf(e)' = DataOf(e)
<1>1. SlotOf(e)' = SlotOf(e)  BY DEF RowKept, SlotOf
<1>2. \A c \in Has(e) : cell'[SlotOf(e)'][c] = cell[SlotOf(e)][c]
  BY <1>1 DEF RowKept
<1> QED  BY <1>2 DEF DataOf, RowKept

(* Archetypes that were made keep their components.                        *)
LEMMA HasKept ==
  ASSUME Grounded, NEW e \in LiveIntact, archIndex'[e] = archIndex[e],
         \A a \in ArchetypeIndex : a < archLength => components'[a] = components[a]
  PROVE  Has(e)' = Has(e)
<1>1. Seated(e)  BY DEF Grounded
<1> QED  BY <1>1 DEF Seated, Has

(* Copying writes to the slot that the entity enters.                      *)
LEMMA CopiedElsewhere ==
  ASSUME NEW e, NEW a, NEW code, cell \in [ Slot -> [ Component -> Value ] ],
         NEW s \in Slot, s # << a, code >>
  PROVE  Copied(e, a, code)[s] = cell[s]
BY DEF Copied

(* An entity that a step does not move stays where it is, as it is: no     *)
(* step writes to the slot of any entity but the one it moves.             *)
LEMMA OthersStay ==
  ASSUME SlotInv, SlotInv', StoreInv, [Next]_vars, NEW e \in LiveIntact, Intact(e)',
         ~ AddMoveFails, AddMove \/ RemoveMove => e # call.entity
  PROVE  RowKept(e)
<1>1. Grounded /\ StoreTyped /\ SlotShape /\ e \in EntityIndex /\ Seated(e)
  BY StoreGrounded DEF Grounded, SlotShape, LiveIntact
<1>2. cell \in [ Slot -> [ Component -> Value ] ] /\ SlotOf(e) \in Slot
  BY <1>1 DEF StoreTyped, Seated, SlotOf, Slot
<1>3. CASE UNCHANGED << archIndex, archCode, components, cell >>
  BY <1>3 DEF RowKept, Has
<1>4. CASE SpawnCall \/ AddCall \/ RemoveCall \/ SpawnReady \/ SpawnFinish
  BY <1>3, <1>4
  DEF SpawnCall, AddCall, RemoveCall, ChangeCall, SpawnReady, SpawnFinish, storeVars,
      placeVars, indexVars
<1>5. CASE AsideStep
  <2>1. layerLength \in Nat  BY <1>1 DEF Grounded, CallSound
  <2> QED  BY <1>3, <1>5, <2>1, AsideChanges DEF storeVars, placeVars, indexVars
<1>6. CASE ResolveHit
  BY <1>3, <1>6 DEF ResolveHit, ResolveUnchanged, placeVars, indexVars
<1>7. CASE ResolveNew \/ ResolveFails
  <2>1. Appended /\ ResolveUnchanged  BY <1>1, <1>7, ResolveAppends
  <2>2. UNCHANGED << archIndex, archCode, cell >>  BY <2>1 DEF ResolveUnchanged, placeVars
  <2>3. \A a \in ArchetypeIndex : a < archLength => components'[a] = components[a]
    BY <1>1, <2>1 DEF Appended, Grounded, CatalogSound, SlotShape
  <2>4. Has(e)' = Has(e)  BY <1>1, <2>2, <2>3, HasKept
  <2> QED  BY <2>2, <2>4 DEF RowKept
<1>8. CASE SpawnOne
  <2>1. /\ entLength \notin live /\ archIndex[entLength] = 0
        /\ cell' = Copied(entLength, call.to, archCode'[entLength])
        /\ \A f \in EntityIndex \ {entLength} :
             archIndex'[f] = archIndex[f] /\ archCode'[f] = archCode[f]
        /\ UNCHANGED indexVars
    BY <1>1, <1>8, SpawnOneMoves
  <2>2. e # entLength  BY <2>1 DEF LiveIntact
  <2>3. cell' = cell  BY <2>1 DEF Copied, Placed
  <2> QED  BY <1>1, <2>1, <2>2, <2>3 DEF RowKept, Has, indexVars
<1>9. CASE SpawnCreateFails
  <2>1. /\ archIndex'[e] = archIndex[e] /\ archCode'[e] = archCode[e]
        /\ UNCHANGED << indexVars, cell >>
    BY <1>1, <1>9, SpawnCreateFailsLoses DEF LiveIntact, Intact
  <2> QED  BY <2>1 DEF RowKept, Has, indexVars
<1>10. CASE SpawnPlaceFails
  BY <1>3, <1>10 DEF SpawnPlaceFails, placeVars, indexVars
<1>11. CASE AddMove \/ RemoveMove
  <2> PICK m : m = call.entity  OBVIOUS
  <2> DEFINE s == << call.to, archCode'[m] >>
  <2>12. e # m  BY <1>11
  <2>1. /\ Changing /\ UNCHANGED << indexVars, live >>
        /\ \A f \in EntityIndex \ {m} :
             archIndex'[f] = archIndex[f] /\ archCode'[f] = archCode[f]
    BY <1>1, <1>11, MovedGoesOn
  <2>2. /\ m \in LiveIntact /\ m \in EntityIndex
        /\ call.to \in ArchetypeIndex /\ call.to < archLength
    BY <1>1, <2>1, ChangingSound
  <2>3. SetEntityArchetype(m, call.to)  BY <1>11 DEF AddMove, RemoveMove
  <2>4. LiveIntact' \subseteq LiveIntact \cup {m} /\ live' \subseteq EntityIndex
    BY <1>1, <2>1 DEF LiveIntact, Intact, SlotShape
  <2>5. /\ archIndex'[m] = call.to /\ call.to # Junk /\ archCode'[m] # JunkCode
    BY <2>1, <2>2, <2>3, <2>4, MovedIsThere
  <2>6. e \in LiveIntact' /\ m \in LiveIntact'
    BY <1>1, <2>12, <2>1, <2>2, <2>5 DEF LiveIntact, Intact
  <2>7. SlotOf(e)' # SlotOf(m)'
    BY <2>12, <2>6 DEF SlotInv, SlotsSound, SlotExclusive
  <2>8. SlotOf(e) # s  BY <1>1, <2>12, <2>1, <2>5, <2>7 DEF SlotOf
  <2>9. Copied(m, call.to, archCode'[m])[SlotOf(e)] = cell[SlotOf(e)]
    BY <1>2, <2>8, CopiedElsewhere
  <2>10. cell'[SlotOf(e)] = cell[SlotOf(e)]
    <3>1. CASE RemoveMove  BY <2>9, <3>1 DEF RemoveMove
    <3>2. CASE AddMove
      <4> DEFINE row == Copied(m, call.to, archCode'[m])
      <4>1. cell' = [ row EXCEPT ![s][call.component] = Given ]
        BY <3>2 DEF AddMove
      <4>2. DOMAIN row = Slot  BY <1>2 DEF Copied
      <4> HIDE DEF row, s
      <4>3. cell'[SlotOf(e)] = row[SlotOf(e)]  BY <1>2, <2>8, <4>1, <4>2
      <4> QED  BY <2>9, <4>3 DEF row
    <3> QED  BY <1>11, <3>1, <3>2
  <2> QED  BY <1>1, <2>12, <2>1, <2>10 DEF RowKept, Has, indexVars
<1>12. CASE RemoveMoveFails
  BY <1>3, <1>12 DEF RemoveMoveFails, SetEntityArchetypeFails, placeVars, indexVars
<1> QED
  BY <1>3, <1>4, <1>5, <1>6, <1>7, <1>8, <1>9, <1>10, <1>11, <1>12
  DEF Next, Request, Step, AsideStep, vars, storeVars, indexVars, placeVars

(* A component that is being added is not there yet.                       *)
Adding == call.op = "add" => call.component \notin Has(call.entity)

LEMMA NextAdding ==
  ASSUME StoreInv, Adding, [Next]_vars
  PROVE  Adding'
<1>1. Grounded /\ StoreTyped /\ call \in CallRecord /\ CallMeant
  BY StoreGrounded DEF StoreInv
<1>2. CASE call'.op # "add"  BY <1>2 DEF Adding
<1>3. call' = NoCall => call'.op # "add"  BY DEF NoCall
<1>4. CASE UNCHANGED << call, archIndex, components >>  BY <1>4 DEF Adding, Has
<1>5. CASE SpawnCall \/ RemoveCall
  BY <1>2, <1>5 DEF SpawnCall, RemoveCall, ChangeCall, NoCall
<1>6. CASE AddCall
  <2>1. PICK e \in live, c \in Component :
          /\ call'.entity = e /\ call'.component = c /\ c \notin Has(e)
          /\ UNCHANGED << archIndex, components >>
    BY <1>6 DEF AddCall, ChangeCall, NoCall, storeVars, placeVars, indexVars
  <2> QED  BY <2>1 DEF Adding, Has
<1>7. CASE AsideStep
  <2>1. layerLength \in Nat  BY <1>1 DEF Grounded, CallSound
  <2> QED  BY <1>4, <1>7, <2>1, AsideChanges DEF storeVars, placeVars, indexVars
<1>8. CASE ResolveHit \/ ResolveNew
  <2>1. PICK a : call' = [ call EXCEPT !.to = a, !.stage = AfterResolve ]
    BY <1>8 DEF ResolveHit, ResolveNew
  <2>2. call'.op = call.op /\ call'.entity = call.entity /\ call'.component = call.component
    BY <1>1, <2>1 DEF CallRecord
  <2>3. UNCHANGED archIndex
    BY <1>8 DEF ResolveHit, ResolveNew, ResolveUnchanged, placeVars
  <2>4. \A n \in ArchetypeIndex : n < archLength => components'[n] = components[n]
    <3>1. CASE ResolveHit  BY <3>1 DEF ResolveHit, indexVars
    <3>2. CASE ResolveNew
      <4>1. Appended  BY <1>1, <3>2, ResolveAppends
      <4> QED  BY <1>1, <4>1 DEF Appended, Grounded, CatalogSound, SlotShape
    <3> QED  BY <1>8, <3>1, <3>2
  <2>5. call.op = "add" => Has(call.entity)' = Has(call.entity)
    <3> SUFFICES ASSUME call.op = "add"
                 PROVE  components'[archIndex'[call'.entity]] = Has(call.entity)
      BY DEF Has
    <3>1. call.entity \in LiveIntact  BY <1>1 DEF Grounded, CallSound
    <3>2. Seated(call.entity)  BY <1>1, <3>1 DEF Grounded
    <3> QED  BY <2>2, <2>3, <2>4, <3>2 DEF Seated, Has
  <2> QED  BY <2>2, <2>5 DEF Adding
<1>9. CASE ResolveFails \/ SpawnFinish \/ SpawnCreateFails \/ SpawnPlaceFails
           \/ AddMove \/ RemoveMove \/ AddMoveFails \/ RemoveMoveFails
  BY <1>2, <1>3, <1>9
  DEF ResolveFails, SpawnFinish, SpawnCreateFails, SpawnPlaceFails, AddMove, RemoveMove,
      AddMoveFails, RemoveMoveFails, Return
<1>10. CASE SpawnReady
  <2>1. CASE Continue("place")
    <3>1. call'.op = call.op /\ call'.entity = call.entity /\ call'.component = call.component
          /\ UNCHANGED << archIndex, components >>
      BY <1>1, <1>10, <2>1
      DEF SpawnReady, Continue, CallRecord, storeVars, placeVars, indexVars
    <3> QED  BY <3>1 DEF Adding, Has
  <2> QED  BY <1>2, <1>3, <1>10, <2>1 DEF SpawnReady, Return
<1>11. CASE SpawnOne
  <2>1. call'.op = "spawn"  BY <1>1, <1>11 DEF SpawnOne, Spawning, CallRecord
  <2> QED  BY <1>2, <2>1
<1> QED
  BY <1>4, <1>5, <1>6, <1>7, <1>8, <1>9, <1>10, <1>11
  DEF Next, Request, Step, AsideStep, vars, storeVars, placeVars, indexVars

(* The entity that is moved takes along what it keeps.                     *)
LEMMA MovedKeepsData ==
  ASSUME StoreInv, Adding, AddMove \/ RemoveMove, NEW m, m = call.entity, Placed(m),
         NEW c \in Has(m) \cap Has(m)'
  PROVE  DataOf(m)'[c] = DataOf(m)[c]
<1> DEFINE s == << call.to, archCode'[m] >>
           row == Copied(m, call.to, archCode'[m])
<1>1. Grounded /\ StoreTyped /\ SlotShape /\ components \in [ ArchetypeIndex -> SUBSET Component ]
  BY StoreGrounded DEF Grounded, CatalogSound
<1>2. /\ Changing /\ UNCHANGED << indexVars, live >>
      /\ \A f \in EntityIndex \ {m} :
           archIndex'[f] = archIndex[f] /\ archCode'[f] = archCode[f]
  BY <1>1, MovedGoesOn
<1>3. /\ m \in LiveIntact /\ m \in EntityIndex /\ Seated(m)
      /\ call.to \in ArchetypeIndex /\ call.to < archLength
  BY <1>1, <1>2, ChangingSound DEF Grounded
<1>4. LiveIntact' \subseteq LiveIntact \cup {m} /\ live' \subseteq EntityIndex
  BY <1>1, <1>2 DEF LiveIntact, Intact, SlotShape
<1>5. SetEntityArchetype(m, call.to)  BY DEF AddMove, RemoveMove
<1>6. archIndex'[m] = call.to /\ archCode'[m] \in Code
  BY <1>2, <1>3, <1>4, <1>5, MovedIsThere
<1>7. cell \in [ Slot -> [ Component -> Value ] ] /\ s \in Slot
  BY <1>1, <1>3, <1>6 DEF StoreTyped, Slot
<1>8. Has(m)' = components[call.to] /\ SlotOf(m)' = s
  BY <1>2, <1>6 DEF Has, SlotOf, indexVars
<1>9. c \in components[call.to] /\ c \in components[archIndex[m]] /\ c \in Component
  BY <1>1, <1>3, <1>8 DEF Has
<1>10. row \in [ Slot -> [ Component -> Value ] ] /\ row[s][c] = cell[SlotOf(m)][c]
  <2>1. row \in [ Slot -> [ Component -> Value ] ]  BY <1>1, <1>3, <1>6, CopiedTyped
  <2>2. row = [ cell EXCEPT ![s] =
                  [ d \in Component |->
                      IF d \in components[call.to] \cap components[archIndex[m]]
                        THEN cell[SlotOf(m)][d] ELSE cell[s][d] ] ]
    BY DEF Copied
  <2> HIDE DEF row, s
  <2> QED  BY <1>7, <1>9, <2>1, <2>2
<1>11. cell'[s][c] = row[s][c]
  <2>1. CASE RemoveMove  BY <2>1 DEF RemoveMove
  <2>2. CASE AddMove
    <3>1. cell' = [ row EXCEPT ![s][call.component] = Given ]  BY <2>2 DEF AddMove
    <3>2. call.component # c  BY <1>9, <2>2 DEF Adding, AddMove, Has
    <3> HIDE DEF row, s
    <3> QED  BY <1>7, <1>10, <3>1, <3>2
  <2> QED  BY <2>1, <2>2
<1>12. DataOf(m)'[c] = cell'[s][c]  BY <1>8, <1>9 DEF DataOf
<1>13. DataOf(m)[c] = cell[SlotOf(m)][c]  BY DEF DataOf
<1> QED  BY <1>10, <1>11, <1>12, <1>13

-----------------------------------------------------------------------------
(* THEOREMS                                                                *)

(* Entities keep their cells while the table can be extended.              *)
THEOREM EntitiesStayIntact == ASSUME TableToBeHad PROVE Spec => [](StoreInv /\ AllIntact)
<1>1. StoreInv /\ AllIntact /\ [Next]_vars => StoreInv' /\ AllIntact'
  BY NextStore, NextIntact
<1> QED  BY <1>1, InitStore, InitIntact, PTL DEF Spec

(* What spawn, add and remove do to the components of entities is what was *)
(* asked for, or nothing (ecs.h:38, 210-260), whatever fails but the       *)
(* extension of the entity table.                                          *)
THEOREM ContractImplemented == ASSUME TableToBeHad PROVE Spec => ContractKept
<1>1. StoreInv /\ AllIntact /\ [Next]_vars => [Contract!Next]_<< Held, Asked >>
  BY NextContract
<1> QED
  BY <1>1, InitContract, EntitiesStayIntact, PTL DEF Spec, ContractKept, Contract!Spec

(* No two archetypes have the same components, and the index holds each of *)
(* them, as long as the arrays can be had (archetype.c:41-103).            *)
THEOREM ArchetypesStayUnique == ASSUME ArchetypesToBeHad PROVE Spec => []ArchetypesUnique
<1>1. Init => archLost = "none" /\ ArchetypesUnique
  BY DEF Init, ArchetypesInit, ArchetypesUnique
<1>2. StoreInv /\ (archLost = "none" /\ ArchetypesUnique) /\ [Next]_vars
        => (archLost = "none" /\ ArchetypesUnique)'
  BY NextUnique
<1> QED  BY <1>1, <1>2, StoreStaysSound, PTL DEF Spec

(* Every slot that was handed out holds an entity or waits on its free     *)
(* list (archetype.c:117-157, 183-207).                                    *)
THEOREM NoSlotIsLost == ASSUME SlotsToBeHad PROVE Spec => []NoSlotLost
<1>1. Init => NoSlotLost
  <2> SUFFICES ASSUME Init PROVE NoSlotLost  OBVIOUS
  <2>1. \A a \in ArchetypeIndex : nextIndex[a] = 0  BY DEF Init, ArchetypesInit
  <2> QED  BY <2>1 DEF NoSlotLost
<1>2. StoreInv /\ AllIntact /\ NoSlotLost /\ [Next]_vars => NoSlotLost'
  BY NextLosesNoSlot
<1>3. TableToBeHad  BY DEF SlotsToBeHad
<1> QED  BY <1>1, <1>2, <1>3, EntitiesStayIntact, PTL DEF Spec

(* A call changes the data of the entity it names and of no other          *)
(* (archetype.c:209-227, entity.c:176-186), whatever allocation fails in   *)
(* the middle of it but that of a block or of a place on a free list.      *)
(* When one of these does, a component that is added is written over those *)
(* beside it, and over other entities if it is larger (entity.c:188).      *)
THEOREM DataStaysIsolated == ASSUME MovesToBeHad PROVE Spec => DataIsolated
<1>1. ~ AddMoveFails  BY MovesSucceed DEF AddMoveFails
<1>2. SlotInv /\ SlotInv' /\ StoreInv /\ [Next]_vars
        => [ \A e \in LiveIntact \ {call.entity} : Intact(e)' => DataOf(e)' = DataOf(e) ]_vars
  BY <1>1, OthersStay, RowKeepsData
<1>3. BlocksToBeHad  BY DEF MovesToBeHad
<1> QED  BY <1>2, <1>3, SlotsStaySound, StoreStaysSound, PTL DEF Spec, DataIsolated

(* Unless what is allocated on the way of an entity into its new slot is   *)
(* refused, a component that it has before and after a call keeps its      *)
(* data (archetype.c:209-227).                                             *)
THEOREM DataStaysKept == ASSUME SlotsToBeHad PROVE Spec => DataKept
<1>1. Init => Adding  BY DEF Init, Adding, NoCall
<1>2. StoreInv /\ Adding /\ [Next]_vars => Adding'  BY NextAdding
<1>3. BlocksToBeHad /\ TableToBeHad  BY DEF SlotsToBeHad, MovesToBeHad
<1>4. ASSUME SlotInv, SlotInv', StoreInv, AllIntact, AllIntact', Adding, [Next]_vars
      PROVE  [ \A e \in live : Placed(e) =>
                 \A c \in Has(e) \cap Has(e)' : DataOf(e)'[c] = DataOf(e)[c] ]_vars
  <2> SUFFICES ASSUME Next, NEW e \in live, Placed(e), NEW c \in Has(e) \cap Has(e)'
               PROVE  DataOf(e)'[c] = DataOf(e)[c]
    BY <1>4
  <2>1. e \in LiveIntact  BY <1>4 DEF AllIntact
  <2>2. CASE e = call.entity /\ (AddMove \/ RemoveMove)
    BY <1>4, <2>2, MovedKeepsData
  <2>3. CASE ~ (e = call.entity /\ (AddMove \/ RemoveMove))
    <3>1. layerLength \in Nat  BY <1>4 DEF SlotInv, CallSound
    <3>2. e \in live'  BY <3>1, LiveGrows
    <3>3. Intact(e)'  BY <1>4, <3>2 DEF AllIntact, LiveIntact
    <3>4. ~ AddMoveFails  BY MovesSucceed DEF AddMoveFails, SlotsToBeHad
    <3>5. RowKept(e)  BY <1>4, <2>1, <2>3, <3>3, <3>4, OthersStay
    <3> QED  BY <3>5, RowKeepsData
  <2> QED  BY <2>2, <2>3
<1> QED
  BY <1>1, <1>2, <1>3, <1>4, SlotsStaySound, EntitiesStayIntact, PTL DEF Spec, DataKept

-----------------------------------------------------------------------------
(* NO FAULT                                                                *)

(* The hypothesis of the theorem.  Each part is needed: without it a call  *)
(* reaches an array that was lost, a block of no entities, the sizes of a  *)
(* component that is not there, or an entry before the members of a layer. *)
InGoodOrder ==
  /\ Failing = {}
  /\ \A cs \in SUBSET Component : EntitiesPerBlock[cs] # 0
  /\ ~ UnknownComponents
  /\ MaxLayers <= 1

Known(cs) == \A c \in cs : c < registered

NoJunk(L) == \A a \in ArchetypeIndex : \A k \in DOMAIN L[a] : L[a][k] # Junk

(* The invariant, in the parts that change together.                       *)
LayersThere ==
  /\ layerLength \in Nat /\ layerLength <= MaxLayers
  /\ \A l \in LayerIndex : layerGeneration[l] # Junk /\ layerKind[l] # "lost"

EntitiesThere == AllIntact /\ \A e \in EntityIndex : generation[e] # Junk

ArchetypesThere ==
  /\ archLost = "none"
  /\ \A a \in ArchetypeIndex : Known(components[a])
  /\ \A a \in ArchetypeIndex : a < archLength => perBlock[a] # 0

CallInOrder == Known(call.want) /\ call.layer \in { NoLayer, 0 }

InOrder ==
  /\ StoreInv
  /\ LayersThere /\ EntitiesThere /\ ArchetypesThere /\ CallInOrder
  /\ NoJunk(freeIndexes)

-----------------------------------------------------------------------------
(* NO STEP IS A FAULT                                                      *)

(* A handle that is valid names a layer that is there, the first one.      *)
LEMMA ValidLayers ==
  ASSUME InGoodOrder, InOrder, NEW l \in LayerHandle, l < layerLength
  PROVE  l = 0 /\ layerGeneration[l] # Junk /\ layerKind[l] # "lost"
<1>1. layerLength \in Nat /\ layerLength <= 1
  BY LayersAssumption DEF InOrder, LayersThere, InGoodOrder
<1>2. l \in LayerIndex  BY <1>1 DEF LayerHandle
<1>3. l = 0  BY <1>1, <1>2, LayersAssumption DEF LayerIndex
<1> QED  BY <1>2, <1>3 DEF InOrder, LayersThere

(* The lists an entity leaves behind are not lost.                         *)
LEMMA LeftNoJunk ==
  ASSUME InOrder, NEW e \in EntityIndex, Placed(e) => Seated(e)
  PROVE  NoJunk(ListsFor(e)) /\ ListsFor(e) \in Lists
<1>1. SlotShape /\ freeIndexes \in Lists
  BY ShapeOfStore DEF InOrder, StoreInv
<1>2. CASE ~ Placed(e)  BY <1>1, <1>2 DEF ListsFor, InOrder
<1>3. CASE Placed(e)
  <2> DEFINE a == archIndex[e]
             n == LinearIndex(archIndex[e], archCode[e])
             L == ListsFor(e)
  <2>1. a \in ArchetypeIndex /\ n \in Nat
    BY <1>1, <1>3, LinearIndexType DEF Seated, SlotShape
  <2>2. L = [ freeIndexes EXCEPT ![a] = Append(freeIndexes[a], n) ]
    BY <1>3 DEF ListsFor, Freed
  <2> HIDE DEF a, n, L
  <2>3. freeIndexes[a] \in Seq(Nat \cup {Junk})  BY <1>1, <2>1 DEF Lists
  <2>4. /\ Append(freeIndexes[a], n) \in Seq(Nat \cup {Junk})
        /\ \A k \in DOMAIN Append(freeIndexes[a], n) :
             \/ k \in DOMAIN freeIndexes[a] /\ Append(freeIndexes[a], n)[k] = freeIndexes[a][k]
             \/ Append(freeIndexes[a], n)[k] = n
    BY <2>1, <2>3
  <2>5. L \in Lists /\ L[a] = Append(freeIndexes[a], n)
    BY <1>1, <2>1, <2>2, <2>4 DEF Lists
  <2>6. \A b \in ArchetypeIndex \ {a} : L[b] = freeIndexes[b]
    BY <1>1, <2>2 DEF Lists
  <2>7. n # Junk  BY <2>1 DEF Junk
  <2>8. \A k \in DOMAIN L[a] : L[a][k] # Junk
    BY <2>1, <2>4, <2>5, <2>7 DEF InOrder, NoJunk
  <2>9. NoJunk(L)  BY <2>6, <2>8 DEF NoJunk, InOrder
  <2> QED  BY <2>5, <2>9 DEF L
<1> QED  BY <1>2, <1>3

(* A slot can be had.                                                      *)
LEMMA SlotToBeHad ==
  ASSUME InGoodOrder, InOrder, NEW L \in Lists, NoJunk(L),
         NEW a \in ArchetypeIndex, a < archLength
  PROVE  ~ AllocateFaults(a, L)
<1>1. perBlock[a] # 0  BY DEF InOrder, ArchetypesThere
<1>2. L[a] \in Seq(Nat \cup {Junk})  BY DEF Lists
<1>3. NextSlot(a, L) # Junk
  <2>1. CASE L[a] # << >>
    <3>1. Len(L[a]) \in DOMAIN L[a]  BY <1>2, <2>1
    <3> QED  BY <2>1, <3>1 DEF NextSlot, Last, NoJunk
  <2>2. CASE L[a] = << >>
    <3>1. nextIndex[a] \in Nat  BY ShapeOfStore DEF InOrder, StoreInv, SlotShape
    <3> QED  BY <2>2, <3>1 DEF NextSlot, Junk
  <2> QED  BY <2>1, <2>2
<1>4. HasSlot(a, L)  BY <1>1, <1>3 DEF HasSlot
<1> QED  BY <1>4 DEF AllocateFaults, InGoodOrder

(* Every step that there may be leaves fault alone.                        *)
LEMMA NoStepFaults ==
  ASSUME InGoodOrder, InOrder, [Next]_vars
  PROVE  UNCHANGED fault
<1>1. Grounded /\ StoreTyped /\ SlotShape /\ call \in CallRecord
  BY StoreGrounded DEF InOrder, Grounded
<1>2. \A l \in LayerHandle : ~ LayerReadFaults(l) /\ (LayerValid(l) => layerKind[l] # "lost")
  BY ValidLayers DEF LayerReadFaults, LayerValid
<1>3. CASE DestroyLayer  BY <1>2, <1>3 DEF DestroyLayer, Reject
<1>4. CASE SpawnRejected  BY <1>2, <1>4 DEF SpawnRejected, Reject
<1>5. ~ ChangeFault
  <2>1. ASSUME NEW e \in live PROVE ~ EntityFaults(e)
    <3>1. e \in EntityIndex /\ Intact(e)
      BY <1>1 DEF InOrder, EntitiesThere, AllIntact, LiveIntact, SlotShape
    <3> QED  BY <3>1 DEF EntityFaults, Intact, InOrder, EntitiesThere, ArchetypesThere
  <2> QED  BY <2>1 DEF ChangeFault
<1>6. ~ ResolveFault
  <2>1. ~ ResolveFaults  BY DEF ResolveFaults, InOrder, ArchetypesThere
  <2>2. ~ Unknown
    <3> SUFFICES ASSUME NEW c \in call.want, c >= registered PROVE FALSE  BY DEF Unknown
    <3>1. c < registered  BY DEF InOrder, CallInOrder, Known
    <3>2. c \in Int /\ registered \in Int
      BY <1>1, ArchetypesAssumption DEF CallRecord, Component, InOrder, StoreInv, TypeOK
    <3> QED  BY <3>1, <3>2
  <2> QED  BY <2>1, <2>2 DEF ResolveFault
<1>7. ~ SpawnFault
  <2> SUFFICES ASSUME SpawnFault PROVE FALSE  OBVIOUS
  <2>1. EnterLayer(call.layer)  BY DEF InOrder, CallInOrder, EnterLayer
  <2>2. call.to \in ArchetypeIndex /\ call.to < archLength
    BY <1>1, SpawningSound DEF SpawnFault, Grounded
  <2>3. ~ AllocateFaults(call.to, freeIndexes)
    BY <1>1, <2>2, SlotToBeHad DEF InOrder, SlotShape, Lists
  <2> QED  BY <2>1, <2>3 DEF SpawnFault
<1>8. ~ MoveFault
  <2> SUFFICES ASSUME MoveFault PROVE FALSE  OBVIOUS
  <2>1. /\ call.entity \in LiveIntact /\ call.entity \in EntityIndex
        /\ call.to \in ArchetypeIndex /\ call.to < archLength
    BY <1>1, ChangingSound DEF MoveFault
  <2>2. Seated(call.entity)  BY <1>1, <2>1 DEF Grounded
  <2>3. ~ AllocateFaults(call.to, ListsFor(call.entity))
    BY <2>1, <2>2, LeftNoJunk, SlotToBeHad
  <2>4. ~ SetEntityArchetypeMayFail(call.entity, call.to)
    BY DEF SetEntityArchetypeMayFail, UnplaceMayFail, AllocateMayFail, InGoodOrder
  <2> QED  BY <2>3, <2>4 DEF MoveFault
<1>9. CASE RegisterComponent \/ NewLayer \/ ChangeRejected
  BY <1>9 DEF RegisterComponent, NewLayer, ChangeRejected, Reject
<1>10. CASE SpawnCall \/ AddCall \/ RemoveCall \/ SpawnReady \/ SpawnFinish
  BY <1>10 DEF SpawnCall, AddCall, RemoveCall, ChangeCall, SpawnReady, SpawnFinish
<1>11. CASE ResolveHit \/ ResolveNew \/ ResolveFails
  BY <1>11 DEF ResolveHit, ResolveNew, ResolveFails, ResolveUnchanged
<1>12. CASE SpawnOne \/ SpawnCreateFails \/ SpawnPlaceFails
  BY <1>12 DEF SpawnOne, SpawnCreateFails, SpawnPlaceFails
<1>13. CASE AddMove \/ RemoveMove \/ AddMoveFails \/ RemoveMoveFails
  BY <1>13 DEF AddMove, RemoveMove, AddMoveFails, RemoveMoveFails
<1>14. CASE UNCHANGED vars  BY <1>14 DEF vars
<1> QED
  BY <1>3, <1>4, <1>5, <1>6, <1>7, <1>8, <1>9, <1>10, <1>11, <1>12, <1>13, <1>14
  DEF Next, Request, Step

-----------------------------------------------------------------------------
(* WHAT KEEPS THE INSTANCE IN ORDER                                        *)

LEMMA LayersStay ==
  ASSUME InGoodOrder, InOrder, [Next]_vars
  PROVE  LayersThere'
<1> USE DEF InOrder
<1>1. CASE UNCHANGED layerVars  BY <1>1 DEF LayersThere, layerVars
<1>2. CASE NewLayer
  <2>1. ~ CreateLayerFails  BY DEF CreateLayerFails, InGoodOrder
  <2>2. PICK kind \in Kind : CreateLayer(kind)  BY <1>2, <2>1 DEF NewLayer
  <2>3. layerLength < MaxLayers  BY <1>2 DEF NewLayer
  <2>4. layerKind \in [ LayerIndex -> Kind \cup { "lost" } ]
    BY DEF StoreInv, TypeOK, LayersTypeOK
  <2>5. /\ layerLength' = layerLength + 1 /\ layerGeneration' = layerGeneration
        /\ layerKind' = [ layerKind EXCEPT ![layerLength] = kind ]
    BY <2>2 DEF CreateLayer
  <2>6. kind # "lost"  BY DEF Kind
  <2>7. layerLength' \in Nat /\ layerLength' <= MaxLayers
    BY <2>3, <2>5, LayersAssumption DEF LayersThere
  <2>8. \A l \in LayerIndex : layerKind'[l] # "lost"
    BY <2>4, <2>5, <2>6 DEF LayersThere
  <2> QED  BY <2>5, <2>7, <2>8 DEF LayersThere
<1>3. ~ NewLayer => UNCHANGED layerVars
  BY DEF Next, Request, Step, RegisterComponent, DestroyLayer, SpawnCall, SpawnRejected,
         AddCall, RemoveCall, ChangeCall, ChangeRejected, ChangeFault, ResolveHit, ResolveNew,
         ResolveFails, ResolveFault, ResolveUnchanged, SpawnReady, SpawnOne, SpawnCreateFails,
         SpawnPlaceFails, SpawnFault, SpawnFinish, AddMove, AddMoveFails, RemoveMove,
         RemoveMoveFails, MoveFault, Fault, Reject, vars
<1> QED  BY <1>1, <1>2, <1>3

LEMMA EntitiesStay ==
  ASSUME InGoodOrder, InOrder, [Next]_vars
  PROVE  EntitiesThere'
<1>1. AllIntact'
  BY NextIntact DEF InOrder, EntitiesThere, InGoodOrder, TableToBeHad
<1>2. UNCHANGED generation
  BY DEF InGoodOrder, Next, Request, Step, RegisterComponent, NewLayer, DestroyLayer,
         SpawnCall, SpawnRejected, AddCall, RemoveCall, ChangeCall, ChangeRejected,
         ChangeFault, ResolveHit, ResolveNew, ResolveFails, ResolveFault, ResolveUnchanged,
         SpawnReady, SpawnOne, SpawnCreateFails, CreateFails, CreateEntity, SpawnPlaceFails,
         SpawnFault, SpawnFinish, AddMove, AddMoveFails, RemoveMove, RemoveMoveFails,
         MoveFault, Fault, Reject, vars, tableVars
<1> QED  BY <1>1, <1>2 DEF InOrder, EntitiesThere

(* Archetypes are made of components that are registered and fit a block.  *)
LEMMA ArchetypesStay ==
  ASSUME InGoodOrder, InOrder, [Next]_vars
  PROVE  ArchetypesThere' /\ registered <= registered' /\ registered' \in Nat
<1>1. /\ registered \in Nat /\ archLength \in Nat
      /\ components \in [ ArchetypeIndex -> SUBSET Component ]
      /\ perBlock \in [ ArchetypeIndex -> 0 .. MaxPerBlock ]
      /\ call.want \in SUBSET Component
  BY ArchetypesAssumption DEF InOrder, StoreInv, TypeOK, ArchetypesTypeOK
<1>2. CASE ResolveNew
  <2>1. /\ archLength' = archLength + 1 /\ archLost' = "none" /\ registered' = registered
        /\ components' = [ components EXCEPT ![archLength] = call.want ]
        /\ perBlock' = [ perBlock EXCEPT ![archLength] = EntitiesPerBlock[call.want] ]
    BY <1>2 DEF ResolveNew, NewArchetype, Extend, ResolveUnchanged
  <2>2. Known(call.want) /\ EntitiesPerBlock[call.want] # 0
    BY <1>1 DEF InOrder, CallInOrder, InGoodOrder
  <2>3. \A a \in ArchetypeIndex : \A c \in components'[a] : c < registered'
    BY <1>1, <2>1, <2>2 DEF Known, InOrder, ArchetypesThere
  <2>4. ASSUME NEW a \in ArchetypeIndex, a < archLength' PROVE perBlock'[a] # 0
    <3>1. CASE a = archLength  BY <1>1, <2>1, <2>2, <3>1
    <3>2. CASE a # archLength
      <4>1. a < archLength  BY <1>1, <2>1, <2>4, <3>2 DEF ArchetypeIndex
      <4> QED  BY <1>1, <2>1, <3>2, <4>1 DEF InOrder, ArchetypesThere
    <3> QED  BY <3>1, <3>2
  <2> QED  BY <1>1, <2>1, <2>3, <2>4 DEF ArchetypesThere, Known
<1>3. CASE RegisterComponent
  <2>1. registered' = registered + 1 /\ UNCHANGED indexVars
    BY <1>3 DEF RegisterComponent, storeVars
  <2>2. ASSUME NEW a \in ArchetypeIndex, NEW c \in components[a] PROVE c < registered'
    <3>1. c < registered  BY DEF InOrder, ArchetypesThere, Known
    <3>2. c \in Int  BY <1>1, ArchetypesAssumption DEF Component
    <3> QED  BY <1>1, <2>1, <3>1, <3>2
  <2> QED  BY <1>1, <2>1, <2>2 DEF InOrder, ArchetypesThere, Known, indexVars
<1>4. ~ ResolveFails  BY DEF ResolveFails, LayoutFails, GrowFails, InGoodOrder
<1>5. ~ ResolveNew /\ ~ RegisterComponent => UNCHANGED << indexVars, registered >>
  BY <1>4
  DEF Next, Request, Step, NewLayer, DestroyLayer, SpawnCall, SpawnRejected,
      AddCall, RemoveCall, ChangeCall, ChangeRejected, ChangeFault, ResolveHit,
      ResolveFault, ResolveUnchanged, SpawnReady, SpawnOne, SpawnCreateFails,
      SpawnPlaceFails, SpawnFault, SpawnFinish, AddMove, AddMoveFails, RemoveMove,
      RemoveMoveFails, MoveFault, Fault, Reject, vars, storeVars, indexVars
<1>6. CASE UNCHANGED << indexVars, registered >>
  BY <1>1, <1>6 DEF InOrder, ArchetypesThere, Known, indexVars
<1> QED  BY <1>2, <1>3, <1>5, <1>6

(* A call asks for such components, and for no layer but the first.        *)
LEMMA CallStaysInOrder ==
  ASSUME InGoodOrder, InOrder, [Next]_vars
  PROVE  CallInOrder'
<1>1. Grounded /\ StoreTyped /\ SlotShape /\ call \in CallRecord
  BY StoreGrounded DEF InOrder, Grounded
<1>2. registered \in Nat /\ registered' \in Nat /\ registered <= registered'
  BY ArchetypesStay DEF InOrder, StoreInv, TypeOK
<1>3. CASE call' = NoCall
  BY <1>3 DEF CallInOrder, NoCall, Known
<1>4. CASE call'.want = call.want /\ call'.layer = call.layer
  <2>1. ASSUME NEW c \in call.want PROVE c < registered'
    <3>1. c < registered  BY DEF InOrder, CallInOrder, Known
    <3>2. c \in Int  BY <1>1, ArchetypesAssumption DEF CallRecord, Component
    <3> QED  BY <1>2, <3>1, <3>2
  <2> QED  BY <1>4, <2>1 DEF InOrder, CallInOrder, Known
<1>5. CASE SpawnCall
  <2>1. PICK n \in 1 .. MaxSpawn, cs \in SpawnSet, l \in LayerHandle \cup {NoLayer} :
          /\ l # NoLayer => LayerValid(l)
          /\ call' = [ NoCall EXCEPT !.op = "spawn", !.stage = "resolve", !.want = cs,
                                     !.left = n, !.layer = l ]
          /\ registered' = registered
    BY <1>5 DEF SpawnCall
  <2>2. call'.want = cs /\ call'.layer = l  BY <2>1 DEF NoCall
  <2>3. \A c \in cs : c < registered  BY DEF SpawnSet, InGoodOrder
  <2>4. l \in { NoLayer, 0 }  BY <2>1, ValidLayers DEF LayerValid
  <2> QED  BY <2>1, <2>2, <2>3, <2>4 DEF CallInOrder, Known
<1>6. ASSUME NEW op, NEW e \in live, NEW c \in Component, NEW v, NEW want,
             want \subseteq Has(e) \cup {c}, c < registered,
             ~ EntityFaults(e), ChangeCall(op, e, c, v, want)
      PROVE  CallInOrder'
  <2>1. call'.want = want /\ call'.layer = NoLayer /\ registered' = registered
    BY <1>6 DEF ChangeCall, NoCall
  <2>2. archIndex[e] \in ArchetypeIndex
    BY <1>1, <1>6 DEF EntityFaults, SlotShape
  <2>3. Known(Has(e))  BY <2>2 DEF InOrder, ArchetypesThere, Has
  <2> QED  BY <1>6, <2>1, <2>3 DEF CallInOrder, Known
<1>7. CASE AddCall  BY <1>6, <1>7 DEF AddCall
<1>8. CASE RemoveCall
  <2>1. PICK e \in live, c \in Component :
          /\ ~ EntityFaults(e) /\ c < registered
          /\ ChangeCall("remove", e, c, NoData, Has(e) \ {c})
    BY <1>8 DEF RemoveCall
  <2>2. Has(e) \ {c} \subseteq Has(e) \cup {c}  OBVIOUS
  <2> QED  BY <1>6, <2>1, <2>2
<1>9. CASE UNCHANGED call  BY <1>4, <1>9
<1>10. CASE ResolveHit \/ ResolveNew \/ ResolveFails
  BY <1>1, <1>3, <1>4, <1>10 DEF ResolveHit, ResolveNew, ResolveFails, Return, CallRecord
<1>11. CASE SpawnReady \/ SpawnOne \/ SpawnCreateFails \/ SpawnPlaceFails \/ SpawnFinish
  BY <1>1, <1>3, <1>4, <1>11
  DEF SpawnReady, SpawnOne, SpawnCreateFails, SpawnPlaceFails, SpawnFinish, Return, Continue,
      CallRecord
<1>12. CASE AddMove \/ RemoveMove \/ AddMoveFails \/ RemoveMoveFails
  BY <1>3, <1>12 DEF AddMove, RemoveMove, AddMoveFails, RemoveMoveFails, Return
<1>13. CASE RegisterComponent \/ NewLayer \/ DestroyLayer \/ SpawnRejected
              \/ ChangeRejected \/ ChangeFault \/ ResolveFault \/ SpawnFault \/ MoveFault
  BY <1>9, <1>13
  DEF RegisterComponent, NewLayer, DestroyLayer, SpawnRejected, ChangeRejected, ChangeFault,
      ResolveFault, SpawnFault, MoveFault, Fault, Reject
<1>14. CASE UNCHANGED vars  BY <1>9, <1>14 DEF vars
<1> QED
  BY <1>5, <1>7, <1>8, <1>10, <1>11, <1>12, <1>13, <1>14 DEF Next, Request, Step

(* What is left of free lists that are there is there.                     *)
LEMMA TakenNoJunk ==
  ASSUME NEW L \in Lists, NoJunk(L), NEW a \in ArchetypeIndex, TakeSlot(a, L)
  PROVE  NoJunk(freeIndexes)'
<1>1. CASE L[a] = << >>  BY <1>1 DEF TakeSlot, NoJunk
<1>2. CASE L[a] # << >>
  <2>1. L[a] \in Seq(Nat \cup {Junk})  BY DEF Lists
  <2>2. freeIndexes' = [ L EXCEPT ![a] = Front(L[a]) ]  BY <1>2 DEF TakeSlot
  <2>3. \A k \in DOMAIN Front(L[a]) : k \in DOMAIN L[a] /\ Front(L[a])[k] = L[a][k]
    BY <1>2, <2>1 DEF Front
  <2>4. \A k \in DOMAIN Front(L[a]) : Front(L[a])[k] # Junk  BY <2>3 DEF NoJunk
  <2>5. freeIndexes'[a] = Front(L[a]) /\ \A b \in ArchetypeIndex \ {a} : freeIndexes'[b] = L[b]
    BY <2>2 DEF Lists
  <2> QED  BY <2>4, <2>5 DEF NoJunk
<1> QED  BY <1>1, <1>2

LEMMA ListsStay ==
  ASSUME InGoodOrder, InOrder, [Next]_vars
  PROVE  NoJunk(freeIndexes)'
<1>1. Grounded /\ StoreTyped /\ SlotShape /\ call \in CallRecord
  BY StoreGrounded DEF InOrder, Grounded
<1>2. freeIndexes \in Lists  BY <1>1 DEF SlotShape, Lists
<1>3. CASE UNCHANGED freeIndexes  BY <1>3 DEF InOrder, NoJunk
<1>4. \A e, a : ~ SetEntityArchetypeFails(e, a)
  BY DEF SetEntityArchetypeFails, UnplaceMayFail, AllocateFails, AllocateMayFail, InGoodOrder
<1>5. CASE SpawnOne
  <2>1. /\ call.to \in ArchetypeIndex /\ archIndex[entLength] = 0
        /\ SetEntityArchetype(entLength, call.to)
    BY <1>1, <1>5, SpawnOneMoves
  <2>2. TakeSlot(call.to, freeIndexes)
    BY <2>1 DEF SetEntityArchetype, AllocateCode, ListsFor, Placed
  <2> QED  BY <1>2, <2>1, <2>2, TakenNoJunk DEF InOrder
<1>6. CASE AddMove \/ RemoveMove
  <2>1. /\ call.entity \in LiveIntact /\ call.entity \in EntityIndex
        /\ call.to \in ArchetypeIndex /\ call.to < archLength
    BY <1>1, <1>6, ChangingSound DEF AddMove, RemoveMove
  <2>2. Seated(call.entity)  BY <1>1, <2>1 DEF Grounded
  <2>3. TakeSlot(call.to, ListsFor(call.entity))
    BY <1>6 DEF AddMove, RemoveMove, SetEntityArchetype, AllocateCode
  <2> QED  BY <2>1, <2>2, <2>3, LeftNoJunk, TakenNoJunk
<1>7. ~ (SpawnOne \/ AddMove \/ RemoveMove) => UNCHANGED freeIndexes
  BY <1>4
  DEF Next, Request, Step, RegisterComponent, NewLayer, DestroyLayer, SpawnCall,
      SpawnRejected, AddCall, RemoveCall, ChangeCall, ChangeRejected, ChangeFault,
      ResolveHit, ResolveNew, ResolveFails, ResolveFault, ResolveUnchanged, SpawnReady,
      SpawnCreateFails, SpawnPlaceFails, SpawnFault, SpawnFinish, AddMoveFails,
      RemoveMoveFails, MoveFault, Fault, Reject, vars, storeVars, slotVars
<1> QED  BY <1>3, <1>5, <1>6, <1>7

-----------------------------------------------------------------------------
(* THE THEOREM                                                             *)

LEMMA InitInOrder == Init => InOrder /\ NoFault
<1> SUFFICES ASSUME Init PROVE InOrder /\ NoFault  OBVIOUS
<1>1. StoreInv /\ AllIntact  BY InitStore, InitIntact
<1>2. LayersThere
  BY LayersAssumption DEF Init, LayersInit, LayersThere, Junk
<1>3. EntitiesThere  BY <1>1 DEF Init, TableInit, EntitiesThere, Junk
<1>4. ArchetypesThere
  BY DEF Init, ArchetypesInit, ArchetypesThere, Known, ArchetypeIndex
<1>5. CallInOrder  BY DEF Init, CallInOrder, NoCall, Known
<1>6. NoJunk(freeIndexes)  BY DEF Init, ArchetypesInit, NoJunk
<1> QED  BY <1>1, <1>2, <1>3, <1>4, <1>5, <1>6 DEF InOrder, Init, NoFault

(* An application that has memory, keeps to registered components that fit *)
(* a block and to the first layer never makes the library read or write    *)
(* what it has no right to (archetype.c:119-131, entity.c:20-48,           *)
(* layer.c:49-56), whatever it calls and in whatever order.                *)
THEOREM NothingFaults == ASSUME InGoodOrder PROVE Spec => []NoFault
<1>1. Init => InOrder /\ NoFault  BY InitInOrder
<1>2. InOrder /\ NoFault /\ [Next]_vars => (InOrder /\ NoFault)'
  <2> SUFFICES ASSUME InOrder, NoFault, [Next]_vars PROVE (InOrder /\ NoFault)'  OBVIOUS
  <2>1. StoreInv'  BY NextStore DEF InOrder
  <2>2. LayersThere' /\ EntitiesThere' /\ ArchetypesThere'
    BY LayersStay, EntitiesStay, ArchetypesStay
  <2>3. CallInOrder' /\ NoJunk(freeIndexes)'  BY CallStaysInOrder, ListsStay
  <2>4. NoFault'  BY NoStepFaults DEF NoFault
  <2> QED  BY <2>1, <2>2, <2>3, <2>4 DEF InOrder
<1> QED  BY <1>1, <1>2, PTL DEF Spec

=============================================================================
