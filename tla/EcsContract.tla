---------------------------- MODULE EcsContract ----------------------------
(***************************************************************************)
(* What ecs.h promises about the components of entities, without           *)
(* archetypes, slots and failures: an application asks for entities with a *)
(* set of components, or for one component to be added to or removed from  *)
(* one entity, and what it gets is what it asked for or nothing.           *)
(***************************************************************************)
EXTENDS Naturals

CONSTANTS Entity, Component

VARIABLES
  has,        (* the components of each entity there is                     *)
  request     (* what was asked for and is not done yet                     *)

NoRequest == [ op |-> "none" ]

Init == has = << >> /\ request = NoRequest

Ask ==
  /\ request = NoRequest
  /\ \/ request' \in [ op : {"spawn"}, components : SUBSET Component,
                       left : Nat \ {0} ]
     \/ request' \in [ op : {"add", "remove"}, entity : DOMAIN has,
                       component : Component ]
  /\ UNCHANGED has

(* One of the entities asked for appears, with the components asked for.   *)
Spawn(e) ==
  /\ request.op = "spawn"
  /\ request.left > 0
  /\ e \notin DOMAIN has
  /\ has' = [ x \in DOMAIN has \cup {e} |->
                IF x = e THEN request.components ELSE has[x] ]
  /\ request' = [ request EXCEPT !.left = @ - 1 ]

Change ==
  /\ request.op \in { "add", "remove" }
  /\ has' = [ has EXCEPT ![request.entity] =
                IF request.op = "add" THEN @ \cup {request.component}
                                      ELSE @ \ {request.component} ]
  /\ request' = NoRequest

(* The call returns, with success or an error.                             *)
Return ==
  /\ request # NoRequest
  /\ request' = NoRequest
  /\ UNCHANGED has

Next == Ask \/ (\E e \in Entity : Spawn(e)) \/ Change \/ Return

Spec == Init /\ [][Next]_<< has, request >>

=============================================================================
