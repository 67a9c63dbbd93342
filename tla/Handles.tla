------------------------------ MODULE Handles ------------------------------
(***************************************************************************)
(* What a table of generational handles promises its users, whatever the   *)
(* table looks like: a handle is issued at most once in its life, and two  *)
(* handles in use at the same time never name the same entity.             *)
(*                                                                         *)
(* EntityLifecycle, the table of src/entity.c, implements it.              *)
(***************************************************************************)
EXTENDS Naturals

CONSTANTS
  Handle,        (* every handle a table may issue                          *)
  EntityOf(_)    (* the entity a handle names                               *)

VARIABLES
  issued,        (* how many handles were issued so far                     *)
  outstanding,   (* handles in use                                          *)
  retired        (* handles whose entity was freed                          *)

vars == << issued, outstanding, retired >>

Init ==
  /\ issued = 0
  /\ outstanding = {}
  /\ retired = {}

Issue ==
  \E h \in Handle \ (outstanding \cup retired) :
    /\ \A g \in outstanding : EntityOf(g) # EntityOf(h)
    /\ issued' = issued + 1
    /\ outstanding' = outstanding \cup {h}
    /\ UNCHANGED retired

Release ==
  \E h \in outstanding :
    /\ outstanding' = outstanding \ {h}
    /\ retired' = retired \cup {h}
    /\ UNCHANGED issued

Next == Issue \/ Release

Spec == Init /\ [][Next]_vars

=============================================================================
