----------------------------- MODULE Directory -----------------------------
(***************************************************************************)
(* What resolve_archetype promises: every set of components has one        *)
(* archetype, made when it is first asked for and found ever after.        *)
(*                                                                         *)
(* It is what Archetypes takes for granted.  If the layout of an archetype *)
(* cannot be stored, its entry of the index is left at archetype 0 and the *)
(* index may be out of order: a search may then miss what is there, until  *)
(* the next archetype is made.                                             *)
(***************************************************************************)
EXTENDS Naturals, FiniteSets

CONSTANT Key

VARIABLES
  key,       (* the key of each archetype                                   *)
  indexed,   (* the archetypes that can be found                            *)
  sorted,    (* are they in order?                                          *)
  answer     (* the archetype returned last                                 *)

Length == Cardinality(DOMAIN key)

With(k) == [ a \in 0 .. Length |-> IF a = Length THEN k ELSE key[a] ]

Find(k) ==
  /\ \E a \in indexed : key[a] = k /\ answer' = a
  /\ UNCHANGED << key, indexed, sorted >>

Unknown(k) == sorted => \A a \in indexed : key[a] # k

Make(k) ==
  /\ Unknown(k)
  /\ key' = With(k)
  /\ indexed' = indexed \cup {Length}
  /\ sorted' = TRUE
  /\ answer' = Length

MakeFails(k) ==
  /\ Unknown(k)
  /\ key' = With(k)
  /\ indexed' = indexed \cup {0}
  /\ sorted' \in BOOLEAN
  /\ UNCHANGED answer

DirectoryInit == key = << >> /\ indexed = {} /\ sorted = TRUE /\ answer = 0

DirectoryNext == \E k \in Key : Find(k) \/ Make(k) \/ MakeFails(k)

DirectorySpec == DirectoryInit /\ [][DirectoryNext]_<< key, indexed, sorted, answer >>

=============================================================================
