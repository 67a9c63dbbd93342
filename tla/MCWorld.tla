------------------------------ MODULE MCWorld ------------------------------
(***************************************************************************)
(* Instances of World for TLC.                                             *)
(***************************************************************************)
EXTENDS World

(* No step depends on what the last call returned.                         *)
Forget == << tableVars, storeVars, layerVars, registered, live, call, fault >>

(* The sizes of components: all the same, or none larger than those after  *)
(* it.                                                                     *)
Same == [ c \in Component |-> 1 ]
Rising == [ c \in Component |-> c + 1 ]

=============================================================================
