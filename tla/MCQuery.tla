------------------------------ MODULE MCQuery ------------------------------
(***************************************************************************)
(* Instances of Query for TLC.                                             *)
(***************************************************************************)
EXTENDS Query

Same == [ c \in Component |-> 1 ]

(* Read one component; write one and read another.                         *)
ReadOne == { << << >>, << 0 >> >> }
ReadAndWrite == { << << >>, << 1 >> >>, << << 0 >>, << 1 >> >> }

(* No step depends on what the last call returned, nor, outside of         *)
(* executions, on where the last one left the column pointers.             *)
ForgetResult ==
  << tableVars, storeVars, layerVars, registered, live, call, fault,
     query, execs, IF execs = << >> THEN << >> ELSE runtime >>

=============================================================================
