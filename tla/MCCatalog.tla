----------------------------- MODULE MCCatalog -----------------------------
(***************************************************************************)
(* Instances of Catalog for TLC: three components whose handles differ in  *)
(* both of their bytes, of sizes that fill a block unevenly, that exceed   *)
(* it, and that exceed what is kept of a size.                             *)
(***************************************************************************)
EXTENDS Catalog

Sizes == 0 :> 3 @@ 1 :> 13 @@ 2 :> 17

=============================================================================
