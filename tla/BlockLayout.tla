---------------------------- MODULE BlockLayout ----------------------------
(***************************************************************************)
(* Where the columns of an archetype are in a block (archetype.c:67-96).   *)
(*                                                                         *)
(* A block is a hidden column of entity indexes, then a column for each    *)
(* component.  Offset and size of a column share one 32-bit integer, and   *)
(* sizes are 16 bits wide; a block has 2^16 bytes.  So both are integers   *)
(* modulo BlockSize here.                                                  *)
(***************************************************************************)
EXTENDS Integers, SequencesExt

CONSTANTS
  ComponentSize,   (* the sizes the components were registered with         *)
  BlockSize,       (* BLOCK_DATA_SIZE                                       *)
  IndexSize        (* the size of the hidden entity index                   *)

ASSUME BlockLayoutAssumption ==
  /\ BlockSize \in Nat \ {0}
  /\ IndexSize \in 1 .. BlockSize
  /\ \A c \in DOMAIN ComponentSize : ComponentSize[c] \in Nat

SizeInBlock(c) == ComponentSize[c] % BlockSize

EntitySize(set) ==
  LET total[k \in 0 .. Len(set)] ==
        IF k = 0 THEN IndexSize ELSE total[k - 1] + SizeInBlock(set[k])
  IN  total[Len(set)]

(* Mutant: one entity more than fits.                                      *)
PerBlockRoundedUp(set) == BlockSize \div EntitySize(set) + 1

PerBlock(set) == BlockSize \div EntitySize(set)

(* Each column begins where the one before it ends; the one before the     *)
(* first is the hidden one.                                                *)
ColumnOffset(set) ==
  LET offset[k \in DOMAIN set] ==
        IF k = 1 THEN (IndexSize * PerBlock(set)) % BlockSize
        ELSE (offset[k - 1] + SizeInBlock(set[k - 1]) * PerBlock(set)) % BlockSize
  IN offset

=============================================================================
