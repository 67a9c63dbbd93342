----------------------------- MODULE SortSearch -----------------------------
(***************************************************************************)
(* The steps of the quicksort and of the binary search of src/memory.c.    *)
(* An array is a function from 0 .. n - 1.  cmp[x][y] is what the          *)
(* comparison callback returns: less than, equal to or greater than zero.  *)
(*                                                                         *)
(* The bounds of a part of the array are size_t: what would be below zero  *)
(* is a very large number.                                                 *)
(***************************************************************************)
EXTENDS Integers, SequencesExt

CONSTANTS
  SizeWord,      (* the number of values of a size_t                        *)
  LinearLimit    (* QSORT_LINEAR_SORT_LIMIT: 16 in the code                 *)

ASSUME SortSearchAssumption ==
  /\ SizeWord \in Nat \ {0, 1}
  /\ LinearLimit \in Nat \ {0}

Wrap(n) == n % SizeWord
SizeMax == SizeWord - 1

Swap(array, i, j) == [ array EXCEPT ![i] = array[j], ![j] = array[i] ]

(* Op(value), for which TLC computes the value once.                       *)
With(value, Op(_)) == CHOOSE result \in { Op(v) : v \in {value} } : TRUE

(* _partition, Lomuto's scheme around the last element: the array after    *)
(* it and the place of that element.                                       *)
Scanned(cmp, before, j, hi) ==
  With(before, LAMBDA scan :
    IF cmp[scan.array[j]][scan.array[hi]] < 0
      THEN [ array |-> Swap(scan.array, scan.at, j), at |-> scan.at + 1 ]
      ELSE scan)

ScanOf(cmp, array, lo, hi) ==
  LET scan[j \in lo .. hi] ==
        IF j = lo THEN [ array |-> array, at |-> lo ]
                  ELSE Scanned(cmp, scan[j - 1], j - 1, hi)
  IN  scan

(* Mutant: the last element is not brought between the two parts.          *)
PartitionUnswapped(cmp, array, lo, hi) ==
  ScanOf(cmp, array, lo, hi)[hi]

Partition(cmp, array, lo, hi) ==
  With(ScanOf(cmp, array, lo, hi)[hi],
       LAMBDA scan : [ scan EXCEPT !.array = Swap(@, scan.at, hi) ])

(* Element i sinks below those that are greater, if need be below lo.      *)
StopOf(cmp, array, i) ==
  CHOOSE j \in 0 .. i : /\ j > 0 => cmp[array[j - 1]][array[i]] <= 0
                        /\ \A m \in j + 1 .. i : cmp[array[m - 1]][array[i]] > 0

Sunk(cmp, before, i) ==
  With(before, LAMBDA array :
    LET stop == StopOf(cmp, array, i) IN
    [ k \in DOMAIN array |-> IF k = stop THEN array[i]
                            ELSE IF k \in stop + 1 .. i THEN array[k - 1] ELSE array[k] ])

SinkingOf(cmp, array, lo, hi) ==
  LET part[i \in lo .. hi] == IF i = lo THEN array ELSE Sunk(cmp, part[i - 1], i)
  IN  part

(* Mutant: the last element of the part is left where it is.               *)
InsertionSortedShort(cmp, array, lo, hi) ==
  SinkingOf(cmp, array, lo, hi)[hi - 1]

InsertionSorted(cmp, array, lo, hi) ==
  SinkingOf(cmp, array, lo, hi)[hi]

(* The two parts around the pivot, the one sorted by recursion last.  The  *)
(* part that seems shorter comes first; an empty one has the length of     *)
(* SizeMax.                                                                *)
LengthOf(part) == Wrap(part[2] - part[1])

(* Mutant: the pivot is a part of the lower part.                          *)
PartsWithPivot(lo, hi, pivot) == << << lo, pivot >>, << pivot + 1, hi >> >>

Parts(lo, hi, pivot) ==
  LET lower == << lo, IF pivot # 0 THEN pivot - 1 ELSE lo >>
      upper == << pivot + 1, hi >>
  IN IF LengthOf(lower) > LengthOf(upper) THEN << lower, upper >>
                                          ELSE << upper, lower >>

Middle(lo, hi) == lo + (hi - lo) \div 2

=============================================================================
