--------------------------- MODULE ComponentSets ---------------------------
(***************************************************************************)
(* Component sets as the arrays they are (src/component.c): component      *)
(* handles in ascending order.  Nothing keeps a handle from being there    *)
(* twice: an application may name a component twice when it spawns.        *)
(***************************************************************************)
EXTENDS Integers, SequencesExt

CONSTANT Byte   (* the values of a byte: 256 in the code                    *)

ASSUME ByteAssumption == Byte \in Nat \ {0, 1}

(* Mutant: the array is left in the order the handles were given in.       *)
InitSetUnsorted(a, b) == a \o b

Arranged(all, p) == \A i, j \in DOMAIN all : i < j => all[p[i]] <= all[p[j]]

InitSet(a, b) ==
  LET all == a \o b
      order == CHOOSE p \in Bijection(DOMAIN all, DOMAIN all) : Arranged(all, p)
  IN  [ k \in DOMAIN all |-> all[order[k]] ]

(* The places at which the search may find c.                              *)
Orders(set, c) == { k \in DOMAIN set : set[k] = c }

AddTo(set, c) == InitSet(set, << c >>)

RemoveFrom(set, c) ==
  LET k == CHOOSE k \in Orders(set, c) : TRUE IN
  IF Contains(set, c) THEN InitSet(SubSeq(set, 1, k - 1), SubSeq(set, k + 1, Len(set)))
                      ELSE InitSet(set, << >>)

(* From place k of the set, the first that is not less than c.             *)
SkipTo(set, k, c) ==
  CHOOSE m \in k .. Len(set) + 1 :
    /\ m <= Len(set) => set[m] >= c
    /\ \A i \in k .. m - 1 : set[i] < c

(* Mutant: a handle of the set answers for one of the subset only.         *)
IsSubsetOnce(set, subset) ==
  LET place[n \in 0 .. Len(subset)] ==
        IF n = 0 THEN 1
        ELSE LET m == SkipTo(set, place[n - 1], subset[n]) IN
             IF place[n - 1] # 0 /\ m <= Len(set) /\ set[m] = subset[n] THEN m + 1 ELSE 0
  IN  place[Len(subset)] # 0

(* One walk through both arrays; place 0 says that a handle is missing.    *)
IsSubset(set, subset) ==
  LET place[n \in 0 .. Len(subset)] ==
        IF n = 0 THEN 1
        ELSE LET m == SkipTo(set, place[n - 1], subset[n]) IN
             IF place[n - 1] # 0 /\ m <= Len(set) /\ set[m] = subset[n] THEN m ELSE 0
  IN  place[Len(subset)] # 0

(* The << column of the new archetype, column of the old >> that are       *)
(* copied when an entity moves: one walk through both (archetype.c:209).   *)
CopiedColumns(new, old) ==
  LET walk[w \in 0 .. Len(new)] ==
        IF w = 0 THEN [ r |-> 1, pairs |-> {} ]
        ELSE LET r == SkipTo(old, walk[w - 1].r, new[w]) IN
             IF r <= Len(old) /\ old[r] = new[w]
               THEN [ r |-> r + 1, pairs |-> walk[w - 1].pairs \cup { << w, r >> } ]
               ELSE [ r |-> r, pairs |-> walk[w - 1].pairs ]
  IN  walk[Len(new)].pairs

-----------------------------------------------------------------------------
(* _compare_components: the shorter array comes first; arrays of the same  *)
(* length are compared byte by byte, the low byte of a handle first.       *)

LowByteFirst(c) == (c % Byte) * Byte + c \div Byte

Before(a, b) ==
  \/ Len(a) < Len(b)
  \/ /\ Len(a) = Len(b)
     /\ \E k \in DOMAIN a : /\ LowByteFirst(a[k]) < LowByteFirst(b[k])
                            /\ \A i \in 1 .. k - 1 : a[i] = b[i]

Compare(a, b) == IF Before(a, b) THEN -1 ELSE IF Before(b, a) THEN 1 ELSE 0

=============================================================================
