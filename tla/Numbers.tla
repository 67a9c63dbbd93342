------------------------------ MODULE Numbers ------------------------------
(***************************************************************************)
(* Facts about natural numbers that the other proofs rest on: what numbers *)
(* of slots, blocks and codes have to do with one another, and induction.  *)
(* The induction theorems of the library take an operator; here a set of   *)
(* numbers takes its place, or a family of sets for what the steps of a    *)
(* loop leave behind.                                                      *)
(***************************************************************************)
EXTENDS Integers, WellFoundedInduction, TLAPS

-----------------------------------------------------------------------------
(* BLOCKS AND NUMBERS OF SLOTS                                             *)

(* The code of slot n is a block and an offset within it, and stands for n *)
(* again.                                                                  *)
LEMMA CodeRoundTrip ==
  ASSUME NEW p \in Nat \ {0}, NEW n \in Nat
  PROVE  /\ n \div p \in Nat
         /\ n % p \in 0 .. p - 1
         /\ (n \div p) * p + (n % p) = n
<1>1. n = ((n \div p) * p) + (n % p)  OBVIOUS
<1>2. n % p \in 0 .. p - 1  OBVIOUS
<1>3. n \div p \in Nat  OBVIOUS
<1> QED  BY <1>1, <1>2, <1>3

(* Two codes with the same number are the same code.                       *)
LEMMA CodeUnique ==
  ASSUME NEW p \in Nat, NEW b \in Nat, NEW o \in Nat, NEW c \in Nat, NEW q \in Nat,
         o < p, q < p, b * p + o = c * p + q
  PROVE  b = c /\ o = q
<1>1. ASSUME NEW x \in Nat, NEW y \in Nat, NEW r \in Nat, NEW s \in Nat,
             s < p, x * p + r = y * p + s
      PROVE  ~ x > y
  <2> SUFFICES ASSUME x > y PROVE FALSE  OBVIOUS
  <2>1. PICK d \in Nat : x = y + 1 + d
    <3> WITNESS x - y - 1 \in Nat
    <3> QED  OBVIOUS
  <2>2. x * p = y * p + p + d * p  BY <2>1
  <2>3. d * p \in Nat /\ y * p \in Nat  OBVIOUS
  <2> QED  BY <2>2, <2>3, <1>1
<1>2. ~ b > c  BY <1>1
<1>3. ~ c > b  BY <1>1
<1>4. b = c  BY <1>2, <1>3
<1> QED  BY <1>4

LEMMA Remainder ==
  ASSUME NEW p \in Nat \ {0}, NEW n \in Nat
  PROVE  /\ n < p => n % p = n
         /\ p % p = 0
<1>1. ASSUME NEW q \in Nat, NEW r \in Nat, NEW m \in Nat, m = q * p + r, r < p
      PROVE  m % p = r
  <2>1. m \div p \in Nat /\ m % p \in 0 .. p - 1 /\ (m \div p) * p + (m % p) = m
    BY CodeRoundTrip
  <2>2. PICK c \in Nat, o \in Nat : c = m \div p /\ o = m % p  BY <2>1
  <2>3. o < p /\ c * p + o = q * p + r  BY <1>1, <2>1, <2>2
  <2>4. o = r  BY <1>1, <2>3, CodeUnique
  <2> QED  BY <2>2, <2>4
<1>2. n < p => n % p = n
  <2>1. n = 0 * p + n  OBVIOUS
  <2> QED  BY <1>1, <2>1
<1>3. p % p = 0
  <2>1. p = 1 * p + 0 /\ 0 < p  OBVIOUS
  <2> QED  BY <1>1, <2>1
<1> QED  BY <1>2, <1>3

(* With b blocks of p slots each, as many as n slots need, slot n is in    *)
(* one of them or is the first one of the next.                            *)
LEMMA BlocksFollow ==
  ASSUME NEW p \in Nat \ {0}, NEW b \in Nat, NEW n \in Nat,
         n <= b * p, (b - 1) * p < n \/ b = 0
  PROVE  /\ n \div p = b => n + 1 <= (b + 1) * p /\ b * p < n + 1
         /\ n \div p # b => n + 1 <= b * p /\ (b - 1) * p < n + 1
<1> DEFINE q == n \div p
           r == n % p
<1>1. q \in Nat /\ r \in 0 .. p - 1 /\ q * p + r = n  BY CodeRoundTrip
<1> HIDE DEF q, r
<1>2. q * p \in Nat /\ b * p \in Nat  BY <1>1
<1>3. ~ q > b
  <2> SUFFICES ASSUME q > b PROVE FALSE  OBVIOUS
  <2> DEFINE d == q - b - 1
  <2>1. d \in Nat /\ q = b + 1 + d  BY <1>1
  <2> HIDE DEF d
  <2>2. q * p = b * p + p + d * p  BY <2>1
  <2>3. d * p \in Nat  BY <2>1
  <2> QED  BY <1>1, <1>2, <2>2, <2>3
<1>4. CASE q = b
  <2>1. (b + 1) * p = b * p + p  OBVIOUS
  <2>2. q * p = b * p  BY <1>4
  <2>3. n = b * p + r  BY <1>1, <2>2
  <2>4. n + 1 <= (b + 1) * p /\ b * p < n + 1  BY <1>1, <1>2, <2>1, <2>3
  <2> QED  BY <1>4, <2>4 DEF q
<1>5. CASE q < b
  <2> DEFINE d == b - q - 1
  <2>1. d \in Nat /\ b = q + 1 + d  BY <1>1, <1>5
  <2> HIDE DEF d
  <2>2. b * p = q * p + p + d * p  BY <1>1, <2>1
  <2>3. d * p \in Nat  BY <2>1
  <2>4. n + 1 <= b * p  BY <1>1, <1>2, <2>2, <2>3
  <2>5. (b - 1) * p < n  BY <1>1, <1>5
  <2>6. (b - 1) * p \in Int  OBVIOUS
  <2>7. (b - 1) * p < n + 1  BY <2>5, <2>6
  <2> QED  BY <1>5, <2>4, <2>7 DEF q
<1> QED  BY <1>1, <1>3, <1>4, <1>5

(* A slot that was handed out is in one of the blocks.                     *)
LEMMA BlockIsThere ==
  ASSUME NEW p \in Nat \ {0}, NEW b \in Nat, NEW n \in Nat, n < b * p
  PROVE  n \div p # b
<1> SUFFICES ASSUME n \div p = b PROVE FALSE  OBVIOUS
<1>1. n % p \in 0 .. p - 1 /\ (n \div p) * p + (n % p) = n  BY CodeRoundTrip
<1>2. (n \div p) * p = b * p  OBVIOUS
<1>3. b * p \in Nat  OBVIOUS
<1> QED  BY <1>1, <1>2, <1>3

-----------------------------------------------------------------------------
(* INDUCTION                                                               *)

Below == { pair \in Nat \X Nat : pair[1] < pair[2] }

LEMMA BelowWellFounded == IsWellFoundedOn(Below, Nat)
BY Zenon, NatLessThanWellFounded DEF Below, OpToRel

LEMMA LeastMember ==
  ASSUME NEW T \in SUBSET Nat, T # {}
  PROVE  \E n \in T : \A m \in T : n <= m
<1>1. PICK n \in T : \A m \in T : ~ (<< m, n >> \in Below)
  <2>1. \E n \in T : \A m \in T : ~ (<< m, n >> \in Below)  BY BelowWellFounded, WFMin
  <2> QED  BY <2>1
<1>2. ASSUME NEW m \in T PROVE n <= m
  <2>1. << m, n >> \notin Below  BY <1>1
  <2> QED  BY <2>1 DEF Below
<1> QED  BY <1>2

(* A set of which 0 is a member, and with every number the next, has all   *)
(* of them.                                                                *)
LEMMA SetInduction ==
  ASSUME NEW T, 0 \in T, \A n \in Nat : n \in T => n + 1 \in T
  PROVE  Nat \subseteq T
<1> DEFINE U == { n \in Nat : n \notin T }
<1> SUFFICES ASSUME U # {} PROVE FALSE  OBVIOUS
<1>1. PICK n \in U : \A m \in U : n <= m
  <2> U \in SUBSET Nat  OBVIOUS
  <2> HIDE DEF U
  <2> QED  BY LeastMember
<1>2. n # 0 /\ n \in Nat  OBVIOUS
<1>3. n - 1 \in Nat /\ n - 1 \notin U  BY <1>1, <1>2
<1>4. n - 1 \in T  BY <1>3
<1>5. (n - 1) + 1 \in T  BY <1>3, <1>4
<1> QED  BY <1>2, <1>5

(* f is what there is after each of n steps from x.                        *)
Follows(f, x, step, n) == f[0] = x /\ \A i \in 1 .. n : f[i] = step[f[i - 1]]

(* A step can be taken any number of times.                                *)
LEMMA Repeated ==
  ASSUME NEW S, NEW x \in S, NEW step \in [ S -> S ], NEW n \in Nat
  PROVE  \E f \in [ 0 .. n -> S ] : Follows(f, x, step, n)
<1> DEFINE Good(m, f) == f[0] = x /\ \A i \in 1 .. m : f[i] = step[f[i - 1]]
           T == { m \in Nat : \E f \in [ 0 .. m -> S ] : Good(m, f) }
<1>1. 0 \in T
  <2>1. [ i \in 0 .. 0 |-> x ] \in [ 0 .. 0 -> S ]  OBVIOUS
  <2>2. Good(0, [ i \in 0 .. 0 |-> x ])  OBVIOUS
  <2> QED  BY <2>1, <2>2
<1>2. ASSUME NEW m \in Nat, m \in T PROVE m + 1 \in T
  <2>1. PICK f \in [ 0 .. m -> S ] : Good(m, f)  BY <1>2
  <2>2. PICK g : g = [ i \in 0 .. m + 1 |-> IF i <= m THEN f[i] ELSE step[f[m]] ]  OBVIOUS
  <2>3. g \in [ 0 .. m + 1 -> S ]  BY <2>2
  <2>4. g[0] = x  BY <2>1, <2>2
  <2>5. ASSUME NEW i \in 1 .. m + 1 PROVE g[i] = step[g[i - 1]]
    <3>1. i - 1 \in 0 .. m /\ g[i - 1] = f[i - 1]  BY <2>2
    <3>2. CASE i <= m  BY <2>1, <2>2, <3>1, <3>2
    <3>3. CASE i = m + 1  BY <2>2, <3>1, <3>3
    <3> QED  BY <3>2, <3>3
  <2> QED  BY <2>3, <2>4, <2>5
<1>3. Nat \subseteq T
  <2> HIDE DEF T
  <2> QED  BY <1>1, <1>2, SetInduction
<1>4. n \in T  BY <1>3
<1> QED  BY <1>4 DEF Follows

(* And what every step keeps is true at the end.                           *)
LEMMA Reached ==
  ASSUME NEW S, NEW n \in Nat, NEW f, f[0] \in S,
         \A i \in 1 .. n : f[i - 1] \in S => f[i] \in S
  PROVE  f[n] \in S
<1> DEFINE T == { i \in Nat : i <= n => f[i] \in S }
<1>1. 0 \in T  OBVIOUS
<1>2. ASSUME NEW i \in Nat, i \in T PROVE i + 1 \in T
  <2>1. i + 1 <= n => i + 1 \in 1 .. n /\ (i + 1) - 1 = i /\ i <= n  OBVIOUS
  <2> QED  BY <1>2, <2>1
<1>3. Nat \subseteq T
  <2> HIDE DEF T
  <2> QED  BY <1>1, <1>2, SetInduction
<1> QED  BY <1>3

(* The same from lo up to hi, where each step is another and the results   *)
(* of step i are in S[i].                                                  *)
FollowsBetween(f, x, step, S, lo, hi) ==
  /\ f = [ i \in lo .. hi |-> f[i] ]
  /\ f[lo] = x
  /\ \A i \in lo + 1 .. hi : f[i - 1] \in S[i - 1] /\ f[i] = step[i][f[i - 1]]

LEMMA RepeatedBetween ==
  ASSUME NEW lo \in Nat, NEW hi \in Nat, lo <= hi, NEW S, NEW x, x \in S[lo], NEW step,
         \A i \in lo + 1 .. hi : \A y \in S[i - 1] : step[i][y] \in S[i]
  PROVE  \E f : FollowsBetween(f, x, step, S, lo, hi)
<1> DEFINE Good(m, f) == /\ f = [ i \in lo .. lo + m |-> f[i] ]
                         /\ f[lo] = x
                         /\ \A i \in lo .. lo + m : f[i] \in S[i]
                         /\ \A i \in lo + 1 .. lo + m : f[i] = step[i][f[i - 1]]
           T == { m \in Nat : lo + m <= hi => \E f : Good(m, f) }
<1>1. 0 \in T
  <2>1. PICK f : f = [ i \in lo .. lo |-> x ]  OBVIOUS
  <2>2. f[lo] = x /\ \A i \in lo .. lo + 0 : i = lo  BY <2>1
  <2>3. f = [ i \in lo .. lo + 0 |-> f[i] ]  BY <2>1
  <2>4. Good(0, f)  BY <2>2, <2>3
  <2> QED  BY <2>4
<1>2. ASSUME NEW m \in Nat, m \in T PROVE m + 1 \in T
  <2> SUFFICES ASSUME lo + (m + 1) <= hi PROVE \E f : Good(m + 1, f)  OBVIOUS
  <2>1. PICK f : Good(m, f)  BY <1>2
  <2>2. PICK g : g = [ i \in lo .. lo + (m + 1) |-> IF i <= lo + m THEN f[i]
                                                  ELSE step[i][f[lo + m]] ]
    OBVIOUS
  <2>3. /\ \A i \in lo .. lo + m : i \in lo .. lo + (m + 1) /\ g[i] = f[i]
        /\ g[lo + (m + 1)] = step[lo + (m + 1)][f[lo + m]]
    BY <2>2
  <2>4. g = [ i \in lo .. lo + (m + 1) |-> g[i] ]  BY <2>2
  <2>5. g[lo] = x  BY <2>1, <2>3
  <2>6. ASSUME NEW i \in lo .. lo + (m + 1) PROVE g[i] \in S[i]
    <3>1. CASE i \in lo .. lo + m  BY <2>1, <2>3, <3>1
    <3>2. CASE i = lo + (m + 1)
      <4>1. i \in lo + 1 .. hi /\ i - 1 = lo + m /\ lo + m \in lo .. lo + m  BY <3>2
      <4>2. f[lo + m] \in S[i - 1]  BY <2>1, <4>1
      <4> QED  BY <2>3, <3>2, <4>1, <4>2
    <3> QED  BY <3>1, <3>2
  <2>7. ASSUME NEW i \in lo + 1 .. lo + (m + 1) PROVE g[i] = step[i][g[i - 1]]
    <3>1. i - 1 \in lo .. lo + m /\ g[i - 1] = f[i - 1]
      <4>1. i - 1 \in lo .. lo + m  OBVIOUS
      <4> QED  BY <2>3, <4>1
    <3>2. CASE i \in lo + 1 .. lo + m
      <4>1. f[i] = step[i][f[i - 1]]  BY <2>1, <3>2
      <4>2. i \in lo .. lo + m  BY <3>2
      <4> QED  BY <2>3, <3>1, <4>1, <4>2
    <3>3. CASE i = lo + (m + 1)  BY <2>3, <3>1, <3>3
    <3> QED  BY <3>2, <3>3
  <2>8. Good(m + 1, g)  BY <2>4, <2>5, <2>6, <2>7
  <2> QED  BY <2>8
<1>3. Nat \subseteq T
  <2> HIDE DEF T
  <2> QED  BY <1>1, <1>2, SetInduction
<1>4. hi - lo \in T /\ lo + (hi - lo) = hi  BY <1>3
<1>5. PICK f : Good(hi - lo, f)  BY <1>4
<1>6. \A i \in lo + 1 .. hi : i - 1 \in lo .. hi  OBVIOUS
<1> QED  BY <1>4, <1>5, <1>6 DEF FollowsBetween

LEMMA ReachedBetween ==
  ASSUME NEW lo \in Nat, NEW hi \in Nat, lo <= hi, NEW S, NEW f, f[lo] \in S[lo],
         \A i \in lo + 1 .. hi : f[i - 1] \in S[i - 1] => f[i] \in S[i]
  PROVE  f[hi] \in S[hi]
<1> DEFINE T == { m \in Nat : lo + m <= hi => f[lo + m] \in S[lo + m] }
<1>1. 0 \in T  OBVIOUS
<1>2. ASSUME NEW m \in Nat, m \in T PROVE m + 1 \in T
  <2> SUFFICES ASSUME lo + (m + 1) <= hi PROVE f[lo + (m + 1)] \in S[lo + (m + 1)]  OBVIOUS
  <2>1. lo + (m + 1) \in lo + 1 .. hi /\ (lo + (m + 1)) - 1 = lo + m  OBVIOUS
  <2>2. f[lo + m] \in S[lo + m]  BY <1>2
  <2> QED  BY <2>1, <2>2
<1>3. Nat \subseteq T
  <2> HIDE DEF T
  <2> QED  BY <1>1, <1>2, SetInduction
<1>4. hi - lo \in T /\ lo + (hi - lo) = hi  BY <1>3
<1> QED  BY <1>4

=============================================================================
