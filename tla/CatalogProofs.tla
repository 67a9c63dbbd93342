--------------------------- MODULE CatalogProofs ---------------------------
(***************************************************************************)
(* That archetypes are found: the search stays in its array and misses     *)
(* nothing, the sort puts the index in order, and so every set of          *)
(* components has one archetype, as Directory promises; that its columns   *)
(* do not overlap, and that walks through two arrays find what they have   *)
(* in common.  For every number of archetypes and components, and every    *)
(* size of a byte, a word, a block and the parts sorted by insertion.      *)
(***************************************************************************)
EXTENDS Catalog, Numbers, SequenceTheorems, FiniteSetTheorems

-----------------------------------------------------------------------------
(* THE ORDER OF COMPONENT ARRAYS                                           *)

LEMMA ComponentsAreNumbers == Component \subseteq Nat
BY CatalogAssumption, ByteAssumption

(* No two handles are the same when their bytes are swapped.               *)
LEMMA BytesTellApart ==
  ASSUME NEW c \in Component, NEW d \in Component
  PROVE  /\ LowByteFirst(c) \in Int
         /\ LowByteFirst(c) = LowByteFirst(d) => c = d
<1> DEFINE w == Byte
<1>1. w \in Nat \ {0} /\ c \in Nat /\ d \in Nat /\ c < w * w /\ d < w * w
  <2>1. Byte \in Nat \ {0, 1}  BY ByteAssumption
  <2>2. c \in 0 .. Byte * Byte - 1 /\ d \in 0 .. Byte * Byte - 1  BY CatalogAssumption
  <2>3. Byte * Byte \in Nat  BY <2>1
  <2> QED  BY <2>1, <2>2, <2>3
<1>2. PICK ch \in Nat, cl \in Nat, dh \in Nat, dl \in Nat :
        /\ ch = c \div w /\ cl = c % w /\ dh = d \div w /\ dl = d % w
  <2>1. \A x \in {c, d} : x \div w \in Nat /\ x % w \in 0 .. w - 1  BY <1>1, CodeRoundTrip
  <2>2. \A x \in {c, d} : x \div w \in Nat /\ x % w \in Nat  BY <1>1, <2>1
  <2> QED  BY <2>2
<1>3. /\ cl < w /\ ch * w + cl = c
      /\ dl < w /\ dh * w + dl = d
  BY <1>1, <1>2, CodeRoundTrip
<1>4. ASSUME NEW h \in Nat, NEW l \in Nat, h * w + l < w * w
      PROVE  h < w
  <2> SUFFICES ASSUME h >= w PROVE FALSE  BY <1>1
  <2>1. PICK x \in Nat : h = w + x
    <3>1. h - w \in Nat  BY <1>1
    <3> QED  BY <1>1, <3>1
  <2>2. h * w = w * w + x * w  BY <1>1, <2>1
  <2>3. x * w \in Nat /\ w * w \in Nat  BY <1>1
  <2> QED  BY <1>4, <2>2, <2>3
<1>5. ch < w /\ dh < w  BY <1>1, <1>3, <1>4
<1>6. LowByteFirst(c) = cl * w + ch /\ LowByteFirst(d) = dl * w + dh
  BY <1>2 DEF LowByteFirst
<1>7. cl * w + ch = dl * w + dh => cl = dl /\ ch = dh
  BY <1>1, <1>2, <1>5, CodeUnique
<1> HIDE DEF w
<1>8. cl * w \in Nat  BY <1>1
<1> QED  BY <1>2, <1>3, <1>6, <1>7, <1>8

(* Before is a strict order of arrays, in which any two are comparable.    *)
LEMMA NotBoth ==
  ASSUME NEW a \in Seq(Component), NEW b \in Seq(Component), Before(a, b)
  PROVE  ~ Before(b, a)
<1>1. CASE Len(a) < Len(b)  BY <1>1 DEF Before
<1>2. CASE Len(a) = Len(b)
  <2> SUFFICES ASSUME Before(b, a) PROVE FALSE  OBVIOUS
  <2>1. PICK k \in DOMAIN a : /\ LowByteFirst(a[k]) < LowByteFirst(b[k])
                              /\ \A i \in 1 .. k - 1 : a[i] = b[i]
    BY <1>2 DEF Before
  <2>2. PICK m \in DOMAIN b : /\ LowByteFirst(b[m]) < LowByteFirst(a[m])
                              /\ \A i \in 1 .. m - 1 : b[i] = a[i]
    BY <1>2 DEF Before
  <2>3. k \in 1 .. Len(a) /\ m \in 1 .. Len(a)  BY <1>2
  <2>4. /\ LowByteFirst(a[k]) \in Int /\ LowByteFirst(b[k]) \in Int
        /\ LowByteFirst(a[m]) \in Int /\ LowByteFirst(b[m]) \in Int
    <3>1. a[k] \in Component /\ b[k] \in Component /\ a[m] \in Component /\ b[m] \in Component
      BY <1>2, <2>3
    <3> QED  BY <3>1, BytesTellApart
  <2>5. k = m
    <3>1. CASE k < m  BY <2>1, <2>2, <2>3, <2>4, <3>1
    <3>2. CASE m < k  BY <2>1, <2>2, <2>3, <2>4, <3>2
    <3> QED  BY <2>3, <3>1, <3>2
  <2> QED  BY <2>1, <2>2, <2>4, <2>5
<1> QED  BY <1>1, <1>2 DEF Before

LEMMA OneOrTheOther ==
  ASSUME NEW a \in Seq(Component), NEW b \in Seq(Component), a # b
  PROVE  Before(a, b) \/ Before(b, a)
<1>1. Len(a) \in Nat /\ Len(b) \in Nat  OBVIOUS
<1>2. CASE Len(a) # Len(b)
  <2>1. Len(a) < Len(b) \/ Len(b) < Len(a)  BY <1>1, <1>2
  <2> QED  BY <2>1 DEF Before
<1>3. CASE Len(a) = Len(b)
  <2> DEFINE Apart == { k \in Nat : k \in 1 .. Len(a) /\ a[k] # b[k] }
  <2>1. Apart # {}
    <3> SUFFICES ASSUME \A k \in 1 .. Len(a) : a[k] = b[k] PROVE FALSE  BY <1>1
    <3> QED  BY <1>3, SeqEqual
  <2>2. PICK k \in Apart : \A m \in Apart : k <= m
    <3>1. Apart \in SUBSET Nat  OBVIOUS
    <3> HIDE DEF Apart
    <3> QED  BY <2>1, <3>1, LeastMember
  <2>3. k \in 1 .. Len(a) /\ a[k] # b[k] /\ \A i \in 1 .. k - 1 : a[i] = b[i]
    <3>1. \A i \in 1 .. k - 1 : i \in 1 .. Len(a) /\ ~ (k <= i)  BY <1>1
    <3> QED  BY <2>2, <3>1
  <2>4. a[k] \in Component /\ b[k] \in Component  BY <1>3, <2>3
  <2>5. LowByteFirst(a[k]) # LowByteFirst(b[k])
        /\ LowByteFirst(a[k]) \in Int /\ LowByteFirst(b[k]) \in Int
    BY <2>3, <2>4, BytesTellApart
  <2>6. LowByteFirst(a[k]) < LowByteFirst(b[k]) \/ LowByteFirst(b[k]) < LowByteFirst(a[k])
    BY <2>5
  <2>7. k \in DOMAIN a /\ k \in DOMAIN b  BY <1>3, <2>3
  <2> QED  BY <1>3, <2>3, <2>6, <2>7 DEF Before
<1> QED  BY <1>2, <1>3

LEMMA BeforeGoesOn ==
  ASSUME NEW a \in Seq(Component), NEW b \in Seq(Component), NEW c \in Seq(Component),
         Before(a, b), Before(b, c)
  PROVE  Before(a, c)
<1>1. Len(a) \in Nat /\ Len(b) \in Nat /\ Len(c) \in Nat  OBVIOUS
<1>2. CASE Len(a) < Len(c)  BY <1>2 DEF Before
<1>3. CASE Len(a) = Len(b) /\ Len(b) = Len(c)
  <2>1. PICK k \in DOMAIN a : /\ LowByteFirst(a[k]) < LowByteFirst(b[k])
                              /\ \A i \in 1 .. k - 1 : a[i] = b[i]
    BY <1>1, <1>3 DEF Before
  <2>2. PICK m \in DOMAIN b : /\ LowByteFirst(b[m]) < LowByteFirst(c[m])
                              /\ \A i \in 1 .. m - 1 : b[i] = c[i]
    BY <1>1, <1>3 DEF Before
  <2>3. k \in 1 .. Len(a) /\ m \in 1 .. Len(a)  BY <1>3
  <2>4. \A j \in {k, m} : /\ LowByteFirst(a[j]) \in Int /\ LowByteFirst(b[j]) \in Int
                          /\ LowByteFirst(c[j]) \in Int
    <3>1. \A j \in {k, m} : a[j] \in Component /\ b[j] \in Component /\ c[j] \in Component
      BY <1>3, <2>3
    <3> QED  BY <3>1, BytesTellApart
  <2>5. PICK j \in {k, m} : j <= k /\ j <= m  BY <2>3
  <2>6. j \in DOMAIN a /\ \A i \in 1 .. j - 1 : a[i] = c[i]
    <3>1. \A i \in 1 .. j - 1 : i \in 1 .. k - 1 /\ i \in 1 .. m - 1  BY <2>3, <2>5
    <3> QED  BY <1>3, <2>1, <2>2, <2>3, <3>1
  <2>7. LowByteFirst(a[j]) < LowByteFirst(c[j])
    <3>1. CASE k < m
      <4>1. j = k /\ k \in 1 .. m - 1  BY <2>3, <2>5, <3>1
      <4> QED  BY <2>1, <2>2, <2>4, <4>1
    <3>2. CASE m < k
      <4>1. j = m /\ m \in 1 .. k - 1  BY <2>3, <2>5, <3>2
      <4> QED  BY <2>1, <2>2, <2>4, <4>1
    <3>3. CASE m = k  BY <2>1, <2>2, <2>4, <2>5, <3>3
    <3> QED  BY <2>3, <3>1, <3>2, <3>3
  <2> QED  BY <1>3, <2>6, <2>7 DEF Before
<1>4. Len(a) <= Len(b) /\ Len(b) <= Len(c)  BY <1>1 DEF Before
<1> QED  BY <1>1, <1>2, <1>3, <1>4

(* A comparison as the sort takes it: cmp of what is in D.                 *)
Ordering(cmp, D) ==
  /\ \A x, y \in D : cmp[x][y] \in Int
  /\ \A x \in D : cmp[x][x] = 0
  /\ \A x, y \in D : cmp[x][y] < 0 <=> cmp[y][x] > 0
  /\ \A x, y, z \in D : cmp[x][y] <= 0 /\ cmp[y][z] <= 0 => cmp[x][z] <= 0

LEMMA CompareFacts ==
  ASSUME NEW a \in Seq(Component), NEW b \in Seq(Component)
  PROVE  /\ Compare(a, b) \in Int
         /\ Compare(a, b) = 0 <=> a = b
         /\ Compare(a, b) < 0 <=> Before(a, b)
         /\ Compare(a, b) > 0 <=> Before(b, a)
<1>1. Before(a, b) => ~ Before(b, a)  BY NotBoth
<1>2. a # b => Before(a, b) \/ Before(b, a)  BY OneOrTheOther
<1>3. Before(a, a) => ~ Before(a, a)  BY NotBoth
<1> QED  BY <1>1, <1>2, <1>3 DEF Compare

LEMMA ComponentsOrdered ==
  ASSUME archetype \in [ DOMAIN archetype -> Seq(Component) ]
  PROVE  Ordering(ByComponents, DOMAIN archetype)
<1> DEFINE D == DOMAIN archetype
<1>1. \A x \in D : archetype[x] \in Seq(Component)  OBVIOUS
<1>2. \A x, y \in D : ByComponents[x][y] = Compare(archetype[x], archetype[y])
  BY DEF ByComponents
<1>3. \A x, y \in D : /\ ByComponents[x][y] \in Int
                      /\ ByComponents[x][y] < 0 <=> ByComponents[y][x] > 0
  BY <1>1, <1>2, CompareFacts
<1>4. \A x \in D : ByComponents[x][x] = 0  BY <1>1, <1>2, CompareFacts
<1>5. ASSUME NEW x \in D, NEW y \in D, NEW z \in D,
             ByComponents[x][y] <= 0, ByComponents[y][z] <= 0
      PROVE  ByComponents[x][z] <= 0
  <2>1. PICK a \in Seq(Component), b \in Seq(Component), c \in Seq(Component) :
          a = archetype[x] /\ b = archetype[y] /\ c = archetype[z]
    BY <1>1
  <2>2. a = b \/ Before(a, b)  BY <1>2, <1>5, <2>1, CompareFacts, OneOrTheOther
  <2>3. b = c \/ Before(b, c)  BY <1>2, <1>5, <2>1, CompareFacts, OneOrTheOther
  <2>4. a = c \/ Before(a, c)  BY <2>2, <2>3, BeforeGoesOn
  <2>5. Compare(a, c) \in Int /\ (Compare(a, c) = 0 \/ Compare(a, c) < 0)  BY <2>4, CompareFacts
  <2> QED  BY <1>2, <2>1, <2>5
<1> QED  BY <1>3, <1>4, <1>5 DEF Ordering

-----------------------------------------------------------------------------
(* ARRAYS REARRANGED                                                       *)

(* Each element of S is put in the place of one other.                     *)
Shuffles(S) == { p \in [ S -> S ] : /\ \A i, j \in S : p[i] = p[j] => i = j
                                   /\ \A j \in S : \E i \in S : p[i] = j }

LEMMA ShufflesAreBijections == ASSUME NEW S PROVE Bijection(S, S) = Shuffles(S)
BY DEF Shuffles, Bijection, Injection, Surjection, IsInjective

(* Any array of numbers can be put in order: the last is put behind those  *)
(* that are not greater.                                                   *)
LEMMA OneMoreArranged ==
  ASSUME NEW n \in Nat, NEW all \in [ 1 .. n + 1 -> Nat ],
         NEW p \in Shuffles(1 .. n),
         \A i, j \in 1 .. n : i < j => all[p[i]] <= all[p[j]]
  PROVE  \E q \in Shuffles(1 .. n + 1) :
           \A i, j \in 1 .. n + 1 : i < j => all[q[i]] <= all[q[j]]
<1> DEFINE x == all[n + 1]
           Greater == { k \in Nat : k \in 1 .. n + 1 /\ (k # n + 1 => all[p[k]] > x) }
<1>1. /\ p \in [ 1 .. n -> 1 .. n ]
      /\ \A i, j \in 1 .. n : p[i] = p[j] => i = j
      /\ \A j \in 1 .. n : \E i \in 1 .. n : p[i] = j
  BY DEF Shuffles
<1>2. x \in Nat /\ \A i \in 1 .. n : p[i] \in 1 .. n /\ all[p[i]] \in Nat
  <2>1. \A i \in 1 .. n + 1 : all[i] \in Nat  OBVIOUS
  <2>2. n + 1 \in 1 .. n + 1 /\ \A i \in 1 .. n : i \in 1 .. n + 1  OBVIOUS
  <2>3. \A i \in 1 .. n : p[i] \in 1 .. n  BY <1>1
  <2> QED  BY <2>1, <2>2, <2>3
<1>3. PICK m \in Greater : \A k \in Greater : m <= k
  <2>1. n + 1 \in Greater /\ Greater \in SUBSET Nat  OBVIOUS
  <2> HIDE DEF Greater
  <2> QED  BY <2>1, LeastMember
<1>4. m \in 1 .. n + 1 /\ (m # n + 1 => all[p[m]] > x)  BY <1>3
<1>5. \A i \in 1 .. m - 1 : i \in 1 .. n /\ all[p[i]] <= x
  <2> SUFFICES ASSUME NEW i \in 1 .. m - 1 PROVE i \in 1 .. n /\ all[p[i]] <= x  OBVIOUS
  <2>1. i \in 1 .. n  BY <1>4
  <2>2. i \notin Greater  BY <1>3, <1>4
  <2> QED  BY <1>2, <2>1, <2>2
<1>6. \A i \in m .. n : all[p[i]] > x
  <2> SUFFICES ASSUME NEW i \in m .. n PROVE all[p[i]] > x  OBVIOUS
  <2>1. m \in 1 .. n /\ i \in 1 .. n  BY <1>4
  <2>2. all[p[m]] <= all[p[i]]
    <3>1. m < i => all[p[m]] <= all[p[i]]  BY <2>1
    <3> QED  BY <1>2, <2>1, <3>1
  <2> QED  BY <1>2, <1>4, <2>1, <2>2
<1> HIDE DEF Greater
<1>7. PICK q : q = [ i \in 1 .. n + 1 |-> IF i < m THEN p[i]
                                        ELSE IF i = m THEN n + 1 ELSE p[i - 1] ]
  OBVIOUS
<1>8. /\ \A i \in 1 .. m - 1 : i \in 1 .. n /\ q[i] = p[i]
      /\ q[m] = n + 1
      /\ \A i \in m + 1 .. n + 1 : i - 1 \in m .. n /\ i - 1 \in 1 .. n /\ q[i] = p[i - 1]
  BY <1>4, <1>7
<1>9. q \in [ 1 .. n + 1 -> 1 .. n + 1 ]  BY <1>2, <1>4, <1>7
<1>10. \A i \in 1 .. n + 1 : i \in 1 .. m - 1 \/ i = m \/ i \in m + 1 .. n + 1  BY <1>4
<1>11. ASSUME NEW i \in 1 .. n + 1, NEW j \in 1 .. n + 1, q[i] = q[j]
       PROVE  i = j
  <2>1. \A k \in 1 .. n : p[k] # n + 1
    <3> SUFFICES ASSUME NEW k \in 1 .. n PROVE p[k] # n + 1  OBVIOUS
    <3>1. p[k] \in 1 .. n  BY <1>2
    <3> QED  BY <3>1
  <2>2. CASE i = m \/ j = m
    <3>1. \A k \in 1 .. n + 1 : k # m => q[k] # n + 1  BY <1>8, <1>10, <2>1
    <3> QED  BY <1>8, <1>11, <2>2, <3>1
  <2>3. CASE i \in 1 .. m - 1 /\ j \in 1 .. m - 1  BY <1>1, <1>8, <1>11, <2>3
  <2>4. CASE i \in 1 .. m - 1 /\ j \in m + 1 .. n + 1
    <3>1. i = j - 1  BY <1>1, <1>8, <1>11, <2>4
    <3> QED  BY <1>4, <2>4, <3>1
  <2>5. CASE i \in m + 1 .. n + 1 /\ j \in 1 .. m - 1
    <3>1. j = i - 1  BY <1>1, <1>8, <1>11, <2>5
    <3> QED  BY <1>4, <2>5, <3>1
  <2>6. CASE i \in m + 1 .. n + 1 /\ j \in m + 1 .. n + 1
    <3>1. i - 1 = j - 1  BY <1>1, <1>8, <1>11, <2>6
    <3> QED  BY <3>1
  <2> QED  BY <1>10, <2>2, <2>3, <2>4, <2>5, <2>6
<1>12. ASSUME NEW j \in 1 .. n + 1
       PROVE  \E i \in 1 .. n + 1 : q[i] = j
  <2>1. CASE j = n + 1  BY <1>4, <1>8, <2>1
  <2>2. CASE j \in 1 .. n
    <3>1. PICK k \in 1 .. n : p[k] = j  BY <1>1, <2>2
    <3>2. CASE k < m  BY <1>7, <3>1, <3>2
    <3>3. CASE k >= m
      <4>1. k + 1 \in 1 .. n + 1 /\ ~ (k + 1 < m) /\ k + 1 # m /\ (k + 1) - 1 = k
        BY <1>4, <3>3
      <4> QED  BY <1>7, <3>1, <4>1
    <3> QED  BY <1>4, <3>2, <3>3
  <2> QED  BY <2>1, <2>2
<1>13. ASSUME NEW i \in 1 .. n + 1, NEW j \in 1 .. n + 1, i < j
       PROVE  all[q[i]] <= all[q[j]]
  <2>1. CASE i \in 1 .. m - 1 /\ j \in 1 .. m - 1  BY <1>8, <1>13, <2>1
  <2>2. CASE i \in 1 .. m - 1 /\ j = m  BY <1>5, <1>8, <2>2
  <2>3. CASE i \in 1 .. m - 1 /\ j \in m + 1 .. n + 1
    <3>1. all[p[i]] <= x /\ all[p[j - 1]] > x /\ i \in 1 .. n /\ j - 1 \in 1 .. n
      BY <1>5, <1>6, <1>8, <2>3
    <3>2. all[p[i]] <= all[p[j - 1]]  BY <1>2, <3>1
    <3> QED  BY <1>8, <2>3, <3>2
  <2>4. CASE i = m /\ j \in m + 1 .. n + 1
    <3>1. all[p[j - 1]] > x /\ j - 1 \in 1 .. n  BY <1>6, <1>8, <2>4
    <3>2. x <= all[p[j - 1]]  BY <1>2, <3>1
    <3> QED  BY <1>8, <2>4, <3>2
  <2>5. CASE i \in m + 1 .. n + 1 /\ j \in m + 1 .. n + 1
    <3>1. i - 1 < j - 1  BY <1>13
    <3> QED  BY <1>8, <2>5, <3>1
  <2> QED  BY <1>4, <1>10, <1>13, <2>1, <2>2, <2>3, <2>4, <2>5
<1> QED  BY <1>9, <1>11, <1>12, <1>13 DEF Shuffles

LEMMA ArrangedThere ==
  ASSUME NEW n \in Nat, NEW all \in [ 1 .. n -> Nat ]
  PROVE  \E p \in Shuffles(1 .. n) : \A i, j \in 1 .. n : i < j => all[p[i]] <= all[p[j]]
<1> DEFINE Ascends(m, s, p) == \A i, j \in 1 .. m : i < j => s[p[i]] <= s[p[j]]
           T == { m \in Nat : \A s \in [ 1 .. m -> Nat ] :
                                 \E p \in Shuffles(1 .. m) : Ascends(m, s, p) }
<1>1. 0 \in T
  <2> SUFFICES ASSUME NEW s \in [ 1 .. 0 -> Nat ]
               PROVE  \E p \in Shuffles(1 .. 0) : Ascends(0, s, p)
    OBVIOUS
  <2>1. [ i \in 1 .. 0 |-> i ] \in Shuffles(1 .. 0)  BY DEF Shuffles
  <2> QED  BY <2>1
<1>2. ASSUME NEW m \in Nat, m \in T PROVE m + 1 \in T
  <2> SUFFICES ASSUME NEW s \in [ 1 .. m + 1 -> Nat ]
               PROVE  \E p \in Shuffles(1 .. m + 1) : Ascends(m + 1, s, p)
    OBVIOUS
  <2>1. PICK t : t = [ i \in 1 .. m |-> s[i] ]  OBVIOUS
  <2>2. t \in [ 1 .. m -> Nat ]  BY <2>1
  <2>3. PICK p \in Shuffles(1 .. m) : Ascends(m, t, p)  BY <1>2, <2>2
  <2>4. \A i \in 1 .. m : p[i] \in 1 .. m /\ t[p[i]] = s[p[i]]  BY <2>1 DEF Shuffles
  <2>5. \A i, j \in 1 .. m : i < j => s[p[i]] <= s[p[j]]  BY <2>3, <2>4
  <2> QED  BY <2>5, OneMoreArranged
<1>3. Nat \subseteq T
  <2> HIDE DEF T
  <2> QED  BY <1>1, <1>2, SetInduction
<1> QED  BY <1>3

(* The array of a component set is an arrangement of what it is made of.   *)
LEMMA InitSetArranges ==
  ASSUME NEW a \in Seq(Component), NEW b \in Seq(Component)
  PROVE  /\ InitSet(a, b) \in Seq(Component)
         /\ Len(InitSet(a, b)) = Len(a) + Len(b)
         /\ \E p \in Shuffles(1 .. Len(a \o b)) :
              /\ Arranged(a \o b, p)
              /\ InitSet(a, b) = [ k \in 1 .. Len(a \o b) |-> (a \o b)[p[k]] ]
<1>1. PICK all \in Seq(Component) : all = a \o b /\ Len(all) = Len(a) + Len(b)
  BY ConcatProperties
<1>2. PICK n \in Nat : n = Len(all) /\ DOMAIN all = 1 .. n  OBVIOUS
<1>3. \E p \in Bijection(DOMAIN all, DOMAIN all) : Arranged(all, p)
  <2>1. all \in [ 1 .. n -> Nat ]
    <3>1. all \in [ 1 .. n -> Component ]  BY <1>2
    <3> QED  BY <3>1, ComponentsAreNumbers
  <2>2. PICK p \in Shuffles(1 .. n) : \A i, j \in 1 .. n : i < j => all[p[i]] <= all[p[j]]
    BY <2>1, ArrangedThere
  <2>3. Arranged(all, p)  BY <1>2, <2>2 DEF Arranged
  <2> QED  BY <1>2, <2>2, <2>3, ShufflesAreBijections
<1>4. PICK p : /\ p = CHOOSE q \in Bijection(DOMAIN all, DOMAIN all) : Arranged(all, q)
               /\ p \in Shuffles(1 .. n) /\ Arranged(all, p)
  BY <1>2, <1>3, ShufflesAreBijections
<1>5. InitSet(a, b) = [ k \in 1 .. n |-> all[p[k]] ]  BY <1>1, <1>2, <1>4 DEF InitSet
<1>6. \A k \in 1 .. n : p[k] \in 1 .. n  BY <1>4 DEF Shuffles
<1>7. InitSet(a, b) \in [ 1 .. n -> Component ]  BY <1>1, <1>2, <1>5, <1>6
<1>8. InitSet(a, b) \in Seq(Component) /\ Len(InitSet(a, b)) = n
  <2>1. PICK new \in [ 1 .. n -> Component ] : new = InitSet(a, b)  BY <1>7
  <2>2. new \in Seq(Component)  BY SeqDef
  <2>3. Len(new) = n
    <3>1. DOMAIN new = 1 .. Len(new) /\ Len(new) \in Nat  BY <2>2, LenProperties
    <3> QED  BY <3>1
  <2> QED  BY <2>1, <2>2, <2>3
<1>9. Len(InitSet(a, b)) = Len(a) + Len(b)  BY <1>1, <1>2, <1>8
<1>10. \E q \in Shuffles(1 .. Len(all)) : /\ Arranged(all, q)
                                          /\ InitSet(a, b) = [ k \in 1 .. Len(all) |-> all[q[k]] ]
  BY <1>2, <1>4, <1>5
<1> QED  BY <1>1, <1>8, <1>9, <1>10, Zenon

(* What is in part changed places, and nothing else.                       *)
Rearranged(old, new, part) ==
  \E p \in Shuffles(DOMAIN old) :
    /\ new = [ k \in DOMAIN old |-> old[p[k]] ]
    /\ \A k \in DOMAIN old : IF k \in part THEN p[k] \in part ELSE p[k] = k

Once(array, a) ==
  \E k \in DOMAIN array : array[k] = a /\ \A m \in DOMAIN array \ {k} : array[m] # a

LEMMA NothingRearranged ==
  ASSUME NEW S, NEW D, NEW array \in [ S -> D ], NEW part
  PROVE  Rearranged(array, array, part)
<1>1. PICK p : p = [ k \in S |-> k ]  OBVIOUS
<1>2. p \in Shuffles(S)  BY <1>1 DEF Shuffles
<1>3. array = [ k \in S |-> array[p[k]] ]  BY <1>1
<1> QED  BY <1>1, <1>2, <1>3 DEF Rearranged

LEMMA ShuffledTwice ==
  ASSUME NEW S, NEW p \in Shuffles(S), NEW q \in Shuffles(S)
  PROVE  [ k \in S |-> p[q[k]] ] \in Shuffles(S)
<1>1. PICK r : r = [ k \in S |-> p[q[k]] ]  OBVIOUS
<1>2. /\ p \in [ S -> S ] /\ \A i, j \in S : p[i] = p[j] => i = j
      /\ \A j \in S : \E i \in S : p[i] = j
  BY DEF Shuffles
<1>3. /\ q \in [ S -> S ] /\ \A i, j \in S : q[i] = q[j] => i = j
      /\ \A j \in S : \E i \in S : q[i] = j
  BY DEF Shuffles
<1>4. r \in [ S -> S ] /\ \A i, j \in S : r[i] = r[j] => i = j  BY <1>1, <1>2, <1>3
<1>5. ASSUME NEW j \in S PROVE \E i \in S : r[i] = j
  <2>1. PICK m \in S : p[m] = j  BY <1>2
  <2>2. PICK i \in S : q[i] = m  BY <1>3
  <2> QED  BY <1>1, <2>1, <2>2
<1> QED  BY <1>1, <1>4, <1>5 DEF Shuffles

LEMMA RearrangedTwice ==
  ASSUME NEW S, NEW D, NEW old \in [ S -> D ], NEW mid, NEW new, NEW part,
         Rearranged(old, mid, part), Rearranged(mid, new, part)
  PROVE  Rearranged(old, new, part)
<1>1. PICK p \in Shuffles(S) :
        /\ mid = [ k \in S |-> old[p[k]] ]
        /\ \A k \in S : IF k \in part THEN p[k] \in part ELSE p[k] = k
  BY DEF Rearranged
<1>2. DOMAIN mid = S  BY <1>1
<1>3. PICK q \in Shuffles(S) :
        /\ new = [ k \in S |-> mid[q[k]] ]
        /\ \A k \in S : IF k \in part THEN q[k] \in part ELSE q[k] = k
  BY <1>2 DEF Rearranged
<1>4. PICK r : r = [ k \in S |-> p[q[k]] ]  OBVIOUS
<1>5. r \in Shuffles(S)  BY <1>4, ShuffledTwice
<1>6. \A k \in S : q[k] \in S  BY DEF Shuffles
<1>7. new = [ k \in S |-> old[r[k]] ]  BY <1>1, <1>3, <1>4, <1>6
<1>8. \A k \in S : IF k \in part THEN r[k] \in part ELSE r[k] = k
  BY <1>1, <1>3, <1>4, <1>6
<1> QED  BY <1>5, <1>7, <1>8 DEF Rearranged

LEMMA RearrangedOnce ==
  ASSUME NEW S, NEW D, NEW old \in [ S -> D ], NEW new, NEW part,
         Rearranged(old, new, part)
  PROVE  /\ new \in [ S -> D ]
         /\ \A a : Once(old, a) => Once(new, a)
<1>1. PICK p \in Shuffles(S) : new = [ k \in S |-> old[p[k]] ]  BY DEF Rearranged
<1>2. /\ p \in [ S -> S ] /\ \A i, j \in S : p[i] = p[j] => i = j
      /\ \A j \in S : \E i \in S : p[i] = j
  BY DEF Shuffles
<1>3. new \in [ S -> D ] /\ \A k \in S : new[k] = old[p[k]] /\ p[k] \in S  BY <1>1, <1>2
<1>4. ASSUME NEW a, Once(old, a) PROVE Once(new, a)
  <2>1. PICK k \in S : old[k] = a /\ \A m \in S \ {k} : old[m] # a  BY <1>4 DEF Once
  <2>2. PICK i \in S : p[i] = k  BY <1>2
  <2>3. new[i] = a  BY <1>3, <2>1, <2>2
  <2>4. ASSUME NEW m \in S \ {i} PROVE new[m] # a
    <3>1. p[m] # k /\ p[m] \in S  BY <1>2, <2>2
    <3> QED  BY <1>3, <2>1, <3>1
  <2> QED  BY <1>3, <2>3, <2>4 DEF Once
<1> QED  BY <1>3, <1>4

(* _swap                                                                   *)
LEMMA SwapRearranges ==
  ASSUME NEW S, NEW D, NEW array \in [ S -> D ], NEW first \in Nat, NEW last \in Nat,
         first .. last \subseteq S, NEW i \in first .. last, NEW j \in first .. last,
         NEW new, new = Swap(array, i, j)
  PROVE  Rearranged(array, new, first .. last)
<1> i \in S /\ j \in S  OBVIOUS
<1>1. PICK p : p = [ k \in S |-> IF k = i THEN j ELSE IF k = j THEN i ELSE k ]  OBVIOUS
<1>2. p \in Shuffles(S)
  <2>1. p \in [ S -> S ] /\ \A k \in S : p[p[k]] = k  BY <1>1
  <2>2. \A k, m \in S : p[k] = p[m] => k = m  BY <2>1
  <2> QED  BY <2>1, <2>2 DEF Shuffles
<1>3. /\ new \in [ S -> D ] /\ new[i] = array[j] /\ new[j] = array[i]
      /\ \A k \in S \ {i, j} : new[k] = array[k]
  BY DEF Swap
<1>4. new = [ k \in S |-> array[p[k]] ]  BY <1>1, <1>3
<1> QED  BY <1>1, <1>2, <1>3, <1>4 DEF Rearranged

-----------------------------------------------------------------------------
(* PARTITION AND INSERTION SORT                                            *)

LEMMA ScannedIs ==
  ASSUME NEW cmp, NEW scan, NEW j, NEW last
  PROVE  Scanned(cmp, scan, j, last) =
           IF cmp[scan.array[j]][scan.array[last]] < 0
             THEN [ array |-> Swap(scan.array, scan.at, j), at |-> scan.at + 1 ]
             ELSE scan
BY DEF Scanned, With

(* Where the scan of _partition is before it looks at j: what is less than *)
(* the last element of the part is below at, the rest up to j is not.      *)
ScanAt(S, D, cmp, array, first, last, j) ==
  { scan \in [ array : [ S -> D ], at : first .. j ] :
      /\ Rearranged(array, scan.array, first .. last)
      /\ scan.array[last] = array[last]
      /\ \A k \in first .. scan.at - 1 : cmp[scan.array[k]][array[last]] <= 0
      /\ \A k \in scan.at .. j - 1 : cmp[array[last]][scan.array[k]] <= 0 }

LEMMA ScanGoesOn ==
  ASSUME NEW S, NEW D, NEW cmp, Ordering(cmp, D), NEW array \in [ S -> D ],
         NEW first \in Nat, NEW last \in Nat, first .. last \subseteq S,
         NEW j \in first .. last - 1, NEW scan \in ScanAt(S, D, cmp, array, first, last, j)
  PROVE  Scanned(cmp, scan, j, last) \in ScanAt(S, D, cmp, array, first, last, j + 1)
<1>1. /\ scan \in [ array : [ S -> D ], at : first .. j ]
      /\ Rearranged(array, scan.array, first .. last)
      /\ scan.array[last] = array[last]
      /\ \A k \in first .. scan.at - 1 : cmp[scan.array[k]][array[last]] <= 0
      /\ \A k \in scan.at .. j - 1 : cmp[array[last]][scan.array[k]] <= 0
  BY DEF ScanAt
<1>2. PICK a \in [ S -> D ], at \in first .. j : scan = [ array |-> a, at |-> at ]
  BY <1>1
<1>3. j \in S /\ last \in S /\ at \in S /\ j \in first .. last /\ at \in first .. last  BY <1>2
<1>4. PICK x \in D, pivot \in D : x = a[j] /\ pivot = array[last]  BY <1>3
<1>5. a[last] = pivot  BY <1>1, <1>2, <1>4
<1>6. CASE cmp[x][pivot] < 0
  <2>1. PICK b : b = Swap(a, at, j)  OBVIOUS
  <2>2. /\ b \in [ S -> D ] /\ b[at] = a[j] /\ b[j] = a[at]
        /\ \A k \in S \ {at, j} : b[k] = a[k]
        /\ Rearranged(a, b, first .. last)
    <3>1. Rearranged(a, b, first .. last)  BY <1>3, <2>1, SwapRearranges
    <3>2. /\ b \in [ S -> D ] /\ b[at] = a[j] /\ b[j] = a[at]
          /\ \A k \in S \ {at, j} : b[k] = a[k]
      BY <1>3, <2>1 DEF Swap
    <3> QED  BY <3>1, <3>2
  <2>3. Scanned(cmp, scan, j, last) = [ array |-> b, at |-> at + 1 ]
    BY <1>2, <1>4, <1>5, <1>6, <2>1, ScannedIs
  <2>4. at + 1 \in first .. j + 1  BY <1>2
  <2>5. Rearranged(array, b, first .. last)  BY <1>1, <1>2, <2>2, RearrangedTwice
  <2>6. b[last] = pivot  BY <1>2, <1>3, <1>5, <2>2
  <2>7. ASSUME NEW k \in first .. (at + 1) - 1 PROVE cmp[b[k]][pivot] <= 0
    <3>1. CASE k = at
      <4>1. cmp[x][pivot] \in Int  BY DEF Ordering
      <4> QED  BY <1>4, <1>6, <2>2, <3>1, <4>1
    <3>2. CASE k # at
      <4>1. k \in first .. at - 1 /\ k \in S /\ k # j  BY <1>2, <1>3, <3>2
      <4>2. cmp[a[k]][pivot] <= 0  BY <1>1, <1>2, <1>4, <4>1
      <4> QED  BY <2>2, <3>2, <4>1, <4>2
    <3> QED  BY <3>1, <3>2
  <2>8. ASSUME NEW k \in at + 1 .. (j + 1) - 1 PROVE cmp[pivot][b[k]] <= 0
    <3>1. CASE k = j
      <4>1. at \in at .. j - 1  BY <1>2, <3>1
      <4>2. cmp[pivot][a[at]] <= 0  BY <1>1, <1>2, <1>4, <4>1
      <4> QED  BY <2>2, <3>1, <4>2
    <3>2. CASE k # j
      <4>1. k \in at .. j - 1 /\ k \in S /\ k # at  BY <1>2, <1>3, <3>2
      <4>2. cmp[pivot][a[k]] <= 0  BY <1>1, <1>2, <1>4, <4>1
      <4> QED  BY <2>2, <3>2, <4>1, <4>2
    <3> QED  BY <3>1, <3>2
  <2>9. [ array |-> b, at |-> at + 1 ] \in [ array : [ S -> D ], at : first .. j + 1 ]
    BY <2>2, <2>4
  <2> QED  BY <1>4, <2>3, <2>5, <2>6, <2>7, <2>8, <2>9 DEF ScanAt
<1>7. CASE ~ (cmp[x][pivot] < 0)
  <2>1. Scanned(cmp, scan, j, last) = scan  BY <1>2, <1>4, <1>5, <1>7, ScannedIs
  <2>2. scan \in [ array : [ S -> D ], at : first .. j + 1 ]
    <3>1. at \in first .. j + 1  BY <1>2
    <3> QED  BY <1>2, <3>1
  <2>3. cmp[pivot][x] <= 0
    <3>1. cmp[x][pivot] \in Int /\ cmp[pivot][x] \in Int /\ (cmp[x][pivot] < 0 <=> cmp[pivot][x] > 0)
      BY DEF Ordering
    <3> QED  BY <1>7, <3>1
  <2>4. ASSUME NEW k \in at .. (j + 1) - 1 PROVE cmp[pivot][a[k]] <= 0
    <3>1. CASE k = j  BY <1>4, <2>3, <3>1
    <3>2. CASE k # j
      <4>1. k \in at .. j - 1  BY <1>2, <3>2
      <4> QED  BY <1>1, <1>2, <1>4, <4>1
    <3> QED  BY <3>1, <3>2
  <2> QED  BY <1>1, <1>2, <1>4, <2>1, <2>2, <2>4 DEF ScanAt
<1> QED  BY <1>6, <1>7

LEMMA ScanEnds ==
  ASSUME NEW S, NEW D, NEW cmp, Ordering(cmp, D), NEW array \in [ S -> D ],
         NEW first \in Nat, NEW last \in Nat, first <= last, first .. last \subseteq S
  PROVE  ScanOf(cmp, array, first, last)[last] \in ScanAt(S, D, cmp, array, first, last, last)
<1>1. PICK at : at = [ j \in first .. last |-> ScanAt(S, D, cmp, array, first, last, j) ]
  OBVIOUS
<1>2. PICK start : start = [ array |-> array, at |-> first ]  OBVIOUS
<1>3. start \in at[first]
  <2>1. start \in [ array : [ S -> D ], at : first .. first ]  BY <1>2
  <2>2. Rearranged(array, array, first .. last)  BY NothingRearranged
  <2> QED  BY <1>1, <1>2, <2>1, <2>2 DEF ScanAt
<1>4. PICK step : step = [ j \in first + 1 .. last |->
                             [ x \in at[j - 1] |-> Scanned(cmp, x, j - 1, last) ] ]
  OBVIOUS
<1>5. ASSUME NEW j \in first + 1 .. last, NEW x \in at[j - 1]
      PROVE  step[j][x] = Scanned(cmp, x, j - 1, last) /\ step[j][x] \in at[j]
  <2>1. j - 1 \in first .. last - 1 /\ j - 1 \in first .. last /\ (j - 1) + 1 = j
        /\ j \in first .. last
    OBVIOUS
  <2>2. x \in ScanAt(S, D, cmp, array, first, last, j - 1)  BY <1>1, <2>1
  <2>3. Scanned(cmp, x, j - 1, last) \in at[j]  BY <1>1, <2>1, <2>2, ScanGoesOn
  <2> QED  BY <1>4, <2>3
<1>6. PICK f : FollowsBetween(f, start, step, at, first, last)
  <2>1. \A j \in first + 1 .. last : \A x \in at[j - 1] : step[j][x] \in at[j]  BY <1>5
  <2> QED  BY <1>3, <2>1, RepeatedBetween
<1>7. f = [ j \in first .. last |-> IF j = first THEN [ array |-> array, at |-> first ]
                                   ELSE Scanned(cmp, f[j - 1], j - 1, last) ]
  <2>1. ASSUME NEW j \in first .. last, j # first
        PROVE  f[j] = Scanned(cmp, f[j - 1], j - 1, last)
    <3>1. j \in first + 1 .. last  BY <2>1
    <3> QED  BY <1>5, <1>6, <3>1 DEF FollowsBetween
  <2> QED  BY <1>2, <1>6, <2>1 DEF FollowsBetween
<1>8. PICK g : /\ g = [ j \in first .. last |-> IF j = first THEN [ array |-> array, at |-> first ]
                                              ELSE Scanned(cmp, g[j - 1], j - 1, last) ]
               /\ ScanOf(cmp, array, first, last) = g
  BY <1>7 DEF ScanOf
<1>9. g[first] \in at[first]  BY <1>2, <1>3, <1>8
<1>10. ASSUME NEW j \in first + 1 .. last, g[j - 1] \in at[j - 1] PROVE g[j] \in at[j]
  <2>1. j \in first .. last /\ j # first  OBVIOUS
  <2> QED  BY <1>5, <1>8, <1>10, <2>1
<1>11. g[last] \in at[last]  BY <1>9, <1>10, ReachedBetween
<1> QED  BY <1>1, <1>8, <1>11

(* What a partition is to do: the element that was last is where it        *)
(* belongs.                                                                *)
SplitAt(cmp, old, split, first, last) ==
  /\ split.at \in first .. last
  /\ Rearranged(old, split.array, first .. last)
  /\ \A k \in first .. split.at - 1 : cmp[split.array[k]][split.array[split.at]] <= 0
  /\ \A k \in split.at + 1 .. last : cmp[split.array[split.at]][split.array[k]] <= 0

LEMMA PartitionSplits ==
  ASSUME NEW S, NEW D, NEW cmp, Ordering(cmp, D), NEW array \in [ S -> D ],
         NEW first \in Nat, NEW last \in Nat, first <= last, first .. last \subseteq S
  PROVE  SplitAt(cmp, array, Partition(cmp, array, first, last), first, last)
<1>1. PICK scan : scan = ScanOf(cmp, array, first, last)[last]  OBVIOUS
<1>2. scan \in ScanAt(S, D, cmp, array, first, last, last)  BY <1>1, ScanEnds
<1>3. /\ scan \in [ array : [ S -> D ], at : first .. last ]
      /\ Rearranged(array, scan.array, first .. last)
      /\ scan.array[last] = array[last]
      /\ \A k \in first .. scan.at - 1 : cmp[scan.array[k]][array[last]] <= 0
      /\ \A k \in scan.at .. last - 1 : cmp[array[last]][scan.array[k]] <= 0
  BY <1>2 DEF ScanAt
<1>4. PICK a \in [ S -> D ], at \in first .. last : scan = [ array |-> a, at |-> at ]
  BY <1>3
<1>5. at \in S /\ last \in S /\ last \in first .. last  OBVIOUS
<1>6. PICK b : b = Swap(a, at, last)  OBVIOUS
<1>7. Partition(cmp, array, first, last) = [ array |-> b, at |-> at ]
  <2>1. Partition(cmp, array, first, last) = [ scan EXCEPT !.array = Swap(@, scan.at, last) ]
    BY <1>1 DEF Partition, With
  <2> QED  BY <1>4, <1>6, <2>1
<1>8. /\ b \in [ S -> D ] /\ b[at] = a[last] /\ b[last] = a[at]
      /\ \A k \in S \ {at, last} : b[k] = a[k]
      /\ Rearranged(a, b, first .. last)
  <2>1. Rearranged(a, b, first .. last)  BY <1>5, <1>6, SwapRearranges
  <2>2. /\ b \in [ S -> D ] /\ b[at] = a[last] /\ b[last] = a[at]
        /\ \A k \in S \ {at, last} : b[k] = a[k]
    BY <1>5, <1>6 DEF Swap
  <2> QED  BY <2>1, <2>2
<1>9. Rearranged(array, b, first .. last)  BY <1>3, <1>4, <1>8, RearrangedTwice
<1>10. b[at] = array[last]  BY <1>3, <1>4, <1>8
<1>11. ASSUME NEW k \in first .. at - 1 PROVE cmp[b[k]][b[at]] <= 0
  <2>1. k \in S /\ k # at /\ k # last  BY <1>4
  <2> QED  BY <1>3, <1>4, <1>8, <1>10, <2>1
<1>12. ASSUME NEW k \in at + 1 .. last PROVE cmp[b[at]][b[k]] <= 0
  <2>1. CASE k = last
    <3>1. at \in at .. last - 1  BY <1>12, <2>1
    <3> QED  BY <1>3, <1>4, <1>8, <1>10, <2>1, <3>1
  <2>2. CASE k # last
    <3>1. k \in S /\ k # at /\ k \in at .. last - 1  BY <1>12, <2>2
    <3> QED  BY <1>3, <1>4, <1>8, <1>10, <2>2, <3>1
  <2> QED  BY <2>1, <2>2
<1> QED  BY <1>7, <1>9, <1>11, <1>12 DEF SplitAt

LEMMA StopThere ==
  ASSUME NEW S, NEW D, NEW cmp, Ordering(cmp, D), NEW array \in [ S -> D ],
         NEW i \in Nat, 0 .. i \subseteq S
  PROVE  /\ StopOf(cmp, array, i) \in 0 .. i
         /\ StopOf(cmp, array, i) > 0 => cmp[array[StopOf(cmp, array, i) - 1]][array[i]] <= 0
         /\ \A m \in StopOf(cmp, array, i) + 1 .. i : cmp[array[m - 1]][array[i]] > 0
<1> DEFINE Greater(j) == \A m \in j + 1 .. i : cmp[array[m - 1]][array[i]] > 0
           T == { j \in Nat : j \in 0 .. i /\ Greater(j) }
<1>1. T # {}
  <2>1. i \in T  OBVIOUS
  <2> QED  BY <2>1
<1>2. PICK j \in T : \A m \in T : j <= m
  <2>1. T \in SUBSET Nat  OBVIOUS
  <2> HIDE DEF T
  <2> QED  BY <1>1, <2>1, LeastMember
<1>3. j > 0 => cmp[array[j - 1]][array[i]] <= 0
  <2> SUFFICES ASSUME j > 0, ~ (cmp[array[j - 1]][array[i]] <= 0) PROVE FALSE  OBVIOUS
  <2>1. array[j - 1] \in D /\ array[i] \in D
    <3>1. j - 1 \in 0 .. i /\ i \in 0 .. i  OBVIOUS
    <3>2. j - 1 \in S /\ i \in S  BY <3>1
    <3> QED  BY <3>2
  <2>2. cmp[array[j - 1]][array[i]] \in Int  BY <2>1 DEF Ordering
  <2>3. ASSUME NEW m \in (j - 1) + 1 .. i PROVE cmp[array[m - 1]][array[i]] > 0
    <3>1. CASE m = j  BY <2>2, <3>1
    <3>2. CASE m # j
      <4>1. m \in j + 1 .. i  BY <3>2
      <4> QED  BY <4>1
    <3> QED  BY <3>1, <3>2
  <2>4. j - 1 \in T  BY <2>3
  <2> QED  BY <1>2, <2>4
<1>4. \E n \in 0 .. i : /\ n > 0 => cmp[array[n - 1]][array[i]] <= 0
                        /\ \A m \in n + 1 .. i : cmp[array[m - 1]][array[i]] > 0
  BY <1>2, <1>3
<1> QED  BY <1>4 DEF StopOf

LEMMA SunkIs ==
  ASSUME NEW cmp, NEW array, NEW i
  PROVE  Sunk(cmp, array, i) =
           [ k \in DOMAIN array |->
               IF k = StopOf(cmp, array, i) THEN array[i]
               ELSE IF k \in StopOf(cmp, array, i) + 1 .. i THEN array[k - 1] ELSE array[k] ]
BY DEF Sunk, With

(* Where the insertion sort is when it is done with i: the elements up to  *)
(* it are in order, and nothing left the part.                             *)
SunkAt(S, D, cmp, array, first, last, i) ==
  { a \in [ S -> D ] : /\ Rearranged(array, a, first .. last)
                       /\ \A k, m \in first .. i : k < m => cmp[a[k]][a[m]] <= 0 }

(* Nothing before the part is greater than what is in it.                  *)
NoneGreaterBefore(cmp, array, first, last) ==
  first > 0 => \A k \in first .. last : cmp[array[first - 1]][array[k]] <= 0

(* An element then sinks no further than to the first of its part.         *)
LEMMA SinkingGoesOn ==
  ASSUME NEW S, NEW D, NEW cmp, Ordering(cmp, D), NEW array \in [ S -> D ],
         NEW first \in Nat, NEW last \in Nat, 0 .. last \subseteq S,
         NoneGreaterBefore(cmp, array, first, last),
         NEW i \in first + 1 .. last,
         NEW before \in SunkAt(S, D, cmp, array, first, last, i - 1)
  PROVE  Sunk(cmp, before, i) \in SunkAt(S, D, cmp, array, first, last, i)
<1>1. /\ before \in [ S -> D ]
      /\ Rearranged(array, before, first .. last)
      /\ \A k, m \in first .. i - 1 : k < m => cmp[before[k]][before[m]] <= 0
  BY DEF SunkAt
<1>2. /\ \A k \in S : k \notin first .. last => before[k] = array[k]
      /\ \A k \in S : k \in first .. last =>
           \E m \in S : m \in first .. last /\ before[k] = array[m]
  <2>1. PICK p \in Shuffles(S) :
          /\ before = [ k \in S |-> array[p[k]] ]
          /\ \A k \in S : IF k \in first .. last THEN p[k] \in first .. last ELSE p[k] = k
    BY <1>1 DEF Rearranged
  <2>2. \A k \in S : p[k] \in S  BY DEF Shuffles
  <2> QED  BY <2>1, <2>2
<1>3. PICK stop \in Nat : stop = StopOf(cmp, before, i)
  <2>1. i \in Nat /\ 0 .. i \subseteq S  OBVIOUS
  <2>2. StopOf(cmp, before, i) \in 0 .. i  BY <1>1, <2>1, StopThere
  <2> QED  BY <2>2
<1>4. /\ stop <= i
      /\ stop > 0 => cmp[before[stop - 1]][before[i]] <= 0
      /\ \A m \in stop + 1 .. i : cmp[before[m - 1]][before[i]] > 0
  <2>1. i \in Nat /\ 0 .. i \subseteq S  OBVIOUS
  <2>2. /\ stop \in 0 .. i
        /\ stop > 0 => cmp[before[stop - 1]][before[i]] <= 0
        /\ \A m \in stop + 1 .. i : cmp[before[m - 1]][before[i]] > 0
    BY <1>1, <1>3, <2>1, StopThere
  <2> QED  BY <2>2
<1>5. \A k \in 0 .. last : k \in S /\ before[k] \in D  BY <1>1
<1>6. stop >= first
  <2> SUFFICES ASSUME stop < first PROVE FALSE  BY <1>3
  <2>1. first - 1 \in 0 .. last /\ first - 1 \notin first .. last /\ first > 0
        /\ i \in 0 .. last /\ i \in first .. last /\ first \in stop + 1 .. i
    BY <1>3
  <2>2. before[first - 1] = array[first - 1]  BY <1>2, <1>5, <2>1
  <2>3. PICK m \in S : m \in first .. last /\ before[i] = array[m]  BY <1>2, <1>5, <2>1
  <2>4. cmp[before[first - 1]][before[i]] <= 0  BY <2>1, <2>2, <2>3 DEF NoneGreaterBefore
  <2>5. cmp[before[first - 1]][before[i]] \in Int  BY <1>5, <2>1 DEF Ordering
  <2>6. cmp[before[first - 1]][before[i]] > 0  BY <1>4, <2>1
  <2> QED  BY <2>4, <2>5, <2>6
<1>7. PICK a : a = Sunk(cmp, before, i)  OBVIOUS
<1>8. a = [ k \in S |-> IF k = stop THEN before[i]
                        ELSE IF k \in stop + 1 .. i THEN before[k - 1] ELSE before[k] ]
  BY <1>1, <1>3, <1>7, SunkIs
<1>9. /\ a[stop] = before[i]
      /\ \A k \in stop + 1 .. i : a[k] = before[k - 1]
      /\ \A k \in first .. stop - 1 : a[k] = before[k]
  BY <1>3, <1>4, <1>5, <1>8
<1>10. a \in [ S -> D ]
  <2>1. ASSUME NEW k \in S, k \in stop + 1 .. i PROVE before[k - 1] \in D
    <3>1. k - 1 \in 0 .. last  BY <1>3, <2>1
    <3> QED  BY <1>5, <3>1
  <2>2. before[i] \in D  BY <1>5
  <2> QED  BY <1>1, <1>8, <2>1, <2>2
<1>11. Rearranged(array, a, first .. last)
  <2>1. PICK p : p = [ k \in S |-> IF k = stop THEN i
                                   ELSE IF k \in stop + 1 .. i THEN k - 1 ELSE k ]
    OBVIOUS
  <2>2. /\ p[stop] = i
        /\ \A k \in stop + 1 .. i : p[k] = k - 1
        /\ \A k \in S : k \notin stop .. i => p[k] = k
    BY <1>3, <1>4, <1>5, <2>1
  <2>3. \A k \in S : k = stop \/ k \in stop + 1 .. i \/ k \notin stop .. i  BY <1>3
  <2>4. p \in [ S -> S ]
    <3>1. ASSUME NEW k \in S PROVE p[k] \in S
      <4>1. CASE k = stop  BY <1>5, <2>2, <4>1
      <4>2. CASE k \in stop + 1 .. i
        <5>1. k - 1 \in 0 .. last  BY <1>3, <4>2
        <5> QED  BY <1>5, <2>2, <4>2, <5>1
      <4>3. CASE k \notin stop .. i  BY <2>2, <4>3
      <4> QED  BY <2>3, <4>1, <4>2, <4>3
    <3> QED  BY <2>1, <3>1
  <2>5. ASSUME NEW k \in S, NEW m \in S, p[k] = p[m] PROVE k = m
    <3>1. \A n \in S : n \notin stop .. i => p[n] \notin stop .. i  BY <2>2
    <3>2. \A n \in S : n \in stop + 1 .. i => p[n] \in stop .. i - 1 /\ p[n] = n - 1
      BY <1>3, <2>2
    <3>3. CASE k \notin stop .. i
      <4>1. p[k] \notin stop .. i /\ p[k] = k  BY <2>2, <3>1, <3>3
      <4>2. p[m] \notin stop .. i  BY <2>5, <4>1
      <4>3. m # stop /\ m \notin stop + 1 .. i  BY <1>3, <1>4, <2>2, <3>2, <4>2
      <4>4. p[m] = m  BY <2>2, <2>3, <4>3
      <4> QED  BY <2>5, <4>1, <4>4
    <3>4. CASE k = stop
      <4>1. p[m] = i  BY <2>2, <2>5, <3>4
      <4>2. i \in stop .. i /\ i \notin stop .. i - 1  BY <1>3, <1>4
      <4>3. ~ (m \notin stop .. i)  BY <3>1, <4>1, <4>2
      <4>4. m \notin stop + 1 .. i  BY <3>2, <4>1, <4>2
      <4> QED  BY <2>3, <3>4, <4>3, <4>4
    <3>5. CASE k \in stop + 1 .. i
      <4>1. p[m] \in stop .. i - 1 /\ p[m] = k - 1  BY <2>5, <3>2, <3>5
      <4>2. ~ (m \notin stop .. i)
        <5>1. p[m] \in stop .. i  BY <1>3, <4>1
        <5> QED  BY <3>1, <5>1
      <4>3. m # stop  BY <1>3, <2>2, <4>1
      <4>4. m \in stop + 1 .. i  BY <2>3, <4>2, <4>3
      <4>5. p[m] = m - 1  BY <3>2, <4>4
      <4> QED  BY <3>5, <4>1, <4>4, <4>5
    <3> QED  BY <2>3, <3>3, <3>4, <3>5
  <2>6. ASSUME NEW m \in S PROVE \E k \in S : p[k] = m
    <3>1. CASE m \notin stop .. i  BY <2>2, <3>1
    <3>2. CASE m = i  BY <1>3, <1>4, <1>5, <2>2, <3>2
    <3>3. CASE m \in stop .. i - 1
      <4>1. m + 1 \in stop + 1 .. i /\ m + 1 \in 0 .. last /\ (m + 1) - 1 = m  BY <1>3, <3>3
      <4> QED  BY <1>5, <2>2, <4>1
    <3> QED  BY <1>3, <3>1, <3>2, <3>3
  <2>7. p \in Shuffles(S)  BY <2>4, <2>5, <2>6 DEF Shuffles
  <2>8. a = [ k \in S |-> before[p[k]] ]  BY <1>8, <2>1
  <2>9. ASSUME NEW k \in S
        PROVE  IF k \in first .. last THEN p[k] \in first .. last ELSE p[k] = k
    <3>1. CASE k = stop  BY <1>3, <1>4, <1>6, <2>2, <3>1
    <3>2. CASE k \in stop + 1 .. i  BY <1>3, <1>6, <2>2, <3>2
    <3>3. CASE k \notin stop .. i  BY <2>2, <3>3
    <3> QED  BY <2>3, <3>1, <3>2, <3>3
  <2>10. Rearranged(before, a, first .. last)  BY <1>1, <2>7, <2>8, <2>9 DEF Rearranged
  <2> QED  BY <1>1, <2>10, RearrangedTwice
<1>12. ASSUME NEW k \in first .. i, NEW m \in first .. i, k < m
       PROVE  cmp[a[k]][a[m]] <= 0
  <2>1. CASE m < stop
    <3>1. k \in first .. stop - 1 /\ m \in first .. stop - 1
          /\ k \in first .. i - 1 /\ m \in first .. i - 1
      BY <1>3, <1>4, <1>12, <2>1
    <3> QED  BY <1>1, <1>9, <1>12, <3>1
  <2>2. CASE m = stop
    <3>1. k \in first .. stop - 1 /\ k \in first .. i - 1 /\ stop - 1 \in 0 .. last
          /\ k \in 0 .. last /\ i \in 0 .. last /\ stop > 0
      BY <1>3, <1>4, <1>12, <2>2
    <3>2. cmp[before[stop - 1]][before[i]] <= 0  BY <1>4, <3>1
    <3>3. cmp[before[k]][before[i]] <= 0
      <4>1. CASE k = stop - 1  BY <3>2, <4>1
      <4>2. CASE k # stop - 1
        <5>1. k < stop - 1 /\ stop - 1 \in first .. i - 1  BY <1>3, <1>4, <1>12, <2>2, <4>2
        <5>2. cmp[before[k]][before[stop - 1]] <= 0  BY <1>1, <3>1, <5>1
        <5> QED  BY <1>5, <3>1, <3>2, <5>2 DEF Ordering
      <4> QED  BY <4>1, <4>2
    <3> QED  BY <1>9, <2>2, <3>1, <3>3
  <2>3. CASE k < stop /\ stop < m
    <3>1. k \in first .. stop - 1 /\ m \in stop + 1 .. i /\ k < m - 1
          /\ k \in first .. i - 1 /\ m - 1 \in first .. i - 1
      BY <1>3, <1>4, <1>12, <2>3
    <3> QED  BY <1>1, <1>9, <3>1
  <2>4. CASE k = stop
    <3>1. m \in stop + 1 .. i /\ m - 1 \in 0 .. last /\ i \in 0 .. last  BY <1>3, <1>12, <2>4
    <3>2. cmp[before[m - 1]][before[i]] > 0  BY <1>4, <3>1
    <3>3. cmp[before[i]][before[m - 1]] < 0 /\ cmp[before[i]][before[m - 1]] \in Int
      BY <1>5, <3>1, <3>2 DEF Ordering
    <3>4. cmp[before[i]][before[m - 1]] <= 0  BY <3>3
    <3> QED  BY <1>9, <2>4, <3>1, <3>4
  <2>5. CASE stop < k
    <3>1. k \in stop + 1 .. i /\ m \in stop + 1 .. i /\ k - 1 < m - 1
          /\ k - 1 \in first .. i - 1 /\ m - 1 \in first .. i - 1
      BY <1>3, <1>6, <1>12, <2>5
    <3> QED  BY <1>1, <1>9, <3>1
  <2> QED  BY <1>3, <1>12, <2>1, <2>2, <2>3, <2>4, <2>5
<1> QED  BY <1>7, <1>10, <1>11, <1>12 DEF SunkAt

(* The loop of _insertion_sort.                                            *)
LEMMA InsertionSorts ==
  ASSUME NEW S, NEW D, NEW cmp, Ordering(cmp, D), NEW array \in [ S -> D ],
         NEW first \in Nat, NEW last \in Nat, first <= last, 0 .. last \subseteq S,
         NoneGreaterBefore(cmp, array, first, last)
  PROVE  InsertionSorted(cmp, array, first, last) \in SunkAt(S, D, cmp, array, first, last, last)
<1>1. PICK at : at = [ i \in first .. last |-> SunkAt(S, D, cmp, array, first, last, i) ]
  OBVIOUS
<1>2. array \in at[first]
  <2>1. Rearranged(array, array, first .. last)  BY NothingRearranged
  <2>2. \A k, m \in first .. first : ~ (k < m)  OBVIOUS
  <2> QED  BY <1>1, <2>1, <2>2 DEF SunkAt
<1>3. PICK step : step = [ i \in first + 1 .. last |->
                             [ x \in at[i - 1] |-> Sunk(cmp, x, i) ] ]
  OBVIOUS
<1>4. ASSUME NEW i \in first + 1 .. last, NEW x \in at[i - 1]
      PROVE  step[i][x] = Sunk(cmp, x, i) /\ step[i][x] \in at[i]
  <2>1. i - 1 \in first .. last /\ i \in first .. last  OBVIOUS
  <2>2. x \in SunkAt(S, D, cmp, array, first, last, i - 1)  BY <1>1, <2>1
  <2>3. Sunk(cmp, x, i) \in SunkAt(S, D, cmp, array, first, last, i)  BY <2>2, SinkingGoesOn
  <2>4. Sunk(cmp, x, i) \in at[i]  BY <1>1, <2>1, <2>3
  <2> QED  BY <1>3, <2>4
<1>5. PICK f : FollowsBetween(f, array, step, at, first, last)
  <2>1. \A i \in first + 1 .. last : \A x \in at[i - 1] : step[i][x] \in at[i]  BY <1>4
  <2> QED  BY <1>2, <2>1, RepeatedBetween
<1>6. f = [ i \in first .. last |-> IF i = first THEN array ELSE Sunk(cmp, f[i - 1], i) ]
  <2>1. ASSUME NEW i \in first .. last, i # first
        PROVE  f[i] = Sunk(cmp, f[i - 1], i)
    <3>1. i \in first + 1 .. last  BY <2>1
    <3> QED  BY <1>4, <1>5, <3>1 DEF FollowsBetween
  <2> QED  BY <1>5, <2>1 DEF FollowsBetween
<1>7. PICK g : /\ g = [ i \in first .. last |-> IF i = first THEN array
                                              ELSE Sunk(cmp, g[i - 1], i) ]
               /\ SinkingOf(cmp, array, first, last) = g
  BY <1>6 DEF SinkingOf
<1>8. g[first] \in at[first]  BY <1>2, <1>7
<1>9. ASSUME NEW i \in first + 1 .. last, g[i - 1] \in at[i - 1] PROVE g[i] \in at[i]
  <2>1. i \in first .. last /\ i # first  OBVIOUS
  <2> QED  BY <1>4, <1>7, <1>9, <2>1
<1>10. g[last] \in at[last]  BY <1>8, <1>9, ReachedBetween
<1> QED  BY <1>1, <1>7, <1>10 DEF InsertionSorted

-----------------------------------------------------------------------------
(* THE PARTS OF AN ARRAY THAT ARE STILL TO SORT                            *)

Covered(parts, k, m) == \E n \in DOMAIN parts : parts[n][1] <= k /\ m <= parts[n][2]

(* Elements that are not in order are in the same part.                    *)
LeftToSort(cmp, array, parts) ==
  \A k, m \in DOMAIN array :
    k < m /\ ~ (cmp[array[k]][array[m]] <= 0) => Covered(parts, k, m)

PartsDiffer(parts) ==
  \A n, m \in DOMAIN parts :
    n # m /\ parts[n][1] <= parts[n][2] /\ parts[m][1] <= parts[m][2]
      => parts[n][2] < parts[m][1] \/ parts[m][2] < parts[n][1]

LEMMA NothingAcross ==
  ASSUME NEW S \in SUBSET Nat, NEW cmp, NEW array, DOMAIN array = S,
         NEW parts \in Seq(Nat \X Nat), LeftToSort(cmp, array, parts), PartsDiffer(parts),
         NEW i \in DOMAIN parts, NEW first \in Nat, NEW last \in Nat,
         parts[i] = << first, last >>, first <= last,
         NEW k \in S, NEW m \in S,
         (k < first /\ first <= m) \/ (k <= last /\ last < m)
  PROVE  cmp[array[k]][array[m]] <= 0
<1> SUFFICES ASSUME ~ (cmp[array[k]][array[m]] <= 0) PROVE FALSE  OBVIOUS
<1>1. k \in Nat /\ m \in Nat /\ k < m  OBVIOUS
<1>2. PICK n \in DOMAIN parts : parts[n][1] <= k /\ m <= parts[n][2]
  BY <1>1 DEF LeftToSort, Covered
<1>3. PICK x \in Nat, y \in Nat : parts[n] = << x, y >>
  <2>1. parts[n] \in Nat \X Nat  OBVIOUS
  <2> QED  BY <2>1
<1>4. x <= k /\ m <= y  BY <1>2, <1>3
<1>5. n # i  BY <1>1, <1>3, <1>4
<1>6. parts[n][1] = x /\ parts[n][2] = y /\ parts[i][1] = first /\ parts[i][2] = last
  BY <1>3
<1>7. x <= y  BY <1>1, <1>4
<1>8. y < first \/ last < x  BY <1>5, <1>6, <1>7 DEF PartsDiffer
<1> QED  BY <1>1, <1>4, <1>8

(* The parts of left: those of parts without the last, and those of more.  *)
Replaced(parts, more, left, w, v) ==
  /\ parts \in [ 1 .. w + 1 -> Nat \X Nat ]
  /\ more \in [ 1 .. v -> Nat \X Nat ]
  /\ DOMAIN left = 1 .. w + v
  /\ \A n \in 1 .. w : left[n] = parts[n]
  /\ \A n \in 1 .. v : left[w + n] = more[n]

LEMMA Joined ==
  ASSUME NEW D, NEW a \in Seq(D), NEW b \in Seq(D),
         NEW w, w = Len(a), NEW v, v = Len(b), NEW s, s = a \o b
  PROVE  /\ s \in Seq(D) /\ Len(s) = w + v
         /\ \A i \in 1 .. w + v : s[i] = IF i <= w THEN a[i] ELSE b[i - w]
BY ConcatProperties

LEMMA PartsAreReplaced ==
  ASSUME NEW parts \in Seq(Nat \X Nat), parts # << >>, NEW more \in Seq(Nat \X Nat)
  PROVE  \E w, v \in Nat : /\ Replaced(parts, more, Front(parts) \o more, w, v)
                           /\ Last(parts) = parts[w + 1]
<1>1. Len(parts) \in Nat /\ Len(parts) # 0 /\ Len(more) \in Nat  BY EmptySeq
<1>2. PICK w \in Nat : w + 1 = Len(parts)
  <2>1. Len(parts) - 1 \in Nat /\ (Len(parts) - 1) + 1 = Len(parts)  BY <1>1
  <2> QED  BY <2>1
<1>3. PICK v \in Nat : v = Len(more)  BY <1>1
<1>4. PICK front : front = Front(parts)  OBVIOUS
<1>5. front \in Seq(Nat \X Nat) /\ Len(front) = w /\ \A i \in 1 .. w : front[i] = parts[i]
  <2>1. front = SubSeq(parts, 1, w)  BY <1>2, <1>4 DEF Front
  <2>2. /\ SubSeq(parts, 1, w) \in Seq(Nat \X Nat) /\ Len(SubSeq(parts, 1, w)) = w
        /\ \A i \in 1 .. w : SubSeq(parts, 1, w)[i] = parts[i]
    BY <1>2
  <2> QED  BY <2>1, <2>2
<1>6. PICK left : left = front \o more  OBVIOUS
<1>7. /\ left \in Seq(Nat \X Nat) /\ Len(left) = w + v
      /\ \A i \in 1 .. w + v : left[i] = IF i <= w THEN front[i] ELSE more[i - w]
  <2>1. PICK D : D = Nat \X Nat  OBVIOUS
  <2>2. front \in Seq(D) /\ more \in Seq(D) /\ w = Len(front) /\ v = Len(more)
    BY <1>3, <1>5, <2>1
  <2>3. /\ left \in Seq(D) /\ Len(left) = w + v
        /\ \A i \in 1 .. w + v : left[i] = IF i <= w THEN front[i] ELSE more[i - w]
    BY <1>6, <2>2, Joined
  <2> QED  BY <2>1, <2>3, Zenon
<1>8. \A i \in 1 .. w : left[i] = parts[i]
  <2> SUFFICES ASSUME NEW i \in 1 .. w PROVE left[i] = parts[i]  OBVIOUS
  <2>1. i \in 1 .. w + v /\ i <= w  OBVIOUS
  <2> QED  BY <1>5, <1>7, <2>1
<1>9. \A i \in 1 .. v : left[w + i] = more[i]
  <2> SUFFICES ASSUME NEW i \in 1 .. v PROVE left[w + i] = more[i]  OBVIOUS
  <2>1. w + i \in 1 .. w + v /\ ~ (w + i <= w) /\ (w + i) - w = i  OBVIOUS
  <2> QED  BY <1>7, <2>1
<1>10. DOMAIN left = 1 .. w + v  BY <1>7
<1>11. parts \in [ 1 .. w + 1 -> Nat \X Nat ] /\ more \in [ 1 .. v -> Nat \X Nat ]
  BY <1>2, <1>3
<1>12. Replaced(parts, more, left, w, v)  BY <1>8, <1>9, <1>10, <1>11 DEF Replaced
<1>13. Last(parts) = parts[w + 1]  BY <1>2 DEF Last
<1> QED  BY <1>4, <1>6, <1>12, <1>13

(* When the last part was worked on, and what is still to sort of it is    *)
(* in the parts that take its place, the rest is as far as it was.         *)
LeftBetween(cmp, new, S, first, last, more) ==
  /\ \A k, m \in S : /\ k \in first .. last /\ m \in first .. last
                     /\ k < m /\ ~ (cmp[new[k]][new[m]] <= 0)
                     => Covered(more, k, m)
  /\ PartsDiffer(more)
  /\ \A n \in DOMAIN more : first <= more[n][1] /\ more[n][2] <= last

LEMMA PartReplaced ==
  ASSUME NEW S \in SUBSET Nat, NEW D, NEW cmp, NEW array \in [ S -> D ], NEW new,
         NEW w \in Nat, NEW v \in Nat, NEW parts, NEW more, NEW left,
         Replaced(parts, more, left, w, v),
         LeftToSort(cmp, array, parts), PartsDiffer(parts),
         NEW first \in Nat, NEW last \in Nat, parts[w + 1] = << first, last >>,
         Rearranged(array, new, first .. last),
         LeftBetween(cmp, new, S, first, last, more)
  PROVE  LeftToSort(cmp, new, left) /\ PartsDiffer(left)
<1>0. /\ \A k, m \in S : /\ k \in first .. last /\ m \in first .. last
                         /\ k < m /\ ~ (cmp[new[k]][new[m]] <= 0)
                         => Covered(more, k, m)
      /\ PartsDiffer(more)
      /\ \A n \in DOMAIN more : first <= more[n][1] /\ more[n][2] <= last
  BY DEF LeftBetween
<1>1. /\ DOMAIN parts = 1 .. w + 1 /\ DOMAIN more = 1 .. v /\ DOMAIN left = 1 .. w + v
      /\ \A n \in 1 .. w : left[n] = parts[n]
      /\ \A n \in 1 .. v : left[w + n] = more[n]
  BY DEF Replaced
<1>2. \A n \in 1 .. w : n \in DOMAIN parts /\ parts[n][1] \in Nat /\ parts[n][2] \in Nat
  <2> SUFFICES ASSUME NEW n \in 1 .. w
               PROVE  n \in DOMAIN parts /\ parts[n][1] \in Nat /\ parts[n][2] \in Nat
    OBVIOUS
  <2>1. n \in 1 .. w + 1  OBVIOUS
  <2>2. parts[n] \in Nat \X Nat  BY <2>1 DEF Replaced
  <2> QED  BY <1>1, <2>1, <2>2
<1>3. \A n \in 1 .. v : n \in DOMAIN more /\ more[n][1] \in Nat /\ more[n][2] \in Nat
  <2> SUFFICES ASSUME NEW n \in 1 .. v
               PROVE  n \in DOMAIN more /\ more[n][1] \in Nat /\ more[n][2] \in Nat
    OBVIOUS
  <2>1. n \in DOMAIN more /\ more[n] \in Nat \X Nat  BY <1>1 DEF Replaced
  <2> QED  BY <2>1
<1>4. \A n \in 1 .. w : parts[n][1] <= parts[n][2] /\ first <= last =>
                          parts[n][2] < first \/ last < parts[n][1]
  <2> SUFFICES ASSUME NEW n \in 1 .. w, parts[n][1] <= parts[n][2], first <= last
               PROVE  parts[n][2] < first \/ last < parts[n][1]
    OBVIOUS
  <2>1. n \in DOMAIN parts /\ w + 1 \in DOMAIN parts /\ n # w + 1  BY <1>1, <1>2
  <2>2. parts[w + 1][1] = first /\ parts[w + 1][2] = last  OBVIOUS
  <2> QED  BY <2>1, <2>2 DEF PartsDiffer
<1>5. PartsDiffer(left)
  <2> SUFFICES ASSUME NEW n \in 1 .. w + v, NEW m \in 1 .. w + v, n # m,
                      left[n][1] <= left[n][2], left[m][1] <= left[m][2]
               PROVE  left[n][2] < left[m][1] \/ left[m][2] < left[n][1]
    BY <1>1 DEF PartsDiffer
  <2>1. ASSUME NEW i \in 1 .. w, NEW j \in w + 1 .. w + v,
               left[i][1] <= left[i][2], left[j][1] <= left[j][2]
        PROVE  left[i][2] < left[j][1] \/ left[j][2] < left[i][1]
    <3>1. PICK u \in 1 .. v : j = w + u
      <4>1. j - w \in 1 .. v /\ j = w + (j - w)  OBVIOUS
      <4> QED  BY <4>1
    <3>2. left[j] = more[u] /\ left[i] = parts[i]  BY <1>1, <3>1
    <3>3. first <= more[u][1] /\ more[u][2] <= last  BY <1>0, <1>3
    <3>4. first <= last  BY <1>3, <2>1, <3>2, <3>3
    <3>5. parts[i][2] < first \/ last < parts[i][1]  BY <1>4, <2>1, <3>2, <3>4
    <3>6. /\ parts[i][1] \in Nat /\ parts[i][2] \in Nat
          /\ more[u][1] \in Nat /\ more[u][2] \in Nat
      BY <1>2, <1>3
    <3>7. parts[i][2] < more[u][1] \/ more[u][2] < parts[i][1]
      <4>1. PICK c \in Nat, d \in Nat, e \in Nat, f \in Nat :
              c = parts[i][1] /\ d = parts[i][2] /\ e = more[u][1] /\ f = more[u][2]
        BY <3>6
      <4>2. first <= e /\ f <= last /\ (d < first \/ last < c)  BY <3>3, <3>5, <4>1
      <4>3. d < e \/ f < c  BY <4>2
      <4> QED  BY <4>1, <4>3
    <3> QED  BY <3>2, <3>7
  <2>2. CASE n \in 1 .. w /\ m \in 1 .. w
    <3>1. left[n] = parts[n] /\ left[m] = parts[m] /\ n \in DOMAIN parts /\ m \in DOMAIN parts
      BY <1>1, <1>2, <2>2
    <3> QED  BY <3>1 DEF PartsDiffer
  <2>3. CASE n \in 1 .. w /\ m \in w + 1 .. w + v  BY <2>1, <2>3
  <2>4. CASE n \in w + 1 .. w + v /\ m \in 1 .. w  BY <2>1, <2>4
  <2>5. CASE n \in w + 1 .. w + v /\ m \in w + 1 .. w + v
    <3>1. PICK i \in 1 .. v : n = w + i
      <4>1. n - w \in 1 .. v /\ n = w + (n - w)  BY <2>5
      <4> QED  BY <4>1
    <3>2. PICK j \in 1 .. v : m = w + j
      <4>1. m - w \in 1 .. v /\ m = w + (m - w)  BY <2>5
      <4> QED  BY <4>1
    <3>3. left[n] = more[i] /\ left[m] = more[j] /\ i # j  BY <1>1, <3>1, <3>2
    <3> QED  BY <1>0, <1>3, <3>3 DEF PartsDiffer
  <2> QED  BY <2>2, <2>3, <2>4, <2>5
<1>6. PICK p \in Shuffles(S) :
        /\ new = [ k \in S |-> array[p[k]] ]
        /\ \A k \in S : IF k \in first .. last THEN p[k] \in first .. last ELSE p[k] = k
  BY DEF Rearranged
<1>7. \A k \in S : k \in Nat /\ p[k] \in S /\ p[k] \in Nat /\ new[k] = array[p[k]]
  BY <1>6 DEF Shuffles
<1>8. ASSUME NEW k \in S, NEW m \in S, k < m, ~ (cmp[new[k]][new[m]] <= 0)
      PROVE  Covered(left, k, m)
  <2>1. CASE k \in first .. last /\ m \in first .. last
    <3>1. Covered(more, k, m)  BY <1>0, <1>8, <2>1
    <3>2. PICK n \in DOMAIN more : more[n][1] <= k /\ m <= more[n][2]  BY <3>1 DEF Covered
    <3>3. n \in 1 .. v  BY <1>1
    <3>4. w + n \in 1 .. w + v  BY <3>3
    <3>5. w + n \in DOMAIN left /\ left[w + n] = more[n]  BY <1>1, <3>3, <3>4
    <3> QED  BY <3>2, <3>5 DEF Covered
  <2>2. CASE ~ (k \in first .. last /\ m \in first .. last)
    <3>1. p[k] < p[m]
      <4>1. CASE k \notin first .. last /\ m \notin first .. last  BY <1>6, <1>8, <4>1
      <4>2. CASE k \in first .. last /\ m \notin first .. last
        <5>1. p[k] \in first .. last /\ p[m] = m  BY <1>6, <4>2
        <5> QED  BY <1>7, <1>8, <4>2, <5>1
      <4>3. CASE k \notin first .. last /\ m \in first .. last
        <5>1. p[k] = k /\ p[m] \in first .. last  BY <1>6, <4>3
        <5> QED  BY <1>7, <1>8, <4>3, <5>1
      <4> QED  BY <2>2, <4>1, <4>2, <4>3
    <3>2. Covered(parts, p[k], p[m])
      <4>1. DOMAIN array = S /\ p[k] \in S /\ p[m] \in S  BY <1>7
      <4>2. ~ (cmp[array[p[k]]][array[p[m]]] <= 0)  BY <1>7, <1>8
      <4> QED  BY <3>1, <4>1, <4>2 DEF LeftToSort
    <3>3. PICK n \in DOMAIN parts : parts[n][1] <= p[k] /\ p[m] <= parts[n][2]
      BY <3>2 DEF Covered
    <3>4. n \in 1 .. w + 1  BY <1>1
    <3>5. n # w + 1
      <4> SUFFICES ASSUME n = w + 1 PROVE FALSE  OBVIOUS
      <4>1. parts[n][1] = first /\ parts[n][2] = last  OBVIOUS
      <4>2. first <= p[k] /\ p[m] <= last /\ p[k] \in Nat /\ p[m] \in Nat  BY <1>7, <3>3, <4>1
      <4>3. p[k] \in first .. last /\ p[m] \in first .. last  BY <3>1, <4>2
      <4>4. k \in first .. last
        <5>1. k \notin first .. last => p[k] = k  BY <1>6
        <5> QED  BY <4>3, <5>1
      <4>5. m \in first .. last
        <5>1. m \notin first .. last => p[m] = m  BY <1>6
        <5> QED  BY <4>3, <5>1
      <4> QED  BY <2>2, <4>4, <4>5
    <3>6. n \in 1 .. w /\ left[n] = parts[n] /\ n \in DOMAIN left  BY <1>1, <3>4, <3>5
    <3>7. /\ parts[n][1] \in Nat /\ parts[n][2] \in Nat
          /\ k \in Nat /\ m \in Nat /\ p[k] \in Nat /\ p[m] \in Nat
      BY <1>2, <1>7, <3>6
    <3>8. first <= last => parts[n][2] < first \/ last < parts[n][1]
      <4>1. parts[n][1] <= parts[n][2]  BY <3>1, <3>3, <3>7
      <4> QED  BY <1>4, <3>6, <4>1
    <3>9. parts[n][1] <= k
      <4>1. CASE k \in first .. last
        <5>1. p[k] \in first .. last  BY <1>6, <4>1
        <5>2. m \notin first .. last /\ p[m] = m  BY <1>6, <2>2, <4>1
        <5>3. last < m  BY <1>8, <3>7, <4>1, <5>2
        <5> QED  BY <3>3, <3>7, <3>8, <4>1, <5>1, <5>2, <5>3
      <4>2. CASE k \notin first .. last
        <5>1. p[k] = k  BY <1>6, <4>2
        <5> QED  BY <3>3, <5>1
      <4> QED  BY <4>1, <4>2
    <3>10. m <= parts[n][2]
      <4>1. CASE m \in first .. last
        <5>1. p[m] \in first .. last  BY <1>6, <4>1
        <5>2. k \notin first .. last /\ p[k] = k  BY <1>6, <2>2, <4>1
        <5>3. k < first  BY <1>8, <3>7, <4>1, <5>2
        <5> QED  BY <3>3, <3>7, <3>8, <4>1, <5>1, <5>2, <5>3
      <4>2. CASE m \notin first .. last
        <5>1. p[m] = m  BY <1>6, <4>2
        <5> QED  BY <3>3, <5>1
      <4> QED  BY <4>1, <4>2
    <3> QED  BY <3>6, <3>9, <3>10 DEF Covered
  <2> QED  BY <2>1, <2>2
<1>9. LeftToSort(cmp, new, left)
  <2>1. DOMAIN new = S  BY <1>6
  <2> QED  BY <1>8, <2>1 DEF LeftToSort
<1> QED  BY <1>1, <1>5, <1>9

LEMMA PartsAround ==
  ASSUME NEW first \in Nat, NEW last \in Nat, NEW pivot \in first .. last
  PROVE  /\ Parts(first, last, pivot) \in Seq(Nat \X Nat)
         /\ \A n \in DOMAIN Parts(first, last, pivot) :
              /\ first <= Parts(first, last, pivot)[n][1]
              /\ Parts(first, last, pivot)[n][1] <= last + 1
              /\ Parts(first, last, pivot)[n][2] <= last
         /\ PartsDiffer(Parts(first, last, pivot))
         /\ \A k, m \in first .. last :
              k < m /\ (m < pivot \/ pivot < k) => Covered(Parts(first, last, pivot), k, m)
<1>1. PICK end \in Nat : end = IF pivot # 0 THEN pivot - 1 ELSE first
  <2>1. (IF pivot # 0 THEN pivot - 1 ELSE first) \in Nat  OBVIOUS
  <2> QED  BY <2>1
<1>2. end <= last /\ (first <= end => end < pivot + 1) /\ (pivot # 0 => end = pivot - 1)
  BY <1>1
<1>3. PICK parts : parts = Parts(first, last, pivot)  OBVIOUS
<1>4. \/ parts = << << first, end >>, << pivot + 1, last >> >>
      \/ parts = << << pivot + 1, last >>, << first, end >> >>
  BY <1>1, <1>3 DEF Parts
<1>5. parts \in Seq(Nat \X Nat)
  <2>1. PICK x, y : x = << first, end >> /\ y = << pivot + 1, last >>  OBVIOUS
  <2>2. parts = << x, y >> \/ parts = << y, x >>  BY <1>4, <2>1
  <2>3. x \in Nat \X Nat  BY <2>1
  <2>4. y \in Nat \X Nat
    <3>1. pivot + 1 \in Nat  OBVIOUS
    <3> QED  BY <2>1, <3>1
  <2>5. << x, y >> \in Seq(Nat \X Nat) /\ << y, x >> \in Seq(Nat \X Nat)  BY <2>3, <2>4
  <2> QED  BY <2>2, <2>5
<1>6. PICK i \in {1, 2}, j \in {1, 2} :
        /\ i # j /\ DOMAIN parts = {i, j}
        /\ parts[i][1] = first /\ parts[i][2] = end
        /\ parts[j][1] = pivot + 1 /\ parts[j][2] = last
  <2>1. CASE parts = << << first, end >>, << pivot + 1, last >> >>
    <3>1. DOMAIN parts = {1, 2} /\ parts[1] = << first, end >> /\ parts[2] = << pivot + 1, last >>
      BY <2>1
    <3> QED  BY <3>1
  <2>2. CASE parts = << << pivot + 1, last >>, << first, end >> >>
    <3>1. DOMAIN parts = {2, 1} /\ parts[2] = << first, end >> /\ parts[1] = << pivot + 1, last >>
      BY <2>2
    <3> QED  BY <3>1
  <2> QED  BY <1>4, <2>1, <2>2
<1>7. \A n \in DOMAIN parts : /\ first <= parts[n][1] /\ parts[n][1] <= last + 1
                              /\ parts[n][2] <= last
  BY <1>2, <1>6
<1>8. PartsDiffer(parts)
  <2>1. end < pivot + 1 \/ ~ (first <= end)  BY <1>2
  <2> QED  BY <1>6, <2>1 DEF PartsDiffer
<1>9. ASSUME NEW k \in first .. last, NEW m \in first .. last, k < m, m < pivot \/ pivot < k
      PROVE  Covered(parts, k, m)
  <2>1. CASE m < pivot
    <3>1. first <= k /\ m <= end  BY <1>2, <2>1
    <3> QED  BY <1>6, <3>1 DEF Covered
  <2>2. CASE pivot < k
    <3>1. pivot + 1 <= k /\ m <= last  BY <2>2
    <3> QED  BY <1>6, <3>1 DEF Covered
  <2> QED  BY <1>9, <2>1, <2>2
<1> QED  BY <1>3, <1>5, <1>7, <1>8, <1>9

-----------------------------------------------------------------------------
(* THE INVARIANT                                                           *)

Entries == 0 .. Length - 1

CatalogTypes ==
  /\ Length \in 0 .. MaxArchetypes
  /\ archetype \in [ Entries -> Seq(Component) ]
  /\ index \in [ Entries -> Entries ]
  /\ ready \subseteq Entries
  /\ want \in Seq(Component)
  /\ stage \in { "idle", "search", "sort" }
  /\ lo \in 0 .. MaxArchetypes
  /\ hi \in 0 .. SizeMax
  /\ frames \in Seq(Nat \X Nat)

(* What is below lo comes before what is looked for, what is above hi      *)
(* behind it; a search that looked at the first element last has the       *)
(* largest size_t for hi.                                                  *)
Closing ==
  stage = "search" =>
    /\ Length < MaxArchetypes
    /\ lo \in 0 .. Length
    /\ hi \in Entries \cup {SizeMax}
    /\ InOrder => \A k \in Entries :
         /\ k < lo => Before(archetype[index[k]], want)
         /\ hi = SizeMax \/ k > hi => Before(want, archetype[index[k]])

FramesFit ==
  \A n \in DOMAIN frames : frames[n][1] <= Length /\ frames[n][2] < Length

Dividing ==
  IF stage = "sort"
    THEN FramesFit /\ PartsDiffer(frames) /\ LeftToSort(ByComponents, index, frames)
    ELSE frames = << >>

(* The zero entries that failed allocations left stand for no archetype    *)
(* but the first.                                                          *)
Indexed ==
  /\ \A a \in ready \ {0} : Once(index, a)
  /\ ready = Entries =>
       /\ \A a \in Entries : Once(index, a)
       /\ \A a, b \in Entries : archetype[a] = archetype[b] => a = b
       /\ stage # "sort" => InOrder

CatalogInv == CatalogTypes /\ Closing /\ Dividing /\ Indexed

LEMMA WrapFacts ==
  /\ \A n \in Nat : n < SizeWord => Wrap(n) = n
  /\ Wrap(-1) = SizeMax
<1> DEFINE w == SizeWord
<1>1. w \in Nat \ {0, 1}  BY SortSearchAssumption
<1>2. ASSUME NEW n \in Nat, n < w PROVE n % w = n
  BY <1>1, <1>2, Remainder
<1>3. (-1) % w = w - 1
  <2> HIDE DEF w
  <2>1. -1 = ((-1) \div w) * w + ((-1) % w) /\ (-1) % w \in 0 .. w - 1 /\ (-1) \div w \in Int
    BY <1>1
  <2>2. PICK q \in Int, r \in Nat : q = (-1) \div w /\ r = (-1) % w  BY <1>1, <2>1
  <2>3. r < w /\ q * w + r = -1  BY <1>1, <2>1, <2>2
  <2>4. q < 0
    <3> SUFFICES ASSUME q >= 0 PROVE FALSE  OBVIOUS
    <3>1. q * w >= 0  BY <1>1
    <3> QED  BY <1>1, <2>3, <3>1
  <2>5. PICK d \in Nat : q = -1 - d
    <3>1. -1 - q \in Nat /\ q = -1 - (-1 - q)  BY <2>4
    <3> QED  BY <3>1
  <2>6. q * w = - w - d * w  BY <1>1, <2>5
  <2>7. d = 0
    <3> SUFFICES ASSUME d # 0 PROVE FALSE  OBVIOUS
    <3>1. PICK c \in Nat : d = c + 1
      <4>1. d - 1 \in Nat /\ d = (d - 1) + 1  OBVIOUS
      <4> QED  BY <4>1
    <3>2. d * w = c * w + w /\ c * w \in Nat  BY <1>1, <3>1
    <3> QED  BY <1>1, <2>3, <2>6, <3>2
  <2> QED  BY <1>1, <2>2, <2>3, <2>6, <2>7
<1> QED  BY <1>2, <1>3 DEF Wrap, SizeMax

LEMMA SizesFit ==
  /\ SizeMax \in Nat /\ SizeMax < SizeWord /\ MaxArchetypes \in Nat /\ MaxArchetypes < SizeMax
BY SortSearchAssumption, CatalogAssumption DEF SizeMax

LEMMA LengthIs ==
  ASSUME NEW n \in Nat, NEW array, DOMAIN array = 0 .. n - 1
  PROVE  Cardinality(DOMAIN array) = n
<1>1. Cardinality(0 .. n - 1) = IF 0 > n - 1 THEN 0 ELSE (n - 1) - 0 + 1
  <2>1. 0 \in Int /\ n - 1 \in Int  OBVIOUS
  <2> QED  BY <2>1, FS_Interval
<1> QED  BY <1>1

LEMMA PushedIs ==
  ASSUME NEW n \in Nat, NEW array, DOMAIN array = 0 .. n - 1, NEW x
  PROVE  Pushed(array, x) = [ k \in 0 .. n |-> IF k = n THEN x ELSE array[k] ]
<1>1. Cardinality(DOMAIN array) = n  BY LengthIs
<1> QED  BY <1>1 DEF Pushed

LEMMA IndexOrdered ==
  ASSUME CatalogTypes
  PROVE  /\ Length \in Nat
         /\ DOMAIN archetype = Entries /\ DOMAIN index = Entries
         /\ Ordering(ByComponents, Entries)
         /\ \A k \in Entries : index[k] \in Entries /\ archetype[index[k]] \in Seq(Component)
         /\ \A k, m \in Entries : ByComponents[index[k]][index[m]]
                                   = Compare(archetype[index[k]], archetype[index[m]])
<1>1. DOMAIN archetype = Entries /\ DOMAIN index = Entries
      /\ \A k \in Entries : index[k] \in Entries /\ archetype[index[k]] \in Seq(Component)
  BY DEF CatalogTypes
<1>2. Ordering(ByComponents, Entries)
  <2>1. archetype \in [ DOMAIN archetype -> Seq(Component) ]  BY <1>1 DEF CatalogTypes
  <2> QED  BY <1>1, <2>1, ComponentsOrdered
<1>3. \A k, m \in Entries : ByComponents[index[k]][index[m]]
                              = Compare(archetype[index[k]], archetype[index[m]])
  BY <1>1 DEF ByComponents
<1>4. Length \in Nat  BY SizesFit DEF CatalogTypes
<1> QED  BY <1>1, <1>2, <1>3, <1>4

LEMMA Unordered ==
  ASSUME CatalogTypes
  PROVE  InOrder <=> \A k, m \in Entries :
                       k < m => /\ ~ Before(archetype[index[m]], archetype[index[k]])
                                /\ ByComponents[index[k]][index[m]] <= 0
<1>1. ASSUME NEW k \in Entries, NEW m \in Entries
      PROVE  ByComponents[index[k]][index[m]] <= 0 <=>
               ~ Before(archetype[index[m]], archetype[index[k]])
  <2>1. PICK a \in Seq(Component), b \in Seq(Component) :
          a = archetype[index[k]] /\ b = archetype[index[m]]
            /\ ByComponents[index[k]][index[m]] = Compare(a, b)
    BY IndexOrdered
  <2>2. Compare(a, b) \in Int /\ (Compare(a, b) > 0 <=> Before(b, a))  BY CompareFacts
  <2> QED  BY <2>1, <2>2
<1>2. DOMAIN index = Entries  BY IndexOrdered
<1> QED  BY <1>1, <1>2 DEF InOrder

LEMMA SameArchetypes ==
  ASSUME archetype' = archetype
  PROVE  Length' = Length /\ Entries' = Entries /\ ByComponents' = ByComponents
BY DEF Length, Entries, ByComponents

LEMMA SameIndex ==
  ASSUME archetype' = archetype, index' = index
  PROVE  /\ Length' = Length /\ Entries' = Entries /\ ByComponents' = ByComponents
         /\ InOrder' <=> InOrder
BY SameArchetypes DEF InOrder

LEMMA SameKept ==
  ASSUME CatalogInv, UNCHANGED << archetype, index, ready >>, stage # "sort"
  PROVE  Indexed'
BY SameIndex DEF CatalogInv, Indexed, Once

LEMMA ResolveStarts ==
  ASSUME CatalogInv, NEW set \in Seq(Component), Resolve(set)
  PROVE  CatalogInv'
<1>1. /\ stage = "idle" /\ Length < MaxArchetypes /\ stage' = "search" /\ want' = set
      /\ lo' = 0 /\ hi' = Wrap(Length - 1)
      /\ UNCHANGED << archetype, index, ready, frames, found >>
  BY DEF Resolve
<1>2. CatalogTypes  BY DEF CatalogInv
<1>3. Length' = Length /\ Entries' = Entries /\ Length \in Nat
  BY <1>1, <1>2, SameIndex, IndexOrdered
<1>4. hi' \in Entries \cup {SizeMax} /\ (Length # 0 => hi' = Length - 1)
      /\ (Length = 0 => Entries = {})
  <2>1. CASE Length = 0
    <3>1. hi' = SizeMax  BY <1>1, <2>1, WrapFacts
    <3> QED  BY <2>1, <3>1 DEF Entries
  <2>2. CASE Length # 0
    <3>1. Length - 1 \in Nat /\ Length - 1 < SizeWord
      BY <1>1, <1>3, <2>2, SizesFit, SortSearchAssumption
    <3>2. hi' = Length - 1  BY <1>1, <3>1, WrapFacts
    <3> QED  BY <1>3, <2>2, <3>2 DEF Entries
  <2> QED  BY <2>1, <2>2
<1>5. CatalogTypes'
  <2>1. hi' \in 0 .. SizeMax
    <3>1. Length - 1 <= SizeMax  BY <1>1, <1>3, SizesFit
    <3> QED  BY <1>3, <1>4, <3>1, SizesFit DEF Entries
  <2>2. lo' \in 0 .. MaxArchetypes  BY <1>1, SizesFit
  <2> QED  BY <1>1, <1>2, <1>3, <2>1, <2>2 DEF CatalogTypes
<1>6. Closing'
  <2>1. ASSUME NEW k \in Entries PROVE ~ (k < lo') /\ ~ (hi' = SizeMax \/ k > hi')
    <3>1. k \in Nat /\ k <= Length - 1 /\ Length # 0  BY <1>3 DEF Entries
    <3>2. hi' = Length - 1 /\ Length - 1 # SizeMax  BY <1>1, <1>3, <1>4, <3>1, SizesFit
    <3> QED  BY <1>1, <1>3, <3>1, <3>2
  <2>2. lo' \in 0 .. Length  BY <1>1, <1>3
  <2> QED  BY <1>1, <1>3, <1>4, <2>1, <2>2 DEF Closing
<1>7. Dividing'  BY <1>1 DEF CatalogInv, Dividing
<1>8. Indexed'  BY <1>1, SameKept
<1> QED  BY <1>5, <1>6, <1>7, <1>8 DEF CatalogInv

LEMMA OrderGoesOn ==
  ASSUME NEW a \in Seq(Component), NEW b \in Seq(Component), NEW c \in Seq(Component)
  PROVE  /\ ~ Before(b, a) /\ Before(b, c) => Before(a, c)
         /\ Before(a, b) /\ ~ Before(c, b) => Before(a, c)
<1>1. ~ Before(b, a) => a = b \/ Before(a, b)  BY OneOrTheOther
<1>2. ~ Before(c, b) => b = c \/ Before(b, c)  BY OneOrTheOther
<1>3. Before(a, b) /\ Before(b, c) => Before(a, c)  BY BeforeGoesOn
<1> QED  BY <1>1, <1>2, <1>3

(* Where a search looks is in the array, and what it finds there.          *)
LEMMA LookedAt ==
  ASSUME CatalogInv, Looking
  PROVE  /\ lo \in Nat /\ hi \in Entries /\ lo <= hi
         /\ Middle(lo, hi) \in Entries /\ lo <= Middle(lo, hi) /\ Middle(lo, hi) <= hi
         /\ Verdict \in Int
         /\ Verdict = 0 <=> want = archetype[index[Middle(lo, hi)]]
         /\ Verdict < 0 <=> Before(want, archetype[index[Middle(lo, hi)]])
         /\ Verdict > 0 <=> Before(archetype[index[Middle(lo, hi)]], want)
<1>1. CatalogTypes /\ Closing  BY DEF CatalogInv
<1>2. /\ stage = "search" /\ lo \in 0 .. Length /\ hi \in Entries /\ lo <= hi
      /\ Length \in Nat
  BY <1>1, IndexOrdered DEF Looking, Closing
<1>3. PICK mid : mid = Middle(lo, hi)  OBVIOUS
<1>4. mid \in Entries /\ lo <= mid /\ mid <= hi  BY <1>2, <1>3 DEF Entries, Middle
<1>5. PICK a \in Seq(Component), b \in Seq(Component) : a = want /\ b = archetype[index[mid]]
  BY <1>1, <1>4, IndexOrdered DEF CatalogTypes
<1>6. Verdict = Compare(a, b)  BY <1>3, <1>5 DEF Verdict
<1>7. /\ Compare(a, b) \in Int /\ (Compare(a, b) = 0 <=> a = b)
      /\ (Compare(a, b) < 0 <=> Before(a, b)) /\ (Compare(a, b) > 0 <=> Before(b, a))
  BY CompareFacts
<1> QED  BY <1>2, <1>3, <1>4, <1>5, <1>6, <1>7

LEMMA SearchGoesUp ==
  ASSUME CatalogInv, SearchUp
  PROVE  CatalogInv'
<1> DEFINE mid == Middle(lo, hi)
<1>1. /\ Looking /\ Verdict > 0 /\ lo' = mid + 1
      /\ UNCHANGED << archetype, index, ready, stage, want, hi, frames, found >>
  BY DEF SearchUp
<1>2. CatalogTypes /\ Closing /\ Dividing  BY DEF CatalogInv
<1>3. /\ Length' = Length /\ Entries' = Entries /\ (InOrder' <=> InOrder) /\ Length \in Nat
  BY <1>1, <1>2, SameIndex, IndexOrdered
<1>4. /\ mid \in Entries /\ hi \in Entries /\ lo <= mid /\ lo \in Nat
      /\ Before(archetype[index[mid]], want)
  BY <1>1, LookedAt
<1> HIDE DEF mid
<1>5. stage = "search" /\ Length < MaxArchetypes  BY <1>1, <1>2 DEF Looking, Closing
<1>6. lo' \in 0 .. Length  BY <1>1, <1>3, <1>4 DEF Entries
<1>7. CatalogTypes'
  <2>1. lo' \in 0 .. MaxArchetypes  BY <1>3, <1>5, <1>6, SizesFit
  <2> QED  BY <1>1, <1>2, <1>3, <2>1 DEF CatalogTypes
<1>8. Closing'
  <2>1. ASSUME InOrder, NEW k \in Entries
        PROVE  /\ k < lo' => Before(archetype[index[k]], want)
               /\ hi = SizeMax \/ k > hi => Before(want, archetype[index[k]])
    <3>1. hi = SizeMax \/ k > hi => Before(want, archetype[index[k]])
      BY <1>2, <1>5, <2>1 DEF Closing
    <3>2. ASSUME k < lo' PROVE Before(archetype[index[k]], want)
      <4>1. CASE k = mid  BY <1>4, <4>1
      <4>2. CASE k # mid
        <5>1. k < mid  BY <1>1, <1>3, <1>4, <3>2, <4>2 DEF Entries
        <5>2. ~ Before(archetype[index[mid]], archetype[index[k]])
          BY <1>2, <1>4, <2>1, <5>1, Unordered
        <5>3. /\ archetype[index[k]] \in Seq(Component)
              /\ archetype[index[mid]] \in Seq(Component) /\ want \in Seq(Component)
          BY <1>2, <1>4, IndexOrdered DEF CatalogTypes
        <5> QED  BY <1>4, <5>2, <5>3, OrderGoesOn
      <4> QED  BY <4>1, <4>2
    <3> QED  BY <3>1, <3>2
  <2>2. hi \in Entries \cup {SizeMax}  BY <1>4
  <2> QED  BY <1>1, <1>3, <1>5, <1>6, <2>1, <2>2 DEF Closing
<1>9. Dividing'  BY <1>1, <1>2, <1>5 DEF Dividing
<1>10. Indexed'  BY <1>1, <1>5, SameKept
<1> QED  BY <1>7, <1>8, <1>9, <1>10 DEF CatalogInv

LEMMA SearchGoesDown ==
  ASSUME CatalogInv, SearchDown
  PROVE  CatalogInv'
<1> DEFINE mid == Middle(lo, hi)
<1>1. /\ Looking /\ Verdict < 0 /\ hi' = Wrap(mid - 1)
      /\ UNCHANGED << archetype, index, ready, stage, want, lo, frames, found >>
  BY DEF SearchDown
<1>2. CatalogTypes /\ Closing /\ Dividing  BY DEF CatalogInv
<1>3. /\ Length' = Length /\ Entries' = Entries /\ (InOrder' <=> InOrder) /\ Length \in Nat
  BY <1>1, <1>2, SameIndex, IndexOrdered
<1>4. /\ mid \in Entries /\ hi \in Entries /\ mid <= hi /\ lo \in Nat
      /\ Before(want, archetype[index[mid]])
  BY <1>1, LookedAt
<1> HIDE DEF mid
<1>5. stage = "search" /\ Length < MaxArchetypes /\ lo \in 0 .. Length
  BY <1>1, <1>2 DEF Looking, Closing
<1>6. IF mid = 0 THEN hi' = SizeMax ELSE hi' = mid - 1
  <2>1. CASE mid = 0
    <3>1. mid - 1 = -1  BY <2>1
    <3> QED  BY <1>1, <2>1, <3>1, WrapFacts
  <2>2. CASE mid # 0
    <3>1. mid - 1 \in Nat /\ mid - 1 < SizeWord
      BY <1>3, <1>4, <1>5, <2>2, SizesFit, SortSearchAssumption DEF Entries
    <3> QED  BY <1>1, <2>2, <3>1, WrapFacts
  <2> QED  BY <2>1, <2>2
<1>7. hi' \in Entries \cup {SizeMax}  BY <1>3, <1>4, <1>6 DEF Entries
<1>8. CatalogTypes'
  <2>1. hi' \in 0 .. SizeMax  BY <1>3, <1>5, <1>7, SizesFit DEF Entries
  <2> QED  BY <1>1, <1>2, <1>3, <2>1 DEF CatalogTypes
<1>9. Closing'
  <2>1. ASSUME InOrder, NEW k \in Entries
        PROVE  /\ k < lo => Before(archetype[index[k]], want)
               /\ hi' = SizeMax \/ k > hi' => Before(want, archetype[index[k]])
    <3>1. k < lo => Before(archetype[index[k]], want)
      BY <1>2, <1>5, <2>1 DEF Closing
    <3>2. ASSUME hi' = SizeMax \/ k > hi' PROVE Before(want, archetype[index[k]])
      <4>1. CASE k = mid  BY <1>4, <4>1
      <4>2. CASE k # mid
        <5>1. mid < k
          <6>1. k \in Nat /\ mid \in Nat /\ mid - 1 # SizeMax
            BY <1>3, <1>4, <1>5, SizesFit DEF Entries
          <6> QED  BY <1>6, <3>2, <4>2, <6>1
        <5>2. ~ Before(archetype[index[k]], archetype[index[mid]])
          BY <1>2, <1>4, <2>1, <5>1, Unordered
        <5>3. /\ archetype[index[k]] \in Seq(Component)
              /\ archetype[index[mid]] \in Seq(Component) /\ want \in Seq(Component)
          BY <1>2, <1>4, IndexOrdered DEF CatalogTypes
        <5> QED  BY <1>4, <5>2, <5>3, OrderGoesOn
      <4> QED  BY <4>1, <4>2
    <3> QED  BY <3>1, <3>2
  <2> QED  BY <1>1, <1>3, <1>5, <1>7, <2>1 DEF Closing
<1>10. Dividing'  BY <1>1, <1>2, <1>5 DEF Dividing
<1>11. Indexed'  BY <1>1, <1>5, SameKept
<1> QED  BY <1>8, <1>9, <1>10, <1>11 DEF CatalogInv

LEMMA SearchFinds ==
  ASSUME CatalogInv, SearchHit
  PROVE  CatalogInv'
<1>1. /\ stage = "search" /\ stage' = "idle" /\ want' = << >> /\ lo' = 0 /\ hi' = 0
      /\ frames' = << >> /\ UNCHANGED << archetype, index, ready >>
  BY DEF SearchHit, Looking, Return
<1>2. CatalogTypes  BY DEF CatalogInv
<1>3. Length' = Length /\ Entries' = Entries  BY <1>1, SameIndex
<1>4. CatalogTypes'
  <2>1. want' \in Seq(Component) /\ frames' \in Seq(Nat \X Nat)  BY <1>1
  <2>2. lo' \in 0 .. MaxArchetypes /\ hi' \in 0 .. SizeMax  BY <1>1, SizesFit
  <2> QED  BY <1>1, <1>2, <1>3, <2>1, <2>2 DEF CatalogTypes
<1>5. Closing'  BY <1>1 DEF Closing
<1>6. Dividing'  BY <1>1 DEF Dividing
<1>7. Indexed'  BY <1>1, SameKept
<1> QED  BY <1>4, <1>5, <1>6, <1>7 DEF CatalogInv

PushedTo(array, new, n, x) ==
  /\ DOMAIN array = 0 .. n - 1
  /\ new = [ k \in 0 .. n |-> IF k = n THEN x ELSE array[k] ]

LEMMA OncePushed ==
  ASSUME NEW n \in Nat, NEW array, NEW new, NEW x, PushedTo(array, new, n, x), NEW a
  PROVE  /\ Once(array, a) /\ x # a => Once(new, a)
         /\ x = a /\ (\A k \in 0 .. n - 1 : array[k] # a) => Once(new, a)
<1>1. \A k \in 0 .. n : k = n \/ k \in 0 .. n - 1  OBVIOUS
<1>2. /\ DOMAIN array = 0 .. n - 1 /\ DOMAIN new = 0 .. n /\ new[n] = x
      /\ \A k \in 0 .. n - 1 : new[k] = array[k]
  BY DEF PushedTo
<1>3. ASSUME Once(array, a), x # a PROVE Once(new, a)
  <2>1. PICK k \in 0 .. n - 1 : array[k] = a /\ \A m \in (0 .. n - 1) \ {k} : array[m] # a
    BY <1>2, <1>3 DEF Once
  <2>2. k \in 0 .. n /\ new[k] = a  BY <1>2, <2>1
  <2>3. ASSUME NEW m \in 0 .. n, m # k PROVE new[m] # a
    <3>1. CASE m = n  BY <1>2, <1>3, <3>1
    <3>2. CASE m \in 0 .. n - 1  BY <1>2, <2>1, <2>3, <3>2
    <3> QED  BY <1>1, <3>1, <3>2
  <2> QED  BY <1>2, <2>2, <2>3 DEF Once
<1>4. ASSUME x = a, \A k \in 0 .. n - 1 : array[k] # a PROVE Once(new, a)
  <2>1. n \in 0 .. n  OBVIOUS
  <2>2. ASSUME NEW m \in 0 .. n, m # n PROVE new[m] # a
    <3>1. m \in 0 .. n - 1  BY <2>2
    <3> QED  BY <1>2, <1>4, <3>1
  <2> QED  BY <1>2, <1>4, <2>1, <2>2 DEF Once
<1> QED  BY <1>3, <1>4

(* A search that ends without an answer looked for what is not there.      *)
LEMMA MissedMeans ==
  ASSUME CatalogInv, Missed, InOrder
  PROVE  \A k \in Entries : archetype[index[k]] # want
<1> SUFFICES ASSUME NEW k \in Entries PROVE archetype[index[k]] # want  OBVIOUS
<1>1. stage = "search" /\ ~ (lo <= hi /\ hi # SizeMax)  BY DEF Missed, Looking
<1>2. CatalogTypes /\ Closing  BY DEF CatalogInv
<1>3. /\ lo \in 0 .. Length /\ hi \in Entries \cup {SizeMax} /\ Length \in Nat
      /\ k < lo => Before(archetype[index[k]], want)
      /\ hi = SizeMax \/ k > hi => Before(want, archetype[index[k]])
  BY <1>1, <1>2, IndexOrdered DEF Closing
<1>4. k < lo \/ hi = SizeMax \/ k > hi  BY <1>1, <1>3 DEF Entries
<1>5. want \in Seq(Component)  BY <1>2 DEF CatalogTypes
<1> QED  BY <1>3, <1>4, <1>5, NotBoth

(* The arrays when an archetype was added.                                 *)
LEMMA ArchetypeAdded ==
  ASSUME CatalogInv, Missed, NEW n, n = Length, NEW x \in 0 .. n,
         archetype' = Pushed(archetype, want), index' = Pushed(index, x)
  PROVE  /\ n \in Nat /\ Length' = n + 1 /\ n < MaxArchetypes
         /\ Entries = 0 .. n - 1 /\ Entries' = 0 .. n
         /\ archetype' \in [ 0 .. n -> Seq(Component) ] /\ archetype'[n] = want
         /\ \A k \in 0 .. n - 1 : archetype'[k] = archetype[k]
         /\ index' \in [ 0 .. n -> 0 .. n ] /\ index'[n] = x
         /\ \A k \in 0 .. n - 1 : index'[k] = index[k] /\ index[k] \in 0 .. n - 1
         /\ PushedTo(index, index', n, x)
<1>1. CatalogTypes /\ Closing /\ stage = "search"  BY DEF CatalogInv, Missed
<1>2. n \in Nat /\ n < MaxArchetypes  BY <1>1, IndexOrdered DEF Closing
<1>3. Entries = 0 .. n - 1  BY DEF Entries
<1>4. /\ archetype \in [ 0 .. n - 1 -> Seq(Component) ] /\ want \in Seq(Component)
      /\ index \in [ 0 .. n - 1 -> 0 .. n - 1 ]
  BY <1>1, <1>3 DEF CatalogTypes
<1>5. /\ archetype' \in [ 0 .. n -> Seq(Component) ] /\ archetype'[n] = want
      /\ \A k \in 0 .. n - 1 : archetype'[k] = archetype[k]
  <2>1. DOMAIN archetype = 0 .. n - 1  BY <1>4
  <2>2. archetype' = [ k \in 0 .. n |-> IF k = n THEN want ELSE archetype[k] ]
    BY <1>2, <2>1, PushedIs
  <2>3. \A k \in 0 .. n : k # n => k \in 0 .. n - 1  BY <1>2
  <2> QED  BY <1>2, <1>4, <2>2, <2>3
<1>6. /\ index' \in [ 0 .. n -> 0 .. n ] /\ index'[n] = x
      /\ \A k \in 0 .. n - 1 : index'[k] = index[k]
      /\ PushedTo(index, index', n, x)
  <2>1. DOMAIN index = 0 .. n - 1  BY <1>4
  <2>2. index' = [ k \in 0 .. n |-> IF k = n THEN x ELSE index[k] ]
    BY <1>2, <2>1, PushedIs
  <2>3. \A k \in 0 .. n : k # n => k \in 0 .. n - 1 /\ index[k] \in 0 .. n  BY <1>2, <1>4
  <2>4. PushedTo(index, index', n, x)  BY <2>1, <2>2 DEF PushedTo
  <2> QED  BY <1>2, <2>2, <2>3, <2>4
<1>7. Length' = n + 1
  <2>1. n + 1 \in Nat /\ DOMAIN archetype' = 0 .. (n + 1) - 1  BY <1>2, <1>5
  <2>2. Cardinality(DOMAIN archetype') = n + 1  BY <2>1, LengthIs
  <2> QED  BY <2>2 DEF Length
<1>8. Entries' = 0 .. n  BY <1>2, <1>7 DEF Entries
<1> QED  BY <1>2, <1>3, <1>4, <1>5, <1>6, <1>7, <1>8

LEMMA ArchetypeMade ==
  ASSUME CatalogInv, MakeArchetype
  PROVE  CatalogInv'
<1> DEFINE n == Length
<1>1. /\ Missed /\ stage = "search" /\ stage' = "sort" /\ ready' = ready \cup {n}
      /\ archetype' = Pushed(archetype, want) /\ index' = Pushed(index, n)
      /\ frames' = << << 0, n >> >> /\ UNCHANGED << want, lo, hi, found >>
  BY DEF MakeArchetype, Missed
<1>2. CatalogTypes /\ Indexed  BY DEF CatalogInv
<1> HIDE DEF n
<1>3. n = Length /\ n \in Nat /\ n \in 0 .. n
  <2>1. n = Length /\ n \in Nat  BY <1>2, IndexOrdered DEF n
  <2> QED  BY <2>1
<1>4. /\ Length' = n + 1 /\ n < MaxArchetypes
      /\ Entries = 0 .. n - 1 /\ Entries' = 0 .. n
      /\ archetype' \in [ 0 .. n -> Seq(Component) ] /\ archetype'[n] = want
      /\ \A k \in 0 .. n - 1 : archetype'[k] = archetype[k]
      /\ index' \in [ 0 .. n -> 0 .. n ] /\ index'[n] = n
      /\ \A k \in 0 .. n - 1 : index'[k] = index[k] /\ index[k] \in 0 .. n - 1
      /\ PushedTo(index, index', n, n)
  BY <1>1, <1>3, ArchetypeAdded
<1>5. DOMAIN frames' = {1} /\ frames'[1] = << 0, n >>  BY <1>1
<1>6. CatalogTypes'
  <2>1. ready' \subseteq Entries'
    <3>1. ready \subseteq 0 .. n - 1  BY <1>2, <1>4 DEF CatalogTypes
    <3> QED  BY <1>1, <1>3, <1>4, <3>1
  <2>2. frames' \in Seq(Nat \X Nat)
    <3>1. << 0, n >> \in Nat \X Nat  BY <1>3
    <3> QED  BY <1>1, <3>1
  <2>3. Length' \in 0 .. MaxArchetypes  BY <1>3, <1>4, SizesFit
  <2> QED  BY <1>1, <1>2, <1>4, <2>1, <2>2, <2>3 DEF CatalogTypes
<1>7. Closing'  BY <1>1 DEF Closing
<1>8. Dividing'
  <2>1. FramesFit'  BY <1>3, <1>4, <1>5 DEF FramesFit
  <2>2. PartsDiffer(frames')  BY <1>5 DEF PartsDiffer
  <2>3. LeftToSort(ByComponents', index', frames')
    <3>1. ASSUME NEW k \in 0 .. n, NEW m \in 0 .. n PROVE Covered(frames', k, m)
      BY <1>5 DEF Covered
    <3>2. DOMAIN index' = 0 .. n  BY <1>4
    <3> QED  BY <3>1, <3>2 DEF LeftToSort
  <2> QED  BY <1>1, <2>1, <2>2, <2>3 DEF Dividing
<1>9. Indexed'
  <2>1. PICK old, new : old = index /\ new = index'  OBVIOUS
  <2>2. PushedTo(old, new, n, n)  BY <1>4, <2>1
  <2>3. Once(index', n)
    <3>1. ASSUME NEW k \in 0 .. n - 1 PROVE old[k] # n
      <4>1. index[k] \in 0 .. n - 1  BY <1>4
      <4>2. n \notin 0 .. n - 1  BY <1>3
      <4> QED  BY <2>1, <4>1, <4>2
    <3>2. Once(new, n)  BY <1>3, <2>2, <3>1, OncePushed
    <3> QED  BY <2>1, <3>2
  <2>4. ASSUME NEW a \in 0 .. n - 1, Once(index, a) PROVE Once(index', a)
    <3>1. n # a /\ Once(old, a)  BY <1>3, <2>1, <2>4
    <3>2. Once(new, a)  BY <1>3, <2>2, <3>1, OncePushed
    <3> QED  BY <2>1, <3>2
  <2>5. \A a \in 0 .. n : a # n => a \in 0 .. n - 1  BY <1>3
  <2>6. ASSUME NEW a \in ready' \ {0} PROVE Once(index', a)
    <3>1. CASE a = n  BY <2>3, <3>1
    <3>2. CASE a # n
      <4>1. a \in ready \ {0} /\ a \in 0 .. n - 1  BY <1>1, <1>2, <1>4, <3>2 DEF CatalogTypes
      <4>2. Once(index, a)  BY <1>2, <4>1 DEF Indexed
      <4> QED  BY <2>4, <4>1, <4>2
    <3> QED  BY <3>1, <3>2
  <2>7. ASSUME ready' = Entries'
        PROVE  /\ \A a \in 0 .. n : Once(index', a)
               /\ \A a, b \in 0 .. n : archetype'[a] = archetype'[b] => a = b
    <3>1. ready = Entries
      <4>1. \A a \in 0 .. n - 1 : a \in 0 .. n /\ a # n  BY <1>3
      <4>2. \A a \in 0 .. n - 1 : a \in ready  BY <1>1, <1>4, <2>7, <4>1
      <4> QED  BY <1>2, <1>4, <4>2 DEF CatalogTypes
    <3>2. /\ \A a \in 0 .. n - 1 : Once(index, a)
          /\ \A a, b \in 0 .. n - 1 : archetype[a] = archetype[b] => a = b
          /\ InOrder
      BY <1>1, <1>2, <1>4, <3>1 DEF Indexed
    <3>3. ASSUME NEW a \in 0 .. n - 1 PROVE archetype[a] # want
      <4>1. PICK k \in 0 .. n - 1 : index[k] = a  BY <1>2, <1>4, <3>2, IndexOrdered DEF Once
      <4>2. archetype[index[k]] # want  BY <1>1, <1>4, <3>2, MissedMeans
      <4> QED  BY <4>1, <4>2
    <3>4. ASSUME NEW a \in 0 .. n PROVE Once(index', a)
      <4>1. CASE a = n  BY <2>3, <4>1
      <4>2. CASE a # n  BY <2>4, <2>5, <3>2, <4>2
      <4> QED  BY <4>1, <4>2
    <3>5. ASSUME NEW a \in 0 .. n, NEW b \in 0 .. n, archetype'[a] = archetype'[b]
          PROVE  a = b
      <4>1. CASE a = n /\ b = n  BY <4>1
      <4>2. CASE a = n /\ b # n
        <5>1. b \in 0 .. n - 1  BY <2>5, <4>2
        <5> QED  BY <1>4, <3>3, <3>5, <4>2, <5>1
      <4>3. CASE a # n /\ b = n
        <5>1. a \in 0 .. n - 1  BY <2>5, <4>3
        <5> QED  BY <1>4, <3>3, <3>5, <4>3, <5>1
      <4>4. CASE a # n /\ b # n
        <5>1. a \in 0 .. n - 1 /\ b \in 0 .. n - 1  BY <2>5, <4>4
        <5> QED  BY <1>4, <3>2, <3>5, <5>1
      <4> QED  BY <4>1, <4>2, <4>3, <4>4
    <3> QED  BY <3>4, <3>5
  <2> QED  BY <1>1, <1>4, <2>6, <2>7 DEF Indexed
<1> QED  BY <1>6, <1>7, <1>8, <1>9 DEF CatalogInv

LEMMA ArchetypeLost ==
  ASSUME CatalogInv, LayoutFails
  PROVE  CatalogInv'
<1> DEFINE n == Length
<1>1. /\ Missed /\ stage' = "idle" /\ want' = << >> /\ lo' = 0 /\ hi' = 0
      /\ archetype' = Pushed(archetype, want) /\ index' = Pushed(index, 0)
      /\ frames' = << >> /\ ready' = ready
  BY DEF LayoutFails, Return
<1>2. CatalogTypes /\ Indexed  BY DEF CatalogInv
<1> HIDE DEF n
<1>3. n = Length /\ n \in Nat /\ 0 \in 0 .. n
  <2>1. n = Length /\ n \in Nat  BY <1>2, IndexOrdered DEF n
  <2> QED  BY <2>1
<1>4. /\ Length' = n + 1 /\ n < MaxArchetypes
      /\ Entries = 0 .. n - 1 /\ Entries' = 0 .. n
      /\ archetype' \in [ 0 .. n -> Seq(Component) ]
      /\ index' \in [ 0 .. n -> 0 .. n ] /\ index'[n] = 0
      /\ \A k \in 0 .. n - 1 : index'[k] = index[k] /\ index[k] \in 0 .. n - 1
      /\ PushedTo(index, index', n, 0)
  BY <1>1, <1>3, ArchetypeAdded
<1>5. ready \subseteq 0 .. n - 1  BY <1>2, <1>4 DEF CatalogTypes
<1>6. CatalogTypes'
  <2>1. ready' \subseteq Entries'
    <3>1. \A a \in 0 .. n - 1 : a \in 0 .. n  BY <1>3
    <3> QED  BY <1>1, <1>4, <1>5, <3>1
  <2>2. want' \in Seq(Component) /\ frames' \in Seq(Nat \X Nat)  BY <1>1
  <2>3. Length' \in 0 .. MaxArchetypes /\ lo' \in 0 .. MaxArchetypes /\ hi' \in 0 .. SizeMax
    BY <1>1, <1>3, <1>4, SizesFit
  <2> QED  BY <1>1, <1>4, <2>1, <2>2, <2>3 DEF CatalogTypes
<1>7. Closing'  BY <1>1 DEF Closing
<1>8. Dividing'  BY <1>1 DEF Dividing
<1>9. Indexed'
  <2>1. PICK old, new : old = index /\ new = index'  OBVIOUS
  <2>2. ASSUME NEW a \in ready' \ {0} PROVE Once(index', a)
    <3>1. PushedTo(old, new, n, 0)  BY <1>4, <2>1
    <3>2. Once(old, a) /\ 0 # a  BY <1>1, <1>2, <2>1, <2>2 DEF Indexed
    <3>3. Once(new, a)  BY <1>3, <3>1, <3>2, OncePushed
    <3> QED  BY <2>1, <3>3
  <2>3. ready' # Entries'
    <3>1. n \in 0 .. n /\ n \notin 0 .. n - 1  BY <1>3
    <3> QED  BY <1>1, <1>4, <1>5, <3>1
  <2> QED  BY <2>2, <2>3 DEF Indexed
<1> QED  BY <1>6, <1>7, <1>8, <1>9 DEF CatalogInv

LEMMA PartFacts ==
  ASSUME CatalogInv, Sorting
  PROVE  \E first, last \in Nat : /\ Part = << first, last >>
                                  /\ first <= Length /\ last < Length
<1>1. frames \in Seq(Nat \X Nat) /\ frames # << >> /\ FramesFit /\ Length \in Nat
  BY IndexOrdered DEF CatalogInv, CatalogTypes, Dividing, Sorting
<1>2. Len(frames) \in DOMAIN frames /\ Part = frames[Len(frames)]
  <2>1. Len(frames) \in Nat /\ Len(frames) # 0  BY <1>1, EmptySeq
  <2> QED  BY <1>1, <2>1 DEF Part, Last
<1>3. PICK part \in Nat \X Nat : part = Part  BY <1>1, <1>2
<1>4. part[1] <= Length /\ part[2] < Length  BY <1>1, <1>2, <1>3 DEF FramesFit
<1> QED  BY <1>3, <1>4

(* A step of the sort: its part is put in order, or parts of it are left.  *)
LEMMA PartSorted ==
  ASSUME CatalogInv, Sorting, NEW first \in Nat, NEW last \in Nat, Part = << first, last >>,
         last < Length,
         NEW new, NEW more \in Seq(Nat \X Nat), Rearranged(index, new, first .. last),
         \A k, m \in Entries : /\ k \in first .. last /\ m \in first .. last
                               /\ k < m /\ ~ (ByComponents[new[k]][new[m]] <= 0)
                               => Covered(more, k, m),
         PartsDiffer(more),
         \A n \in DOMAIN more : /\ first <= more[n][1] /\ more[n][1] <= last + 1
                                /\ more[n][2] <= last,
         index' = new, frames' = Front(frames) \o more,
         UNCHANGED << archetype, ready, stage, want, lo, hi >>
  PROVE  CatalogInv'
<1>1. CatalogTypes /\ Dividing /\ Indexed /\ stage = "sort" /\ frames # << >>
  BY DEF CatalogInv, Sorting
<1>2. /\ Length' = Length /\ Entries' = Entries /\ ByComponents' = ByComponents
      /\ Length \in Nat
  BY <1>1, SameArchetypes, IndexOrdered
<1>3. frames \in Seq(Nat \X Nat) /\ PartsDiffer(frames) /\ FramesFit
      /\ LeftToSort(ByComponents, index, frames)
  BY <1>1 DEF CatalogTypes, Dividing
<1>4. PICK left : left = Front(frames) \o more  OBVIOUS
<1>5. PICK w \in Nat, v \in Nat : Replaced(frames, more, left, w, v) /\ Part = frames[w + 1]
  BY <1>1, <1>3, <1>4, PartsAreReplaced DEF Part
<1>6. index \in [ Entries -> Entries ] /\ Entries \in SUBSET Nat
  <2>1. index \in [ Entries -> Entries ]  BY <1>1 DEF CatalogTypes
  <2>2. Entries \in SUBSET Nat  BY <1>2 DEF Entries
  <2> QED  BY <2>1, <2>2
<1>7. LeftToSort(ByComponents, new, left) /\ PartsDiffer(left)
  <2>1. frames[w + 1] = << first, last >>  BY <1>5
  <2>3. PICK S : S = Entries  OBVIOUS
  <2>4. S \in SUBSET Nat /\ index \in [ S -> S ]  BY <1>6, <2>3
  <2>5. LeftBetween(ByComponents, new, S, first, last, more)  BY <2>3 DEF LeftBetween
  <2> QED  BY <1>3, <1>5, <2>1, <2>4, <2>5, PartReplaced
<1>8. new \in [ Entries -> Entries ] /\ \A a : Once(index, a) => Once(new, a)
  BY <1>6, RearrangedOnce
<1>9. CatalogTypes'
  <2>1. Front(frames) \in Seq(Nat \X Nat)  BY <1>1, <1>3, EmptySeq DEF Front
  <2>2. frames' \in Seq(Nat \X Nat)  BY <2>1, ConcatProperties
  <2> QED  BY <1>1, <1>2, <1>8, <2>2 DEF CatalogTypes
<1>10. Closing'  BY <1>1 DEF Closing
<1>11. Dividing'
  <2>1. ASSUME NEW n \in DOMAIN left PROVE left[n][1] <= Length /\ left[n][2] < Length
    <3>1. n \in 1 .. w + v  BY <1>5 DEF Replaced
    <3>2. CASE n \in 1 .. w
      <4>1. n \in 1 .. w + 1 /\ DOMAIN frames = 1 .. w + 1  BY <1>5, <3>2 DEF Replaced
      <4>2. left[n] = frames[n] /\ n \in DOMAIN frames  BY <1>5, <3>2, <4>1 DEF Replaced
      <4> QED  BY <1>3, <4>2 DEF FramesFit
    <3>3. CASE n \in w + 1 .. w + v
      <4>1. PICK u \in 1 .. v : n = w + u
        <5>1. n - w \in 1 .. v /\ n = w + (n - w)  BY <3>3
        <5> QED  BY <5>1
      <4>2. left[n] = more[u] /\ u \in DOMAIN more /\ more[u] \in Nat \X Nat
        BY <1>5, <4>1 DEF Replaced
      <4>3. more[u][1] <= last + 1 /\ more[u][2] <= last
            /\ more[u][1] \in Nat /\ more[u][2] \in Nat
        BY <4>2
      <4>4. more[u][1] <= Length /\ more[u][2] < Length  BY <1>2, <4>3
      <4> QED  BY <4>2, <4>4
    <3> QED  BY <3>1, <3>2, <3>3
  <2>2. FramesFit'  BY <1>2, <1>4, <2>1 DEF FramesFit
  <2> QED  BY <1>1, <1>2, <1>4, <1>7, <2>2 DEF Dividing
<1>12. Indexed'  BY <1>1, <1>2, <1>8 DEF Indexed
<1> QED  BY <1>9, <1>10, <1>11, <1>12 DEF CatalogInv

LEMMA PartIsDone ==
  ASSUME CatalogInv, PartDone
  PROVE  CatalogInv'
<1>1. /\ Sorting /\ Part[1] >= Part[2] /\ frames' = Front(frames)
      /\ UNCHANGED << archetype, index, ready, stage, want, lo, hi >>
  BY DEF PartDone
<1>2. PICK first \in Nat, last \in Nat : Part = << first, last >> /\ last < Length
  BY <1>1, PartFacts
<1>3. PICK more : more = << >>  OBVIOUS
<1>4. more \in Seq(Nat \X Nat) /\ PartsDiffer(more) /\ DOMAIN more = {}
  BY <1>3 DEF PartsDiffer
<1>5. frames' = Front(frames) \o more
  <2>1. frames \in Seq(Nat \X Nat) /\ frames # << >>
    BY <1>1 DEF CatalogInv, CatalogTypes, Sorting
  <2>2. Front(frames) \in Seq(Nat \X Nat)  BY <2>1, EmptySeq DEF Front
  <2> QED  BY <1>1, <1>3, <2>2, ConcatEmptySeq
<1>6. Rearranged(index, index, first .. last)
  <2>1. index \in [ Entries -> Entries ]  BY DEF CatalogInv, CatalogTypes
  <2> QED  BY <2>1, NothingRearranged
<1>7. ASSUME NEW k \in Entries, NEW m \in Entries,
             k \in first .. last, m \in first .. last, k < m
      PROVE  FALSE
  BY <1>1, <1>2, <1>7
<1> QED  BY <1>1, <1>2, <1>4, <1>5, <1>6, <1>7, PartSorted

(* Nothing before the part comes behind what is in it, so that no element  *)
(* sinks out of it.                                                        *)
LEMMA SmallPartInOrder ==
  ASSUME CatalogInv, SortSmallPart, NEW first \in Nat, NEW last \in Nat,
         Part = << first, last >>, last < Length
  PROVE  /\ Rearranged(index, index', first .. last)
         /\ \A k, m \in first .. last : k < m => ByComponents[index'[k]][index'[m]] <= 0
<1>1. /\ Sorting /\ first < last
      /\ index' = InsertionSorted(ByComponents, index, first, last)
  BY DEF SortSmallPart
<1>2. /\ CatalogTypes /\ Dividing /\ Length \in Nat /\ stage = "sort" /\ frames # << >>
  BY <1>1, IndexOrdered DEF CatalogInv, Sorting
<1>3. PICK S : S = Entries  OBVIOUS
<1>4. /\ index \in [ S -> S ] /\ S \in SUBSET Nat /\ 0 .. last \subseteq S
      /\ Ordering(ByComponents, S)
  <2>1. index \in [ S -> S ] /\ Ordering(ByComponents, S)
    BY <1>2, <1>3, IndexOrdered DEF CatalogTypes
  <2>2. S \in SUBSET Nat /\ 0 .. last \subseteq S  BY <1>2, <1>3 DEF Entries
  <2> QED  BY <2>1, <2>2
<1>5. NoneGreaterBefore(ByComponents, index, first, last)
  <2> SUFFICES ASSUME first > 0, NEW k \in first .. last
               PROVE  ByComponents[index[first - 1]][index[k]] <= 0
    BY DEF NoneGreaterBefore
  <2>1. PICK i \in DOMAIN frames : frames[i] = << first, last >>
    <3>1. frames \in Seq(Nat \X Nat)  BY <1>2 DEF CatalogTypes
    <3>2. Len(frames) \in Nat /\ Len(frames) # 0  BY <1>2, <3>1, EmptySeq
    <3> QED  BY <3>1, <3>2 DEF Part, Last
  <2>2. frames \in Seq(Nat \X Nat) /\ LeftToSort(ByComponents, index, frames)
        /\ PartsDiffer(frames) /\ DOMAIN index = S /\ first <= last
    BY <1>1, <1>2, <1>4 DEF CatalogTypes, Dividing
  <2>3. PICK b \in S, e \in S : b = first - 1 /\ e = k
    <3>1. first - 1 \in 0 .. last /\ k \in 0 .. last  BY <1>1
    <3> QED  BY <1>4, <3>1
  <2>4. b < first /\ first <= e  BY <2>3
  <2>5. ByComponents[index[b]][index[e]] <= 0
    BY <1>4, <2>1, <2>2, <2>4, NothingAcross
  <2> QED  BY <2>3, <2>5
<1>6. index' \in SunkAt(S, S, ByComponents, index, first, last, last)
  <2>1. first <= last  BY <1>1
  <2> QED  BY <1>1, <1>4, <1>5, <2>1, InsertionSorts
<1> QED  BY <1>6 DEF SunkAt

LEMMA SmallPartSorted ==
  ASSUME CatalogInv, SortSmallPart
  PROVE  CatalogInv'
<1>1. /\ Sorting /\ frames' = Front(frames)
      /\ UNCHANGED << archetype, ready, stage, want, lo, hi >>
  BY DEF SortSmallPart
<1>2. PICK first \in Nat, last \in Nat : Part = << first, last >> /\ last < Length
  BY <1>1, PartFacts
<1>3. PICK more : more = << >>  OBVIOUS
<1>4. more \in Seq(Nat \X Nat) /\ PartsDiffer(more) /\ DOMAIN more = {}
  BY <1>3 DEF PartsDiffer
<1>5. frames' = Front(frames) \o more
  <2>1. frames \in Seq(Nat \X Nat) /\ frames # << >>
    BY <1>1 DEF CatalogInv, CatalogTypes, Sorting
  <2>2. Front(frames) \in Seq(Nat \X Nat)  BY <2>1, EmptySeq DEF Front
  <2> QED  BY <1>1, <1>3, <2>2, ConcatEmptySeq
<1>6. /\ Rearranged(index, index', first .. last)
      /\ \A k, m \in first .. last : k < m => ByComponents[index'[k]][index'[m]] <= 0
  BY <1>2, SmallPartInOrder
<1> QED  BY <1>1, <1>2, <1>4, <1>5, <1>6, PartSorted

LEMMA PartIsSplit ==
  ASSUME CatalogInv, SplitPart
  PROVE  CatalogInv'
<1>1. PICK split : /\ split = Partition(ByComponents, index, Part[1], Part[2])
                   /\ index' = split.array
                   /\ frames' = Front(frames) \o Parts(Part[1], Part[2], split.at)
                   /\ Sorting /\ Part[1] < Part[2]
                   /\ UNCHANGED << archetype, ready, stage, want, lo, hi >>
  BY DEF SplitPart
<1>2. PICK first \in Nat, last \in Nat : Part = << first, last >> /\ last < Length
  BY <1>1, PartFacts
<1>3. first < last /\ split = Partition(ByComponents, index, first, last)
  BY <1>1, <1>2
<1>4. CatalogTypes /\ Length \in Nat  BY IndexOrdered DEF CatalogInv
<1>5. PICK S : S = Entries  OBVIOUS
<1>6. /\ index \in [ S -> S ] /\ S \in SUBSET Nat /\ first .. last \subseteq S
      /\ Ordering(ByComponents, S)
  BY <1>2, <1>4, <1>5, IndexOrdered DEF CatalogTypes, Entries
<1>7. /\ split.at \in first .. last
      /\ Rearranged(index, split.array, first .. last)
      /\ \A k \in first .. split.at - 1 :
           ByComponents[split.array[k]][split.array[split.at]] <= 0
      /\ \A k \in split.at + 1 .. last :
           ByComponents[split.array[split.at]][split.array[k]] <= 0
  <2>1. first <= last  BY <1>3
  <2>2. SplitAt(ByComponents, index, split, first, last)  BY <1>3, <1>6, <2>1, PartitionSplits
  <2> QED  BY <2>2 DEF SplitAt
<1>8. PICK pivot \in first .. last, new \in {split.array} : pivot = split.at /\ new = split.array
  BY <1>7
<1>9. new \in [ S -> S ]  BY <1>6, <1>7, <1>8, RearrangedOnce
<1>10. PICK more : more = Parts(first, last, pivot)  OBVIOUS
<1>11. /\ more \in Seq(Nat \X Nat) /\ PartsDiffer(more)
       /\ \A n \in DOMAIN more : /\ first <= more[n][1] /\ more[n][1] <= last + 1
                                 /\ more[n][2] <= last
       /\ \A k, m \in first .. last : k < m /\ (m < pivot \/ pivot < k) => Covered(more, k, m)
  BY <1>10, PartsAround
<1>12. ASSUME NEW k \in Entries, NEW m \in Entries,
              k \in first .. last, m \in first .. last, k < m,
              ~ (ByComponents[new[k]][new[m]] <= 0)
       PROVE  Covered(more, k, m)
  <2> SUFFICES ASSUME k <= pivot, pivot <= m PROVE FALSE  BY <1>11, <1>12
  <2>1. \A j \in first .. last : j \in S /\ new[j] \in S  BY <1>6, <1>9
  <2>2. k < pivot => ByComponents[new[k]][new[pivot]] <= 0
    <3>1. k < pivot => k \in first .. pivot - 1  BY <1>12
    <3> QED  BY <1>7, <1>8, <3>1
  <2>3. pivot < m => ByComponents[new[pivot]][new[m]] <= 0
    <3>1. pivot < m => m \in pivot + 1 .. last  BY <1>12
    <3> QED  BY <1>7, <1>8, <3>1
  <2>4. CASE k < pivot /\ pivot < m
    BY <1>6, <1>12, <2>1, <2>2, <2>3, <2>4 DEF Ordering
  <2>5. CASE k = pivot  BY <1>12, <2>3, <2>5
  <2>6. CASE m = pivot  BY <1>12, <2>2, <2>6
  <2> QED  BY <1>12, <2>4, <2>5, <2>6
<1>13. index' = new /\ frames' = Front(frames) \o more  BY <1>1, <1>2, <1>8, <1>10
<1>14. Rearranged(index, new, first .. last)  BY <1>7, <1>8
<1> QED  BY <1>1, <1>2, <1>11, <1>12, <1>13, <1>14, PartSorted

LEMMA SortIsDone ==
  ASSUME CatalogInv, SortDone
  PROVE  CatalogInv'
<1>1. /\ stage = "sort" /\ frames = << >>
      /\ stage' = "idle" /\ want' = << >> /\ lo' = 0 /\ hi' = 0
      /\ frames' = << >> /\ UNCHANGED << archetype, index, ready >>
  BY DEF SortDone, Return
<1>2. CatalogTypes /\ Dividing /\ Indexed  BY DEF CatalogInv
<1>3. Length' = Length /\ Entries' = Entries /\ (InOrder' <=> InOrder)  BY <1>1, SameIndex
<1>4. InOrder
  <2>1. LeftToSort(ByComponents, index, frames) /\ \A k, m : ~ Covered(frames, k, m)
    BY <1>1, <1>2 DEF Dividing, Covered
  <2> QED  BY <2>1 DEF LeftToSort, InOrder
<1>5. CatalogTypes'
  <2>1. want' \in Seq(Component) /\ frames' \in Seq(Nat \X Nat)  BY <1>1
  <2>2. lo' \in 0 .. MaxArchetypes /\ hi' \in 0 .. SizeMax  BY <1>1, SizesFit
  <2> QED  BY <1>1, <1>2, <1>3, <2>1, <2>2 DEF CatalogTypes
<1>6. Closing'  BY <1>1 DEF Closing
<1>7. Dividing'  BY <1>1 DEF Dividing
<1>8. Indexed'  BY <1>1, <1>2, <1>3, <1>4 DEF Indexed, Once
<1> QED  BY <1>5, <1>6, <1>7, <1>8 DEF CatalogInv

LEMMA SetsTyped ==
  /\ \A named \in BoundedSeq(Component, MaxCount) : InitSet(named, << >>) \in Seq(Component)
  /\ \A set \in Seq(Component), c \in Component :
       AddTo(set, c) \in Seq(Component) /\ RemoveFrom(set, c) \in Seq(Component)
<1>1. ASSUME NEW named \in BoundedSeq(Component, MaxCount)
      PROVE  InitSet(named, << >>) \in Seq(Component)
  <2>1. named \in Seq(Component)  BY CatalogAssumption DEF BoundedSeq, SeqOf
  <2>2. << >> \in Seq(Component)  OBVIOUS
  <2> QED  BY <2>1, <2>2, InitSetArranges
<1>2. ASSUME NEW set \in Seq(Component), NEW c \in Component
      PROVE  AddTo(set, c) \in Seq(Component)
  <2>1. << c >> \in Seq(Component)  OBVIOUS
  <2> QED  BY <2>1, InitSetArranges DEF AddTo
<1>3. ASSUME NEW set \in Seq(Component), NEW c \in Component
      PROVE  RemoveFrom(set, c) \in Seq(Component)
  <2>1. CASE ~ Contains(set, c)
    <3>1. << >> \in Seq(Component) /\ RemoveFrom(set, c) = InitSet(set, << >>)
      BY <2>1 DEF RemoveFrom
    <3> QED  BY <3>1, InitSetArranges
  <2>2. CASE Contains(set, c)
    <3>1. PICK k : k = CHOOSE i \in Orders(set, c) : TRUE  OBVIOUS
    <3>2. k \in 1 .. Len(set)
      <4>1. Orders(set, c) # {}  BY <2>2 DEF Contains, Orders
      <4> QED  BY <3>1, <4>1 DEF Orders
    <3>3. PICK below, above : below = SubSeq(set, 1, k - 1) /\ above = SubSeq(set, k + 1, Len(set))
      OBVIOUS
    <3>4. below \in Seq(Component) /\ above \in Seq(Component)  BY <3>2, <3>3
    <3>5. RemoveFrom(set, c) = InitSet(below, above)  BY <2>2, <3>1, <3>3 DEF RemoveFrom
    <3> QED  BY <3>4, <3>5, InitSetArranges
  <2> QED  BY <2>1, <2>2
<1> QED  BY <1>1, <1>2, <1>3

LEMMA CatalogStarts ==
  ASSUME Init
  PROVE  CatalogInv
<1>1. /\ archetype = << >> /\ index = << >> /\ ready = {} /\ stage = "idle" /\ want = << >>
      /\ lo = 0 /\ hi = 0 /\ frames = << >>
  BY DEF Init
<1>2. DOMAIN archetype = {} /\ DOMAIN index = {} /\ 0 .. 0 - 1 = {}  BY <1>1
<1>3. Length = 0
  <2>1. DOMAIN archetype = 0 .. 0 - 1  BY <1>2
  <2> QED  BY <2>1, LengthIs DEF Length
<1>4. Entries = {}  BY <1>3 DEF Entries
<1>5. CatalogTypes
  <2>1. archetype \in [ Entries -> Seq(Component) ] /\ index \in [ Entries -> Entries ]
    BY <1>1, <1>4
  <2>2. want \in Seq(Component) /\ frames \in Seq(Nat \X Nat)  BY <1>1
  <2>3. Length \in 0 .. MaxArchetypes /\ lo \in 0 .. MaxArchetypes /\ hi \in 0 .. SizeMax
    BY <1>1, <1>3, SizesFit
  <2> QED  BY <1>1, <2>1, <2>2, <2>3 DEF CatalogTypes
<1>6. Closing  BY <1>1 DEF Closing
<1>7. Dividing  BY <1>1 DEF Dividing
<1>8. Indexed  BY <1>1, <1>2, <1>4 DEF Indexed, InOrder
<1> QED  BY <1>5, <1>6, <1>7, <1>8 DEF CatalogInv

LEMMA CatalogStep ==
  ASSUME CatalogInv, [Next]_vars
  PROVE  CatalogInv'
<1>1. CASE Spawn
  <2>1. PICK set \in Seq(Component) : Resolve(set)  BY <1>1, SetsTyped DEF Spawn
  <2> QED  BY <2>1, ResolveStarts
<1>2. CASE AddComponent
  <2>1. PICK a \in ready, c \in Component : Resolve(AddTo(archetype[a], c))
    BY <1>2 DEF AddComponent
  <2>2. archetype[a] \in Seq(Component)  BY DEF CatalogInv, CatalogTypes
  <2>3. AddTo(archetype[a], c) \in Seq(Component)  BY <2>2, SetsTyped
  <2> QED  BY <2>1, <2>3, ResolveStarts
<1>3. CASE RemoveComponent
  <2>1. PICK a \in ready, c \in Component : Resolve(RemoveFrom(archetype[a], c))
    BY <1>3 DEF RemoveComponent
  <2>2. archetype[a] \in Seq(Component)  BY DEF CatalogInv, CatalogTypes
  <2>3. RemoveFrom(archetype[a], c) \in Seq(Component)  BY <2>2, SetsTyped
  <2> QED  BY <2>1, <2>3, ResolveStarts
<1>4. CASE SearchUp  BY <1>4, SearchGoesUp
<1>5. CASE SearchDown  BY <1>5, SearchGoesDown
<1>6. CASE SearchHit  BY <1>6, SearchFinds
<1>7. CASE MakeArchetype  BY <1>7, ArchetypeMade
<1>8. CASE LayoutFails  BY <1>8, ArchetypeLost
<1>9. CASE PartDone  BY <1>9, PartIsDone
<1>10. CASE SortSmallPart  BY <1>10, SmallPartSorted
<1>11. CASE SplitPart  BY <1>11, PartIsSplit
<1>12. CASE SortDone  BY <1>12, SortIsDone
<1>13. CASE UNCHANGED vars
  <2>1. /\ UNCHANGED << archetype, index, ready >>
        /\ UNCHANGED << stage, want, lo, hi, frames >>
    BY <1>13 DEF vars
  <2>2. Length' = Length /\ Entries' = Entries /\ ByComponents' = ByComponents
        /\ (InOrder' <=> InOrder)
    BY <2>1, SameIndex
  <2>3. CatalogTypes' /\ Closing'
    BY <2>1, <2>2 DEF CatalogInv, CatalogTypes, Closing
  <2>4. Dividing' /\ Indexed'
    BY <2>1, <2>2 DEF CatalogInv, Dividing, FramesFit, Indexed, Once
  <2> QED  BY <2>3, <2>4 DEF CatalogInv
<1> QED
  BY <1>1, <1>2, <1>3, <1>4, <1>5, <1>6, <1>7, <1>8, <1>9, <1>10, <1>11, <1>12, <1>13
  DEF Next, Step

LEMMA CatalogAlways == Spec => []CatalogInv
<1>1. Init => CatalogInv  BY CatalogStarts
<1>2. CatalogInv /\ [Next]_vars => CatalogInv'  BY CatalogStep
<1> QED  BY <1>1, <1>2, PTL DEF Spec

-----------------------------------------------------------------------------
(* WHAT FOLLOWS                                                            *)

LEMMA TypesFollow ==
  ASSUME CatalogInv
  PROVE  TypeOK
<1>1. CatalogTypes  BY DEF CatalogInv
<1>2. /\ DOMAIN archetype = Entries /\ DOMAIN index = Entries /\ Entries = 0 .. Length - 1
      /\ Length \in Nat /\ Length <= MaxArchetypes
  BY <1>1, IndexOrdered DEF Entries, CatalogTypes
<1>3. lo \in 0 .. SizeMax  BY <1>1, SizesFit DEF CatalogTypes
<1>4. ASSUME NEW n \in DOMAIN frames
      PROVE  frames[n] \in (0 .. SizeMax) \X (0 .. SizeMax)
  <2>1. frames \in Seq(Nat \X Nat) /\ FramesFit
    <3>1. stage # "sort" => frames = << >>  BY DEF CatalogInv, Dividing
    <3> QED  BY <1>1, <1>4, <3>1 DEF CatalogInv, CatalogTypes, Dividing
  <2>2. PICK x \in Nat, y \in Nat : frames[n] = << x, y >>
    <3>1. frames[n] \in Nat \X Nat  BY <1>4, <2>1
    <3> QED  BY <3>1
  <2>3. x <= Length /\ y < Length  BY <1>4, <2>1, <2>2 DEF FramesFit
  <2>4. x \in 0 .. SizeMax /\ y \in 0 .. SizeMax  BY <1>2, <2>3, SizesFit
  <2> QED  BY <2>2, <2>4
<1> QED  BY <1>1, <1>2, <1>3, <1>4 DEF TypeOK, CatalogTypes

LEMMA BracketsFollow ==
  ASSUME CatalogInv
  PROVE  SearchBrackets
<1>1. CatalogTypes /\ Closing  BY DEF CatalogInv
<1>2. Looking => Middle(lo, hi) \in DOMAIN index  BY <1>1, LookedAt, IndexOrdered
<1>3. ASSUME stage = "search", InOrder, NEW k \in DOMAIN index,
             Compare(want, archetype[index[k]]) = 0
      PROVE  \E m \in lo .. hi : Compare(want, archetype[index[m]]) = 0
  <2>1. k \in Entries /\ archetype[index[k]] \in Seq(Component) /\ want \in Seq(Component)
    BY <1>1, IndexOrdered DEF CatalogTypes
  <2>2. ~ Before(archetype[index[k]], want) /\ ~ Before(want, archetype[index[k]])
    BY <1>3, <2>1, CompareFacts
  <2>3. /\ ~ (k < lo) /\ ~ (hi = SizeMax) /\ ~ (k > hi)
        /\ lo \in 0 .. Length /\ hi \in Entries \cup {SizeMax} /\ Length \in Nat
    BY <1>1, <1>3, <2>1, <2>2, IndexOrdered DEF Closing
  <2>4. k \in lo .. hi  BY <2>1, <2>3 DEF Entries
  <2> QED  BY <1>3, <2>4
<1> QED  BY <1>2, <1>3 DEF SearchBrackets

LEMMA ApartFollows ==
  ASSUME CatalogInv
  PROVE  PartsApart
<1> SUFFICES ASSUME NEW n \in DOMAIN frames, NEW k \in DOMAIN index, NEW m \in DOMAIN index,
                    k < m, frames[n][1] <= frames[n][2],
                    \/ k < frames[n][1] /\ frames[n][1] <= m
                    \/ k < frames[n][2] + 1 /\ frames[n][2] + 1 <= m
             PROVE  ByComponents[index[k]][index[m]] <= 0
  BY DEF PartsApart
<1>1. CatalogTypes /\ Dividing  BY DEF CatalogInv
<1>2. /\ frames \in Seq(Nat \X Nat) /\ LeftToSort(ByComponents, index, frames)
      /\ PartsDiffer(frames)
  <2>1. frames # << >>  OBVIOUS
  <2> QED  BY <1>1, <2>1 DEF CatalogTypes, Dividing
<1>3. PICK S : S = DOMAIN index /\ S \in SUBSET Nat
  <2>1. DOMAIN index \in SUBSET Nat  BY <1>1, IndexOrdered DEF Entries
  <2> QED  BY <2>1
<1>4. PICK first \in Nat, last \in Nat : frames[n] = << first, last >>
  <2>1. frames[n] \in Nat \X Nat  BY <1>2
  <2> QED  BY <2>1
<1>5. PICK b \in S, e \in S : b = k /\ e = m /\ b \in Nat /\ e \in Nat  BY <1>3
<1>6. frames[n][1] = first /\ frames[n][2] = last  BY <1>4
<1>7. first <= last /\ ((b < first /\ first <= e) \/ (b <= last /\ last < e))
  BY <1>5, <1>6
<1>8. ByComponents[index[b]][index[e]] <= 0
  BY <1>2, <1>3, <1>4, <1>5, <1>7, NothingAcross
<1> QED  BY <1>5, <1>8

LEMMA SoundFollows ==
  ASSUME CatalogInv
  PROVE  IndexSound
<1> SUFFICES ASSUME stage = "idle" PROVE IndexSound  BY DEF IndexSound
<1>1. CatalogTypes /\ Indexed  BY DEF CatalogInv
<1>2. \A a \in ready \ {0} : \E k \in DOMAIN index :
        index[k] = a /\ \A m \in DOMAIN index \ {k} : index[m] # a
  BY <1>1 DEF Indexed, Once
<1>3. ASSUME ready = DOMAIN archetype, NEW k \in DOMAIN index, NEW m \in DOMAIN index, k < m
      PROVE  ByComponents[index[k]][index[m]] < 0
  <2>1. /\ ready = Entries /\ k \in Entries /\ m \in Entries /\ DOMAIN index = Entries
        /\ index[k] \in Entries /\ index[m] \in Entries
    BY <1>1, <1>3, IndexOrdered
  <2>2. /\ \A a \in Entries : Once(index, a)
        /\ \A a, b \in Entries : archetype[a] = archetype[b] => a = b
        /\ InOrder
    BY <1>1, <2>1 DEF Indexed
  <2>3. index[k] # index[m]
    <3>1. PICK j \in DOMAIN index : \A i \in DOMAIN index \ {j} : index[i] # index[k]
      BY <2>1, <2>2 DEF Once
    <3>2. k = j  BY <1>3, <3>1
    <3>3. m # k
      <4>1. k \in Nat /\ m \in Nat  BY <2>1 DEF Entries
      <4> QED  BY <1>3, <4>1
    <3> QED  BY <1>3, <3>1, <3>2, <3>3
  <2>4. archetype[index[k]] # archetype[index[m]]  BY <2>1, <2>2, <2>3
  <2>5. PICK a \in Seq(Component), b \in Seq(Component) :
          /\ a = archetype[index[k]] /\ b = archetype[index[m]] /\ a # b
          /\ ByComponents[index[k]][index[m]] = Compare(a, b)
    BY <1>1, <2>1, <2>4, IndexOrdered
  <2>6. Compare(a, b) \in Int /\ (Compare(a, b) = 0 <=> a = b)  BY CompareFacts
  <2>7. Compare(a, b) <= 0  BY <1>3, <2>2, <2>5 DEF InOrder
  <2> QED  BY <2>5, <2>6, <2>7
<1> QED  BY <1>2, <1>3 DEF IndexSound

(* Archetypes, index and what calls keep in their variables stay what they *)
(* are, whatever is asked for.                                             *)
THEOREM CatalogTypesKept == Spec => []TypeOK
<1>1. CatalogInv => TypeOK  BY TypesFollow
<1> QED  BY <1>1, CatalogAlways, PTL

(* The binary search never leaves its array and never passes by what it    *)
(* looks for.                                                              *)
THEOREM SearchesBracket == Spec => []SearchBrackets
<1>1. CatalogInv => SearchBrackets  BY BracketsFollow
<1> QED  BY <1>1, CatalogAlways, PTL

(* The parts that wait to be sorted are in order with all that is before   *)
(* and behind them, so that no element sinks out of its part.              *)
THEOREM PartsStayApart == Spec => []PartsApart
<1>1. CatalogInv => PartsApart  BY ApartFollows
<1> QED  BY <1>1, CatalogAlways, PTL

(* Between calls every archetype is in the index once, in order and not    *)
(* twice made, until a layout cannot be stored.                            *)
THEOREM IndexStaysSound == Spec => []IndexSound
<1>1. CatalogInv => IndexSound  BY SoundFollows
<1> QED  BY <1>1, CatalogAlways, PTL

-----------------------------------------------------------------------------
(* THE COLUMNS OF A BLOCK                                                  *)

LEMMA SizesAreNumbers ==
  /\ BlockSize \in Nat \ {0} /\ IndexSize \in Nat \ {0} /\ IndexSize <= BlockSize
  /\ \A c \in Component : SizeInBlock(c) \in Nat
<1>1. BlockSize \in Nat \ {0} /\ IndexSize \in Nat \ {0} /\ IndexSize <= BlockSize
  BY BlockLayoutAssumption
<1>2. ASSUME NEW c \in Component PROVE SizeInBlock(c) \in Nat
  <2>1. ComponentSize[c] \in Nat  BY CatalogAssumption, BlockLayoutAssumption
  <2>2. ComponentSize[c] % BlockSize \in 0 .. BlockSize - 1  BY <1>1, <2>1, CodeRoundTrip
  <2>3. ComponentSize[c] % BlockSize \in Nat  BY <1>1, <2>2
  <2> QED  BY <2>3 DEF SizeInBlock
<1> QED  BY <1>1, <1>2

(* room[k] is where the first k columns end that belong to entities of     *)
(* which PerBlock fit, without a look at the size of the block.            *)
Rooms(set, room) ==
  /\ room[0] = IndexSize * PerBlock(set)
  /\ \A k \in 0 .. Len(set) : room[k] \in Nat
  /\ \A k \in 1 .. Len(set) : room[k] = room[k - 1] + SizeInBlock(set[k]) * PerBlock(set)

LEMMA RoomsFit ==
  ASSUME NEW set \in Seq(Component)
  PROVE  /\ PerBlock(set) \in Nat
         /\ \E room : Rooms(set, room) /\ room[Len(set)] <= BlockSize
<1>1. PICK n \in Nat : n = Len(set) /\ 0 <= n  OBVIOUS
<1>2. \A k \in 1 .. n : SizeInBlock(set[k]) \in Nat
  <2>1. \A k \in 1 .. n : set[k] \in Component  BY <1>1
  <2> QED  BY <2>1, SizesAreNumbers
<1>3. PICK all : all = [ k \in 0 .. n |-> Nat ]  OBVIOUS
<1>4. PICK step : step = [ k \in 0 + 1 .. n |-> [ x \in Nat |-> x + SizeInBlock(set[k]) ] ]
  OBVIOUS
<1>5. PICK f : FollowsBetween(f, IndexSize, step, all, 0, n)
  <2>1. IndexSize \in all[0]  BY <1>1, <1>3, SizesAreNumbers
  <2>2. \A k \in 0 + 1 .. n : \A x \in all[k - 1] : step[k][x] \in all[k]
    BY <1>2, <1>3, <1>4
  <2> QED  BY <1>1, <2>1, <2>2, RepeatedBetween
<1>6. f = [ k \in 0 .. n |-> IF k = 0 THEN IndexSize ELSE f[k - 1] + SizeInBlock(set[k]) ]
  <2>1. f = [ k \in 0 .. n |-> f[k] ] /\ f[0] = IndexSize  BY <1>5 DEF FollowsBetween
  <2>2. ASSUME NEW k \in 0 .. n, k # 0 PROVE f[k] = f[k - 1] + SizeInBlock(set[k])
    <3>1. k \in 0 + 1 .. n /\ k - 1 \in 0 .. n  BY <2>2
    <3>2. f[k] = step[k][f[k - 1]] /\ f[k - 1] \in all[k - 1]
      BY <1>5, <3>1 DEF FollowsBetween
    <3> QED  BY <1>3, <1>4, <3>1, <3>2
  <2> QED  BY <2>1, <2>2
<1>7. PICK total : /\ total = [ k \in 0 .. n |-> IF k = 0 THEN IndexSize
                                              ELSE total[k - 1] + SizeInBlock(set[k]) ]
                   /\ EntitySize(set) = total[n]
  BY <1>1, <1>6 DEF EntitySize
<1>8. /\ total[0] = IndexSize
      /\ \A k \in 1 .. n : total[k] = total[k - 1] + SizeInBlock(set[k])
  BY <1>7
<1>9. ASSUME NEW m \in 0 .. n PROVE total[m] \in Nat \ {0}
  <2>1. PICK positive : positive = [ k \in 0 .. m |-> Nat \ {0} ]  OBVIOUS
  <2>2. total[0] \in positive[0]  BY <1>8, <2>1, SizesAreNumbers
  <2>3. ASSUME NEW k \in 0 + 1 .. m, total[k - 1] \in positive[k - 1]
        PROVE  total[k] \in positive[k]
    <3>1. k \in 1 .. n /\ k - 1 \in 0 .. m /\ k \in 0 .. m  OBVIOUS
    <3>2. SizeInBlock(set[k]) \in Nat /\ total[k - 1] \in Nat \ {0}
      BY <1>2, <2>1, <2>3, <3>1
    <3>3. total[k - 1] + SizeInBlock(set[k]) \in Nat \ {0}  BY <3>2
    <3> QED  BY <1>8, <2>1, <3>1, <3>3
  <2>4. total[m] \in positive[m]  BY <2>2, <2>3, ReachedBetween
  <2> QED  BY <2>1, <2>4
<1>10. PICK per \in Nat : per = PerBlock(set) /\ total[n] * per <= BlockSize
  <2>1. total[n] \in Nat \ {0}  BY <1>9
  <2>2. /\ BlockSize \div total[n] \in Nat /\ BlockSize % total[n] \in 0 .. total[n] - 1
        /\ (BlockSize \div total[n]) * total[n] + (BlockSize % total[n]) = BlockSize
    BY <2>1, SizesAreNumbers, CodeRoundTrip
  <2>3. PICK t \in Nat, q \in Nat, r \in Nat :
          t = total[n] /\ q = BlockSize \div total[n] /\ r = BlockSize % total[n]
    BY <2>1, <2>2
  <2>4. q * t = t * q /\ q * t \in Nat  OBVIOUS
  <2>6. q * t + r = BlockSize  BY <2>2, <2>3
  <2>5. PerBlock(set) = q  BY <1>7, <2>3 DEF PerBlock
  <2>7. q * t <= BlockSize  BY <2>4, <2>6
  <2> QED  BY <2>3, <2>4, <2>5, <2>7
<1>11. PICK room : room = [ k \in 0 .. n |-> total[k] * per ]  OBVIOUS
<1>12. \A k \in 0 .. n : room[k] \in Nat  BY <1>9, <1>11
<1>13. ASSUME NEW k \in 1 .. n PROVE room[k] = room[k - 1] + SizeInBlock(set[k]) * per
  <2>1. k \in 0 .. n /\ k - 1 \in 0 .. n  OBVIOUS
  <2>2. PICK x \in Nat, y \in Nat : x = total[k - 1] /\ y = SizeInBlock(set[k])
    BY <1>2, <1>9, <2>1
  <2>3. total[k] = x + y /\ (x + y) * per = x * per + y * per  BY <1>8, <2>2
  <2> QED  BY <1>11, <2>1, <2>2, <2>3
<1>14. room[0] = IndexSize * per /\ room[n] <= BlockSize  BY <1>8, <1>10, <1>11
<1> QED  BY <1>1, <1>10, <1>12, <1>13, <1>14 DEF Rooms

LEMMA RoomsGrow ==
  ASSUME NEW set \in Seq(Component), NEW room, Rooms(set, room),
         NEW m \in 0 .. Len(set), NEW k \in m .. Len(set)
  PROVE  room[m] <= room[k]
<1>1. PerBlock(set) \in Nat  BY RoomsFit
<1>2. m \in Nat /\ k \in Nat /\ m <= k  OBVIOUS
<1>3. PICK more : more = [ j \in m .. k |-> { x \in Nat : room[m] <= x } ]  OBVIOUS
<1>4. room[m] \in more[m]  BY <1>2, <1>3 DEF Rooms
<1>5. ASSUME NEW j \in m + 1 .. k, room[j - 1] \in more[j - 1]
      PROVE  room[j] \in more[j]
  <2>1. j \in 1 .. Len(set) /\ j - 1 \in m .. k /\ j \in m .. k  OBVIOUS
  <2>2. set[j] \in Component  BY <2>1
  <2>3. PICK x \in Nat, y \in Nat, p \in Nat :
          x = room[j - 1] /\ y = SizeInBlock(set[j]) /\ p = PerBlock(set)
    BY <1>1, <1>3, <1>5, <2>1, <2>2, SizesAreNumbers
  <2>4. room[j] = x + y * p /\ y * p \in Nat
    <3>1. room[j] = room[j - 1] + SizeInBlock(set[j]) * PerBlock(set)  BY <2>1 DEF Rooms
    <3>2. room[j] = x + y * p  BY <2>3, <3>1
    <3> QED  BY <3>2
  <2>5. room[m] <= x /\ room[m] \in Nat  BY <1>2, <1>3, <1>5, <2>1, <2>3 DEF Rooms
  <2>6. room[j] \in Nat /\ room[m] <= room[j]  BY <2>4, <2>5
  <2> QED  BY <1>3, <2>1, <2>6
<1>6. room[k] \in more[k]  BY <1>2, <1>4, <1>5, ReachedBetween
<1> QED  BY <1>2, <1>3, <1>6

(* The offsets a block has are those the columns need, unless there is     *)
(* nothing in a column.                                                    *)
LEMMA OffsetsAre ==
  ASSUME NEW set \in Seq(Component), NEW room, Rooms(set, room), room[Len(set)] <= BlockSize,
         NEW k \in 1 .. Len(set)
  PROVE  ColumnOffset(set)[k] = room[k - 1] % BlockSize
<1>1. PICK n \in Nat : n = Len(set) /\ 1 <= n  OBVIOUS
<1>2. PICK per \in Nat : per = PerBlock(set)  BY RoomsFit
<1>3. \A j \in 1 .. n : SizeInBlock(set[j]) \in Nat
  <2>1. \A j \in 1 .. n : set[j] \in Component  BY <1>1
  <2> QED  BY <2>1, SizesAreNumbers
<1>4. /\ room[0] = IndexSize * per
      /\ \A j \in 0 .. n : room[j] \in Nat
      /\ \A j \in 1 .. n : room[j] = room[j - 1] + SizeInBlock(set[j]) * per
  BY <1>1, <1>2 DEF Rooms
<1>5. ASSUME NEW j \in 1 .. n, j # 1
      PROVE  ((room[j - 2] % BlockSize) + SizeInBlock(set[j - 1]) * per) % BlockSize
               = room[j - 1] % BlockSize
  <2>1. j - 2 \in 0 .. n /\ j - 1 \in 1 .. n /\ j - 1 \in 0 .. n /\ (j - 1) - 1 = j - 2
    BY <1>5, <1>1
  <2>6. room[j - 2] \in Nat /\ room[j - 1] \in Nat /\ SizeInBlock(set[j - 1]) \in Nat
    BY <1>3, <1>4, <2>1
  <2>7. SizeInBlock(set[j - 1]) * per \in Nat  BY <2>6
  <2>2. PICK x \in Nat, y \in Nat, b \in Nat \ {0}, z \in Nat :
          /\ x = room[j - 2] /\ y = SizeInBlock(set[j - 1]) * per /\ b = BlockSize
          /\ z = room[j - 1]
    BY <2>6, <2>7, SizesAreNumbers
  <2>3. z = x + y  BY <1>4, <2>1, <2>2
  <2>4. z <= b
    <3>1. j - 1 \in 0 .. Len(set) /\ n \in j - 1 .. Len(set)  BY <1>1, <2>1
    <3>2. room[j - 1] <= room[n]  BY <3>1, RoomsGrow
    <3> QED  BY <1>1, <1>4, <2>2, <3>2
  <2>5. ((x % b) + y) % b = z % b
    <3>1. CASE x < b  BY <2>3, <3>1, Remainder
    <3>2. CASE x = b
      <4>1. y = 0 /\ z = b /\ x % b = 0  BY <2>3, <2>4, <3>2, Remainder
      <4>2. 0 % b = 0  BY Remainder
      <4> QED  BY <4>1, <4>2, Remainder
    <3> QED  BY <2>3, <2>4, <3>1, <3>2
  <2> QED  BY <2>2, <2>5
<1>6. PICK f : f = [ j \in 1 .. n |-> room[j - 1] % BlockSize ]  OBVIOUS
<1>7. f = [ j \in DOMAIN set |->
              IF j = 1 THEN (IndexSize * PerBlock(set)) % BlockSize
              ELSE (f[j - 1] + SizeInBlock(set[j - 1]) * PerBlock(set)) % BlockSize ]
  <2>1. DOMAIN set = 1 .. n  BY <1>1
  <2>2. ASSUME NEW j \in 1 .. n
        PROVE  room[j - 1] % BlockSize =
                 IF j = 1 THEN (IndexSize * per) % BlockSize
                 ELSE (f[j - 1] + SizeInBlock(set[j - 1]) * per) % BlockSize
    <3>1. CASE j = 1  BY <1>4, <3>1
    <3>2. CASE j # 1
      <4>1. j - 1 \in 1 .. n /\ (j - 1) - 1 = j - 2  BY <3>2
      <4>2. f[j - 1] = room[j - 2] % BlockSize  BY <1>6, <4>1
      <4> QED  BY <1>5, <3>2, <4>2
    <3> QED  BY <3>1, <3>2
  <2> QED  BY <1>2, <1>6, <2>1, <2>2
<1>8. PICK offset : /\ offset = [ j \in DOMAIN set |->
                         IF j = 1 THEN (IndexSize * PerBlock(set)) % BlockSize
                         ELSE (offset[j - 1] + SizeInBlock(set[j - 1]) * PerBlock(set)) % BlockSize ]
                    /\ ColumnOffset(set) = offset
  BY <1>7 DEF ColumnOffset
<1>9. PICK right : right = [ j \in 1 .. n |-> { room[j - 1] % BlockSize } ]  OBVIOUS
<1>10. offset[1] \in right[1]
  <2>1. 1 \in 1 .. n /\ DOMAIN set = 1 .. n  BY <1>1
  <2>2. offset[1] = (IndexSize * per) % BlockSize  BY <1>2, <1>8, <2>1
  <2>3. right[1] = { room[0] % BlockSize }  BY <1>9, <2>1
  <2> QED  BY <1>4, <2>2, <2>3
<1>11. ASSUME NEW j \in 1 + 1 .. k, offset[j - 1] \in right[j - 1]
       PROVE  offset[j] \in right[j]
  <2>1. j \in 1 .. n /\ j # 1 /\ j - 1 \in 1 .. n /\ (j - 1) - 1 = j - 2 /\ DOMAIN set = 1 .. n
    BY <1>1
  <2>2. offset[j - 1] = room[j - 2] % BlockSize  BY <1>9, <1>11, <2>1
  <2>3. offset[j] = (offset[j - 1] + SizeInBlock(set[j - 1]) * per) % BlockSize
    BY <1>2, <1>8, <2>1
  <2>4. offset[j] = room[j - 1] % BlockSize  BY <1>5, <2>1, <2>2, <2>3
  <2> QED  BY <1>9, <2>1, <2>4
<1>12. k \in Nat /\ 1 <= k /\ k \in 1 .. n  BY <1>1
<1>13. offset[k] \in right[k]  BY <1>10, <1>11, <1>12, ReachedBetween
<1> QED  BY <1>8, <1>9, <1>12, <1>13

(* So a column is where Rooms has it, or there is nothing in it.           *)
LEMMA ColumnIs ==
  ASSUME NEW set \in Seq(Component), NEW room, Rooms(set, room), room[Len(set)] <= BlockSize,
         NEW k \in 1 .. Len(set)
  PROVE  /\ room[k - 1] \in Nat /\ room[k] \in Nat /\ room[k] <= BlockSize
         /\ ColumnOffset(set)[k] .. ColumnOffset(set)[k] + SizeInBlock(set[k]) * PerBlock(set) - 1
              \subseteq room[k - 1] .. room[k] - 1
<1>1. PICK n \in Nat : n = Len(set) /\ 1 <= n  OBVIOUS
<1>2. /\ k \in 1 .. n /\ k - 1 \in 0 .. n /\ k \in 0 .. n
      /\ k \in 0 .. Len(set) /\ n \in k .. Len(set)
  BY <1>1
<1>3. set[k] \in Component  BY <1>1
<1>4. room[k - 1] \in Nat /\ room[k] \in Nat /\ room[n] \in Nat  BY <1>1, <1>2 DEF Rooms
<1>5. SizeInBlock(set[k]) \in Nat /\ PerBlock(set) \in Nat  BY <1>3, SizesAreNumbers, RoomsFit
<1>6. SizeInBlock(set[k]) * PerBlock(set) \in Nat  BY <1>5
<1>7. PICK x \in Nat, y \in Nat, z \in Nat, b \in Nat \ {0} :
        /\ x = room[k - 1] /\ z = room[k] /\ y = SizeInBlock(set[k]) * PerBlock(set)
        /\ b = BlockSize
  BY <1>4, <1>6, SizesAreNumbers
<1>8. z = x + y  BY <1>1, <1>2, <1>7 DEF Rooms
<1>9. z <= b
  <2>1. room[k] <= room[n]  BY <1>2, RoomsGrow
  <2> QED  BY <1>1, <1>4, <1>7, <2>1
<1>10. ColumnOffset(set)[k] = x % b  BY <1>7, OffsetsAre
<1>11. (x % b) .. (x % b) + y - 1 \subseteq x .. z - 1
  <2>1. CASE x < b
    <3>1. x % b = x  BY <2>1, Remainder
    <3> QED  BY <1>8, <3>1
  <2>2. CASE x = b
    <3>1. y = 0 /\ x % b = 0  BY <1>8, <1>9, <2>2, Remainder
    <3> QED  BY <3>1
  <2> QED  BY <1>8, <1>9, <2>1, <2>2
<1> QED  BY <1>4, <1>7, <1>9, <1>10, <1>11

Column(set, k) ==
  IF k = 0 THEN 0 .. IndexSize * PerBlock(set) - 1
  ELSE ColumnOffset(set)[k] ..
         ColumnOffset(set)[k] + SizeInBlock(set[k]) * PerBlock(set) - 1

LEMMA ColumnsFollow ==
  ASSUME NEW set \in Seq(Component), NEW k \in 0 .. Len(set)
  PROVE  /\ Column(set, k) \subseteq 0 .. BlockSize - 1
         /\ \A m \in 0 .. k - 1 : Column(set, k) \cap Column(set, m) = {}
<1>1. PICK room : Rooms(set, room) /\ room[Len(set)] <= BlockSize  BY RoomsFit
<1>2. BlockSize \in Nat /\ Len(set) \in Nat  BY SizesAreNumbers
<1>3. room[0] \in Nat /\ room[0] = IndexSize * PerBlock(set)  BY <1>1, <1>2 DEF Rooms
<1>4. Column(set, 0) = 0 .. room[0] - 1  BY <1>3 DEF Column
<1>5. \A j \in 1 .. Len(set) : /\ room[j - 1] \in Nat /\ room[j] \in Nat
                               /\ room[j] <= BlockSize
                               /\ Column(set, j) \subseteq room[j - 1] .. room[j] - 1
  <2> SUFFICES ASSUME NEW j \in 1 .. Len(set)
               PROVE  /\ room[j - 1] \in Nat /\ room[j] \in Nat /\ room[j] <= BlockSize
                      /\ Column(set, j) \subseteq room[j - 1] .. room[j] - 1
    OBVIOUS
  <2>1. j # 0  OBVIOUS
  <2>2. Column(set, j) = ColumnOffset(set)[j] ..
                           ColumnOffset(set)[j] + SizeInBlock(set[j]) * PerBlock(set) - 1
    BY <2>1 DEF Column
  <2> QED  BY <1>1, <2>2, ColumnIs
<1>6. ASSUME NEW j \in 0 .. Len(set)
      PROVE  /\ room[j] \in Nat /\ room[j] <= BlockSize
             /\ Column(set, j) \subseteq 0 .. room[j] - 1
  <2>1. CASE j = 0
    <3>1. 0 \in 0 .. Len(set) /\ Len(set) \in 0 .. Len(set)  BY <1>2
    <3>2. room[0] <= room[Len(set)]  BY <1>1, <3>1, RoomsGrow
    <3>3. room[Len(set)] \in Nat  BY <1>1, <3>1 DEF Rooms
    <3> QED  BY <1>1, <1>2, <1>3, <1>4, <2>1, <3>2, <3>3
  <2>2. CASE j # 0
    <3>1. j \in 1 .. Len(set)  BY <2>2
    <3>2. PICK x \in Nat, z \in Nat : x = room[j - 1] /\ z = room[j]  BY <1>5, <3>1
    <3>3. Column(set, j) \subseteq x .. z - 1 /\ z <= BlockSize  BY <1>5, <3>1, <3>2
    <3>4. x .. z - 1 \subseteq 0 .. z - 1  OBVIOUS
    <3> QED  BY <3>2, <3>3, <3>4
  <2> QED  BY <2>1, <2>2
<1>7. Column(set, k) \subseteq 0 .. BlockSize - 1
  <2>1. PICK z \in Nat : z = room[k]  BY <1>6
  <2>2. 0 .. z - 1 \subseteq 0 .. BlockSize - 1  BY <1>2, <1>6, <2>1
  <2> QED  BY <1>6, <2>1, <2>2
<1>8. ASSUME NEW m \in 0 .. k - 1 PROVE Column(set, k) \cap Column(set, m) = {}
  <2>1. /\ k \in 1 .. Len(set) /\ m \in 0 .. Len(set) /\ k - 1 \in m .. Len(set)
        /\ k - 1 \in 0 .. Len(set)
    BY <1>2
  <2>2. room[m] <= room[k - 1]  BY <1>1, <2>1, RoomsGrow
  <2>3. PICK x \in Nat, w \in Nat, z \in Nat : w = room[m] /\ x = room[k - 1] /\ z = room[k]
    BY <1>6, <2>1
  <2>4. Column(set, m) \subseteq 0 .. w - 1  BY <1>6, <2>1, <2>3
  <2>5. Column(set, k) \subseteq x .. z - 1  BY <1>5, <2>1, <2>3
  <2>6. (x .. z - 1) \cap (0 .. w - 1) = {}  BY <2>2, <2>3
  <2> QED  BY <2>4, <2>5, <2>6
<1> QED  BY <1>7, <1>8

(* The columns of every archetype and its hidden column lie within a block *)
(* and do not overlap, for any registered sizes (archetype.c:67-96).       *)
THEOREM ColumnsStayApart == Spec => []ColumnsApart
<1>1. CatalogInv => ColumnsApart
  <2> SUFFICES ASSUME CatalogInv, NEW a \in ready,
                      NEW k \in 0 .. Len(archetype[a])
               PROVE  /\ Column(archetype[a], k) \subseteq 0 .. BlockSize - 1
                      /\ \A m \in 0 .. k - 1 :
                           Column(archetype[a], k) \cap Column(archetype[a], m) = {}
    BY DEF ColumnsApart, Column
  <2>1. archetype[a] \in Seq(Component)  BY DEF CatalogInv, CatalogTypes
  <2> QED  BY <2>1, ColumnsFollow
<1> QED  BY <1>1, CatalogAlways, PTL

-----------------------------------------------------------------------------
(* WHAT COMPONENT ARRAYS HOLD                                              *)

Ascends(s) == \A i, j \in DOMAIN s : i < j => s[i] <= s[j]

(* Where v is in s, and where there is less.                               *)
Same(s, v) == { i \in DOMAIN s : s[i] = v }
Less(s, v) == { i \in DOMAIN s : s[i] < v }

Copies(s, v) == Cardinality(Same(s, v))

LEMMA PlacesFinite ==
  ASSUME NEW s \in Seq(Component), NEW v
  PROVE  /\ IsFiniteSet(Same(s, v)) /\ Copies(s, v) \in Nat
         /\ IsFiniteSet(Less(s, v)) /\ Cardinality(Less(s, v)) \in Nat
<1>1. DOMAIN s = 1 .. Len(s) /\ IsFiniteSet(1 .. Len(s))
  <2>1. 1 \in Int /\ Len(s) \in Int /\ DOMAIN s = 1 .. Len(s)  OBVIOUS
  <2> QED  BY <2>1, FS_Interval
<1>2. Same(s, v) \in SUBSET (1 .. Len(s)) /\ Less(s, v) \in SUBSET (1 .. Len(s))
  BY <1>1 DEF Same, Less
<1> QED  BY <1>1, <1>2, FS_Subset, FS_CardinalityType DEF Copies

LEMMA AsManyTogether ==
  ASSUME NEW S, NEW T, IsFiniteSet(S), IsFiniteSet(T), S \cap T = {}
  PROVE  Cardinality(S \cup T) = Cardinality(S) + Cardinality(T)
<1>1. Cardinality(S \cup T) = Cardinality(S) + Cardinality(T) - Cardinality(S \cap T)
  BY FS_Union
<1>2. Cardinality(S \cap T) = 0  BY FS_EmptySet
<1>3. Cardinality(S) \in Nat /\ Cardinality(T) \in Nat  BY FS_CardinalityType
<1> QED  BY <1>1, <1>2, <1>3

LEMMA AsManyMapped ==
  ASSUME NEW S, NEW T, IsFiniteSet(S), NEW f, DOMAIN f = S,
         \A i, j \in S : f[i] = f[j] => i = j,
         \A i \in S : f[i] \in T, \A j \in T : \E i \in S : f[i] = j
  PROVE  Cardinality(T) = Cardinality(S)
<1>1. PICK g : g = [ i \in S |-> f[i] ]  OBVIOUS
<1>2. g \in [ S -> T ] /\ \A i \in S : g[i] = f[i]  BY <1>1
<1>3. g \in Bijection(S, T)
  BY <1>2 DEF Bijection, Injection, Surjection, IsInjective
<1>4. ExistsBijection(S, T)  BY <1>3 DEF ExistsBijection
<1> QED  BY <1>4, FS_Bijection

LEMMA ElementsAreNumbers ==
  ASSUME NEW s \in Seq(Component)
  PROVE  /\ DOMAIN s = 1 .. Len(s) /\ Len(s) \in Nat
         /\ \A i \in 1 .. Len(s) : s[i] \in Component /\ s[i] \in Nat
<1>1. /\ DOMAIN s = 1 .. Len(s) /\ Len(s) \in Nat
      /\ \A i \in 1 .. Len(s) : s[i] \in Component
  OBVIOUS
<1> QED  BY <1>1, ComponentsAreNumbers

LEMMA LessGrows ==
  ASSUME NEW s \in Seq(Component), NEW v \in Nat
  PROVE  Cardinality(Less(s, v + 1)) = Cardinality(Less(s, v)) + Copies(s, v)
<1>1. \A i \in DOMAIN s : s[i] \in Nat  BY ElementsAreNumbers
<1>2. Less(s, v + 1) = Less(s, v) \cup Same(s, v)  BY <1>1 DEF Less, Same
<1>3. Less(s, v) \cap Same(s, v) = {}  BY <1>1 DEF Less, Same
<1> QED  BY <1>2, <1>3, PlacesFinite, AsManyTogether DEF Copies

(* In an ascending array the first places hold what is less.               *)
LEMMA LessFirst ==
  ASSUME NEW s \in Seq(Component), Ascends(s), NEW v \in Nat, NEW k \in 1 .. Len(s)
  PROVE  s[k] < v <=> k <= Cardinality(Less(s, v))
<1>1. PICK n \in Nat : n = Len(s) /\ DOMAIN s = 1 .. n  OBVIOUS
<1>2. \A i \in 1 .. n : s[i] \in Nat  BY <1>1, ElementsAreNumbers
<1> DEFINE Ends == { m \in Nat : m \in 1 .. n + 1 /\ (m <= n => ~ (s[m] < v)) }
<1>3. PICK m \in Ends : \A j \in Ends : m <= j
  <2>1. Ends \in SUBSET Nat /\ n + 1 \in Ends  OBVIOUS
  <2> HIDE DEF Ends
  <2> QED  BY <2>1, LeastMember
<1>4. m \in 1 .. n + 1 /\ (m <= n => ~ (s[m] < v))  BY <1>3
<1>5. ASSUME NEW i \in 1 .. n PROVE s[i] < v <=> i <= m - 1
  <2>1. i <= m - 1 => s[i] < v
    <3> SUFFICES ASSUME i <= m - 1 PROVE s[i] < v  OBVIOUS
    <3>1. i \in Nat /\ ~ (m <= i)  BY <1>4
    <3>2. i \notin Ends  BY <1>3, <3>1
    <3> QED  BY <3>1, <3>2
  <2>2. m <= i => ~ (s[i] < v)
    <3> SUFFICES ASSUME m <= i PROVE ~ (s[i] < v)  OBVIOUS
    <3>1. m \in 1 .. n /\ ~ (s[m] < v)  BY <1>4
    <3>2. s[m] <= s[i]
      <4>1. CASE m = i  BY <1>2, <4>1
      <4>2. CASE m < i  BY <1>1, <3>1, <4>2 DEF Ascends
      <4> QED  BY <3>1, <4>1, <4>2
    <3> QED  BY <1>2, <3>1, <3>2
  <2> QED  BY <1>4, <2>1, <2>2
<1>6. Less(s, v) = 1 .. m - 1  BY <1>1, <1>4, <1>5 DEF Less
<1>7. Cardinality(1 .. m - 1) = m - 1
  <2>1. 1 \in Int /\ m - 1 \in Int  BY <1>4
  <2>2. Cardinality(1 .. m - 1) = IF 1 > m - 1 THEN 0 ELSE (m - 1) - 1 + 1
    BY <2>1, FS_Interval
  <2> QED  BY <1>4, <2>2
<1> QED  BY <1>1, <1>5, <1>6, <1>7

(* There is one way to put what an array holds in ascending order.         *)
LEMMA OneOrder ==
  ASSUME NEW x \in Seq(Component), NEW y \in Seq(Component), Ascends(x), Ascends(y),
         \A v \in Nat : Copies(x, v) = Copies(y, v)
  PROVE  x = y
<1> DEFINE T == { v \in Nat : Cardinality(Less(x, v)) = Cardinality(Less(y, v)) }
<1>1. Nat \subseteq T
  <2>1. \A s \in {x, y} : Less(s, 0) = {}
    <3>1. \A s \in {x, y} : \A i \in DOMAIN s : s[i] \in Nat  BY ElementsAreNumbers
    <3> QED  BY <3>1 DEF Less
  <2>2. 0 \in T  BY <2>1
  <2>3. \A v \in Nat : v \in T => v + 1 \in T  BY LessGrows
  <2> HIDE DEF T
  <2> QED  BY <2>2, <2>3, SetInduction
<1>2. \A v \in Nat : Cardinality(Less(x, v)) = Cardinality(Less(y, v))  BY <1>1
<1>3. Len(x) = Len(y)
  <2>1. Byte * Byte \in Nat /\ \A c \in Component : c \in Nat /\ c < Byte * Byte
    <3>1. Byte \in Nat  BY ByteAssumption
    <3>2. Byte * Byte \in Nat  BY <3>1
    <3> QED  BY <3>2, CatalogAssumption
  <2>2. ASSUME NEW s \in {x, y} PROVE Cardinality(Less(s, Byte * Byte)) = Len(s)
    <3>1. DOMAIN s = 1 .. Len(s) /\ Len(s) \in Nat /\ \A i \in 1 .. Len(s) : s[i] \in Component
      OBVIOUS
    <3>2. Less(s, Byte * Byte) = 1 .. Len(s)  BY <2>1, <3>1 DEF Less
    <3>3. Cardinality(1 .. Len(s)) = IF 1 > Len(s) THEN 0 ELSE Len(s) - 1 + 1
      <4>1. 1 \in Int /\ Len(s) \in Int  BY <3>1
      <4> QED  BY <4>1, FS_Interval
    <3> QED  BY <3>1, <3>2, <3>3
  <2> QED  BY <1>2, <2>1, <2>2
<1>4. ASSUME NEW k \in 1 .. Len(x) PROVE x[k] = y[k]
  <2>1. x[k] \in Nat /\ y[k] \in Nat  BY <1>3, ElementsAreNumbers
  <2>2. \A v \in Nat : x[k] < v <=> y[k] < v  BY <1>2, <1>3, LessFirst
  <2>3. x[k] + 1 \in Nat /\ y[k] + 1 \in Nat  BY <2>1
  <2>4. y[k] < x[k] + 1 /\ x[k] < y[k] + 1  BY <2>1, <2>2, <2>3
  <2> QED  BY <2>1, <2>4
<1> QED  BY <1>3, <1>4, SeqEqual

LEMMA CopiesTogether ==
  ASSUME NEW a \in Seq(Component), NEW b \in Seq(Component), NEW v
  PROVE  Copies(a \o b, v) = Copies(a, v) + Copies(b, v)
<1>1. PICK n \in Nat, m \in Nat : n = Len(a) /\ m = Len(b)  OBVIOUS
<1>2. PICK s \in Seq(Component) :
        /\ s = a \o b /\ Len(s) = n + m
        /\ \A i \in 1 .. n + m : s[i] = IF i <= n THEN a[i] ELSE b[i - n]
  <2>1. /\ a \o b \in Seq(Component) /\ Len(a \o b) = Len(a) + Len(b)
        /\ \A i \in 1 .. Len(a) + Len(b) :
             (a \o b)[i] = IF i <= Len(a) THEN a[i] ELSE b[i - Len(a)]
    BY ConcatProperties
  <2> QED  BY <1>1, <2>1
<1>3. DOMAIN a = 1 .. n /\ DOMAIN b = 1 .. m /\ DOMAIN s = 1 .. n + m  BY <1>1, <1>2
<1> DEFINE Behind == { i \in n + 1 .. n + m : s[i] = v }
<1>4. Same(s, v) = Same(a, v) \cup Behind
  BY <1>2, <1>3 DEF Same
<1>5. Same(a, v) \cap Behind = {}  BY <1>3 DEF Same
<1>6. IsFiniteSet(Behind)
  <2>1. Behind \in SUBSET Same(s, v)  BY <1>4
  <2> QED  BY <2>1, PlacesFinite, FS_Subset
<1>7. Cardinality(Behind) = Copies(b, v)
  <2>1. PICK f : f = [ i \in Same(b, v) |-> i + n ]  OBVIOUS
  <2>2. \A i \in Same(b, v) : i \in 1 .. m /\ b[i] = v  BY <1>3 DEF Same
  <2>3. \A i \in Same(b, v) : f[i] \in Behind
    <3> SUFFICES ASSUME NEW i \in Same(b, v) PROVE i + n \in Behind  BY <2>1
    <3>1. i + n \in n + 1 .. n + m /\ ~ (i + n <= n) /\ (i + n) - n = i  BY <2>2
    <3>2. s[i + n] = b[i]  BY <1>2, <3>1
    <3> QED  BY <2>2, <3>1, <3>2
  <2>4. \A j \in Behind : \E i \in Same(b, v) : f[i] = j
    <3> SUFFICES ASSUME NEW j \in Behind PROVE \E i \in Same(b, v) : f[i] = j  OBVIOUS
    <3>1. j - n \in 1 .. m /\ ~ (j <= n) /\ (j - n) + n = j /\ j \in 1 .. n + m  OBVIOUS
    <3>2. b[j - n] = v  BY <1>2, <3>1
    <3>3. j - n \in Same(b, v)  BY <1>3, <3>1, <3>2 DEF Same
    <3> QED  BY <2>1, <3>1, <3>3
  <2>5. \A i, j \in Same(b, v) : f[i] = f[j] => i = j  BY <2>1, <2>2
  <2>6. DOMAIN f = Same(b, v)  BY <2>1
  <2> HIDE DEF Behind
  <2> QED  BY <2>3, <2>4, <2>5, <2>6, PlacesFinite, AsManyMapped DEF Copies
<1>8. Cardinality(Same(a, v) \cup Behind) = Cardinality(Same(a, v)) + Cardinality(Behind)
  <2> HIDE DEF Behind
  <2> QED  BY <1>5, <1>6, PlacesFinite, AsManyTogether
<1> QED  BY <1>2, <1>4, <1>7, <1>8 DEF Copies

LEMMA InitSetHolds ==
  ASSUME NEW a \in Seq(Component), NEW b \in Seq(Component)
  PROVE  /\ Ascends(InitSet(a, b))
         /\ \A v : Copies(InitSet(a, b), v) = Copies(a \o b, v)
<1>1. PICK all \in Seq(Component) : all = a \o b  BY ConcatProperties
<1>2. PICK n \in Nat : n = Len(all) /\ DOMAIN all = 1 .. n  OBVIOUS
<1>3. PICK p \in Shuffles(1 .. n) : /\ Arranged(all, p)
                                    /\ InitSet(a, b) = [ k \in 1 .. n |-> all[p[k]] ]
  <2>1. \E p \in Shuffles(1 .. Len(a \o b)) :
          /\ Arranged(a \o b, p)
          /\ InitSet(a, b) = [ k \in 1 .. Len(a \o b) |-> (a \o b)[p[k]] ]
    BY InitSetArranges
  <2> QED  BY <1>1, <1>2, <2>1
<1>4. PICK new : new = InitSet(a, b) /\ new \in Seq(Component)  BY InitSetArranges
<1>5. DOMAIN new = 1 .. n /\ \A k \in 1 .. n : new[k] = all[p[k]]  BY <1>3, <1>4
<1>6. Ascends(new)  BY <1>2, <1>3, <1>5 DEF Ascends, Arranged
<1>7. ASSUME NEW v PROVE Copies(new, v) = Copies(all, v)
  <2>1. /\ \A i \in 1 .. n : p[i] \in 1 .. n
        /\ \A i, j \in 1 .. n : p[i] = p[j] => i = j
        /\ \A j \in 1 .. n : \E i \in 1 .. n : p[i] = j
    BY DEF Shuffles
  <2>2. PICK f : f = [ i \in Same(new, v) |-> p[i] ]  OBVIOUS
  <2>3. \A i \in Same(new, v) : i \in 1 .. n /\ f[i] = p[i] /\ f[i] \in Same(all, v)
    BY <1>2, <1>5, <2>1, <2>2 DEF Same
  <2>4. \A j \in Same(all, v) : \E i \in Same(new, v) : f[i] = j
    <3> SUFFICES ASSUME NEW j \in Same(all, v) PROVE \E i \in Same(new, v) : f[i] = j  OBVIOUS
    <3>1. j \in 1 .. n /\ all[j] = v  BY <1>2 DEF Same
    <3>2. PICK i \in 1 .. n : p[i] = j  BY <2>1, <3>1
    <3>3. i \in Same(new, v)  BY <1>5, <3>1, <3>2 DEF Same
    <3> QED  BY <2>3, <3>2, <3>3
  <2>5. \A i, j \in Same(new, v) : f[i] = f[j] => i = j  BY <2>1, <2>3
  <2>6. DOMAIN f = Same(new, v)  BY <2>2
  <2>7. IsFiniteSet(Same(new, v))  BY <1>4, PlacesFinite
  <2> QED  BY <2>3, <2>4, <2>5, <2>6, <2>7, AsManyMapped DEF Copies
<1> QED  BY <1>1, <1>4, <1>6, <1>7

(* A component that is taken away and added again leaves the same array.   *)
LEMMA PutBack ==
  ASSUME NEW x \in Seq(Component), Ascends(x), NEW c \in ToSet(x)
  PROVE  AddTo(RemoveFrom(x, c), c) = x
<1>1. PICK n \in Nat : n = Len(x) /\ DOMAIN x = 1 .. n  OBVIOUS
<1>2. c \in Component /\ Contains(x, c)
  <2>1. \E i \in 1 .. n : x[i] = c  BY <1>1 DEF ToSet
  <2> QED  BY <1>1, <2>1 DEF Contains
<1>3. PICK k \in 1 .. n : x[k] = c /\ k = CHOOSE i \in Orders(x, c) : TRUE
  <2>1. \E k \in Orders(x, c) : TRUE  BY <1>1, <1>2 DEF Orders, Contains
  <2>2. (CHOOSE k \in Orders(x, c) : TRUE) \in Orders(x, c)  BY <2>1
  <2> QED  BY <1>1, <2>2 DEF Orders
<1>4. PICK a \in Seq(Component), b \in Seq(Component) :
        /\ a = SubSeq(x, 1, k - 1) /\ Len(a) = k - 1 /\ \A i \in 1 .. k - 1 : a[i] = x[i]
        /\ b = SubSeq(x, k + 1, n) /\ Len(b) = n - k
        /\ \A i \in 1 .. n - k : b[i] = x[k + i]
  <2>1. /\ SubSeq(x, 1, k - 1) \in Seq(Component) /\ Len(SubSeq(x, 1, k - 1)) = k - 1
        /\ \A i \in 1 .. k - 1 : SubSeq(x, 1, k - 1)[i] = x[i]
    BY <1>1
  <2>2. /\ SubSeq(x, k + 1, n) \in Seq(Component) /\ Len(SubSeq(x, k + 1, n)) = n - k
        /\ \A i \in 1 .. n - k : SubSeq(x, k + 1, n)[i] = x[k + i]
    BY <1>1
  <2> QED  BY <2>1, <2>2
<1>5. PICK one \in Seq(Component) : one = << c >>
  <2>1. << c >> \in Seq(Component)  BY <1>2
  <2> QED  BY <2>1
<1>6. PICK less \in Seq(Component) : less = RemoveFrom(x, c) /\ less = InitSet(a, b)
  <2>1. RemoveFrom(x, c) = InitSet(a, b)  BY <1>1, <1>2, <1>3, <1>4 DEF RemoveFrom
  <2> QED  BY <2>1, InitSetArranges
<1>7. PICK again \in Seq(Component) :
        again = AddTo(less, c) /\ again = InitSet(less, one) /\ Ascends(again)
  <2>1. AddTo(less, c) = InitSet(less, one)  BY <1>5 DEF AddTo
  <2> QED  BY <1>5, <1>6, <2>1, InitSetArranges, InitSetHolds
<1>8. x = (a \o << c >>) \o b
  <2>1. PICK s \in Seq(Component) :
          /\ s = a \o << c >> /\ Len(s) = k
          /\ \A i \in 1 .. k : s[i] = x[i]
    <3>1. /\ a \o << c >> \in Seq(Component) /\ Len(a \o << c >>) = Len(a) + Len(<< c >>)
          /\ \A i \in 1 .. Len(a) + Len(<< c >>) :
               (a \o << c >>)[i] = IF i <= Len(a) THEN a[i] ELSE << c >>[i - Len(a)]
      BY <1>5, ConcatProperties
    <3>2. Len(<< c >>) = 1 /\ << c >>[1] = c  OBVIOUS
    <3>3. Len(a) + Len(<< c >>) = k  BY <1>4, <3>2
    <3>4. ASSUME NEW i \in 1 .. k PROVE (a \o << c >>)[i] = x[i]
      <4>1. CASE i = k
        <5>1. ~ (i <= Len(a)) /\ i - Len(a) = 1  BY <1>4, <4>1
        <5> QED  BY <1>3, <3>1, <3>2, <3>3, <4>1, <5>1
      <4>2. CASE i # k
        <5>1. i \in 1 .. k - 1 /\ i <= Len(a)  BY <1>4, <4>2
        <5> QED  BY <1>4, <3>1, <3>3, <5>1
      <4> QED  BY <4>1, <4>2
    <3> QED  BY <3>1, <3>3, <3>4
  <2>2. PICK t \in Seq(Component) :
          /\ t = s \o b /\ Len(t) = Len(s) + Len(b)
          /\ \A i \in 1 .. Len(s) + Len(b) : t[i] = IF i <= Len(s) THEN s[i] ELSE b[i - Len(s)]
    <3>1. /\ s \o b \in Seq(Component) /\ Len(s \o b) = Len(s) + Len(b)
          /\ \A i \in 1 .. Len(s) + Len(b) :
               (s \o b)[i] = IF i <= Len(s) THEN s[i] ELSE b[i - Len(s)]
      BY ConcatProperties
    <3> QED  BY <3>1
  <2>3. Len(s) + Len(b) = n  BY <1>4, <2>1
  <2>4. ASSUME NEW i \in 1 .. n PROVE t[i] = x[i]
    <3>1. CASE i <= k
      <4>1. i \in 1 .. k  BY <3>1
      <4> QED  BY <2>1, <2>2, <2>3, <4>1
    <3>2. CASE i > k
      <4>1. i - k \in 1 .. n - k /\ k + (i - k) = i /\ ~ (i <= k)  BY <3>2
      <4>2. t[i] = b[i - k]  BY <2>1, <2>2, <2>3, <4>1
      <4>3. b[i - k] = x[k + (i - k)]  BY <1>4, <4>1
      <4> QED  BY <4>1, <4>2, <4>3
    <3> QED  BY <3>1, <3>2
  <2>5. t = x  BY <1>1, <2>2, <2>3, <2>4, SeqEqual
  <2> QED  BY <2>1, <2>2, <2>5
<1>9. ASSUME NEW v \in Nat PROVE Copies(again, v) = Copies(x, v)
  <2>1. /\ Copies(a, v) \in Nat /\ Copies(b, v) \in Nat /\ Copies(one, v) \in Nat
    BY <1>5, PlacesFinite
  <2>2. Copies(again, v) = Copies(less \o one, v)
    <3>1. Copies(InitSet(less, one), v) = Copies(less \o one, v)  BY InitSetHolds
    <3> QED  BY <1>7, <3>1
  <2>3. Copies(less \o one, v) = Copies(less, v) + Copies(one, v)
    BY <1>5, <1>6, CopiesTogether
  <2>4. Copies(less, v) = Copies(a, v) + Copies(b, v)
    <3>1. Copies(less, v) = Copies(a \o b, v)  BY <1>6, InitSetHolds
    <3> QED  BY <3>1, CopiesTogether
  <2>5. Copies(x, v) = (Copies(a, v) + Copies(one, v)) + Copies(b, v)
    <3>1. PICK s \in Seq(Component) : s = a \o one /\ x = s \o b
      <4>1. a \o one \in Seq(Component)  BY ConcatProperties
      <4> QED  BY <1>5, <1>8, <4>1
    <3>2. Copies(s \o b, v) = Copies(s, v) + Copies(b, v)  BY CopiesTogether
    <3>3. Copies(a \o one, v) = Copies(a, v) + Copies(one, v)  BY CopiesTogether
    <3> QED  BY <3>1, <3>2, <3>3
  <2> QED  BY <2>1, <2>2, <2>3, <2>4, <2>5
<1>10. again = x  BY <1>7, <1>9, OneOrder
<1> QED  BY <1>6, <1>7, <1>10

-----------------------------------------------------------------------------
(* WALKS THROUGH TWO ARRAYS                                                *)

LEMMA SkipThere ==
  ASSUME NEW s \in Seq(Component), NEW c \in Component, NEW k \in 1 .. Len(s) + 1
  PROVE  /\ SkipTo(s, k, c) \in k .. Len(s) + 1
         /\ SkipTo(s, k, c) <= Len(s) => s[SkipTo(s, k, c)] >= c
         /\ \A i \in k .. SkipTo(s, k, c) - 1 : s[i] < c
<1>1. PICK n \in Nat : n = Len(s) /\ k \in 1 .. n + 1  OBVIOUS
<1>2. c \in Nat /\ \A i \in 1 .. n : s[i] \in Nat  BY <1>1, ElementsAreNumbers, ComponentsAreNumbers
<1> DEFINE Ends == { m \in Nat : m \in k .. n + 1 /\ (m <= n => s[m] >= c) }
<1>3. PICK m \in Ends : \A j \in Ends : m <= j
  <2>1. Ends \in SUBSET Nat /\ n + 1 \in Ends  BY <1>1
  <2> HIDE DEF Ends
  <2> QED  BY <2>1, LeastMember
<1>4. m \in k .. n + 1 /\ (m <= n => s[m] >= c)  BY <1>3
<1>5. ASSUME NEW i \in k .. m - 1 PROVE s[i] < c
  <2>1. i \in 1 .. n /\ i \in k .. n + 1 /\ ~ (m <= i) /\ i \in Nat  BY <1>1, <1>4
  <2>2. i \notin Ends  BY <1>3, <2>1
  <2>3. ~ (s[i] >= c)  BY <2>1, <2>2
  <2> QED  BY <1>2, <2>1, <2>3
<1>6. \E j \in k .. Len(s) + 1 : /\ j <= Len(s) => s[j] >= c
                                 /\ \A i \in k .. j - 1 : s[i] < c
  BY <1>1, <1>4, <1>5
<1> QED  BY <1>6 DEF SkipTo

(* What a walk through s knows of c when it stops there.                   *)
LEMMA StopTells ==
  ASSUME NEW s \in Seq(Component), Ascends(s), NEW c \in Component,
         NEW k \in 1 .. Len(s) + 1, \A i \in 1 .. k - 1 : s[i] < c,
         NEW m, m = SkipTo(s, k, c)
  PROVE  /\ m \in 1 .. Len(s) + 1
         /\ \A i \in 1 .. m - 1 : s[i] < c
         /\ (m <= Len(s) /\ s[m] = c) <=> c \in ToSet(s)
<1>1. PICK n \in Nat : n = Len(s) /\ DOMAIN s = 1 .. n /\ k \in 1 .. n + 1  OBVIOUS
<1>2. c \in Nat /\ \A i \in 1 .. n : s[i] \in Nat  BY <1>1, ElementsAreNumbers, ComponentsAreNumbers
<1>3. /\ m \in k .. n + 1 /\ (m <= n => s[m] >= c)
      /\ \A i \in k .. m - 1 : s[i] < c
  BY <1>1, SkipThere
<1>4. \A i \in 1 .. m - 1 : s[i] < c
  <2> SUFFICES ASSUME NEW i \in 1 .. m - 1 PROVE s[i] < c  OBVIOUS
  <2>1. i \in 1 .. k - 1 \/ i \in k .. m - 1  BY <1>1, <1>3
  <2> QED  BY <1>3, <2>1
<1>5. ASSUME c \in ToSet(s) PROVE m <= n /\ s[m] = c
  <2>1. PICK i \in 1 .. n : s[i] = c  BY <1>1, <1>5 DEF ToSet
  <2>2. ~ (i <= m - 1)
    <3>1. i <= m - 1 => s[i] < c  BY <1>3, <1>4
    <3> QED  BY <1>2, <2>1, <3>1
  <2>3. m <= i /\ m \in 1 .. n  BY <1>1, <1>3, <2>2
  <2>4. s[m] <= s[i]
    <3>1. CASE m = i  BY <1>2, <3>1
    <3>2. CASE m < i  BY <1>1, <2>3, <3>2 DEF Ascends
    <3> QED  BY <2>3, <3>1, <3>2
  <2> QED  BY <1>2, <1>3, <2>1, <2>3, <2>4
<1>6. ASSUME m <= n, s[m] = c PROVE c \in ToSet(s)
  <2>1. m \in 1 .. n  BY <1>1, <1>3, <1>6
  <2> QED  BY <1>1, <1>6, <2>1 DEF ToSet
<1> QED  BY <1>1, <1>3, <1>4, <1>5, <1>6

(* Where alias_ecs_ComponentSet_is_subset is in x when it is through with  *)
(* the first n of y: at no place if one of them is missing.                *)
WalkedTo(x, y, n) ==
  { k \in 0 .. Len(x) + 1 :
      IF k = 0 THEN \E i \in 1 .. n : y[i] \notin ToSet(x)
      ELSE /\ \A i \in 1 .. n : y[i] \in ToSet(x)
           /\ \A i \in 1 .. k - 1 : n > 0 /\ x[i] < y[n] }

SubsetStep(x, y, n, k) ==
  LET m == SkipTo(x, k, y[n]) IN
  IF k # 0 /\ m <= Len(x) /\ x[m] = y[n] THEN m ELSE 0

LEMMA SubsetGoesOn ==
  ASSUME NEW x \in Seq(Component), NEW y \in Seq(Component), Ascends(x), Ascends(y),
         NEW n \in 1 .. Len(y), NEW k \in WalkedTo(x, y, n - 1)
  PROVE  SubsetStep(x, y, n, k) \in WalkedTo(x, y, n)
<1>1. n \in Nat /\ n - 1 \in Nat /\ n > 0 /\ Len(x) \in Nat /\ y[n] \in Component  OBVIOUS
<1>2. CASE k = 0
  <2>1. SubsetStep(x, y, n, k) = 0  BY <1>2 DEF SubsetStep
  <2>2. PICK i \in 1 .. n - 1 : y[i] \notin ToSet(x)  BY <1>2 DEF WalkedTo
  <2>3. i \in 1 .. n  BY <1>1
  <2> QED  BY <1>1, <2>1, <2>2, <2>3 DEF WalkedTo
<1>3. CASE k # 0
  <2>1. /\ k \in 1 .. Len(x) + 1
        /\ \A i \in 1 .. n - 1 : y[i] \in ToSet(x)
        /\ \A i \in 1 .. k - 1 : n - 1 > 0 /\ x[i] < y[n - 1]
    BY <1>3 DEF WalkedTo
  <2>2. ASSUME NEW i \in 1 .. k - 1 PROVE x[i] < y[n]
    <3>1. n - 1 > 0 /\ x[i] < y[n - 1]  BY <2>1
    <3>2. n - 1 \in 1 .. Len(y) /\ i \in 1 .. Len(x)  BY <1>1, <2>1, <3>1
    <3>3. x[i] \in Nat /\ y[n - 1] \in Nat /\ y[n] \in Nat  BY <3>2, ElementsAreNumbers
    <3>4. y[n - 1] <= y[n]  BY <1>1, <3>2 DEF Ascends
    <3> QED  BY <3>1, <3>3, <3>4
  <2>8. PICK c \in Component : c = y[n]  BY <1>1
  <2>3. PICK m : m = SkipTo(x, k, c)  OBVIOUS
  <2>4. /\ m \in 1 .. Len(x) + 1
        /\ \A i \in 1 .. m - 1 : x[i] < c
        /\ (m <= Len(x) /\ x[m] = c) <=> c \in ToSet(x)
    <3>1. \A i \in 1 .. k - 1 : x[i] < c  BY <2>2, <2>8
    <3> QED  BY <2>1, <2>3, <3>1, StopTells
  <2>5. \A i \in 1 .. n : i \in 1 .. n - 1 \/ i = n  BY <1>1
  <2>6. CASE y[n] \in ToSet(x)
    <3>1. SubsetStep(x, y, n, k) = m  BY <1>3, <2>3, <2>4, <2>6, <2>8 DEF SubsetStep
    <3>2. \A i \in 1 .. n : y[i] \in ToSet(x)  BY <2>1, <2>5, <2>6
    <3>3. m \in 0 .. Len(x) + 1 /\ m # 0  BY <1>1, <2>4
    <3> QED  BY <1>1, <2>4, <2>8, <3>1, <3>2, <3>3 DEF WalkedTo
  <2>7. CASE y[n] \notin ToSet(x)
    <3>1. SubsetStep(x, y, n, k) = 0  BY <2>3, <2>4, <2>7, <2>8 DEF SubsetStep
    <3>2. n \in 1 .. n  BY <1>1
    <3> QED  BY <1>1, <2>7, <3>1, <3>2 DEF WalkedTo
  <2> QED  BY <2>6, <2>7
<1> QED  BY <1>2, <1>3

LEMMA SubsetMeans ==
  ASSUME NEW x \in Seq(Component), NEW y \in Seq(Component), Ascends(x), Ascends(y)
  PROVE  IsSubset(x, y) <=> ToSet(y) \subseteq ToSet(x)
<1>1. PICK n \in Nat : n = Len(y) /\ DOMAIN y = 1 .. n  OBVIOUS
<1>2. PICK all : all = [ j \in 0 .. n |-> WalkedTo(x, y, j) ]  OBVIOUS
<1>3. PICK step : step = [ j \in 0 + 1 .. n |->
                             [ k \in 0 .. Len(x) + 1 |-> SubsetStep(x, y, j, k) ] ]
  OBVIOUS
<1>12. PICK first : first = 1 /\ 0 <= n  BY <1>1
<1>4. PICK f : FollowsBetween(f, first, step, all, 0, n)
  <2>1. first \in all[0]
    <3>1. 1 \in WalkedTo(x, y, 0)  BY DEF WalkedTo
    <3> QED  BY <1>1, <1>2, <1>12, <3>1
  <2>2. \A j \in 0 + 1 .. n : \A k \in all[j - 1] : step[j][k] \in all[j]
    <3> SUFFICES ASSUME NEW j \in 0 + 1 .. n, NEW k \in all[j - 1] PROVE step[j][k] \in all[j]
      OBVIOUS
    <3>1. j \in 1 .. Len(y) /\ j - 1 \in 0 .. n /\ j \in 0 .. n  BY <1>1
    <3>2. k \in WalkedTo(x, y, j - 1)  BY <1>2, <3>1
    <3>3. SubsetStep(x, y, j, k) \in WalkedTo(x, y, j)  BY <3>1, <3>2, SubsetGoesOn
    <3>4. k \in 0 .. Len(x) + 1  BY <3>2 DEF WalkedTo
    <3>5. step[j] = [ i \in 0 .. Len(x) + 1 |-> SubsetStep(x, y, j, i) ]  BY <1>3
    <3>6. step[j][k] = SubsetStep(x, y, j, k)  BY <3>4, <3>5
    <3> QED  BY <1>2, <3>1, <3>3, <3>6
  <2> QED  BY <1>1, <1>12, <2>1, <2>2, RepeatedBetween
<1>5. ASSUME NEW j \in 0 + 1 .. n PROVE f[j] = SubsetStep(x, y, j, f[j - 1])
  <2>3. j - 1 \in 0 .. n  OBVIOUS
  <2>1. f[j] = step[j][f[j - 1]] /\ f[j - 1] \in all[j - 1]
    BY <1>4 DEF FollowsBetween
  <2>2. f[j - 1] \in 0 .. Len(x) + 1  BY <1>2, <2>1, <2>3 DEF WalkedTo
  <2>4. step[j] = [ i \in 0 .. Len(x) + 1 |-> SubsetStep(x, y, j, i) ]  BY <1>3
  <2> QED  BY <2>1, <2>2, <2>4
<1>6. f = [ j \in 0 .. n |->
              IF j = 0 THEN 1
              ELSE LET m == SkipTo(x, f[j - 1], y[j]) IN
                   IF f[j - 1] # 0 /\ m <= Len(x) /\ x[m] = y[j] THEN m ELSE 0 ]
  <2>1. f = [ j \in 0 .. n |-> f[j] ] /\ f[0] = 1  BY <1>4, <1>12 DEF FollowsBetween
  <2>2. ASSUME NEW j \in 0 .. n, j # 0
        PROVE  f[j] = LET m == SkipTo(x, f[j - 1], y[j]) IN
                      IF f[j - 1] # 0 /\ m <= Len(x) /\ x[m] = y[j] THEN m ELSE 0
    <3>1. j \in 0 + 1 .. n  BY <2>2
    <3> QED  BY <1>5, <3>1 DEF SubsetStep
  <2> QED  BY <2>1, <2>2
<1>7. PICK place : /\ place = [ j \in 0 .. n |->
                        IF j = 0 THEN 1
                        ELSE LET m == SkipTo(x, place[j - 1], y[j]) IN
                             IF place[j - 1] # 0 /\ m <= Len(x) /\ x[m] = y[j] THEN m ELSE 0 ]
                   /\ IsSubset(x, y) = (place[n] # 0)
  BY <1>1, <1>6, ZenonT(60) DEF IsSubset
<1>8. place[n] \in all[n]
  <2>1. place[0] \in all[0]
    <3>1. place[0] = 1 /\ 1 \in WalkedTo(x, y, 0)  BY <1>7 DEF WalkedTo
    <3> QED  BY <1>2, <3>1
  <2>2. ASSUME NEW j \in 0 + 1 .. n, place[j - 1] \in all[j - 1] PROVE place[j] \in all[j]
    <3>1. j \in 1 .. Len(y) /\ j - 1 \in 0 .. n /\ j \in 0 .. n /\ j # 0  BY <1>1
    <3>2. place[j - 1] \in WalkedTo(x, y, j - 1)  BY <1>2, <2>2, <3>1
    <3>3. place[j] = SubsetStep(x, y, j, place[j - 1])  BY <1>7, <3>1 DEF SubsetStep
    <3>4. SubsetStep(x, y, j, place[j - 1]) \in WalkedTo(x, y, j)
      BY <3>1, <3>2, SubsetGoesOn
    <3> QED  BY <1>2, <3>1, <3>3, <3>4
  <2> QED  BY <2>1, <2>2, ReachedBetween
<1>9. place[n] \in WalkedTo(x, y, n)  BY <1>2, <1>8
<1>10. place[n] # 0 <=> \A i \in 1 .. n : y[i] \in ToSet(x)  BY <1>9 DEF WalkedTo
<1>11. ToSet(y) \subseteq ToSet(x) <=> \A i \in 1 .. n : y[i] \in ToSet(x)
  BY <1>1 DEF ToSet
<1> QED  BY <1>7, <1>10, <1>11

(* Where the walk of set_entity_archetype is when it is through with the   *)
(* first w components of x: whatever of them is in y was copied from one   *)
(* that is as good.                                                        *)
CopiedAt(x, y, w, at) ==
  /\ \A pair \in at.pairs : /\ pair[1] \in 1 .. w /\ pair[2] \in 1 .. Len(y)
                            /\ x[pair[1]] = y[pair[2]]
  /\ \A i \in 1 .. w : x[i] \in ToSet(y) => \E pair \in at.pairs : x[pair[1]] = x[i]
  /\ \A i \in 1 .. at.r - 1 : w > 0 /\ y[i] <= x[w]

CopiedTo(x, y, w) ==
  { at \in [ r : 1 .. Len(y) + 1, pairs : SUBSET (Nat \X Nat) ] : CopiedAt(x, y, w, at) }

CopyStep(x, y, w, at) ==
  LET r == SkipTo(y, at.r, x[w]) IN
  IF r <= Len(y) /\ y[r] = x[w]
    THEN [ r |-> r + 1, pairs |-> at.pairs \cup { << w, r >> } ]
    ELSE [ r |-> r, pairs |-> at.pairs ]

LEMMA CopyGoesOn ==
  ASSUME NEW x \in Seq(Component), NEW y \in Seq(Component), Ascends(x), Ascends(y),
         NEW w \in 1 .. Len(x), NEW at \in CopiedTo(x, y, w - 1)
  PROVE  CopyStep(x, y, w, at) \in CopiedTo(x, y, w)
<1>1. PICK n \in Nat : n = Len(y) /\ DOMAIN y = 1 .. n  OBVIOUS
<1>2. w \in Nat /\ w - 1 \in Nat /\ w > 0  OBVIOUS
<1>3. PICK c \in Component : c = x[w]  OBVIOUS
<1>4. c \in Nat /\ \A i \in 1 .. n : y[i] \in Nat  BY <1>1, ElementsAreNumbers, ComponentsAreNumbers
<1>5. PICK k \in 1 .. n + 1, old \in SUBSET (Nat \X Nat) : at = [ r |-> k, pairs |-> old ]
  BY <1>1 DEF CopiedTo
<1>6. at.r = k /\ at.pairs = old  BY <1>5
<1>7. /\ \A pair \in old : /\ pair[1] \in 1 .. w - 1 /\ pair[2] \in 1 .. n
                           /\ x[pair[1]] = y[pair[2]]
      /\ \A i \in 1 .. w - 1 : x[i] \in ToSet(y) => \E pair \in old : x[pair[1]] = x[i]
      /\ \A i \in 1 .. k - 1 : w - 1 > 0 /\ y[i] <= x[w - 1]
  BY <1>1, <1>6 DEF CopiedTo, CopiedAt
<1>8. \A i \in 1 .. k - 1 : i \in 1 .. n /\ w - 1 \in 1 .. Len(x) /\ x[w - 1] <= c
  <2> SUFFICES ASSUME NEW i \in 1 .. k - 1
               PROVE  i \in 1 .. n /\ w - 1 \in 1 .. Len(x) /\ x[w - 1] <= c
    OBVIOUS
  <2>1. w - 1 > 0  BY <1>7
  <2>2. w - 1 \in 1 .. Len(x)  BY <1>2, <2>1
  <2>3. x[w - 1] <= x[w]  BY <1>2, <2>2 DEF Ascends
  <2> QED  BY <1>1, <1>3, <2>2, <2>3
<1>9. \A i \in 1 .. k - 1 : y[i] <= c
  <2> SUFFICES ASSUME NEW i \in 1 .. k - 1 PROVE y[i] <= c  OBVIOUS
  <2>1. x[w - 1] \in Nat /\ y[i] \in Nat  BY <1>4, <1>8, ElementsAreNumbers
  <2>2. y[i] <= x[w - 1] /\ x[w - 1] <= c  BY <1>7, <1>8
  <2> QED  BY <1>4, <2>1, <2>2
<1>10. PICK m : m = SkipTo(y, k, c)  OBVIOUS
<1>11. /\ m \in k .. n + 1 /\ (m <= n => y[m] >= c)
       /\ \A i \in k .. m - 1 : y[i] < c
  BY <1>1, <1>10, SkipThere
<1>12. m \in 1 .. n + 1 /\ m \in Nat  BY <1>11
<1>13. \A i \in 1 .. w : i \in 1 .. w - 1 \/ i = w  BY <1>2
<1>14. CASE m <= n /\ y[m] = c
  <2>1. PICK new : new = old \cup { << w, m >> }  OBVIOUS
  <2>2. CopyStep(x, y, w, at) = [ r |-> m + 1, pairs |-> new ]
    BY <1>1, <1>3, <1>6, <1>10, <1>14, <2>1 DEF CopyStep
  <2>3. m \in 1 .. n /\ << w, m >> \in Nat \X Nat /\ << w, m >>[1] = w /\ << w, m >>[2] = m
    BY <1>2, <1>12, <1>14
  <2>4. new \in SUBSET (Nat \X Nat) /\ m + 1 \in 1 .. n + 1  BY <2>1, <2>3
  <2>5. ASSUME NEW pair \in new
        PROVE  pair[1] \in 1 .. w /\ pair[2] \in 1 .. n /\ x[pair[1]] = y[pair[2]]
    <3>1. CASE pair \in old
      <4>1. pair[1] \in 1 .. w - 1  BY <1>7, <3>1
      <4>2. pair[1] \in 1 .. w  BY <1>2, <4>1
      <4> QED  BY <1>7, <3>1, <4>2
    <3>2. CASE pair = << w, m >>
      <4>1. pair[1] = w /\ pair[2] = m  BY <2>3, <3>2
      <4>2. w \in 1 .. w  BY <1>2
      <4> QED  BY <1>3, <1>14, <2>3, <4>1, <4>2
    <3> QED  BY <2>1, <3>1, <3>2
  <2>6. ASSUME NEW i \in 1 .. w, x[i] \in ToSet(y)
        PROVE  \E pair \in new : x[pair[1]] = x[i]
    <3>1. CASE i \in 1 .. w - 1
      <4>1. PICK pair \in old : x[pair[1]] = x[i]  BY <1>7, <2>6, <3>1
      <4> QED  BY <2>1, <4>1
    <3>2. CASE i = w
      <4>1. PICK pair \in new : pair[1] = w  BY <2>1, <2>3
      <4> QED  BY <3>2, <4>1
    <3> QED  BY <1>13, <3>1, <3>2
  <2>7. ASSUME NEW i \in 1 .. (m + 1) - 1 PROVE w > 0 /\ y[i] <= x[w]
    <3>1. i \in 1 .. n /\ i <= m  BY <1>12, <2>3
    <3>2. y[i] <= y[m]
      <4>1. CASE i = m  BY <1>4, <3>1, <4>1
      <4>2. CASE i < m  BY <1>1, <2>3, <3>1, <4>2 DEF Ascends
      <4> QED  BY <1>12, <3>1, <4>1, <4>2
    <3> QED  BY <1>2, <1>3, <1>14, <3>2
  <2>8. PICK next : next = [ r |-> m + 1, pairs |-> new ]  OBVIOUS
  <2>9. next \in [ r : 1 .. n + 1, pairs : SUBSET (Nat \X Nat) ]
        /\ next.r = m + 1 /\ next.pairs = new
    BY <2>4, <2>8
  <2>10. CopiedAt(x, y, w, next)  BY <1>1, <2>5, <2>6, <2>7, <2>9 DEF CopiedAt
  <2> QED  BY <1>1, <2>2, <2>8, <2>9, <2>10 DEF CopiedTo
<1>15. CASE ~ (m <= n /\ y[m] = c)
  <2>1. CopyStep(x, y, w, at) = [ r |-> m, pairs |-> old ]
    BY <1>1, <1>3, <1>6, <1>10, <1>15 DEF CopyStep
  <2>2. ASSUME NEW pair \in old
        PROVE  pair[1] \in 1 .. w /\ pair[2] \in 1 .. n /\ x[pair[1]] = y[pair[2]]
    <3>1. pair[1] \in 1 .. w - 1  BY <1>7
    <3>2. pair[1] \in 1 .. w  BY <1>2, <3>1
    <3> QED  BY <1>7, <3>2
  <2>3. ASSUME c \in ToSet(y) PROVE \E pair \in old : x[pair[1]] = c
    <3>1. PICK j \in 1 .. n : y[j] = c  BY <1>1, <2>3 DEF ToSet
    <3>2. j < m
      <4> SUFFICES ASSUME m <= j PROVE FALSE  BY <1>12
      <4>1. m \in 1 .. n /\ y[m] >= c  BY <1>11, <1>12
      <4>2. y[m] <= y[j]
        <5>1. CASE m = j  BY <1>4, <4>1, <5>1
        <5>2. CASE m < j  BY <1>1, <4>1, <5>2 DEF Ascends
        <5> QED  BY <1>12, <5>1, <5>2
      <4> QED  BY <1>4, <1>15, <3>1, <4>1, <4>2
    <3>3. ~ (k <= j)
      <4>1. k <= j => y[j] < c  BY <1>11, <3>2
      <4> QED  BY <1>4, <3>1, <4>1
    <3>4. j \in 1 .. k - 1  BY <3>3
    <3>5. y[j] <= x[w - 1] /\ x[w - 1] <= c /\ x[w - 1] \in Nat
      BY <1>7, <1>8, <3>4, ElementsAreNumbers
    <3>6. x[w - 1] = c /\ w - 1 \in 1 .. w - 1
      <4>1. w - 1 > 0  BY <1>7, <3>4
      <4> QED  BY <1>2, <1>4, <3>1, <3>5, <4>1
    <3> QED  BY <1>7, <2>3, <3>6
  <2>4. ASSUME NEW i \in 1 .. w, x[i] \in ToSet(y)
        PROVE  \E pair \in old : x[pair[1]] = x[i]
    <3>1. CASE i \in 1 .. w - 1  BY <1>7, <2>4, <3>1
    <3>2. CASE i = w  BY <1>3, <2>3, <2>4, <3>2
    <3> QED  BY <1>13, <3>1, <3>2
  <2>5. ASSUME NEW i \in 1 .. m - 1 PROVE w > 0 /\ y[i] <= x[w]
    <3>1. i \in 1 .. k - 1 \/ i \in k .. m - 1  BY <1>12
    <3>2. i \in 1 .. n  BY <1>12
    <3> QED  BY <1>2, <1>3, <1>4, <1>9, <1>11, <3>1, <3>2
  <2>8. PICK next : next = [ r |-> m, pairs |-> old ]  OBVIOUS
  <2>9. next \in [ r : 1 .. n + 1, pairs : SUBSET (Nat \X Nat) ]
        /\ next.r = m /\ next.pairs = old
    BY <1>12, <2>8
  <2>10. CopiedAt(x, y, w, next)  BY <1>1, <2>2, <2>4, <2>5, <2>9 DEF CopiedAt
  <2> QED  BY <1>1, <2>1, <2>8, <2>9, <2>10 DEF CopiedTo
<1> QED  BY <1>14, <1>15

LEMMA CopiedMeans ==
  ASSUME NEW x \in Seq(Component), NEW y \in Seq(Component), Ascends(x), Ascends(y)
  PROVE  /\ { x[pair[1]] : pair \in CopiedColumns(x, y) } = ToSet(x) \cap ToSet(y)
         /\ \A pair \in CopiedColumns(x, y) : x[pair[1]] = y[pair[2]]
<1>1. PICK n \in Nat : n = Len(x) /\ DOMAIN x = 1 .. n  OBVIOUS
<1>2. PICK all : all = [ j \in 0 .. n |-> CopiedTo(x, y, j) ]  OBVIOUS
<1>3. PICK step : step = [ j \in 0 + 1 .. n |->
                             [ at \in [ r : 1 .. Len(y) + 1, pairs : SUBSET (Nat \X Nat) ]
                                 |-> CopyStep(x, y, j, at) ] ]
  OBVIOUS
<1>4. PICK first : first = [ r |-> 1, pairs |-> {} ] /\ first \in CopiedTo(x, y, 0) /\ 0 <= n
  <2>1. PICK first : first = [ r |-> 1, pairs |-> {} ]  OBVIOUS
  <2>2. first.r = 1 /\ first.pairs = {}  BY <2>1
  <2>3. Len(y) \in Nat  OBVIOUS
  <2>4. first \in [ r : 1 .. Len(y) + 1, pairs : SUBSET (Nat \X Nat) ]  BY <2>1, <2>3
  <2>5. CopiedAt(x, y, 0, first)  BY <2>2 DEF CopiedAt
  <2> QED  BY <1>1, <2>1, <2>4, <2>5 DEF CopiedTo
<1>5. PICK f : FollowsBetween(f, first, step, all, 0, n)
  <2>1. first \in all[0]  BY <1>1, <1>2, <1>4
  <2>2. \A j \in 0 + 1 .. n : \A at \in all[j - 1] : step[j][at] \in all[j]
    <3> SUFFICES ASSUME NEW j \in 0 + 1 .. n, NEW at \in all[j - 1] PROVE step[j][at] \in all[j]
      OBVIOUS
    <3>1. j \in 1 .. Len(x) /\ j - 1 \in 0 .. n /\ j \in 0 .. n  BY <1>1
    <3>2. at \in CopiedTo(x, y, j - 1)  BY <1>2, <3>1
    <3>3. CopyStep(x, y, j, at) \in CopiedTo(x, y, j)  BY <3>1, <3>2, CopyGoesOn
    <3>4. at \in [ r : 1 .. Len(y) + 1, pairs : SUBSET (Nat \X Nat) ]  BY <3>2 DEF CopiedTo
    <3>5. step[j] = [ last \in [ r : 1 .. Len(y) + 1, pairs : SUBSET (Nat \X Nat) ]
                        |-> CopyStep(x, y, j, last) ]
      BY <1>3
    <3>6. step[j][at] = CopyStep(x, y, j, at)  BY <3>4, <3>5
    <3> QED  BY <1>2, <3>1, <3>3, <3>6
  <2> QED  BY <1>1, <1>4, <2>1, <2>2, RepeatedBetween
<1>6. ASSUME NEW j \in 0 + 1 .. n PROVE f[j] = CopyStep(x, y, j, f[j - 1])
  <2>1. j - 1 \in 0 .. n  OBVIOUS
  <2>2. f[j] = step[j][f[j - 1]] /\ f[j - 1] \in all[j - 1]
    BY <1>5 DEF FollowsBetween
  <2>3. f[j - 1] \in [ r : 1 .. Len(y) + 1, pairs : SUBSET (Nat \X Nat) ]
    BY <1>2, <2>1, <2>2 DEF CopiedTo
  <2>4. step[j] = [ last \in [ r : 1 .. Len(y) + 1, pairs : SUBSET (Nat \X Nat) ]
                      |-> CopyStep(x, y, j, last) ]
    BY <1>3
  <2> QED  BY <2>2, <2>3, <2>4
<1>7. f = [ j \in 0 .. n |->
              IF j = 0 THEN [ r |-> 1, pairs |-> {} ]
              ELSE LET r == SkipTo(y, f[j - 1].r, x[j]) IN
                   IF r <= Len(y) /\ y[r] = x[j]
                     THEN [ r |-> r + 1, pairs |-> f[j - 1].pairs \cup { << j, r >> } ]
                     ELSE [ r |-> r, pairs |-> f[j - 1].pairs ] ]
  <2>1. f = [ j \in 0 .. n |-> f[j] ] /\ f[0] = [ r |-> 1, pairs |-> {} ]
    BY <1>4, <1>5 DEF FollowsBetween
  <2>2. ASSUME NEW j \in 0 .. n, j # 0
        PROVE  f[j] = LET r == SkipTo(y, f[j - 1].r, x[j]) IN
                      IF r <= Len(y) /\ y[r] = x[j]
                        THEN [ r |-> r + 1, pairs |-> f[j - 1].pairs \cup { << j, r >> } ]
                        ELSE [ r |-> r, pairs |-> f[j - 1].pairs ]
    <3>1. j \in 0 + 1 .. n  BY <2>2
    <3> QED  BY <1>6, <3>1 DEF CopyStep
  <2> QED  BY <2>1, <2>2
<1>8. PICK walk : /\ walk = [ j \in 0 .. n |->
                       IF j = 0 THEN [ r |-> 1, pairs |-> {} ]
                       ELSE LET r == SkipTo(y, walk[j - 1].r, x[j]) IN
                            IF r <= Len(y) /\ y[r] = x[j]
                              THEN [ r |-> r + 1, pairs |-> walk[j - 1].pairs \cup { << j, r >> } ]
                              ELSE [ r |-> r, pairs |-> walk[j - 1].pairs ] ]
                  /\ CopiedColumns(x, y) = walk[n].pairs
  BY <1>1, <1>7 DEF CopiedColumns
<1>9. walk[n] \in all[n]
  <2>1. walk[0] \in all[0]
    <3>1. walk[0] = [ r |-> 1, pairs |-> {} ]  BY <1>8
    <3> QED  BY <1>2, <1>4, <3>1
  <2>2. ASSUME NEW j \in 0 + 1 .. n, walk[j - 1] \in all[j - 1] PROVE walk[j] \in all[j]
    <3>1. j \in 1 .. Len(x) /\ j - 1 \in 0 .. n /\ j \in 0 .. n /\ j # 0  BY <1>1
    <3>2. walk[j - 1] \in CopiedTo(x, y, j - 1)  BY <1>2, <2>2, <3>1
    <3>3. walk[j] = CopyStep(x, y, j, walk[j - 1])  BY <1>8, <3>1 DEF CopyStep
    <3>4. CopyStep(x, y, j, walk[j - 1]) \in CopiedTo(x, y, j)
      BY <3>1, <3>2, CopyGoesOn
    <3> QED  BY <1>2, <3>1, <3>3, <3>4
  <2> QED  BY <1>4, <2>1, <2>2, ReachedBetween
<1>10. CopiedAt(x, y, n, walk[n])  BY <1>2, <1>9 DEF CopiedTo
<1>11. PICK copied : copied = CopiedColumns(x, y)  OBVIOUS
<1>12. /\ \A pair \in copied : /\ pair[1] \in 1 .. n /\ pair[2] \in 1 .. Len(y)
                               /\ x[pair[1]] = y[pair[2]]
       /\ \A i \in 1 .. n : x[i] \in ToSet(y) => \E pair \in copied : x[pair[1]] = x[i]
  BY <1>8, <1>10, <1>11 DEF CopiedAt
<1>13. { x[pair[1]] : pair \in copied } = ToSet(x) \cap ToSet(y)
  <2>1. \A pair \in copied : x[pair[1]] \in ToSet(x) /\ x[pair[1]] \in ToSet(y)
    BY <1>1, <1>12 DEF ToSet
  <2>2. \A v \in ToSet(x) \cap ToSet(y) : \E pair \in copied : x[pair[1]] = v
    BY <1>1, <1>12 DEF ToSet
  <2> QED  BY <2>1, <2>2
<1> QED  BY <1>11, <1>12, <1>13

-----------------------------------------------------------------------------
(* ARRAYS ASCEND                                                           *)

Meant(s) == Ascends(s) /\ Len(s) <= MaxCount

SetsSound == (\A a \in Entries : Meant(archetype[a])) /\ Meant(want)

LEMMA NothingMeant == Meant(<< >>)
<1>1. Len(<< >>) = 0 /\ DOMAIN << >> = {} /\ MaxCount \in Nat  BY CatalogAssumption
<1> QED  BY <1>1 DEF Meant, Ascends

(* What the three callers ask for.                                         *)
LEMMA SetsMeant ==
  /\ \A named \in BoundedSeq(Component, MaxCount) : Meant(InitSet(named, << >>))
  /\ \A set \in Seq(Component), c \in Component :
       /\ Len(set) < MaxCount => Meant(AddTo(set, c))
       /\ Len(set) <= MaxCount /\ Contains(set, c) => Meant(RemoveFrom(set, c))
<1>1. MaxCount \in Nat  BY CatalogAssumption
<1>2. ASSUME NEW named \in BoundedSeq(Component, MaxCount)
      PROVE  Meant(InitSet(named, << >>))
  <2>1. PICK n \in 0 .. MaxCount : named \in [ 1 .. n -> Component ]
    BY CatalogAssumption DEF BoundedSeq, SeqOf
  <2>2. PICK a \in Seq(Component) : a = named /\ Len(a) = n  BY <2>1
  <2>3. PICK none \in Seq(Component) : none = << >> /\ Len(none) = 0
    <3>1. << >> \in Seq(Component) /\ Len(<< >>) = 0  OBVIOUS
    <3> QED  BY <3>1
  <2>4. PICK new : new = InitSet(a, none) /\ Len(new) = Len(a) + Len(none) /\ Ascends(new)
    BY InitSetArranges, InitSetHolds
  <2>5. Len(new) <= MaxCount  BY <1>1, <2>1, <2>2, <2>3, <2>4
  <2> QED  BY <2>2, <2>3, <2>4, <2>5 DEF Meant
<1>3. ASSUME NEW set \in Seq(Component), NEW c \in Component, Len(set) < MaxCount
      PROVE  Meant(AddTo(set, c))
  <2>1. PICK one \in Seq(Component) : one = << c >> /\ Len(one) = 1
    <3>1. << c >> \in Seq(Component) /\ Len(<< c >>) = 1  OBVIOUS
    <3> QED  BY <3>1
  <2>2. PICK new : new = InitSet(set, one) /\ Len(new) = Len(set) + Len(one) /\ Ascends(new)
    BY InitSetArranges, InitSetHolds
  <2>3. Len(new) <= MaxCount
    <3>1. Len(set) \in Nat  OBVIOUS
    <3> QED  BY <1>1, <1>3, <2>1, <2>2, <3>1
  <2> QED  BY <2>1, <2>2, <2>3 DEF Meant, AddTo
<1>4. ASSUME NEW set \in Seq(Component), NEW c \in Component,
             Len(set) <= MaxCount, Contains(set, c)
      PROVE  Meant(RemoveFrom(set, c))
  <2>1. PICK n \in Nat : n = Len(set) /\ DOMAIN set = 1 .. n  OBVIOUS
  <2>2. PICK k \in 1 .. n : k = CHOOSE i \in Orders(set, c) : TRUE
    <3>1. \E k \in Orders(set, c) : TRUE  BY <1>4, <2>1 DEF Orders, Contains
    <3>2. (CHOOSE k \in Orders(set, c) : TRUE) \in Orders(set, c)  BY <3>1
    <3> QED  BY <2>1, <3>2 DEF Orders
  <2>3. PICK a \in Seq(Component), b \in Seq(Component) :
          /\ a = SubSeq(set, 1, k - 1) /\ Len(a) = k - 1
          /\ b = SubSeq(set, k + 1, n) /\ Len(b) = n - k
    <3>1. /\ SubSeq(set, 1, k - 1) \in Seq(Component) /\ Len(SubSeq(set, 1, k - 1)) = k - 1
          /\ SubSeq(set, k + 1, n) \in Seq(Component) /\ Len(SubSeq(set, k + 1, n)) = n - k
      BY <2>1
    <3> QED  BY <3>1
  <2>4. PICK new : new = InitSet(a, b) /\ Len(new) = Len(a) + Len(b) /\ Ascends(new)
    BY InitSetArranges, InitSetHolds
  <2>5. RemoveFrom(set, c) = new  BY <1>4, <2>1, <2>2, <2>3, <2>4 DEF RemoveFrom
  <2>6. Len(new) <= MaxCount
    <3>1. (k - 1) + (n - k) = n - 1 /\ n <= MaxCount  BY <1>4, <2>1
    <3>2. Len(new) = n - 1  BY <2>3, <2>4, <3>1
    <3> QED  BY <1>1, <2>1, <3>1, <3>2
  <2> QED  BY <2>4, <2>5, <2>6 DEF Meant
<1> QED  BY <1>2, <1>3, <1>4

LEMMA SetsStart ==
  ASSUME Init
  PROVE  SetsSound
<1>1. CatalogInv  BY CatalogStarts
<1>2. DOMAIN archetype = Entries /\ archetype = << >> /\ want = << >>
  BY <1>1, IndexOrdered DEF Init, CatalogInv
<1>3. Entries = {}  BY <1>2
<1> QED  BY <1>2, <1>3, NothingMeant DEF SetsSound

LEMMA SetsResolved ==
  ASSUME CatalogInv, SetsSound, NEW set, Meant(set), Resolve(set)
  PROVE  SetsSound'
<1>1. want' = set /\ archetype' = archetype  BY DEF Resolve
<1>2. Entries' = Entries  BY <1>1 DEF Entries, Length
<1> QED  BY <1>1, <1>2 DEF SetsSound, Meant, Ascends

LEMMA SetsAdded ==
  ASSUME CatalogInv, SetsSound, Missed, NEW x \in 0 .. Length,
         archetype' = Pushed(archetype, want), index' = Pushed(index, x)
  PROVE  \A a \in Entries' : Meant(archetype'[a])
<1>1. PICK n : n = Length  OBVIOUS
<1>2. /\ n \in Nat /\ Entries = 0 .. n - 1 /\ Entries' = 0 .. n
      /\ archetype'[n] = want
      /\ \A k \in 0 .. n - 1 : archetype'[k] = archetype[k]
  BY <1>1, ArchetypeAdded
<1>3. \A a \in 0 .. n : a \in 0 .. n - 1 \/ a = n  BY <1>2
<1> QED  BY <1>2, <1>3 DEF SetsSound

LEMMA SetsStep ==
  ASSUME CatalogInv, SetsSound, [Next]_vars
  PROVE  SetsSound'
<1>1. CatalogTypes  BY DEF CatalogInv
<1>2. CASE Spawn
  <2>1. PICK named \in BoundedSeq(Component, MaxCount) : Resolve(InitSet(named, << >>))
    BY <1>2 DEF Spawn
  <2>2. Meant(InitSet(named, << >>))  BY SetsMeant
  <2> QED  BY <2>1, <2>2, SetsResolved
<1>3. ASSUME NEW a \in ready
      PROVE  archetype[a] \in Seq(Component) /\ Len(archetype[a]) <= MaxCount
  BY <1>1 DEF CatalogTypes, SetsSound, Meant
<1>4. CASE AddComponent
  <2>1. PICK a \in ready, c \in Component :
          Len(archetype[a]) < MaxCount /\ Resolve(AddTo(archetype[a], c))
    BY <1>4 DEF AddComponent
  <2>2. Meant(AddTo(archetype[a], c))  BY <1>3, <2>1, SetsMeant
  <2> QED  BY <2>1, <2>2, SetsResolved
<1>5. CASE RemoveComponent
  <2>1. PICK a \in ready, c \in Component :
          Contains(archetype[a], c) /\ Resolve(RemoveFrom(archetype[a], c))
    BY <1>5 DEF RemoveComponent
  <2>2. Meant(RemoveFrom(archetype[a], c))  BY <1>3, <2>1, SetsMeant
  <2> QED  BY <2>1, <2>2, SetsResolved
<1>6. ASSUME UNCHANGED << archetype, want >> PROVE SetsSound'
  <2>1. Entries' = Entries  BY <1>6 DEF Entries, Length
  <2> QED  BY <1>6, <2>1 DEF SetsSound
<1>7. ASSUME UNCHANGED archetype, want' = << >> PROVE SetsSound'
  <2>1. Entries' = Entries  BY <1>7 DEF Entries, Length
  <2>2. Meant(want')  BY <1>7, NothingMeant
  <2>3. \A a \in Entries' : Meant(archetype'[a])  BY <1>7, <2>1 DEF SetsSound
  <2> QED  BY <2>2, <2>3 DEF SetsSound, Meant, Ascends
<1>8. CASE MakeArchetype
  <2>1. /\ Missed /\ want' = want /\ archetype' = Pushed(archetype, want)
        /\ index' = Pushed(index, Length)
    BY <1>8 DEF MakeArchetype
  <2>2. Length \in 0 .. Length
    <3>1. Length \in Nat  BY <1>1, IndexOrdered
    <3> QED  BY <3>1
  <2>3. \A a \in Entries' : Meant(archetype'[a])  BY <2>1, <2>2, SetsAdded
  <2> QED  BY <2>1, <2>3 DEF SetsSound, Meant, Ascends
<1>9. CASE LayoutFails
  <2>1. /\ Missed /\ want' = << >> /\ archetype' = Pushed(archetype, want)
        /\ index' = Pushed(index, 0)
    BY <1>9 DEF LayoutFails, Return
  <2>2. 0 \in 0 .. Length
    <3>1. Length \in Nat  BY <1>1, IndexOrdered
    <3> QED  BY <3>1
  <2>3. \A a \in Entries' : Meant(archetype'[a])  BY <2>1, <2>2, SetsAdded
  <2>4. Meant(want')  BY <2>1, NothingMeant
  <2> QED  BY <2>3, <2>4 DEF SetsSound, Meant, Ascends
<1>10. CASE SearchUp  BY <1>6, <1>10 DEF SearchUp
<1>11. CASE SearchDown  BY <1>6, <1>11 DEF SearchDown
<1>12. CASE SearchHit  BY <1>7, <1>12 DEF SearchHit, Return
<1>13. CASE PartDone  BY <1>6, <1>13 DEF PartDone
<1>14. CASE SortSmallPart  BY <1>6, <1>14 DEF SortSmallPart
<1>15. CASE SplitPart  BY <1>6, <1>15 DEF SplitPart
<1>16. CASE SortDone  BY <1>7, <1>16 DEF SortDone, Return
<1>17. CASE UNCHANGED vars  BY <1>6, <1>17 DEF vars
<1> QED
  BY <1>2, <1>4, <1>5, <1>8, <1>9, <1>10, <1>11, <1>12, <1>13, <1>14, <1>15, <1>16, <1>17
  DEF Next, Step

LEMMA SetsAlways == Spec => [](CatalogInv /\ SetsSound)
<1>1. Init => CatalogInv /\ SetsSound  BY CatalogStarts, SetsStart
<1>2. CatalogInv /\ SetsSound /\ [Next]_vars => (CatalogInv /\ SetsSound)'
  BY CatalogStep, SetsStep
<1> QED  BY <1>1, <1>2, PTL DEF Spec

LEMMA WalksFollow ==
  ASSUME CatalogInv, SetsSound
  PROVE  WalksAgree
<1> SUFFICES ASSUME NEW a \in DOMAIN archetype, NEW b \in DOMAIN archetype,
                    NEW x, x = archetype[a], NEW y, y = archetype[b]
             PROVE  /\ IsSubset(x, y) <=> ToSet(y) \subseteq ToSet(x)
                    /\ { x[pair[1]] : pair \in CopiedColumns(x, y) } = ToSet(x) \cap ToSet(y)
                    /\ \A pair \in CopiedColumns(x, y) : x[pair[1]] = y[pair[2]]
                    /\ \A c \in ToSet(x) : AddTo(RemoveFrom(x, c), c) = x
  BY DEF WalksAgree
<1>1. DOMAIN archetype = Entries  BY IndexOrdered DEF CatalogInv
<1>2. /\ x \in Seq(Component) /\ y \in Seq(Component)
  BY <1>1 DEF CatalogInv, CatalogTypes
<1>3. Ascends(x) /\ Ascends(y)  BY <1>1 DEF SetsSound, Meant
<1>4. IsSubset(x, y) <=> ToSet(y) \subseteq ToSet(x)  BY <1>2, <1>3, SubsetMeans
<1>5. /\ { x[pair[1]] : pair \in CopiedColumns(x, y) } = ToSet(x) \cap ToSet(y)
      /\ \A pair \in CopiedColumns(x, y) : x[pair[1]] = y[pair[2]]
  BY <1>2, <1>3, CopiedMeans
<1>6. \A c \in ToSet(x) : AddTo(RemoveFrom(x, c), c) = x  BY <1>2, <1>3, PutBack
<1> QED  BY <1>4, <1>5, <1>6

(* The walks through two arrays mean what the sets of their components     *)
(* say, and a component taken away and added again changes nothing.        *)
THEOREM WalksStayRight == Spec => []WalksAgree
<1>1. CatalogInv /\ SetsSound => WalksAgree  BY WalksFollow
<1> QED  BY <1>1, SetsAlways, PTL

-----------------------------------------------------------------------------
(* WHAT resolve_archetype PROMISES                                         *)

(* What Directory is told of the catalog.                                  *)
Keys == UNION { [ cs -> 1 .. MaxCount ] : cs \in SUBSET Component }
KeyOf == [ a \in DOMAIN archetype |-> ToBag(archetype[a]) ]
Seen == { index[k] : k \in DOMAIN index }
InPlace == stage = "sort" \/ InOrder
Answer == IF stage = "sort" THEN Length - 1 ELSE found

Told == << KeyOf, Seen, InPlace, Answer >>

LEMMA BagIs ==
  ASSUME NEW s \in Seq(Component)
  PROVE  /\ ToBag(s) = [ v \in ToSet(s) |-> Copies(s, v) ]
         /\ \A v : v \notin ToSet(s) => Copies(s, v) = 0
<1>1. Range(s) = ToSet(s)  BY DEF Range, ToSet
<1>2. ASSUME NEW v, v \notin ToSet(s) PROVE Copies(s, v) = 0
  <2>1. Same(s, v) = {}  BY <1>2 DEF Same, ToSet
  <2> QED  BY <2>1, FS_EmptySet DEF Copies
<1>3. ToBag(s) = [ v \in ToSet(s) |-> Copies(s, v) ]
  BY <1>1 DEF ToBag, Copies, Same
<1> QED  BY <1>2, <1>3

(* Arrays that ascend and hold the same are the same.                      *)
LEMMA OneArrayOneBag ==
  ASSUME NEW x \in Seq(Component), NEW y \in Seq(Component), Ascends(x), Ascends(y),
         ToBag(x) = ToBag(y)
  PROVE  x = y
<1>1. PICK b : b = ToBag(x) /\ b = ToBag(y)  OBVIOUS
<1>2. ASSUME NEW s \in {x, y}
      PROVE  DOMAIN b = ToSet(s) /\ \A v : Copies(s, v) = IF v \in DOMAIN b THEN b[v] ELSE 0
  <2>1. s \in Seq(Component) /\ b = ToBag(s)  BY <1>1
  <2>2. b = [ v \in ToSet(s) |-> Copies(s, v) ]  BY <2>1, BagIs
  <2>3. \A v : v \notin ToSet(s) => Copies(s, v) = 0  BY <2>1, BagIs
  <2> QED  BY <2>2, <2>3
<1>3. \A v \in Nat : Copies(x, v) = Copies(y, v)  BY <1>2
<1> QED  BY <1>3, OneOrder

LEMMA BagIsKey ==
  ASSUME NEW s \in Seq(Component), Meant(s)
  PROVE  ToBag(s) \in Keys
<1>1. MaxCount \in Nat /\ Len(s) \in Nat /\ Len(s) <= MaxCount /\ DOMAIN s = 1 .. Len(s)
  BY CatalogAssumption DEF Meant
<1>2. ToSet(s) \in SUBSET Component  BY <1>1 DEF ToSet
<1>3. ASSUME NEW v \in ToSet(s) PROVE Copies(s, v) \in 1 .. MaxCount
  <2>1. IsFiniteSet(Same(s, v)) /\ Copies(s, v) \in Nat  BY PlacesFinite
  <2>2. Same(s, v) # {}  BY DEF Same, ToSet
  <2>3. Copies(s, v) # 0  BY <2>1, <2>2, FS_EmptySet DEF Copies
  <2>4. Cardinality(Same(s, v)) <= Cardinality(1 .. Len(s))
    <3>1. IsFiniteSet(1 .. Len(s))
      <4>1. 1 \in Int /\ Len(s) \in Int  BY <1>1
      <4> QED  BY <4>1, FS_Interval
    <3>2. Same(s, v) \in SUBSET (1 .. Len(s))  BY <1>1 DEF Same
    <3> QED  BY <3>1, <3>2, FS_Subset
  <2>5. Cardinality(1 .. Len(s)) = IF 1 > Len(s) THEN 0 ELSE Len(s) - 1 + 1
    <3>1. 1 \in Int /\ Len(s) \in Int  BY <1>1
    <3> QED  BY <3>1, FS_Interval
  <2>6. Copies(s, v) <= Len(s)  BY <1>1, <2>4, <2>5 DEF Copies
  <2> QED  BY <1>1, <2>1, <2>3, <2>6
<1>4. [ v \in ToSet(s) |-> Copies(s, v) ] \in [ ToSet(s) -> 1 .. MaxCount ]  BY <1>3
<1>5. ToBag(s) \in [ ToSet(s) -> 1 .. MaxCount ]  BY <1>4, BagIs
<1> QED  BY <1>2, <1>5 DEF Keys

LEMMA RearrangedSeen ==
  ASSUME NEW S, NEW D, NEW old \in [ S -> D ], NEW new, NEW part, Rearranged(old, new, part)
  PROVE  { new[k] : k \in DOMAIN new } = { old[k] : k \in DOMAIN old }
<1>1. PICK p \in Shuffles(S) : new = [ k \in S |-> old[p[k]] ]  BY DEF Rearranged
<1>2. (\A i \in S : p[i] \in S) /\ \A j \in S : \E i \in S : p[i] = j  BY DEF Shuffles
<1>3. DOMAIN new = S /\ DOMAIN old = S /\ \A k \in S : new[k] = old[p[k]]  BY <1>1
<1> QED  BY <1>2, <1>3

(* What is in the index when an entry was added.                           *)
LEMMA AddedTold ==
  ASSUME CatalogInv, Missed, NEW b, b = ToBag(want), NEW n, n = Length, NEW x \in 0 .. n,
         archetype' = Pushed(archetype, want), index' = Pushed(index, x)
  PROVE  /\ KeyOf' = Promised!With(b)
         /\ Seen' = Seen \cup {x}
         /\ Length' = n + 1 /\ n \in Nat /\ Promised!Length = n
<1>1. /\ n \in Nat /\ Length' = n + 1
      /\ Entries = 0 .. n - 1
      /\ DOMAIN archetype' = 0 .. n /\ archetype'[n] = want
      /\ \A k \in 0 .. n - 1 : archetype'[k] = archetype[k]
      /\ DOMAIN index' = 0 .. n /\ index'[n] = x
      /\ \A k \in 0 .. n - 1 : index'[k] = index[k]
  BY ArchetypeAdded
<1>2. DOMAIN archetype = 0 .. n - 1 /\ DOMAIN index = 0 .. n - 1
  BY <1>1, IndexOrdered DEF CatalogInv
<1>3. (\A k \in 0 .. n : k = n \/ k \in 0 .. n - 1) /\ n \in 0 .. n
      /\ \A k \in 0 .. n - 1 : k \in 0 .. n /\ k # n
  BY <1>1
<1>4. DOMAIN KeyOf = 0 .. n - 1  BY <1>2 DEF KeyOf
<1>5. Promised!Length = n
  <2>1. Cardinality(DOMAIN KeyOf) = n  BY <1>1, <1>4, LengthIs
  <2> QED  BY <2>1 DEF Promised!Length, KeyOf, Promised!Cardinality, Cardinality
<1>6. KeyOf' = [ a \in 0 .. n |-> IF a = n THEN b ELSE KeyOf[a] ]
  <2>1. KeyOf' = [ a \in 0 .. n |-> ToBag(archetype'[a]) ]  BY <1>1 DEF KeyOf
  <2>2. \A a \in 0 .. n - 1 : KeyOf[a] = ToBag(archetype[a])  BY <1>2 DEF KeyOf
  <2> QED  BY <1>1, <1>3, <2>1, <2>2
<1>7. KeyOf' = Promised!With(b)  BY <1>5, <1>6 DEF Promised!With, KeyOf
<1>8. Seen' = Seen \cup {x}
  <2>1. Seen' = { index'[k] : k \in 0 .. n }  BY <1>1 DEF Seen
  <2>2. Seen = { index[k] : k \in 0 .. n - 1 }  BY <1>2 DEF Seen
  <2> QED  BY <1>1, <1>3, <2>1, <2>2
<1> QED  BY <1>1, <1>5, <1>7, <1>8

(* What was missed while the index was in order is not there.              *)
LEMMA MissedUnknown ==
  ASSUME CatalogInv, SetsSound, Missed, NEW b, b = ToBag(want)
  PROVE  Promised!Unknown(b)
<1> SUFFICES ASSUME InPlace, NEW a \in Seen PROVE KeyOf[a] # b
  BY DEF Promised!Unknown, InPlace, Seen, KeyOf
<1>1. InOrder  BY DEF InPlace, Missed
<1>2. DOMAIN archetype = Entries /\ DOMAIN index = Entries /\ want \in Seq(Component)
  BY IndexOrdered DEF CatalogInv, CatalogTypes
<1>3. PICK k \in Entries : a = index[k]  BY <1>2 DEF Seen
<1>4. a \in Entries /\ archetype[a] \in Seq(Component)
  BY <1>3, IndexOrdered DEF CatalogInv
<1>5. archetype[a] # want  BY <1>1, <1>3, MissedMeans
<1>6. Ascends(archetype[a]) /\ Ascends(want)  BY <1>4 DEF SetsSound, Meant
<1>7. ToBag(archetype[a]) # ToBag(want)  BY <1>2, <1>4, <1>5, <1>6, OneArrayOneBag
<1> QED  BY <1>2, <1>4, <1>7 DEF KeyOf

LEMMA ToldKept ==
  ASSUME UNCHANGED << archetype, index, found >>, stage' = "sort" <=> stage = "sort"
  PROVE  UNCHANGED Told
<1>1. Length' = Length /\ (InOrder' <=> InOrder)  BY SameIndex
<1>2. KeyOf' = KeyOf /\ Seen' = Seen /\ Answer' = Answer  BY <1>1 DEF KeyOf, Seen, Answer
<1>3. InPlace' = InPlace  BY <1>1 DEF InPlace
<1> QED  BY <1>2, <1>3 DEF Told

LEMMA SortingTold ==
  ASSUME CatalogInv, UNCHANGED << archetype, stage >>, stage = "sort",
         NEW part, Rearranged(index, index', part)
  PROVE  UNCHANGED Told
<1>1. Length' = Length  BY SameArchetypes
<1>2. KeyOf' = KeyOf /\ Answer' = Answer  BY <1>1 DEF KeyOf, Answer
<1>3. Seen' = Seen
  <2>1. index \in [ Entries -> Entries ]  BY DEF CatalogInv, CatalogTypes
  <2>2. PICK old, new : old = index /\ new = index'  OBVIOUS
  <2>3. { new[k] : k \in DOMAIN new } = { old[k] : k \in DOMAIN old }
    BY <2>1, <2>2, RearrangedSeen
  <2> QED  BY <2>2, <2>3 DEF Seen
<1>4. InPlace' = InPlace  BY DEF InPlace
<1> QED  BY <1>2, <1>3, <1>4 DEF Told

LEMMA HitFinds ==
  ASSUME CatalogInv, SetsSound, SearchHit, NEW b, b = ToBag(want)
  PROVE  Promised!Find(b)
<1>1. /\ Looking /\ Verdict = 0 /\ stage = "search" /\ stage' = "idle"
      /\ found' = index[Middle(lo, hi)] /\ UNCHANGED << archetype, index >>
  BY DEF SearchHit, Looking, Return
<1>2. PICK m \in Entries : m = Middle(lo, hi) /\ want = archetype[index[m]]
  BY <1>1, LookedAt
<1>3. DOMAIN archetype = Entries /\ DOMAIN index = Entries /\ index[m] \in Entries
  BY IndexOrdered DEF CatalogInv
<1>4. Length' = Length /\ (InOrder' <=> InOrder)  BY <1>1, SameIndex
<1>5. index[m] \in Seen /\ KeyOf[index[m]] = b  BY <1>2, <1>3 DEF Seen, KeyOf
<1>6. Answer' = index[m]  BY <1>1, <1>2 DEF Answer
<1>7. KeyOf' = KeyOf /\ Seen' = Seen  BY <1>1 DEF KeyOf, Seen
<1>8. InPlace' = InPlace  BY <1>1, <1>4 DEF InPlace
<1> QED  BY <1>5, <1>6, <1>7, <1>8 DEF Promised!Find, KeyOf, Seen, InPlace, Answer

LEMMA MadeMakes ==
  ASSUME CatalogInv, SetsSound, MakeArchetype, NEW b, b = ToBag(want)
  PROVE  Promised!Make(b)
<1>1. /\ Missed /\ archetype' = Pushed(archetype, want) /\ index' = Pushed(index, Length)
      /\ stage' = "sort"
  BY DEF MakeArchetype
<1>2. PICK n \in Nat : n = Length /\ n \in 0 .. n
  <2>1. Length \in Nat  BY IndexOrdered DEF CatalogInv
  <2> QED  BY <2>1
<1>3. /\ KeyOf' = Promised!With(b) /\ Seen' = Seen \cup {n}
      /\ Length' = n + 1 /\ Promised!Length = n
  BY <1>1, <1>2, AddedTold
<1>4. Promised!Unknown(b)  BY <1>1, MissedUnknown
<1>5. Answer' = n  BY <1>1, <1>2, <1>3 DEF Answer
<1>6. InPlace' = TRUE  BY <1>1 DEF InPlace
<1> QED  BY <1>3, <1>4, <1>5, <1>6 DEF Promised!Make, KeyOf, Seen, InPlace, Answer

LEMMA LostFails ==
  ASSUME CatalogInv, SetsSound, LayoutFails, NEW b, b = ToBag(want)
  PROVE  Promised!MakeFails(b)
<1>1. /\ Missed /\ archetype' = Pushed(archetype, want) /\ index' = Pushed(index, 0)
      /\ stage = "search" /\ stage' = "idle" /\ found' = found
  BY DEF LayoutFails, Return, Missed
<1>2. PICK n \in Nat : n = Length /\ 0 \in 0 .. n
  <2>1. Length \in Nat  BY IndexOrdered DEF CatalogInv
  <2> QED  BY <2>1
<1>3. KeyOf' = Promised!With(b) /\ Seen' = Seen \cup {0}
  BY <1>1, <1>2, AddedTold
<1>4. Promised!Unknown(b)  BY <1>1, MissedUnknown
<1>5. Answer' = Answer  BY <1>1 DEF Answer
<1>6. InPlace' \in BOOLEAN  BY DEF InPlace
<1> QED  BY <1>3, <1>4, <1>5, <1>6 DEF Promised!MakeFails, KeyOf, Seen, InPlace, Answer

LEMMA DoneTold ==
  ASSUME CatalogInv, SortDone
  PROVE  UNCHANGED Told
<1>1. /\ stage = "sort" /\ frames = << >> /\ stage' = "idle" /\ found' = Length - 1
      /\ UNCHANGED << archetype, index >>
  BY DEF SortDone, Return
<1>2. Length' = Length /\ (InOrder' <=> InOrder)  BY <1>1, SameIndex
<1>3. InOrder
  <2>1. LeftToSort(ByComponents, index, frames) /\ \A k, m : ~ Covered(frames, k, m)
    BY <1>1 DEF CatalogInv, Dividing, Covered
  <2> QED  BY <2>1 DEF LeftToSort, InOrder
<1>4. KeyOf' = KeyOf /\ Seen' = Seen /\ Answer' = Answer  BY <1>1 DEF KeyOf, Seen, Answer
<1>5. InPlace' = InPlace  BY <1>1, <1>2, <1>3 DEF InPlace
<1> QED  BY <1>4, <1>5 DEF Told

LEMMA DirectoryStep ==
  ASSUME CatalogInv, SetsSound, [Next]_vars
  PROVE  [Promised!DirectoryNext]_Told
<1>1. PICK b \in Keys : b = ToBag(want)
  <2>1. want \in Seq(Component) /\ Meant(want)  BY DEF CatalogInv, CatalogTypes, SetsSound
  <2> QED  BY <2>1, BagIsKey
<1>2. ASSUME Promised!Find(b) \/ Promised!Make(b) \/ Promised!MakeFails(b)
      PROVE  Promised!DirectoryNext
  BY <1>1, <1>2 DEF Promised!DirectoryNext, Keys
<1>3. ASSUME NEW set, Resolve(set) PROVE UNCHANGED Told
  <2>1. UNCHANGED << archetype, index, found >> /\ stage = "idle" /\ stage' = "search"
    BY <1>3 DEF Resolve
  <2> QED  BY <2>1, ToldKept
<1>4. CASE Spawn \/ AddComponent \/ RemoveComponent
  BY <1>3, <1>4 DEF Spawn, AddComponent, RemoveComponent
<1>5. CASE SearchUp
  <2>1. UNCHANGED << archetype, index, found, stage >>  BY <1>5 DEF SearchUp
  <2> QED  BY <2>1, ToldKept
<1>6. CASE SearchDown
  <2>1. UNCHANGED << archetype, index, found, stage >>  BY <1>6 DEF SearchDown
  <2> QED  BY <2>1, ToldKept
<1>7. CASE SearchHit  BY <1>1, <1>2, <1>7, HitFinds
<1>8. CASE MakeArchetype  BY <1>1, <1>2, <1>8, MadeMakes
<1>9. CASE LayoutFails  BY <1>1, <1>2, <1>9, LostFails
<1>10. CASE PartDone
  <2>1. UNCHANGED << archetype, index, found, stage >>  BY <1>10 DEF PartDone
  <2> QED  BY <2>1, ToldKept
<1>11. CASE SortSmallPart
  <2>1. /\ Sorting /\ stage = "sort" /\ UNCHANGED << archetype, stage >>
    BY <1>11 DEF SortSmallPart, Sorting
  <2>2. PICK first \in Nat, last \in Nat : Part = << first, last >> /\ last < Length
    BY <2>1, PartFacts
  <2>3. Rearranged(index, index', first .. last)  BY <1>11, <2>2, SmallPartInOrder
  <2> QED  BY <2>1, <2>3, SortingTold
<1>12. CASE SplitPart
  <2>1. PICK split : /\ split = Partition(ByComponents, index, Part[1], Part[2])
                     /\ index' = split.array
                     /\ Sorting /\ stage = "sort" /\ Part[1] < Part[2]
                     /\ UNCHANGED << archetype, stage >>
    BY <1>12 DEF SplitPart, Sorting
  <2>2. PICK first \in Nat, last \in Nat : Part = << first, last >> /\ last < Length
    BY <2>1, PartFacts
  <2>3. first <= last /\ split = Partition(ByComponents, index, first, last)
    BY <2>1, <2>2
  <2>4. /\ index \in [ Entries -> Entries ] /\ first .. last \subseteq Entries
        /\ Ordering(ByComponents, Entries)
    <3>1. CatalogTypes /\ Length \in Nat  BY IndexOrdered DEF CatalogInv
    <3>2. first .. last \subseteq Entries  BY <2>2, <3>1 DEF Entries
    <3> QED  BY <3>1, <3>2, IndexOrdered DEF CatalogTypes
  <2>5. SplitAt(ByComponents, index, split, first, last)
    BY <2>3, <2>4, PartitionSplits
  <2>6. Rearranged(index, index', first .. last)  BY <2>1, <2>5 DEF SplitAt
  <2> QED  BY <2>1, <2>6, SortingTold
<1>13. CASE SortDone  BY <1>13, DoneTold
<1>14. CASE UNCHANGED vars
  <2>1. UNCHANGED << archetype, index, found, stage >>  BY <1>14 DEF vars
  <2> QED  BY <2>1, ToldKept
<1> QED
  BY <1>4, <1>5, <1>6, <1>7, <1>8, <1>9, <1>10, <1>11, <1>12, <1>13, <1>14 DEF Next, Step

LEMMA DirectoryStarts ==
  ASSUME Init
  PROVE  Promised!DirectoryInit
<1>1. archetype = << >> /\ index = << >> /\ stage = "idle" /\ found = 0  BY DEF Init
<1>2. DOMAIN archetype = {} /\ DOMAIN index = {} /\ DOMAIN << >> = {}  BY <1>1
<1>3. KeyOf = << >>
  <2>1. KeyOf = [ a \in {} |-> ToBag(archetype[a]) ]  BY <1>2 DEF KeyOf
  <2>2. << >> = [ a \in {} |-> ToBag(archetype[a]) ]  BY <1>2
  <2> QED  BY <2>1, <2>2
<1>4. Seen = {} /\ Answer = 0  BY <1>1, <1>2 DEF Seen, Answer
<1>5. InPlace = TRUE  BY <1>2 DEF InPlace, InOrder
<1> QED  BY <1>3, <1>4, <1>5 DEF Promised!DirectoryInit, KeyOf, Seen, InPlace, Answer

(* The arrays, the search and the sort do what Directory promises: one     *)
(* archetype for every set of components, found whenever it is there.      *)
THEOREM DirectoryImplemented == Spec => DirectoryKept
<1>1. Init => Promised!DirectoryInit  BY DirectoryStarts
<1>2. CatalogInv /\ SetsSound /\ [Next]_vars => [Promised!DirectoryNext]_Told
  BY DirectoryStep
<1> QED
  BY <1>1, <1>2, SetsAlways, PTL
  DEF Spec, DirectoryKept, Promised!DirectorySpec, Told, KeyOf, Seen, InPlace, Answer

=============================================================================
