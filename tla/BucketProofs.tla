---------------------------- MODULE BucketProofs ----------------------------
(***************************************************************************)
(* The buckets of the percentile meters, for every even number of bits.    *)
(* The table has a closed form: 1 to 14, then for every power of four up   *)
(* to the last but one nine values a third of it apart, then the largest   *)
(* integer.  powerOf4Index follows from it, and with it the index of any   *)
(* amount.  2^n is reasoned about as the number of subsets of 1..n.        *)
(***************************************************************************)
EXTENDS PercentileBuckets, TotalsProofs, FiniteSetTheorems, FunctionTheorems, SequenceTheorems,
        TLAPS

-----------------------------------------------------------------------------
(* Powers of two *)

\* 2^n counts the subsets of a set of n elements.
LEMMA BitIsCardinality ==
  ASSUME NEW n \in Nat
  PROVE  IsFiniteSet(SUBSET (1..n)) /\ Cardinality(SUBSET (1..n)) = Bit(n) /\ Bit(n) \in Nat
<1>1. IsFiniteSet(1..n) /\ Cardinality(1..n) = n
  BY FS_Interval
<1>2. IsFiniteSet(SUBSET (1..n)) /\ Cardinality(SUBSET (1..n)) = Bit(n)
  BY <1>1, FS_SUBSET, Zenon DEF Bit
<1> QED BY <1>2, FS_CardinalityType

LEMMA BitPositive == \A n \in Nat : Bit(n) \in Nat /\ Bit(n) > 0
<1> TAKE n \in Nat
<1> DEFINE S == SUBSET (1..n)
<1>1. IsFiniteSet(S) /\ Cardinality(S) = Bit(n) /\ Bit(n) \in Nat
  BY BitIsCardinality
<1>2. S # {}
  OBVIOUS
<1> HIDE DEF S
<1>3. Cardinality(S) # 0
  BY <1>1, <1>2, FS_EmptySet
<1> QED BY <1>1, <1>3

\* Half of the subsets of 1..n + 1 have n + 1 as an element.
LEMMA BitNext == \A n \in Nat : Bit(n + 1) = 2 * Bit(n)
<1> TAKE n \in Nat
<1> DEFINE S == SUBSET (1..n)
           A == {U \cup {n + 1} : U \in S}
           f == [U \in S |-> U \cup {n + 1}]
<1>0. \A U \in S : n + 1 \notin U
  OBVIOUS
<1>1. f \in Bijection(S, A)
  <2>1. f \in [S -> A]
    OBVIOUS
  <2>2. \A U, V \in S : f[U] = f[V] => U = V
    BY <1>0
  <2>3. \A B \in A : \E U \in S : f[U] = B
    OBVIOUS
  <2> HIDE DEF S, A, f
  <2> QED BY <2>1, <2>2, <2>3 DEF Bijection, Injection, Surjection, IsInjective
<1>2. IsFiniteSet(S) /\ Cardinality(S) = Bit(n) /\ Bit(n) \in Nat
  BY BitIsCardinality
<1>3. SUBSET (1..n + 1) = S \cup A
  <2>1. 1..n + 1 = (1..n) \cup {n + 1}
    OBVIOUS
  <2>2. ASSUME NEW U \in SUBSET (1..n + 1) PROVE U \in S \cup A
    <3>1. CASE n + 1 \in U
      <4>1. U = (U \ {n + 1}) \cup {n + 1} /\ U \ {n + 1} \in S
        BY <2>1, <3>1
      <4> QED BY <4>1
    <3>2. CASE n + 1 \notin U
      BY <2>1, <3>2
    <3> QED BY <3>1, <3>2
  <2>3. ASSUME NEW U \in S \cup A PROVE U \in SUBSET (1..n + 1)
    BY <2>1
  <2> QED BY <2>2, <2>3
<1>4. S \cap A = {}
  BY <1>0
<1>5. Cardinality(S \cup A) = Bit(n + 1)
  <2>1. n + 1 \in Nat
    OBVIOUS
  <2>2. Cardinality(SUBSET (1..n + 1)) = Bit(n + 1)
    BY <2>1, BitIsCardinality
  <2> QED BY <1>3, <2>2
<1> HIDE DEF S, A, f
<1>6. IsFiniteSet(A) /\ Cardinality(A) = Bit(n)
  BY <1>1, <1>2, FS_Bijection DEF ExistsBijection
<1>7. Cardinality(S \cup A) = Cardinality(S) + Cardinality(A) - Cardinality(S \cap A)
  BY <1>2, <1>6, FS_Union
<1>8. Cardinality(S \cap A) = 0
  BY <1>4, FS_EmptySet
<1> QED BY <1>2, <1>5, <1>6, <1>7, <1>8

LEMMA BitMonotonic == \A m, n \in Nat : m < n => 2 * Bit(m) <= Bit(n)
<1> TAKE m, n \in Nat
<1> HAVE m < n
<1> DEFINE S == SUBSET (1..m + 1)
           U == SUBSET (1..n)
<1>1. m + 1 \in Nat
  OBVIOUS
<1>2. IsFiniteSet(U) /\ Cardinality(U) = Bit(n)
  BY BitIsCardinality
<1>3. Cardinality(S) = Bit(m + 1)
  BY <1>1, BitIsCardinality
<1>4. S \subseteq U
  OBVIOUS
<1> HIDE DEF S, U
<1>5. Cardinality(S) <= Cardinality(U)
  BY <1>2, <1>4, FS_Subset
<1> QED BY <1>2, <1>3, <1>5, BitNext

LEMMA BitZero == Bit(0) = 1
  BY DEF Bit

\* A power of four is one more than a multiple of three.
LEMMA PowerOfFour ==
  ASSUME NEW k \in Nat
  PROVE  \E d \in Nat : Bit(2 * k) = 3 * d + 1
<1> DEFINE G == {n \in Nat : \E d \in Nat : Bit(2 * n) = 3 * d + 1}
<1>1. 0 \in G
  BY BitZero
<1>2. ASSUME NEW n \in G PROVE n + 1 \in G
  <2>1. PICK d \in Nat : Bit(2 * n) = 3 * d + 1
    BY <1>2
  <2>2. 2 * n \in Nat /\ 2 * n + 1 \in Nat /\ 2 * n + 1 + 1 = 2 * (n + 1)
    OBVIOUS
  <2>3. Bit(2 * (n + 1)) = 2 * (2 * Bit(2 * n))
    BY <2>2, BitNext
  <2>4. Bit(2 * (n + 1)) = 3 * (4 * d + 1) + 1 /\ 4 * d + 1 \in Nat
    BY <2>1, <2>3
  <2>5. \E e \in Nat : Bit(2 * (n + 1)) = 3 * e + 1
    BY <2>4
  <2> QED BY <2>5
<1>3. G \in SUBSET Nat
  OBVIOUS
<1> HIDE DEF G
<1>4. k \in G
  BY <1>1, <1>2, <1>3, SetInduction
<1> QED BY <1>4 DEF G
-----------------------------------------------------------------------------
(* The powers of four and their thirds *)

Half == Width \div 2
Four(k) == Bit(2 * k)
Third(k) == Four(k) \div 3

LEMMA Widths == Width \in Nat /\ Half \in Nat /\ Half >= 3 /\ Width = 2 * Half
  BY WidthAssumption DEF Half

LEMMA FourType ==
  \A k \in Nat : Four(k) \in Nat /\ Four(k) > 0 /\ Third(k) \in Nat /\ Four(k) = 3 * Third(k) + 1
<1> TAKE k \in Nat
<1>1. PICK d \in Nat : Bit(2 * k) = 3 * d + 1
  BY PowerOfFour
<1>2. (3 * d + 1) \div 3 = d
  OBVIOUS
<1> QED BY <1>1, <1>2 DEF Four, Third

LEMMA FourNext == \A k \in Nat : Four(k + 1) = 4 * Four(k) /\ Third(k + 1) = 4 * Third(k) + 1
<1> TAKE k \in Nat
<1>1. 2 * k \in Nat /\ 2 * k + 1 \in Nat /\ 2 * k + 1 + 1 = 2 * (k + 1)
  OBVIOUS
<1>2. Bit(2 * (k + 1)) = 2 * (2 * Bit(2 * k))
  BY <1>1, BitNext
<1>3. Four(k + 1) = 4 * Four(k)
  BY <1>1, <1>2, BitPositive DEF Four
<1>4. Four(k) = 3 * Third(k) + 1 /\ Four(k + 1) = 3 * Third(k + 1) + 1 /\ Third(k) \in Nat /\ Third(k + 1) \in Nat
  BY FourType
<1>5. \A p, q, c, d \in Int : p = 3 * c + 1 /\ q = 3 * d + 1 /\ q = 4 * p => d = 4 * c + 1
  OBVIOUS
<1>6. Four(k) \in Int /\ Four(k + 1) \in Int /\ Third(k) \in Int /\ Third(k + 1) \in Int
  BY FourType
<1>7. PICK p, q, c, d : p = Four(k) /\ q = Four(k + 1) /\ c = Third(k) /\ d = Third(k + 1)
  OBVIOUS
<1>8. d = 4 * c + 1
  <2>1. p \in Int /\ q \in Int /\ c \in Int /\ d \in Int
    BY <1>6, <1>7
  <2>2. p = 3 * c + 1
    BY <1>4, <1>7
  <2>3. q = 3 * d + 1
    BY <1>4, <1>7
  <2>4. q = 4 * p
    BY <1>3, <1>7
  <2> QED BY <1>5, <2>1, <2>2, <2>3, <2>4
<1> QED BY <1>3, <1>7, <1>8

LEMMA FourFirst == Four(0) = 1 /\ Third(0) = 0 /\ Four(1) = 4 /\ Third(1) = 1 /\ Four(2) = 16 /\ Third(2) = 5
<1>1. Four(0) = 1
  <2>1. 2 * 0 = 0
    OBVIOUS
  <2> QED BY <2>1, BitZero DEF Four
<1>2. Third(0) = 0
  <2>1. 1 \div 3 = 0
    OBVIOUS
  <2> QED BY <1>1, <2>1 DEF Third
<1>3. 0 + 1 = 1 /\ 1 + 1 = 2
  OBVIOUS
<1>4. Four(1) = 4 /\ Third(1) = 1
  BY <1>1, <1>2, <1>3, FourNext
<1> QED BY <1>1, <1>2, <1>3, <1>4, FourNext

LEMMA FourMonotonic == \A k, l \in Nat : k < l => 4 * Four(k) <= Four(l)
<1> TAKE k, l \in Nat
<1> HAVE k < l
<1>1. 2 * k \in Nat /\ 2 * k + 1 \in Nat /\ 2 * l \in Nat /\ 2 * k + 1 < 2 * l
  OBVIOUS
<1>2. 2 * Bit(2 * k + 1) <= Bit(2 * l) /\ Bit(2 * k + 1) = 2 * Bit(2 * k)
  BY <1>1, BitMonotonic, BitNext
<1> QED BY <1>1, <1>2, BitPositive DEF Four

LEMMA FourLarge == \A k \in Nat : k >= 2 => Third(k) >= 5
<1> TAKE k \in Nat
<1> HAVE k >= 2
<1>1. k = 2 \/ 4 * Four(2) <= Four(k)
  BY FourMonotonic
<1>2. Four(k) \in Int /\ Third(k) \in Int /\ Four(k) = 3 * Third(k) + 1
  BY FourType
<1>3. Four(k) >= 16
  BY <1>1, <1>2, FourFirst
<1>4. \A q, d \in Int : q = 3 * d + 1 /\ q >= 16 => d >= 5
  OBVIOUS
<1> QED BY <1>2, <1>3, <1>4

\* The largest integer and 2^Width.
LEMMA Limits == MaxInt = 2 * Four(Half - 1) - 1 /\ Bit(Width) = 4 * Four(Half - 1) /\ MaxInt \in Nat
<1>1. 2 * (Half - 1) \in Nat /\ Width - 1 = 2 * (Half - 1) + 1 /\ Width = 2 * (Half - 1) + 1 + 1
  BY Widths
<1>2. Bit(Width - 1) = 2 * Four(Half - 1) /\ Bit(Width) = 2 * Bit(Width - 1)
  BY <1>1, BitNext DEF Four
<1>3. Half - 1 \in Nat
  BY Widths
<1> QED BY <1>2, <1>3, FourType DEF MaxInt

\* Only the range at the top overflows.
LEMMA SignedFour ==
  /\ \A k \in Nat : k <= Half - 2 => Signed(Four(k) * 4) = 4 * Four(k)
  /\ Signed(Four(Half - 1) * 4) = 0
<1> DEFINE top == Four(Half - 1)
<1>1. Half - 1 \in Nat /\ top \in Nat /\ top > 0
  BY Widths, FourType
<1>2. ASSUME NEW k \in Nat, k <= Half - 2 PROVE Signed(Four(k) * 4) = 4 * Four(k)
  <2>1. 4 * Four(k) <= top /\ Four(k) \in Nat
    <3>1. k < Half - 1
      BY <1>2, Widths
    <3> QED BY <1>1, <3>1, FourMonotonic, FourType
  <2>2. (Four(k) * 4) % (4 * top) = 4 * Four(k)
    <3> DEFINE a == Four(k) * 4
               b == 4 * top
    <3>1. a \in Nat /\ b \in Nat /\ a < b /\ a = 4 * Four(k)
      BY <1>1, <2>1
    <3> HIDE DEF a, b, top
    <3>2. a % b = a
      BY <3>1
    <3> QED BY <3>1, <3>2 DEF a, b
  <2> QED BY <1>1, <2>1, <2>2, Limits DEF Signed
<1>3. Signed(Four(Half - 1) * 4) = 0
  <2> DEFINE b == 4 * top
  <2>1. b \in Nat /\ b > 0 /\ b = Four(Half - 1) * 4 /\ b = Bit(Width)
    BY <1>1, Limits
  <2> HIDE DEF b, top
  <2>2. b % b = 0
    BY <2>1
  <2> QED BY <2>1, <2>2, Limits DEF Signed
<1> QED BY <1>2, <1>3
-----------------------------------------------------------------------------
(* The table *)

\* A set that is enumerated in increasing order: the i-th of its elements is the
\* one that i - 1 others precede.
LEMMA Enumeration ==
  ASSUME NEW S \in SUBSET Int, NEW n \in Nat, NEW t \in [1..n -> S],
         \A i, j \in 1..n : i < j => t[i] < t[j],
         \A v \in S : \E i \in 1..n : t[i] = v
  PROVE  /\ Cardinality(S) = n
         /\ \A i \in 1..n : (CHOOSE v \in S : Cardinality({w \in S : w < v}) = i - 1) = t[i]
<1>1. \A i \in 1..n : t[i] \in S /\ t[i] \in Int
  OBVIOUS
<1>2. \A i, j \in 1..n : t[i] = t[j] => i = j
  <2> SUFFICES ASSUME NEW i \in 1..n, NEW j \in 1..n, i # j PROVE t[i] # t[j]
    OBVIOUS
  <2>1. i < j \/ j < i
    OBVIOUS
  <2>2. t[i] < t[j] \/ t[j] < t[i]
    BY <2>1
  <2> QED BY <1>1, <2>2
<1>3. t \in Bijection(1..n, S)
  BY <1>2 DEF Bijection, Injection, Surjection, IsInjective
<1>4. Cardinality(S) = n
  BY <1>3, FS_CountingElements DEF ExistsBijection
<1> DEFINE Less(v) == {w \in S : w < v}
<1>5. ASSUME NEW i \in 1..n PROVE Cardinality(Less(t[i])) = i - 1
  <2> DEFINE B == Less(t[i])
             m == i - 1
             f == [j \in 1..m |-> t[j]]
  <2>1. m \in Nat /\ \A j \in 1..m : j \in 1..n /\ j < i
    OBVIOUS
  <2>2. \A j \in 1..m : t[j] \in B
    BY <1>1, <2>1
  <2>3. \A v \in B : \E j \in 1..m : t[j] = v
    <3> TAKE v \in B
    <3>1. PICK j \in 1..n : t[j] = v
      OBVIOUS
    <3>2. t[j] < t[i] /\ t[j] \in Int /\ t[i] \in Int
      BY <1>1, <3>1
    <3>3. ~(i < j) /\ i # j
      <4>1. ASSUME i < j PROVE FALSE
        <5>1. t[i] < t[j]
          BY <4>1
        <5> QED BY <3>2, <5>1
      <4>2. ASSUME i = j PROVE FALSE
        BY <3>2, <4>2
      <4> QED BY <4>1, <4>2
    <3>4. j \in 1..m
      BY <3>3
    <3> QED BY <3>1, <3>4
  <2>4. f \in [1..m -> B] /\ (\A j, k \in 1..m : f[j] = f[k] => j = k)
        /\ \A v \in B : \E j \in 1..m : f[j] = v
    BY <1>2, <2>1, <2>2, <2>3
  <2> HIDE DEF f, B, m
  <2>5. f \in Bijection(1..m, B)
    BY <2>4 DEF Bijection, Injection, Surjection, IsInjective
  <2>6. Cardinality(B) = m
    BY <2>1, <2>5, FS_CountingElements DEF ExistsBijection
  <2> QED BY <2>6 DEF B, m
<1>6. ASSUME NEW i \in 1..n
      PROVE  (CHOOSE v \in S : Cardinality(Less(v)) = i - 1) = t[i]
  <2> HIDE DEF Less
  <2>1. t[i] \in S /\ Cardinality(Less(t[i])) = i - 1
    BY <1>1, <1>5
  <2>2. ASSUME NEW v \in S, Cardinality(Less(v)) = i - 1 PROVE v = t[i]
    <3>1. PICK j \in 1..n : t[j] = v
      OBVIOUS
    <3>2. Cardinality(Less(t[j])) = j - 1
      BY <1>5
    <3>3. j - 1 = i - 1
      BY <2>2, <3>1, <3>2
    <3>4. j = i
      BY <3>3
    <3> QED BY <3>1, <3>4
  <2> QED BY <2>1, <2>2
<1> QED BY <1>4, <1>6

\* How many values are pushed, and the i-th of them: the first fourteen are the
\* numbers themselves, then come nine for each power of four.
Pushes == 14 + 9 * (Half - 3)
FourAndThirds(k, j) == Four(k) + j * Third(k)
Table == [i \in 1..Pushes |->
  IF i <= 14 THEN i ELSE FourAndThirds(2 + (i - 15) \div 9, (i - 15) % 9)]

\* The position of the value j thirds above 4^k.
Place(k, j) == 15 + 9 * (k - 2) + j

LEMMA PushesType == Pushes \in Nat /\ Pushes >= 14
  BY Widths DEF Pushes

LEMMA FourAndThirdsType == \A k \in Nat, j \in Nat : FourAndThirds(k, j) \in Nat
  BY FourType DEF FourAndThirds

LEMMA FourAndThirdsBounds ==
  ASSUME NEW k \in Nat, k >= 2, NEW j \in Nat, NEW l \in Nat
  PROVE  /\ j < l => FourAndThirds(k, j) + Third(k) <= FourAndThirds(k, l)
         /\ j <= 8 => FourAndThirds(k, j) + Third(k) < 4 * Four(k)
         /\ j >= 9 => FourAndThirds(k, j) + Third(k) > 4 * Four(k)
         /\ Four(k) <= FourAndThirds(k, j)
<1>1. PICK q, d : q = Four(k) /\ d = Third(k)
  OBVIOUS
<1>2. q \in Nat /\ d \in Nat /\ q = 3 * d + 1 /\ d >= 5
  BY <1>1, FourType, FourLarge
<1>3. FourAndThirds(k, j) = q + j * d /\ FourAndThirds(k, l) = q + l * d
  BY <1>1 DEF FourAndThirds
<1>4. j < l => j * d + d <= l * d
  BY <1>2, TimesMonotonic
<1>5. j <= 8 => j * d + d <= 9 * d
  BY <1>2, TimesMonotonic
<1>6. j >= 9 => 9 * d + d <= j * d + d
  <2> SUFFICES ASSUME j >= 9 PROVE 9 * d <= j * d
    BY <1>2
  <2>1. 8 < j
    OBVIOUS
  <2>2. 8 * d + d <= j * d
    BY <1>2, <2>1, TimesMonotonic
  <2> QED BY <1>2, <2>2
<1>7. j * d \in Nat /\ l * d \in Nat
  BY <1>2
<1>8. PICK x, y : x = j * d /\ y = l * d
  OBVIOUS
<1>9. x \in Nat /\ y \in Nat /\ (j < l => x + d <= y) /\ (j <= 8 => x + d <= 9 * d) /\ (j >= 9 => 9 * d + d <= x + d)
  BY <1>4, <1>5, <1>6, <1>7, <1>8
<1>10. FourAndThirds(k, j) = q + x /\ FourAndThirds(k, l) = q + y
  BY <1>3, <1>8
<1>11. /\ j < l => q + x + d <= q + y
       /\ j <= 8 => q + x + d < 4 * q
       /\ j >= 9 => q + x + d > 4 * q
       /\ q <= q + x
  BY <1>2, <1>9
<1> QED BY <1>1, <1>10, <1>11
\* The ranges that have nine values each, and the steps within one.
Middle == 2..Half - 2
Steps == 0..8

LEMMA Places ==
  /\ \A i \in 1..Pushes : i > 14 => \E k \in Middle, j \in Steps : i = Place(k, j)
  /\ \A k \in Middle, j \in Steps : Place(k, j) \in 1..Pushes /\ Place(k, j) > 14
<1>1. Half \in Nat /\ Half >= 3
  BY Widths
<1>2. ASSUME NEW i \in 1..Pushes, i > 14 PROVE \E k \in Middle, j \in Steps : i = Place(k, j)
  <2> DEFINE k == 2 + (i - 15) \div 9
             j == (i - 15) % 9
  <2>1. i \in Nat /\ i <= 14 + 9 * (Half - 3)
    BY PushesType DEF Pushes
  <2>2. (i - 15) \div 9 \in Nat /\ j \in 0..8 /\ i - 15 = 9 * ((i - 15) \div 9) + j
    BY <1>2, <2>1
  <2>3. k \in Middle /\ j \in Steps /\ i = Place(k, j)
    BY <1>1, <2>1, <2>2 DEF Middle, Steps, Place
  <2> QED BY <2>3
<1>3. ASSUME NEW k \in Middle, NEW j \in Steps PROVE Place(k, j) \in 1..Pushes /\ Place(k, j) > 14
  BY <1>1 DEF Middle, Steps, Place, Pushes
<1> QED BY <1>2, <1>3

LEMMA TableEntries ==
  /\ \A i \in 1..14 : i \in 1..Pushes /\ Table[i] = i
  /\ \A k \in Middle, j \in Steps : Table[Place(k, j)] = FourAndThirds(k, j)
<1>1. \A i \in 1..14 : i \in 1..Pushes /\ Table[i] = i
  BY PushesType DEF Table
<1>2. ASSUME NEW k \in Middle, NEW j \in Steps PROVE Table[Place(k, j)] = FourAndThirds(k, j)
  <2>1. Place(k, j) \in 1..Pushes /\ ~(Place(k, j) <= 14)
    BY Places, PushesType
  <2>2. k \in Nat /\ k >= 2 /\ j \in 0..8 /\ Place(k, j) - 15 = 9 * (k - 2) + j
    BY Widths DEF Middle, Steps, Place
  <2>3. \A a \in Nat, b \in 0..8 : (9 * a + b) \div 9 = a /\ (9 * a + b) % 9 = b
    OBVIOUS
  <2>4. k - 2 \in Nat
    BY <2>2
  <2>5. (Place(k, j) - 15) \div 9 = k - 2 /\ (Place(k, j) - 15) % 9 = j
    BY <2>2, <2>3, <2>4
  <2>6. 2 + (k - 2) = k
    BY <2>2
  <2>7. Table[Place(k, j)] = FourAndThirds(2 + (Place(k, j) - 15) \div 9, (Place(k, j) - 15) % 9)
    BY <2>1 DEF Table
  <2> QED BY <2>5, <2>6, <2>7
<1> QED BY <1>1, <1>2

LEMMA PlaceOrder ==
  ASSUME NEW k \in Middle, NEW j \in Steps, NEW l \in Middle, NEW m \in Steps
  PROVE  Place(k, j) < Place(l, m) <=> k < l \/ (k = l /\ j < m)
  BY Widths DEF Middle, Steps, Place

LEMMA TableIncreasing == \A i, j \in 1..Pushes : i < j => Table[i] < Table[j]
<1> TAKE i, j \in 1..Pushes
<1> HAVE i < j
<1>0. i \in Nat /\ j \in Nat /\ i >= 1
  BY PushesType
<1>1. CASE j <= 14
  BY <1>0, <1>1, TableEntries
<1>2. CASE j > 14
  <2>1. PICK l \in Middle, m \in Steps : j = Place(l, m)
    BY <1>2, Places
  <2>2. Table[j] = FourAndThirds(l, m) /\ l \in Nat /\ l >= 2 /\ m \in Nat /\ m <= 8
    BY <2>1, TableEntries, Widths DEF Middle, Steps
  <2>3. Four(l) <= FourAndThirds(l, m) /\ FourAndThirds(l, m) \in Nat
    BY <2>2, FourAndThirdsBounds, FourAndThirdsType
  <2>4. CASE i <= 14
    <3>1. Table[i] = i
      BY <1>0, <2>4, TableEntries
    <3>2. l = 2 \/ 4 * Four(2) <= Four(l)
      BY <2>2, FourMonotonic
    <3>3. Four(l) \in Nat
      BY <2>2, FourType
    <3>4. Four(l) >= 16
      BY <3>2, <3>3, FourFirst
    <3>5. PICK q, w : q = Four(l) /\ w = FourAndThirds(l, m)
      OBVIOUS
    <3>6. q \in Nat /\ w \in Nat /\ q >= 16 /\ q <= w
      BY <2>3, <3>3, <3>4, <3>5
    <3>7. i < w
      BY <1>0, <2>4, <3>6
    <3> QED BY <2>2, <3>1, <3>5, <3>7
  <2>5. CASE i > 14
    <3>1. PICK k \in Middle, h \in Steps : i = Place(k, h)
      BY <2>5, Places
    <3>2. Table[i] = FourAndThirds(k, h) /\ k \in Nat /\ k >= 2 /\ h \in Nat /\ h <= 8
      BY <3>1, TableEntries, Widths DEF Middle, Steps
    <3>3. k < l \/ (k = l /\ h < m)
      BY <2>1, <3>1, PlaceOrder
    <3>4. Third(k) \in Nat /\ Third(k) >= 5 /\ Four(k) \in Nat /\ Four(l) \in Nat /\ FourAndThirds(k, h) \in Nat
      BY <2>2, <3>2, FourType, FourLarge, FourAndThirdsType
    <3>5. CASE k < l
      <4>1. 4 * Four(k) <= Four(l)
        BY <2>2, <3>2, <3>5, FourMonotonic
      <4>2. FourAndThirds(k, h) + Third(k) < 4 * Four(k)
        BY <3>2, FourAndThirdsBounds
      <4>3. PICK a, d, q, r, b : a = FourAndThirds(k, h) /\ d = Third(k) /\ q = Four(k) /\ r = Four(l) /\ b = FourAndThirds(l, m)
        OBVIOUS
      <4>4. a \in Nat /\ d \in Nat /\ q \in Nat /\ r \in Nat /\ b \in Nat
        BY <2>3, <3>4, <4>3
      <4>5. a + d < 4 * q /\ 4 * q <= r /\ r <= b
        BY <2>3, <4>1, <4>2, <4>3
      <4>6. a < b
        BY <4>4, <4>5
      <4> QED BY <2>2, <3>2, <4>3, <4>6
    <3>6. CASE k = l /\ h < m
      <4>1. FourAndThirds(k, h) + Third(k) <= FourAndThirds(k, m)
        BY <2>2, <3>2, <3>6, FourAndThirdsBounds
      <4>2. PICK a, d, b : a = FourAndThirds(k, h) /\ d = Third(k) /\ b = FourAndThirds(l, m)
        OBVIOUS
      <4>3. a \in Nat /\ d \in Nat /\ d >= 5 /\ b \in Nat /\ a + d <= b
        BY <2>3, <3>4, <3>6, <4>1, <4>2
      <4>4. a < b
        BY <4>3
      <4> QED BY <2>2, <3>2, <4>2, <4>4
    <3> QED BY <3>3, <3>5, <3>6
  <2> QED BY <1>0, <2>4, <2>5
<1> QED BY <1>0, <1>1, <1>2

\* What the generator pushes from one power of four on: from 4 on every number,
\* then nine values, and nothing from the last, whose upper end overflows.
LEMMA BucketsAt ==
  /\ BucketsFrom(2 * 1) = 4..14
  /\ \A k \in Middle : BucketsFrom(2 * k) = {FourAndThirds(k, j) : j \in Steps}
  /\ BucketsFrom(2 * (Half - 1)) = {}
<1>0. Half \in Nat /\ Half >= 3
  BY Widths
<1>1. \A k \in Nat : BucketsFrom(2 * k) =
        {v \in {FourAndThirds(k, j) : j \in 0..11} : v < Signed(Four(k) * 4) - Third(k)}
  BY DEF BucketsFrom, FourAndThirds, Four, Third
<1>2. BucketsFrom(2 * 1) = 4..14
  <2>1. Signed(Four(1) * 4) - Third(1) = 15
    BY <1>0, SignedFour, FourFirst
  <2>2. \A j \in 0..11 : FourAndThirds(1, j) = 4 + j
    BY FourFirst DEF FourAndThirds
  <2>3. {FourAndThirds(1, j) : j \in 0..11} = 4..15
    <3>1. \A j \in 0..11 : FourAndThirds(1, j) \in 4..15
      BY <2>2
    <3>2. \A v \in 4..15 : v - 4 \in 0..11 /\ FourAndThirds(1, v - 4) = v
      BY <2>2
    <3> QED BY <3>1, <3>2
  <2>4. BucketsFrom(2 * 1) = {v \in 4..15 : v < 15}
    BY <1>1, <2>1, <2>3
  <2> QED BY <2>4
<1>3. ASSUME NEW k \in Middle PROVE BucketsFrom(2 * k) = {FourAndThirds(k, j) : j \in Steps}
  <2>1. k \in Nat /\ k >= 2 /\ k <= Half - 2
    BY <1>0 DEF Middle
  <2>2. Signed(Four(k) * 4) = 4 * Four(k)
    BY <2>1, SignedFour
  <2>3. ASSUME NEW j \in 0..11 PROVE FourAndThirds(k, j) < 4 * Four(k) - Third(k) <=> j \in Steps
    <3>0. j \in Nat
      OBVIOUS
    <3>1. j <= 8 => FourAndThirds(k, j) + Third(k) < 4 * Four(k)
      BY <2>1, <3>0, FourAndThirdsBounds
    <3>2. j >= 9 => FourAndThirds(k, j) + Third(k) > 4 * Four(k)
      BY <2>1, <3>0, FourAndThirdsBounds
    <3>3. PICK a, d, q : a = FourAndThirds(k, j) /\ d = Third(k) /\ q = Four(k)
      OBVIOUS
    <3>4. a \in Nat /\ d \in Nat /\ q \in Nat
      BY <2>1, <3>0, <3>3, FourType, FourAndThirdsType
    <3>5. (j <= 8 => a + d < 4 * q) /\ (j >= 9 => a + d > 4 * q)
      BY <3>1, <3>2, <3>3
    <3>6. a < 4 * q - d <=> j <= 8
      BY <3>0, <3>4, <3>5
    <3>7. j <= 8 <=> j \in Steps
      BY <3>0 DEF Steps
    <3> QED BY <3>3, <3>6, <3>7
  <2>4. Steps \subseteq 0..11
    BY DEF Steps
  <2>5. BucketsFrom(2 * k) = {v \in {FourAndThirds(k, j) : j \in 0..11} : v < 4 * Four(k) - Third(k)}
    BY <1>1, <2>1, <2>2
  <2> HIDE DEF Steps
  <2> QED BY <2>3, <2>4, <2>5
<1>4. BucketsFrom(2 * (Half - 1)) = {}
  <2>1. Half - 1 \in Nat /\ Half - 1 >= 2
    BY <1>0
  <2>2. Signed(Four(Half - 1) * 4) = 0 /\ Third(Half - 1) \in Nat /\ Third(Half - 1) >= 5
    BY <2>1, SignedFour, FourType, FourLarge
  <2>3. \A j \in 0..11 : FourAndThirds(Half - 1, j) \in Nat
    <3>1. 0..11 \subseteq Nat
      OBVIOUS
    <3> QED BY <2>1, <3>1, FourAndThirdsType
  <2>4. \A j \in 0..11 : ~(FourAndThirds(Half - 1, j) < 0 - Third(Half - 1))
    BY <2>2, <2>3
  <2>5. BucketsFrom(2 * (Half - 1)) = {v \in {FourAndThirds(Half - 1, j) : j \in 0..11} : v < 0 - Third(Half - 1)}
    BY <1>1, <2>1, <2>2
  <2> QED BY <2>4, <2>5
<1> QED BY <1>2, <1>3, <1>4

LEMMA PushedMembers ==
  \A v : v \in Pushed <=> v \in 1..14 \/ \E k \in Middle, j \in Steps : v = FourAndThirds(k, j)
<1>0. Half \in Nat /\ Half >= 3 /\ Width = 2 * Half
  BY Widths
<1>1. \A e \in Exponents : \E k \in 1..Half - 1 : e = 2 * k
  <2> TAKE e \in Exponents
  <2>1. e \in Nat /\ e >= 2 /\ e <= 2 * Half - 1 /\ e % 2 = 0
    BY <1>0 DEF Exponents
  <2>2. e = 2 * (e \div 2) /\ e \div 2 \in 1..Half - 1
    BY <1>0, <2>1
  <2> QED BY <2>2
<1>2. \A k \in 1..Half - 1 : 2 * k \in Exponents
  BY <1>0 DEF Exponents
<1>3. \A k \in 1..Half - 1 : k = 1 \/ k \in Middle \/ k = Half - 1
  BY <1>0 DEF Middle
<1>4. 1 \in 1..Half - 1 /\ Middle \subseteq 1..Half - 1
  BY <1>0 DEF Middle
<1>5. \A v : v \in Pushed <=> v \in {1, 2, 3} \/ \E e \in Exponents : v \in BucketsFrom(e)
  BY DEF Pushed
<1>6. \A v : v \in Pushed <=> v \in {1, 2, 3} \/ \E k \in 1..Half - 1 : v \in BucketsFrom(2 * k)
  <2> HIDE DEF Exponents
  <2> QED BY <1>1, <1>2, <1>5
<1>7. \A v : v \in 1..14 <=> v \in {1, 2, 3} \/ v \in 4..14
  OBVIOUS
<1> TAKE v
<1>8. ASSUME v \in Pushed PROVE v \in 1..14 \/ \E k \in Middle, j \in Steps : v = FourAndThirds(k, j)
  <2>1. CASE v \in {1, 2, 3}
    BY <2>1, <1>7
  <2>2. ASSUME NEW k \in 1..Half - 1, v \in BucketsFrom(2 * k)
        PROVE v \in 1..14 \/ \E l \in Middle, j \in Steps : v = FourAndThirds(l, j)
    <3>1. CASE k = 1
      BY <1>7, <2>2, <3>1, BucketsAt
    <3>2. CASE k \in Middle
      BY <2>2, <3>2, BucketsAt
    <3>3. CASE k = Half - 1
      BY <2>2, <3>3, BucketsAt
    <3> QED BY <1>3, <3>1, <3>2, <3>3
  <2> QED BY <1>6, <1>8, <2>1, <2>2
<1>9. ASSUME v \in 1..14 PROVE v \in Pushed
  BY <1>4, <1>6, <1>7, <1>9, BucketsAt
<1>10. ASSUME NEW k \in Middle, NEW j \in Steps, v = FourAndThirds(k, j) PROVE v \in Pushed
  <2>1. v \in BucketsFrom(2 * k)
    BY <1>10, BucketsAt
  <2> QED BY <1>4, <1>6, <2>1
<1> QED BY <1>8, <1>9, <1>10

\* The table as PercentileBucketIndexOf finds it.
LEMMA TableValues ==
  /\ Len(BucketValues) = Pushes + 1
  /\ \A i \in 1..Pushes : BucketValues[i] = Table[i] /\ Table[i] \in Nat
  /\ BucketValues[Pushes + 1] = MaxInt
<1>1. Pushed \in SUBSET Nat
  <2> SUFFICES ASSUME NEW v \in Pushed PROVE v \in Nat
    OBVIOUS
  <2>1. CASE v \in 1..14
    BY <2>1
  <2>2. CASE \E k \in Middle, j \in Steps : v = FourAndThirds(k, j)
    <3>1. PICK k \in Middle, j \in Steps : v = FourAndThirds(k, j)
      BY <2>2
    <3>2. k \in Nat /\ j \in Nat
      BY Widths DEF Middle, Steps
    <3> QED BY <3>1, <3>2, FourAndThirdsType
  <2> QED BY <2>1, <2>2, PushedMembers
<1>2. ASSUME NEW i \in 1..Pushes PROVE Table[i] \in Pushed
  <2>0. i \in Nat /\ i >= 1
    BY PushesType
  <2>1. CASE i <= 14
    BY <2>0, <2>1, TableEntries, PushedMembers
  <2>2. CASE i > 14
    BY <2>2, Places, TableEntries, PushedMembers
  <2> QED BY <2>0, <2>1, <2>2
<1>3. ASSUME NEW v \in Pushed PROVE \E i \in 1..Pushes : Table[i] = v
  <2>1. CASE v \in 1..14
    BY <2>1, TableEntries
  <2>2. CASE \E k \in Middle, j \in Steps : v = FourAndThirds(k, j)
    BY <2>2, TableEntries, Places
  <2> QED BY <2>1, <2>2, PushedMembers
<1>4. Table \in [1..Pushes -> Pushed]
  <2>1. Table = [i \in 1..Pushes |-> Table[i]]
    BY DEF Table
  <2> QED BY <1>2, <2>1
<1>5. Pushed \in SUBSET Int
  BY <1>1
<1>6. /\ Cardinality(Pushed) = Pushes
      /\ \A i \in 1..Pushes : (CHOOSE v \in Pushed : Cardinality({w \in Pushed : w < v}) = i - 1) = Table[i]
  BY <1>3, <1>4, <1>5, PushesType, TableIncreasing, Enumeration
<1> DEFINE s == [i \in 1..Pushes |-> Table[i]]
<1>7. BucketValues = Append(s, MaxInt)
  BY <1>6 DEF BucketValues
<1>8. \A i \in 1..Pushes : Table[i] \in Nat
  BY <1>1, <1>2
<1>9. s \in Seq(Nat) /\ Len(s) = Pushes /\ \A i \in 1..Pushes : s[i] = Table[i]
  BY <1>8, PushesType
<1>10. MaxInt \in Nat
  BY Limits
<1> HIDE DEF s
<1>11. Len(Append(s, MaxInt)) = Pushes + 1 /\ Append(s, MaxInt)[Pushes + 1] = MaxInt
       /\ \A i \in 1..Pushes : Append(s, MaxInt)[i] = s[i]
  BY <1>9, <1>10, AppendProperties
<1> QED BY <1>7, <1>8, <1>9, <1>11

\* A number between the m-th value and the next has m values below it.
LEMMA CountBelow ==
  ASSUME NEW m \in 1..Pushes, NEW q \in Nat, Table[m] < q, m < Pushes => q <= Table[m + 1]
  PROVE  Cardinality({i \in 1..Len(BucketValues) - 1 : BucketValues[i] < q}) = m
<1>0. Pushes \in Nat /\ m \in Nat /\ \A i \in 1..Pushes : Table[i] \in Nat
  BY PushesType, TableValues
<1>1. ASSUME NEW i \in 1..Pushes PROVE Table[i] < q <=> i <= m
  <2>1. CASE i < m
    <3>1. Table[i] < Table[m]
      BY <2>1, TableIncreasing
    <3> QED BY <1>0, <2>1, <3>1
  <2>2. CASE i = m
    BY <1>0, <2>2
  <2>3. CASE i > m
    <3>1. m < Pushes /\ m + 1 \in 1..Pushes /\ m + 1 <= i
      BY <1>0, <2>3
    <3>2. Table[m + 1] <= Table[i]
      <4>1. CASE m + 1 = i
        BY <1>0, <3>1, <4>1
      <4>2. CASE m + 1 < i
        <5>1. Table[m + 1] < Table[i]
          BY <3>1, <4>2, TableIncreasing
        <5> QED BY <1>0, <3>1, <5>1
      <4> QED BY <1>0, <3>1, <4>1, <4>2
    <3>3. q <= Table[m + 1] /\ Table[m + 1] \in Nat /\ Table[i] \in Nat
      BY <1>0, <3>1
    <3> QED BY <1>0, <2>3, <3>2, <3>3
  <2> QED BY <1>0, <2>1, <2>2, <2>3
<1>2. Len(BucketValues) - 1 = Pushes
  BY <1>0, TableValues
<1>3. \A i \in 1..Pushes : BucketValues[i] < q <=> i <= m
  BY <1>1, TableValues
<1>4. {i \in 1..Len(BucketValues) - 1 : BucketValues[i] < q} = 1..m
  <2> HIDE DEF BucketValues
  <2>1. {i \in 1..Pushes : BucketValues[i] < q} = 1..m
    BY <1>0, <1>3
  <2> QED BY <1>2, <2>1
<1>5. Cardinality(1..m) = m
  BY <1>0, FS_Interval
<1> QED BY <1>4, <1>5

\* How many values there are below 4^k.
Before(k) == IF k = 1 THEN 3 ELSE 14 + 9 * (k - 2)

LEMMA FirstBelow == \A k \in 1..Half - 1 : Before(k) \in 1..Pushes /\ Table[Before(k)] < Four(k)
<1> TAKE k \in 1..Half - 1
<1>0. Half \in Nat /\ Half >= 3 /\ k \in Nat /\ k >= 1 /\ k <= Half - 1 /\ Pushes \in Nat /\ Pushes = 14 + 9 * (Half - 3)
  BY Widths DEF Pushes
<1>2. Before(k) \in 1..Pushes
  BY <1>0 DEF Before
<1>3. Table[Before(k)] < Four(k)
  <2>1. CASE k = 1
    BY <2>1, TableEntries, FourFirst DEF Before
  <2>2. CASE k = 2
    BY <2>2, TableEntries, FourFirst DEF Before
  <2>3. CASE k > 2
    <3>1. k - 1 \in Middle /\ k - 1 \in Nat /\ k - 1 >= 2 /\ 8 \in Steps /\ 8 \in Nat /\ k - 1 + 1 = k
      BY <1>0, <2>3 DEF Middle, Steps
    <3>2. Before(k) = Place(k - 1, 8)
      BY <1>0, <2>3 DEF Before, Place
    <3>3. Table[Before(k)] = FourAndThirds(k - 1, 8)
      BY <3>1, <3>2, TableEntries
    <3>4. FourAndThirds(k - 1, 8) + Third(k - 1) < 4 * Four(k - 1)
      BY <3>1, FourAndThirdsBounds
    <3>5. Four(k) = 4 * Four(k - 1)
      BY <3>1, FourNext
    <3>6. FourAndThirds(k - 1, 8) \in Nat /\ Third(k - 1) \in Nat /\ Four(k - 1) \in Nat
      BY <3>1, FourAndThirdsType, FourType
    <3>7. PICK a, d, q : a = FourAndThirds(k - 1, 8) /\ d = Third(k - 1) /\ q = Four(k - 1)
      OBVIOUS
    <3>8. a \in Nat /\ d \in Nat /\ q \in Nat /\ a + d < 4 * q
      BY <3>4, <3>6, <3>7
    <3>9. a < 4 * q
      BY <3>8
    <3> QED BY <3>3, <3>5, <3>7, <3>9
  <2> QED BY <1>0, <2>1, <2>2, <2>3
<1> QED BY <1>2, <1>3

\* powerOf4Index in closed form.
LEMMA Indexes == \A k \in 1..Half - 1 : PowerOf4Index[k] = Before(k) /\ Before(k) \in 1..Pushes
<1> TAKE k \in 1..Half - 1
<1>0. Half \in Nat /\ Half >= 3 /\ k \in Nat /\ k >= 1 /\ k <= Half - 1 /\ Pushes \in Nat /\ Pushes = 14 + 9 * (Half - 3)
  BY Widths DEF Pushes
<1>1. PowerOf4Index[k] = Cardinality({i \in 1..Len(BucketValues) - 1 : BucketValues[i] < Four(k)})
  <2>1. k \in 0..(Width \div 2) - 1
    BY <1>0 DEF Half
  <2> QED BY <2>1 DEF PowerOf4Index, Four
<1>2. Before(k) \in 1..Pushes /\ Table[Before(k)] < Four(k)
  BY FirstBelow
<1>4. ASSUME Before(k) < Pushes PROVE Four(k) <= Table[Before(k) + 1]
  <2>1. CASE k = 1
    BY <2>1, TableEntries, FourFirst DEF Before
  <2>2. CASE k > 1
    <3>1. k \in Middle /\ 0 \in Steps /\ Before(k) + 1 = Place(k, 0)
      BY <1>0, <1>4, <2>2 DEF Middle, Steps, Before, Place
    <3>2. Table[Before(k) + 1] = FourAndThirds(k, 0)
      BY <3>1, TableEntries
    <3>3. Four(k) <= FourAndThirds(k, 0)
      BY <1>0, <2>2, FourAndThirdsBounds
    <3> QED BY <3>2, <3>3
  <2> QED BY <1>0, <2>1, <2>2
<1>5. Four(k) \in Nat
  BY <1>0, FourType
<1>6. Cardinality({i \in 1..Len(BucketValues) - 1 : BucketValues[i] < Four(k)}) = Before(k)
  BY <1>2, <1>4, <1>5, CountBelow
<1> QED BY <1>1, <1>2, <1>6

\* The least power of two above an amount is twice the one at or below it.
LEMMA LogExists ==
  ASSUME NEW v \in Nat, v > 0, v <= MaxInt
  PROVE  \E e \in 0..Width - 2 : Bit(e) <= v /\ v < Bit(e + 1)
<1> DEFINE S == {e \in Nat : v < Bit(e)}
<1>0. Width \in Nat /\ Width >= 6 /\ Width - 1 \in Nat
  BY WidthAssumption
<1>1. Width - 1 \in S
  <2>1. v <= Bit(Width - 1) - 1 /\ Bit(Width - 1) \in Nat
    BY <1>0, BitPositive DEF MaxInt
  <2>2. v < Bit(Width - 1)
    BY <2>1
  <2> QED BY <1>0, <2>2
<1>2. S \in SUBSET Nat
  OBVIOUS
<1>3. PICK x \in S : \A y \in S : x <= y
  <2> HIDE DEF S
  <2> QED BY <1>1, <1>2, LeastElement
<1>4. x \in Nat /\ v < Bit(x) /\ x <= Width - 1
  BY <1>1, <1>3
<1>5. x # 0
  BY <1>4, BitZero
<1>6. x - 1 \in Nat /\ x - 1 + 1 = x /\ x - 1 \notin S
  <2>1. x - 1 \in Nat /\ x - 1 + 1 = x /\ ~(x <= x - 1)
    BY <1>4, <1>5
  <2> HIDE DEF S
  <2> QED BY <1>3, <2>1
<1>7. Bit(x - 1) <= v
  BY <1>6, BitPositive
<1>8. x - 1 \in 0..Width - 2
  BY <1>0, <1>4, <1>6
<1> QED BY <1>4, <1>6, <1>7, <1>8

\* The shift finds the power of four at or below an amount.
LEMMA Shifts ==
  ASSUME NEW v \in Nat, v > 0, v <= MaxInt
  PROVE  LET k == Log2(v) \div 2
         IN k \in 0..Half - 1 /\ Four(k) <= v /\ v < 4 * Four(k) /\ (2 * k) \div 2 = k
<1> DEFINE e == Log2(v)
           k == e \div 2
<1>0. Half \in Nat /\ Half >= 3 /\ Width = 2 * Half
  BY Widths
<1>1. e \in 0..Width - 2 /\ Bit(e) <= v /\ v < Bit(e + 1)
  BY LogExists DEF Log2
<1> HIDE DEF e
<1>2. e \in Nat /\ k \in Nat /\ k \in 0..Half - 1 /\ (e = 2 * k \/ e = 2 * k + 1) /\ (2 * k) \div 2 = k
  BY <1>0, <1>1
<1> HIDE DEF k
<1>3. Bit(e) \in Nat /\ Bit(e + 1) \in Nat /\ Bit(2 * k) \in Nat /\ Bit(2 * k + 1) \in Nat
      /\ 2 * k \in Nat /\ 2 * k + 1 \in Nat
  <2>1. e + 1 \in Nat /\ 2 * k \in Nat /\ 2 * k + 1 \in Nat
    BY <1>2
  <2> QED BY <1>2, <2>1, BitPositive
<1>4. Bit(2 * k + 1) = 2 * Bit(2 * k) /\ Bit(2 * k + 1 + 1) = 2 * Bit(2 * k + 1)
  BY <1>3, BitNext
<1>5. Bit(2 * k) <= v /\ v < 4 * Bit(2 * k)
  <2>1. CASE e = 2 * k
    BY <1>1, <1>3, <1>4, <2>1
  <2>2. CASE e = 2 * k + 1
    BY <1>1, <1>3, <1>4, <2>2
  <2> QED BY <1>2, <2>1, <2>2
<1> QED BY <1>2, <1>5 DEF Four, k, e

\* v lies o thirds above 4^k, and less than another third.
LiesAt(v, k, o) ==
  /\ k \in 1..Half - 1 /\ o \in Nat
  /\ Four(k) <= v /\ v < 4 * Four(k)
  /\ FourAndThirds(k, o) <= v /\ v < FourAndThirds(k, o + 1)

\* The index that comes of a position: the last at the end of the table.
IndexAt(p) == IF p >= Pushes THEN Pushes ELSE p + 1

\* What PercentileBucketIndexOf computes for an amount above 4.
LEMMA IndexOfLarge ==
  ASSUME NEW v \in Nat, v > 4, v <= MaxInt
  PROVE  \E k, o : LiesAt(v, k, o) /\ PercentileBucketIndexOf(v) = IndexAt(Before(k) + o)
<1> DEFINE k == Log2(v) \div 2
           o == (v - Four(k)) \div Third(k)
<1>0. Half \in Nat /\ Half >= 3
  BY Widths
<1>1. k \in 0..Half - 1 /\ Four(k) <= v /\ v < 4 * Four(k) /\ (2 * k) \div 2 = k
  BY Shifts
<1>2. k # 0
  <2>1. ASSUME k = 0 PROVE FALSE
    <3>1. Four(k) = 1
      BY <2>1, FourFirst
    <3> HIDE DEF k
    <3> QED BY <1>1, <3>1
  <2> QED BY <2>1
<1>3. PercentileBucketIndexOf(v) =
        IF v <= 0 THEN 0 ELSE IF v <= 4 THEN v
        ELSE IF o + PowerOf4Index[(2 * k) \div 2] >= Len(BucketValues) - 1
             THEN Len(BucketValues) - 1 ELSE o + PowerOf4Index[(2 * k) \div 2] + 1
  BY DEF PercentileBucketIndexOf, Four, Third
<1> HIDE DEF k
<1>4. k \in Nat /\ k \in 1..Half - 1
  BY <1>0, <1>1, <1>2
<1>5. PICK q, d : q = Four(k) /\ d = Third(k)
  OBVIOUS
<1>6. q \in Nat /\ d \in Nat /\ q = 3 * d + 1 /\ q > 0
  BY <1>4, <1>5, FourType
<1>7. d > 0
  <2>1. k = 1 \/ k >= 2
    BY <1>4
  <2> QED BY <1>4, <1>5, <1>6, <2>1, FourFirst, FourLarge
<1>8. v - q \in Nat /\ q <= v /\ v < 4 * q
  BY <1>1, <1>5, <1>6
<1>9. o = (v - q) \div d
  BY <1>5
<1>10. PICK w : w = v - q
  OBVIOUS
<1>11. w \in Nat /\ o = w \div d
  BY <1>8, <1>9, <1>10
<1>12. o \in Nat /\ o * d <= w /\ w < (o + 1) * d
  <2> HIDE DEF o
  <2>1. w \div d \in Nat /\ d * (w \div d) <= w /\ w < d * (w \div d) + d
    BY <1>6, <1>7, <1>11, Division
  <2>2. o \in Nat /\ d * o <= w /\ w < d * o + d
    BY <1>11, <2>1
  <2>3. (o + 1) * d = d * o + d /\ o * d = d * o
    BY <1>6, <2>2
  <2> QED BY <2>2, <2>3
<1> HIDE DEF o
<1>13. FourAndThirds(k, o) <= v /\ v < FourAndThirds(k, o + 1)
  <2>1. FourAndThirds(k, o) = q + o * d /\ FourAndThirds(k, o + 1) = q + (o + 1) * d
    BY <1>5 DEF FourAndThirds
  <2>2. PICK x, y : x = o * d /\ y = (o + 1) * d
    OBVIOUS
  <2>3. x \in Nat /\ y \in Nat
    BY <1>6, <1>12, <2>2
  <2>4. x <= w /\ w < y
    BY <1>12, <2>2
  <2>5. q + x <= v /\ v < q + y
    BY <1>6, <1>8, <1>10, <2>3, <2>4
  <2> QED BY <2>1, <2>2, <2>5
<1>14. LiesAt(v, k, o)
  BY <1>1, <1>4, <1>12, <1>13 DEF LiesAt
<1>15. PowerOf4Index[(2 * k) \div 2] = Before(k) /\ Before(k) \in Nat
  BY <1>1, <1>4, Indexes, PushesType
<1>16. Len(BucketValues) - 1 = Pushes
  BY TableValues, PushesType
<1>17. PercentileBucketIndexOf(v) = IF o + Before(k) >= Pushes THEN Pushes ELSE o + Before(k) + 1
  BY <1>3, <1>15, <1>16
<1>18. PercentileBucketIndexOf(v) = IndexAt(Before(k) + o)
  BY <1>12, <1>15, <1>17 DEF IndexAt
<1> QED BY <1>14, <1>18

LEMMA SmallIndexes ==
  /\ \A v \in Int : v <= 0 => PercentileBucketIndexOf(v) = 0
  /\ \A v \in 1..4 : PercentileBucketIndexOf(v) = v
  BY DEF PercentileBucketIndexOf

\* How far a range reaches: eleven values above 4, ten above the others.
LEMMA OffsetBound ==
  ASSUME NEW v \in Nat, NEW k, NEW o, LiesAt(v, k, o)
  PROVE  /\ k = 1 => v \in 4..15 /\ o = v - 4
         /\ k >= 2 => o <= 9
<1>0. k \in Nat /\ k >= 1 /\ o \in Nat /\ o + 1 \in Nat
  BY Widths DEF LiesAt
<1>1. ASSUME k = 1 PROVE v \in 4..15 /\ o = v - 4
  <2>1. FourAndThirds(k, o) = 4 + o /\ FourAndThirds(k, o + 1) = 4 + o + 1 /\ Four(k) = 4
    BY <1>0, <1>1, FourFirst DEF FourAndThirds
  <2> QED BY <1>0, <2>1 DEF LiesAt
<1>2. ASSUME k >= 2, o > 9 PROVE FALSE
  <2>1. FourAndThirds(k, 9) + Third(k) <= FourAndThirds(k, o)
    BY <1>0, <1>2, FourAndThirdsBounds
  <2>2. FourAndThirds(k, 9) + Third(k) > 4 * Four(k)
    BY <1>0, <1>2, FourAndThirdsBounds
  <2>3. PICK a, b, q, d : a = FourAndThirds(k, 9) /\ b = FourAndThirds(k, o) /\ q = Four(k) /\ d = Third(k)
    OBVIOUS
  <2>4. a \in Nat /\ b \in Nat /\ q \in Nat /\ d \in Nat
    BY <1>0, <2>3, FourAndThirdsType, FourType
  <2>5. a + d <= b /\ a + d > 4 * q
    BY <2>1, <2>2, <2>3
  <2>6. b <= v /\ v < 4 * q
    BY <2>3 DEF LiesAt
  <2> QED BY <2>4, <2>5, <2>6
<1> QED BY <1>0, <1>1, <1>2

\* The value after the next exceeds the amount.
LEMMA BelowNextValue ==
  ASSUME NEW v \in Nat, NEW k, NEW o, LiesAt(v, k, o), Before(k) + o + 2 <= Pushes
  PROVE  v < Table[Before(k) + o + 2]
<1>0. Half \in Nat /\ Half >= 3 /\ k \in Nat /\ k >= 1 /\ k <= Half - 1 /\ o \in Nat /\ Pushes = 14 + 9 * (Half - 3)
  BY Widths DEF LiesAt, Pushes
<1>1. CASE k = 1
  <2>1. v \in 4..15 /\ Before(k) + o + 2 = v + 1
    BY <1>0, <1>1, OffsetBound DEF Before
  <2>2. CASE v <= 13
    <3>1. Table[v + 1] = v + 1
      BY <2>1, <2>2, TableEntries
    <3> QED BY <2>1, <3>1
  <2>3. CASE v \in {14, 15}
    <3>1. 2 \in Middle /\ v - 14 \in Steps /\ v + 1 = Place(2, v - 14) /\ v - 14 \in Nat
      BY <1>0, <2>1, <2>3 DEF Middle, Steps, Place
    <3>2. Table[v + 1] = FourAndThirds(2, v - 14)
      BY <3>1, TableEntries
    <3>3. Four(2) <= FourAndThirds(2, v - 14) /\ FourAndThirds(2, v - 14) \in Nat
      BY <3>1, FourAndThirdsBounds, FourAndThirdsType
    <3>4. v < FourAndThirds(2, v - 14)
      BY <2>3, <3>3, FourFirst
    <3> QED BY <2>1, <3>2, <3>4
  <2> QED BY <2>1, <2>2, <2>3
<1>2. CASE k >= 2
  <2>1. o <= 9 /\ Before(k) = 14 + 9 * (k - 2)
    BY <1>0, <1>2, OffsetBound DEF Before
  <2>2. CASE o <= 7
    <3>1. k \in Middle /\ o + 1 \in Steps /\ Before(k) + o + 2 = Place(k, o + 1)
      BY <1>0, <1>2, <2>1, <2>2 DEF Middle, Steps, Place
    <3>2. Table[Before(k) + o + 2] = FourAndThirds(k, o + 1)
      BY <3>1, TableEntries
    <3> QED BY <3>2 DEF LiesAt
  <2>3. CASE o \in {8, 9}
    <3>1. k + 1 \in Middle /\ o - 8 \in Steps /\ Before(k) + o + 2 = Place(k + 1, o - 8) /\ o - 8 \in Nat
          /\ k + 1 \in Nat /\ k + 1 >= 2
      BY <1>0, <1>2, <2>1, <2>3 DEF Middle, Steps, Place
    <3>2. Table[Before(k) + o + 2] = FourAndThirds(k + 1, o - 8)
      BY <3>1, TableEntries
    <3>3. Four(k + 1) <= FourAndThirds(k + 1, o - 8) /\ Four(k + 1) = 4 * Four(k) /\ v < 4 * Four(k)
      BY <1>0, <3>1, FourAndThirdsBounds, FourNext DEF LiesAt
    <3>4. PICK a, q : a = FourAndThirds(k + 1, o - 8) /\ q = Four(k)
      OBVIOUS
    <3>5. a \in Nat /\ q \in Nat
      BY <1>0, <3>1, <3>4, FourAndThirdsType, FourType
    <3>6. 4 * q <= a /\ v < 4 * q
      BY <3>3, <3>4
    <3>7. v < a
      BY <3>5, <3>6
    <3> QED BY <3>2, <3>4, <3>7
  <2> QED BY <1>0, <2>1, <2>2, <2>3
<1> QED BY <1>0, <1>1, <1>2

\* And the amount is not below the value before.
LEMMA NotBelowValue ==
  ASSUME NEW v \in Nat, NEW k, NEW o, LiesAt(v, k, o), Before(k) + o <= Pushes
  PROVE  Table[Before(k) + o] <= v
<1>0. Half \in Nat /\ Half >= 3 /\ k \in Nat /\ k >= 1 /\ k <= Half - 1 /\ o \in Nat /\ Pushes = 14 + 9 * (Half - 3)
  BY Widths DEF LiesAt, Pushes
<1>1. CASE k = 1
  <2>1. v \in 4..15 /\ Before(k) + o = v - 1
    BY <1>0, <1>1, OffsetBound DEF Before
  <2>2. Table[v - 1] = v - 1
    BY <2>1, TableEntries
  <2> QED BY <2>1, <2>2
<1>2. CASE k >= 2 /\ o = 0
  <2>1. Before(k) \in 1..Pushes /\ Before(k) + o = Before(k) /\ k \in 1..Half - 1
    BY <1>0, <1>2, Indexes, PushesType
  <2>2. Table[Before(k)] < Four(k)
    BY <2>1, FirstBelow
  <2>3. Four(k) <= v /\ Four(k) \in Nat /\ Table[Before(k)] \in Nat
    BY <1>0, <2>1, FourType, TableValues DEF LiesAt
  <2> QED BY <2>1, <2>2, <2>3
<1>3. CASE k >= 2 /\ o # 0
  <2>1. o - 1 \in 0..8
    BY <1>0, <1>3, OffsetBound
  <2>2. k \in Middle /\ o - 1 \in Steps /\ Before(k) + o = Place(k, o - 1) /\ o - 1 \in Nat
    BY <1>0, <1>3, <2>1 DEF Middle, Steps, Place, Before
  <2>3. Table[Before(k) + o] = FourAndThirds(k, o - 1)
    BY <2>2, TableEntries
  <2>4. FourAndThirds(k, o - 1) + Third(k) <= FourAndThirds(k, o) /\ FourAndThirds(k, o) <= v
    BY <1>0, <1>3, <2>2, FourAndThirdsBounds DEF LiesAt
  <2>5. FourAndThirds(k, o - 1) \in Nat /\ FourAndThirds(k, o) \in Nat /\ Third(k) \in Nat
    BY <1>0, <2>2, FourAndThirdsType, FourType
  <2>6. PICK a, b, d : a = FourAndThirds(k, o - 1) /\ b = FourAndThirds(k, o) /\ d = Third(k)
    OBVIOUS
  <2>7. a \in Nat /\ b \in Nat /\ d \in Nat /\ a + d <= b /\ b <= v
    BY <2>4, <2>5, <2>6
  <2>8. a <= v
    BY <2>7
  <2> QED BY <2>3, <2>6, <2>8
<1> QED BY <1>0, <1>1, <1>2, <1>3

\* A larger amount is no less far up the table.
LEMMA PlaceMonotonic ==
  ASSUME NEW v \in Nat, NEW k, NEW o, LiesAt(v, k, o), NEW l, NEW p, LiesAt(v + 1, l, p)
  PROVE  Before(k) + o <= Before(l) + p
<1>0. Half \in Nat /\ k \in Nat /\ k >= 1 /\ l \in Nat /\ l >= 1 /\ o \in Nat /\ p \in Nat /\ v + 1 \in Nat
  BY Widths DEF LiesAt
<1>1. CASE k = l
  <2>1. ASSUME p < o PROVE FALSE
    <3>1. FourAndThirds(k, o) <= v /\ v + 1 < FourAndThirds(k, p + 1)
      BY <1>1 DEF LiesAt
    <3>2. p + 1 \in Nat /\ (p + 1 = o \/ p + 1 < o)
      BY <1>0, <2>1
    <3>3. CASE p + 1 = o
      <4>1. FourAndThirds(k, o) \in Nat
        BY <1>0, FourAndThirdsType
      <4> QED BY <3>1, <3>3, <4>1
    <3>4. CASE p + 1 < o
      <4>1. k = 1 \/ k >= 2
        BY <1>0
      <4>2. CASE k = 1
        <5>1. o = v - 4 /\ p = v + 1 - 4
          BY <1>0, <1>1, <4>2, OffsetBound
        <5> QED BY <2>1, <5>1
      <4>3. CASE k >= 2
        <5>1. FourAndThirds(k, p + 1) + Third(k) <= FourAndThirds(k, o)
          BY <1>0, <3>2, <3>4, <4>3, FourAndThirdsBounds
        <5>2. PICK a, b, d : a = FourAndThirds(k, p + 1) /\ b = FourAndThirds(k, o) /\ d = Third(k)
          OBVIOUS
        <5>3. a \in Nat /\ b \in Nat /\ d \in Nat
          BY <1>0, <3>2, <5>2, FourAndThirdsType, FourType
        <5>4. a + d <= b /\ b <= v /\ v + 1 < a
          BY <3>1, <5>1, <5>2
        <5> QED BY <5>3, <5>4
      <4> QED BY <4>1, <4>2, <4>3
    <3> QED BY <3>2, <3>3, <3>4
  <2>2. Before(k) \in Nat
    BY <1>0 DEF Before
  <2>3. o <= p
    BY <1>0, <2>1
  <2>4. Before(l) = Before(k)
    BY <1>1
  <2> QED BY <1>0, <2>2, <2>3, <2>4
<1>2. CASE k < l
  <2>1. CASE k = 1
    <3>1. o = v - 4 /\ v \in 4..15
      BY <2>1, OffsetBound
    <3> QED BY <1>0, <1>2, <2>1, <3>1 DEF Before
  <2>2. CASE k >= 2
    <3>1. o <= 9
      BY <2>2, OffsetBound
    <3> QED BY <1>0, <1>2, <2>2, <3>1 DEF Before
  <2> QED BY <1>0, <2>1, <2>2
<1>3. CASE l < k
  <2>1. 4 * Four(l) <= Four(k)
    BY <1>0, <1>3, FourMonotonic
  <2>2. Four(k) <= v /\ v + 1 < 4 * Four(l)
    BY DEF LiesAt
  <2>3. PICK q, r : q = Four(k) /\ r = Four(l)
    OBVIOUS
  <2>4. q \in Nat /\ r \in Nat /\ 4 * r <= q /\ q <= v /\ v + 1 < 4 * r
    BY <1>0, <2>1, <2>2, <2>3, FourType
  <2> QED BY <2>4
<1> QED BY <1>0, <1>1, <1>2, <1>3

\* The four promises of BucketBounds, for one amount.
BucketFits(v) ==
  LET i == PercentileBucketIndexOf(v)
  IN /\ i \in 0..Pushes
     /\ v < BucketValues[i + 1] \/ (v = MaxInt /\ i = Pushes)
     /\ i >= 2 /\ i < Pushes => v >= BucketValues[i - 2 + 1]
     /\ v < MaxInt => i <= PercentileBucketIndexOf(v + 1)

LEMMA LargeFits == \A v \in Nat : v > 4 /\ v <= MaxInt => BucketFits(v)
<1> TAKE v \in Nat
<1> HAVE v > 4 /\ v <= MaxInt
<1>1. PICK k, o : LiesAt(v, k, o) /\ PercentileBucketIndexOf(v) = IndexAt(Before(k) + o)
  BY IndexOfLarge
<1> DEFINE p == Before(k) + o
           i == IndexAt(p)
<1>2. Pushes \in Nat /\ MaxInt \in Nat /\ BucketValues[Pushes + 1] = MaxInt
  BY PushesType, Limits, TableValues
<1>3. p \in Nat /\ p >= 1
  <2>1. Before(k) \in Nat /\ Before(k) >= 1 /\ o \in Nat
    BY <1>1, Indexes, <1>2 DEF LiesAt
  <2> QED BY <2>1
<1>4. i \in 0..Pushes
  BY <1>2, <1>3 DEF IndexAt
<1>5. v < BucketValues[i + 1] \/ (v = MaxInt /\ i = Pushes)
  <2>1. CASE i = Pushes
    BY <1>2, <2>1
  <2>2. CASE i # Pushes
    <3>1. i = p + 1 /\ p + 2 <= Pushes /\ p + 2 \in 1..Pushes
      BY <1>2, <1>3, <2>2 DEF IndexAt
    <3>2. v < Table[p + 2]
      BY <1>1, <3>1, BelowNextValue
    <3>3. BucketValues[p + 2] = Table[p + 2] /\ i + 1 = p + 2
      BY <1>3, <3>1, TableValues
    <3> QED BY <3>2, <3>3
  <2> QED BY <2>1, <2>2
<1>6. ASSUME i >= 2, i < Pushes PROVE v >= BucketValues[i - 2 + 1]
  <2>1. i = p + 1 /\ p \in 1..Pushes /\ i - 2 + 1 = p
    BY <1>2, <1>3, <1>6 DEF IndexAt
  <2>2. Table[p] <= v /\ BucketValues[p] = Table[p] /\ Table[p] \in Nat
    BY <1>1, <2>1, NotBelowValue, TableValues
  <2> QED BY <2>1, <2>2
<1>7. ASSUME v < MaxInt PROVE i <= PercentileBucketIndexOf(v + 1)
  <2>1. v + 1 \in Nat /\ v + 1 > 4 /\ v + 1 <= MaxInt
    BY <1>2, <1>7
  <2>2. PICK l, m : LiesAt(v + 1, l, m) /\ PercentileBucketIndexOf(v + 1) = IndexAt(Before(l) + m)
    BY <2>1, IndexOfLarge
  <2>3. p <= Before(l) + m
    BY <1>1, <2>2, PlaceMonotonic
  <2>4. Before(l) + m \in Nat
    <3>1. Before(l) \in Nat /\ m \in Nat
      BY <2>2, <1>2, Indexes DEF LiesAt
    <3> QED BY <3>1
  <2>5. IndexAt(p) <= IndexAt(Before(l) + m)
    BY <1>2, <1>3, <2>3, <2>4 DEF IndexAt
  <2> QED BY <2>2, <2>5
<1>8. PercentileBucketIndexOf(v) = i
  BY <1>1
<1> HIDE DEF i
<1> QED BY <1>4, <1>5, <1>6, <1>7, <1>8 DEF BucketFits

LEMMA SmallFits == \A v \in Int : v <= 4 => BucketFits(v)
<1> TAKE v \in Int
<1> HAVE v <= 4
<1>1. Pushes \in Nat /\ Pushes >= 14 /\ \A i \in 1..14 : BucketValues[i] = i
  <2>1. Pushes \in Nat /\ Pushes >= 14
    BY PushesType
  <2> QED BY <2>1, TableEntries, TableValues
<1>2. MaxInt \in Nat
  BY Limits
<1>3. \A w \in Nat : w > 4 /\ w <= MaxInt => PercentileBucketIndexOf(w) \in 0..Pushes
  BY LargeFits DEF BucketFits
<1>4. CASE v <= 0
  <2>1. PercentileBucketIndexOf(v) = 0
    BY <1>4, SmallIndexes
  <2>2. PercentileBucketIndexOf(v + 1) \in Nat
    <3>1. v + 1 \in Int /\ (v + 1 <= 0 \/ v + 1 \in 1..4)
      BY <1>4
    <3> QED BY <3>1, SmallIndexes
  <2>3. BucketValues[1] = 1 /\ 0 + 1 = 1
    BY <1>1
  <2> QED BY <1>1, <1>4, <2>1, <2>2, <2>3 DEF BucketFits
<1>5. CASE v \in 1..4
  <2>1. PercentileBucketIndexOf(v) = v
    BY <1>5, SmallIndexes
  <2>2. v < MaxInt => v <= PercentileBucketIndexOf(v + 1)
    <3>1. CASE v \in 1..3
      <4>1. v + 1 \in 1..4
        BY <3>1
      <4>2. PercentileBucketIndexOf(v + 1) = v + 1
        BY <4>1, SmallIndexes
      <4> QED BY <3>1, <4>2
    <3>2. CASE v = 4 /\ v < MaxInt
      <4>1. 5 \in Nat /\ 5 > 4 /\ 5 <= MaxInt
        BY <1>2, <3>2
      <4>2. PICK k, o : LiesAt(5, k, o) /\ PercentileBucketIndexOf(5) = IndexAt(Before(k) + o)
        BY <4>1, IndexOfLarge
      <4>3. Before(k) + o \in Nat /\ Before(k) + o >= 3
        <5>1. k \in Nat /\ k >= 1 /\ o \in Nat
          BY <4>2, Widths DEF LiesAt
        <5> QED BY <5>1 DEF Before
      <4>4. IndexAt(Before(k) + o) >= 4
        BY <1>1, <4>3 DEF IndexAt
      <4>5. v + 1 = 5
        BY <3>2
      <4> QED BY <3>2, <4>2, <4>4, <4>5
    <3> QED BY <1>5, <3>1, <3>2
  <2>3. BucketValues[v + 1] = v + 1 /\ v + 1 \in Nat /\ v < v + 1
    BY <1>1, <1>5
  <2>4. v >= 2 => BucketValues[v - 2 + 1] = v - 1
    BY <1>1, <1>5
  <2>5. v >= 2 => v >= BucketValues[v - 2 + 1]
    BY <1>5, <2>4
  <2> QED BY <1>1, <1>5, <2>1, <2>2, <2>3, <2>5 DEF BucketFits
<1> QED BY <1>4, <1>5

\* An amount stays between -1 and the largest integer.
THEOREM BucketTypes == BucketSpec => []BucketTypeOK
<1>1. BucketInit => BucketTypeOK
  BY Limits DEF BucketInit, BucketTypeOK
<1>2. BucketTypeOK /\ [RecordNext]_amount => BucketTypeOK'
  BY Limits DEF RecordNext, BucketTypeOK
<1> QED BY <1>1, <1>2, PTL DEF BucketSpec

\* For every even number of bits from 6 on, the formula of PercentileBucketIndexOf
\* finds a bucket of the generated table whose value exceeds the amount, at most
\* one bucket too high, and it is monotonic.
THEOREM BucketsFit == BucketSpec => []BucketBounds
<1>1. BucketTypeOK => BucketBounds
  <2> SUFFICES ASSUME BucketTypeOK PROVE BucketBounds
    OBVIOUS
  <2>1. amount \in Int /\ amount <= MaxInt
    BY Limits DEF BucketTypeOK
  <2>2. BucketFits(amount)
    <3>1. amount <= 4 \/ (amount \in Nat /\ amount > 4)
      BY <2>1
    <3> QED BY <2>1, <3>1, SmallFits, LargeFits
  <2>3. Len(BucketValues) - 1 = Pushes
    BY TableValues, PushesType
  <2> HIDE DEF BucketTypeOK
  <2> QED BY <2>2, <2>3 DEF BucketFits, BucketBounds, GetPercBucketValue
<1> QED BY <1>1, BucketTypes, PTL
=============================================================================
