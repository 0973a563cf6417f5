---------------------------- MODULE TotalsProofs ----------------------------
(***************************************************************************)
(* How a sum changes when one of the values does, when the domain is       *)
(* renamed, and when a sequence grows or shrinks at its ends; and the form *)
(* of induction over the natural numbers that the proofs use: a set in the *)
(* place of a predicate.                                                   *)
(***************************************************************************)
EXTENDS Totals, FiniteSetTheorems, SequenceTheorems, WellFoundedInduction, TLAPS

LEMMA TallyMember ==
  ASSUME NEW f
  PROVE  \A p : p \in Tally(f) <=> \E d \in DOMAIN f : \E k \in 1 .. f[d] : p = <<d, k>>
  BY DEF Tally

LEMMA TallyFinite ==
  ASSUME NEW D, IsFiniteSet(D), NEW f \in [D -> Nat]
  PROVE  IsFiniteSet(Tally(f)) /\ Total(f) \in Nat
<1> DEFINE S == {{d} \X (1 .. f[d]) : d \in D}
           g == [d \in D |-> {d} \X (1 .. f[d])]
<1>1. g \in Surjection(D, S)
  BY DEF Surjection
<1>2. IsFiniteSet(S)
  BY <1>1, FS_Surjection
<1>3. ASSUME NEW d \in D PROVE IsFiniteSet({d} \X (1 .. f[d]))
  <2>1. IsFiniteSet({d})
    BY FS_Singleton
  <2>2. IsFiniteSet(1 .. f[d])
    BY FS_Interval
  <2> QED
    BY <2>1, <2>2, FS_Product
<1>4. \A T \in S : IsFiniteSet(T)
  BY <1>3
<1>5. IsFiniteSet(UNION S)
  BY <1>2, <1>4, FS_UNION
<1>6. UNION S = Tally(f)
  BY DEF Tally
<1>7. IsFiniteSet(Tally(f))
  BY <1>5, <1>6
<1> QED
  BY <1>7, FS_CardinalityType DEF Total

\* The element x of the domain contributes f[x].
LEMMA TotalSplit ==
  ASSUME NEW D, IsFiniteSet(D), NEW f \in [D -> Nat], NEW x \in D
  PROVE  Total(f) = Total([d \in D \ {x} |-> f[d]]) + f[x]
<1> DEFINE g == [d \in D \ {x} |-> f[d]]
           X == {x} \X (1 .. f[x])
<1>1. IsFiniteSet(D \ {x}) /\ DOMAIN f = D /\ DOMAIN g = D \ {x}
  BY FS_RemoveElement
<1>2. f[x] \in Nat
  OBVIOUS
<1>3. IsFiniteSet(X) /\ Cardinality(X) = f[x]
  <2>1. IsFiniteSet(1 .. f[x]) /\ Cardinality(1 .. f[x]) = f[x]
    BY <1>2, FS_Interval
  <2>2. IsFiniteSet({x}) /\ Cardinality({x}) = 1
    BY FS_Singleton
  <2>3. IsFiniteSet(X) /\ Cardinality(X) = Cardinality({x}) * Cardinality(1 .. f[x])
    BY <2>1, <2>2, FS_Product
  <2> QED
    BY <1>2, <2>1, <2>2, <2>3
<1>4. Tally(f) = Tally(g) \cup X
  <2>1. ASSUME NEW p \in Tally(f) PROVE p \in Tally(g) \cup X
    <3>1. PICK d \in D : \E k \in 1 .. f[d] : p = <<d, k>>
      BY <1>1, <2>1, TallyMember
    <3>2. CASE d = x
      BY <3>1, <3>2
    <3>3. CASE d # x
      BY <1>1, <3>1, <3>3, TallyMember
    <3> QED
      BY <3>2, <3>3
  <2>2. ASSUME NEW p \in Tally(g) PROVE p \in Tally(f)
    BY <1>1, <2>2, TallyMember
  <2>3. ASSUME NEW p \in X PROVE p \in Tally(f)
    BY <1>1, <2>3, TallyMember
  <2> QED
    BY <2>1, <2>2, <2>3
<1>5. Tally(g) \cap X = {}
  BY <1>1, TallyMember
<1>6. IsFiniteSet(Tally(g)) /\ Total(g) = Cardinality(Tally(g)) /\ Total(g) \in Nat
  <2>1. g \in [D \ {x} -> Nat]
    OBVIOUS
  <2> HIDE DEF g
  <2> QED
    BY <1>1, <2>1, TallyFinite DEF Total
<1>7. Total(f) = Cardinality(Tally(f))
  BY DEF Total
<1> HIDE DEF g, X
<1>8. Cardinality(Tally(g) \cup X)
        = Cardinality(Tally(g)) + Cardinality(X) - Cardinality(Tally(g) \cap X)
  BY <1>3, <1>6, FS_Union
<1>9. Cardinality(Tally(g) \cap X) = 0
  BY <1>5, FS_EmptySet
<1>10. Total(f) = Total(g) + f[x]
  BY <1>2, <1>3, <1>4, <1>6, <1>7, <1>8, <1>9
<1> QED
  BY <1>10 DEF g

\* Only the multiset of sizes counts.
LEMMA TotalRename ==
  ASSUME NEW D, IsFiniteSet(D), NEW E, NEW h \in Bijection(D, E),
         NEW f \in [D -> Nat], NEW g \in [E -> Nat],
         \A d \in D : g[h[d]] = f[d]
  PROVE  Total(g) = Total(f)
<1>1. IsFiniteSet(Tally(f)) /\ Total(f) = Cardinality(Tally(f)) /\ DOMAIN f = D /\ DOMAIN g = E
  BY TallyFinite DEF Total
<1> DEFINE H == [p \in Tally(f) |-> <<h[p[1]], p[2]>>]
<1>2. h \in [D -> E] /\ (\A a, b \in D : h[a] = h[b] => a = b) /\ (\A e \in E : \E d \in D : h[d] = e)
  BY DEF Bijection, Injection, Surjection, IsInjective
<1>3. \A p \in Tally(f) : H[p] \in Tally(g)
  BY <1>1, <1>2, TallyMember
<1>4. \A p, q \in Tally(f) : H[p] = H[q] => p = q
  BY <1>1, <1>2, TallyMember
<1>5. ASSUME NEW q \in Tally(g) PROVE \E p \in Tally(f) : H[p] = q
  <2>0. PICK e \in E : \E k \in 1 .. g[e] : q = <<e, k>>
    BY <1>1, TallyMember
  <2>1. PICK k \in 1 .. g[e] : q = <<e, k>>
    BY <2>0
  <2>2. PICK d \in D : h[d] = e
    BY <1>2
  <2>3. <<d, k>> \in Tally(f)
    BY <1>1, <2>1, <2>2, TallyMember
  <2> QED
    BY <2>1, <2>2, <2>3
<1>6. H \in Bijection(Tally(f), Tally(g))
  BY <1>3, <1>4, <1>5 DEF Bijection, Injection, Surjection, IsInjective
<1>7. Cardinality(Tally(g)) = Cardinality(Tally(f)) /\ IsFiniteSet(Tally(g))
  BY <1>1, <1>6, FS_Bijection DEF ExistsBijection
<1> QED
  BY <1>1, <1>7 DEF Total

LEMMA TotalAppend ==
  ASSUME NEW s \in Seq(Nat), NEW n \in Nat
  PROVE  Total(Append(s, n)) = Total(s) + n
<1> DEFINE x == Len(s) + 1
           D == 1 .. x
           f == Append(s, n)
<1>1. Len(s) \in Nat /\ s \in [1 .. Len(s) -> Nat]
  BY LenProperties
<1>2. f \in Seq(Nat) /\ Len(f) = x /\ f[x] = n /\ (\A i \in 1 .. Len(s) : f[i] = s[i])
  BY AppendProperties
<1>3. f \in [D -> Nat]
  BY <1>2, LenProperties
<1>4. IsFiniteSet(D)
  BY <1>1, FS_Interval
<1>5. x \in D /\ D \ {x} = 1 .. Len(s)
  BY <1>1
<1> HIDE DEF D, f, x
<1>6. Total(f) = Total([d \in D \ {x} |-> f[d]]) + f[x]
  BY <1>3, <1>4, <1>5, TotalSplit
<1>7. [d \in D \ {x} |-> f[d]] = s
  BY <1>1, <1>2, <1>5
<1> QED
  BY <1>2, <1>6, <1>7 DEF f

LEMMA TotalTail ==
  ASSUME NEW s \in Seq(Nat), s # <<>>
  PROVE  Total(s) = Total(Tail(s)) + Head(s)
<1> DEFINE D == 1 .. Len(s)
           D1 == D \ {1}
           E == 1 .. Len(s) - 1
           g == [d \in D1 |-> s[d]]
           h == [d \in D1 |-> d - 1]
<1>1. Len(s) \in Nat \ {0} /\ Head(s) = s[1]
  BY EmptySeq
<1>2. s \in [D -> Nat] /\ 1 \in D
  <2>1. s \in [D -> Nat]
    BY LenProperties
  <2> QED
    BY <1>1, <2>1
<1>3. Tail(s) \in [E -> Nat] /\ (\A i \in E : Tail(s)[i] = s[i + 1])
  BY HeadTailProperties, LenProperties
<1>4. IsFiniteSet(D) /\ IsFiniteSet(D1)
  <2>1. IsFiniteSet(D)
    BY <1>1, FS_Interval
  <2> QED
    BY <2>1, FS_RemoveElement
<1>5. h \in Bijection(D1, E)
  <2>1. h \in [D1 -> E] /\ (\A a, b \in D1 : h[a] = h[b] => a = b)
    BY <1>1
  <2>2. ASSUME NEW e \in E PROVE \E d \in D1 : h[d] = e
    <3>1. e + 1 \in D1 /\ h[e + 1] = e
      BY <1>1
    <3> QED
      BY <3>1
  <2> QED
    BY <2>1, <2>2 DEF Bijection, Injection, Surjection, IsInjective
<1>6. \A d \in D1 : Tail(s)[h[d]] = g[d]
  BY <1>1, <1>3
<1>7. g \in [D1 -> Nat]
  BY <1>2
<1>8. Total(s) = Total(g) + s[1]
  BY <1>2, <1>4, TotalSplit
<1> DEFINE T == Tail(s)
<1>9. T \in [E -> Nat] /\ \A d \in D1 : T[h[d]] = g[d]
  BY <1>3, <1>6
<1> HIDE DEF g, h, D, D1, E, T
<1>10. Total(T) = Total(g)
  <2>1. IsFiniteSet(D1)
    BY <1>4
  <2>2. h \in Bijection(D1, E)
    BY <1>5
  <2>3. g \in [D1 -> Nat]
    BY <1>7
  <2>4. T \in [E -> Nat]
    BY <1>9
  <2>5. \A d \in D1 : T[h[d]] = g[d]
    BY <1>9
  <2> QED
    BY <2>1, <2>2, <2>3, <2>4, <2>5, TotalRename
<1> QED
  BY <1>1, <1>8, <1>10 DEF T

LEMMA TotalEmpty == Total(<<>>) = 0
<1>1. Tally(<<>>) = {}
  BY DEF Tally
<1> QED
  BY <1>1, FS_EmptySet DEF Total

\* One element of the domain changes.
LEMMA TotalExcept ==
  ASSUME NEW D, IsFiniteSet(D), NEW f \in [D -> Nat], NEW g \in [D -> Nat],
         NEW x \in D, \A d \in D \ {x} : g[d] = f[d]
  PROVE  Total(g) = Total(f) - f[x] + g[x]
<1>1. Total(f) = Total([d \in D \ {x} |-> f[d]]) + f[x]
  BY TotalSplit
<1>2. Total(g) = Total([d \in D \ {x} |-> g[d]]) + g[x]
  BY TotalSplit
<1>3. [d \in D \ {x} |-> g[d]] = [d \in D \ {x} |-> f[d]]
  OBVIOUS
<1>4. Total(f) \in Nat /\ Total([d \in D \ {x} |-> f[d]]) \in Nat
  <2> DEFINE k == [d \in D \ {x} |-> f[d]]
  <2>1. k \in [D \ {x} -> Nat]
    OBVIOUS
  <2>2. IsFiniteSet(D \ {x})
    BY FS_RemoveElement
  <2> HIDE DEF k
  <2>3. Total(k) \in Nat /\ Total(f) \in Nat
    BY <2>1, <2>2, TallyFinite
  <2> QED
    BY <2>3 DEF k
<1> QED
  BY <1>1, <1>2, <1>3, <1>4

-----------------------------------------------------------------------------
(* The same for sequences of records with a size. *)

LEMMA SizesType ==
  ASSUME NEW S, \A r \in S : r.size \in Nat, NEW s \in Seq(S)
  PROVE  Sizes(s) \in Seq(Nat) /\ Len(Sizes(s)) = Len(s)
         /\ \A i \in 1 .. Len(s) : Sizes(s)[i] = s[i].size
<1>1. Len(s) \in Nat /\ DOMAIN s = 1 .. Len(s) /\ \A i \in 1 .. Len(s) : s[i] \in S
  BY LenProperties, ElementOfSeq
<1>2. Sizes(s) \in [1 .. Len(s) -> Nat] /\ \A i \in 1 .. Len(s) : Sizes(s)[i] = s[i].size
  BY <1>1 DEF Sizes
<1>3. Sizes(s) \in Seq(Nat)
  <2> DEFINE n == Len(s)
             z == Sizes(s)
  <2>1. n \in Nat /\ z \in [1 .. n -> Nat]
    BY <1>1, <1>2
  <2> HIDE DEF n, z
  <2>2. z \in Seq(Nat)
    BY <2>1, SeqDef
  <2> QED
    BY <2>2 DEF z
<1> QED
  BY <1>1, <1>2, <1>3, LenProperties

LEMMA TotalNat ==
  ASSUME NEW s \in Seq(Nat)
  PROVE  Total(s) \in Nat
<1> DEFINE D == 1 .. Len(s)
<1>1. Len(s) \in Nat /\ s \in [D -> Nat]
  BY LenProperties
<1>2. IsFiniteSet(D)
  BY <1>1, FS_Interval
<1> HIDE DEF D
<1> QED
  BY <1>1, <1>2, TallyFinite

LEMMA SizesAppend ==
  ASSUME NEW S, \A r \in S : r.size \in Nat, NEW s \in Seq(S), NEW e \in S
  PROVE  Total(Sizes(Append(s, e))) = Total(Sizes(s)) + e.size
<1> DEFINE x == Append(s, e)
           y == Append(Sizes(s), e.size)
<1>1. x \in Seq(S) /\ Len(x) = Len(s) + 1 /\ x[Len(s) + 1] = e
      /\ \A i \in 1 .. Len(s) : x[i] = s[i]
  BY AppendProperties
<1>2. Sizes(s) \in Seq(Nat) /\ Len(Sizes(s)) = Len(s)
      /\ \A i \in 1 .. Len(s) : Sizes(s)[i] = s[i].size
  BY SizesType
<1>3. y \in Seq(Nat) /\ Len(y) = Len(s) + 1 /\ y[Len(s) + 1] = e.size
      /\ \A i \in 1 .. Len(s) : y[i] = s[i].size
  BY <1>2, AppendProperties
<1> HIDE DEF x, y
<1>4. Sizes(x) \in Seq(Nat) /\ Len(Sizes(x)) = Len(s) + 1
      /\ \A i \in 1 .. Len(s) + 1 : Sizes(x)[i] = x[i].size
  BY <1>1, SizesType
<1>5. Len(s) \in Nat
  BY LenProperties
<1>6. ASSUME NEW i \in 1 .. Len(s) + 1 PROVE Sizes(x)[i] = y[i]
  <2>1. i \in 1 .. Len(s) \/ i = Len(s) + 1
    BY <1>5
  <2>2. Sizes(x)[i] = x[i].size
    BY <1>4
  <2>3. x[i].size = y[i]
    BY <1>1, <1>3, <2>1, Zenon
  <2> QED
    BY <2>2, <2>3
<1>7. Sizes(x) = y
  BY <1>3, <1>4, <1>6, SeqEqual
<1>8. e.size \in Nat
  OBVIOUS
<1>9. Total(y) = Total(Sizes(s)) + e.size
  BY <1>2, <1>8, TotalAppend DEF y
<1> QED
  BY <1>7, <1>9 DEF x

LEMMA SizesTail ==
  ASSUME NEW S, \A r \in S : r.size \in Nat, NEW s \in Seq(S), s # <<>>
  PROVE  Total(Sizes(s)) = Total(Sizes(Tail(s))) + Head(s).size
<1> DEFINE x == Tail(s)
           z == Sizes(s)
           y == Tail(z)
<1>1. Len(s) \in Nat \ {0} /\ Head(s) = s[1]
  BY EmptySeq
<1>2. x \in Seq(S) /\ Len(x) = Len(s) - 1 /\ \A i \in 1 .. Len(s) - 1 : x[i] = s[i + 1]
  BY HeadTailProperties
<1>3. z \in Seq(Nat) /\ Len(z) = Len(s) /\ \A i \in 1 .. Len(s) : z[i] = s[i].size
  BY SizesType
<1>4. z # <<>> /\ Head(z) = Head(s).size
  BY <1>1, <1>3, EmptySeq
<1> HIDE DEF z
<1>5. y \in Seq(Nat) /\ Len(y) = Len(s) - 1 /\ \A i \in 1 .. Len(s) - 1 : y[i] = z[i + 1]
  BY <1>3, <1>4, HeadTailProperties
<1> HIDE DEF x
<1>6. Sizes(x) \in Seq(Nat) /\ Len(Sizes(x)) = Len(s) - 1
      /\ \A i \in 1 .. Len(s) - 1 : Sizes(x)[i] = x[i].size
  BY <1>2, SizesType
<1>7. Total(z) = Total(y) + Head(z)
  BY <1>3, <1>4, TotalTail
<1> HIDE DEF y
<1>8. ASSUME NEW i \in 1 .. Len(s) - 1 PROVE Sizes(x)[i] = y[i]
  <2>1. i + 1 \in 1 .. Len(s)
    BY <1>1
  <2>2. Sizes(x)[i] = s[i + 1].size
    BY <1>2, <1>6
  <2>3. y[i] = s[i + 1].size
    BY <1>3, <1>5, <2>1
  <2> QED
    BY <2>2, <2>3
<1>9. Sizes(x) = y
  BY <1>5, <1>6, <1>8, SeqEqual
<1> QED
  BY <1>4, <1>7, <1>9 DEF x, z

LEMMA SizesEmpty == Total(Sizes(<<>>)) = 0
<1>1. Tally(Sizes(<<>>)) = {}
  BY DEF Tally, Sizes
<1> QED
  BY <1>1, FS_EmptySet DEF Total

-----------------------------------------------------------------------------
(* Induction *)

\* Every set of natural numbers that is not empty has a least element.
LEMMA LeastElement ==
  ASSUME NEW S \in SUBSET Nat, S # {}
  PROVE  \E x \in S : \A y \in S : x <= y
<1> DEFINE R == OpToRel(<, Nat)
<1>1. IsWellFoundedOn(R, Nat)
  BY NatLessThanWellFounded
<1>2. \A x, y \in Nat : y < x => <<y, x>> \in R
  BY DEF OpToRel
<1> HIDE DEF R
<1>3. PICK x \in S : \A y \in S : ~ (<<y, x>> \in R)
  BY <1>1, WFMin
<1>4. ASSUME NEW y \in S PROVE x <= y
  <2>1. x \in Nat /\ y \in Nat
    OBVIOUS
  <2>2. ~ (y < x)
    BY <1>2, <1>3, <2>1
  <2> QED BY <2>1, <2>2
<1> QED BY <1>4

\* A set that holds 0, and with every number the next, holds all of them.
LEMMA SetInduction ==
  ASSUME NEW G \in SUBSET Nat, 0 \in G, \A n \in G : n + 1 \in G
  PROVE  \A n \in Nat : n \in G
<1> SUFFICES ASSUME Nat \ G # {} PROVE FALSE
  OBVIOUS
<1>1. Nat \ G \in SUBSET Nat
  OBVIOUS
<1>2. PICK n \in Nat \ G : \A m \in Nat \ G : n <= m
  BY <1>1, LeastElement
<1>3. n \in Nat /\ n # 0
  BY <1>2
<1>4. n - 1 \in Nat /\ n - 1 + 1 = n /\ ~(n <= n - 1)
  BY <1>3
<1>5. n - 1 \in G
  BY <1>2, <1>4
<1> QED BY <1>2, <1>4, <1>5

-----------------------------------------------------------------------------
(* Numbers *)

LEMMA TimesMonotonic == \A a, b, d \in Nat : a < b => a * d + d <= b * d
<1> TAKE a, b, d \in Nat
<1> HAVE a < b
<1>1. (b - a - 1) \in Nat
  OBVIOUS
<1>2. (b - a - 1) * d >= 0 /\ (b - a - 1) * d = b * d - a * d - d
  BY <1>1
<1> QED BY <1>2

LEMMA Division ==
  ASSUME NEW w \in Nat, NEW d \in Nat, d > 0
  PROVE  w \div d \in Nat /\ d * (w \div d) <= w /\ w < d * (w \div d) + d
<1>1. w \div d \in Int
  OBVIOUS
<1>2. w \div d >= 0
  OBVIOUS
<1>3. d * (w \div d) <= w
  OBVIOUS
<1>4. w < d * (w \div d) + d
  OBVIOUS
<1> QED BY <1>1, <1>2, <1>3, <1>4

-----------------------------------------------------------------------------
(* Sequences that are joined *)

SeqsOf(S) == Seq(S)

LEMMA SeqsConcat ==
  ASSUME NEW S
  PROVE  /\ \A a, b \in SeqsOf(S) : a \o b \in SeqsOf(S) /\ Len(a \o b) = Len(a) + Len(b)
         /\ \A a, b, c \in SeqsOf(S) : (a \o b) \o c = a \o (b \o c)
         /\ \A a \in SeqsOf(S) : a \o <<>> = a /\ <<>> \o a = a
         /\ <<>> \in SeqsOf(S)
<1>1. \A a, b \in SeqsOf(S) : a \o b \in SeqsOf(S) /\ Len(a \o b) = Len(a) + Len(b)
  BY ConcatProperties DEF SeqsOf
<1>2. ASSUME NEW a \in SeqsOf(S), NEW b \in SeqsOf(S), NEW c \in SeqsOf(S) PROVE (a \o b) \o c = a \o (b \o c)
  BY ConcatAssociative DEF SeqsOf
<1>3. \A a \in SeqsOf(S) : a \o <<>> = a /\ <<>> \o a = a
  BY ConcatEmptySeq DEF SeqsOf
<1>4. <<>> \in SeqsOf(S)
  BY EmptySeq DEF SeqsOf
<1> QED BY <1>1, <1>2, <1>3, <1>4

\* FlattenSeq computes its result one sequence at a time, in a recursive function.
\* The first m steps of FlattenSeq on u.
FlattenSteps(f, u, m) == f = [i \in 1..m |-> IF i = 1 THEN u[i] ELSE f[i - 1] \o u[i]]

LEMMA StepsAt ==
  ASSUME NEW f, NEW u, NEW m \in Nat, FlattenSteps(f, u, m)
  PROVE  \A i \in 1..m : f[i] = IF i = 1 THEN u[i] ELSE f[i - 1] \o u[i]
<1> DEFINE F == [i \in 1..m |-> IF i = 1 THEN u[i] ELSE f[i - 1] \o u[i]]
<1>1. \A i \in 1..m : F[i] = IF i = 1 THEN u[i] ELSE f[i - 1] \o u[i]
  OBVIOUS
<1>2. f = F
  BY DEF FlattenSteps
<1> HIDE DEF F
<1>3. \A i \in 1..m : f[i] = F[i]
  BY <1>2
<1> QED BY <1>1, <1>3

LEMMA StepsExist ==
  ASSUME NEW u
  PROVE  \A m \in Nat : \E f : FlattenSteps(f, u, m)
<1> DEFINE G == {m \in Nat : \E f : FlattenSteps(f, u, m)}
<1>1. 0 \in G
  <2> DEFINE e == [i \in 1..0 |-> IF i = 1 THEN u[i] ELSE <<>> \o u[i]]
  <2>1. \A i : i \notin 1..0
    OBVIOUS
  <2>2. e = [i \in 1..0 |-> IF i = 1 THEN u[i] ELSE e[i - 1] \o u[i]]
    BY <2>1
  <2> HIDE DEF e
  <2> QED BY <2>2 DEF FlattenSteps
<1>2. ASSUME NEW m \in G PROVE m + 1 \in G
  <2>1. PICK f : FlattenSteps(f, u, m)
    OBVIOUS
  <2> DEFINE g == [i \in 1..m + 1 |-> IF i = 1 THEN u[i] ELSE f[i - 1] \o u[i]]
  <2>0. m \in Nat
    OBVIOUS
  <2>2. \A i \in 1..m : f[i] = g[i]
    <3>1. \A i \in 1..m : g[i] = IF i = 1 THEN u[i] ELSE f[i - 1] \o u[i]
      BY <2>0
    <3>2. \A i \in 1..m : f[i] = IF i = 1 THEN u[i] ELSE f[i - 1] \o u[i]
      BY <2>0, <2>1, StepsAt
    <3> HIDE DEF g
    <3> QED BY <3>1, <3>2
  <2>3. \A i \in 1..m + 1 : i # 1 => f[i - 1] = g[i - 1]
    <3> HIDE DEF g
    <3>1. \A i \in 1..m + 1 : i # 1 => i - 1 \in 1..m
      BY <2>0
    <3> QED BY <2>2, <3>1
  <2>4. g = [i \in 1..m + 1 |-> IF i = 1 THEN u[i] ELSE g[i - 1] \o u[i]]
    BY <2>3
  <2> HIDE DEF g
  <2>5. FlattenSteps(g, u, m + 1)
    BY <2>4 DEF FlattenSteps
  <2>6. m + 1 \in Nat
    BY <2>0
  <2> QED BY <2>5, <2>6
<1> HIDE DEF G
<1>3. G \in SUBSET Nat
  BY DEF G
<1>4. \A m \in Nat : m \in G
  BY <1>1, <1>2, <1>3, SetInduction
<1> QED BY <1>4 DEF G

\* The steps on two sequences that begin alike agree.
LEMMA StepsAgree ==
  ASSUME NEW f, NEW u, NEW m \in Nat, NEW g, NEW v, NEW n \in Nat,
         FlattenSteps(f, u, m), FlattenSteps(g, v, n),
         NEW k \in Nat, k <= m, k <= n, \A i \in 1..k : u[i] = v[i]
  PROVE  \A i \in 1..k : f[i] = g[i]
<1> DEFINE G == {i \in Nat : i \in 1..k => f[i] = g[i]}
<1>1. 0 \in G
  OBVIOUS
<1>2. ASSUME NEW i \in G PROVE i + 1 \in G
  <2> SUFFICES ASSUME i + 1 \in 1..k PROVE f[i + 1] = g[i + 1]
    OBVIOUS
  <2>1. f[i + 1] = IF i + 1 = 1 THEN u[i + 1] ELSE f[i + 1 - 1] \o u[i + 1]
    <3>1. i + 1 \in 1..m
      OBVIOUS
    <3> QED BY <3>1, StepsAt
  <2>2. g[i + 1] = IF i + 1 = 1 THEN v[i + 1] ELSE g[i + 1 - 1] \o v[i + 1]
    <3>1. i + 1 \in 1..n
      OBVIOUS
    <3> QED BY <3>1, StepsAt
  <2>3. CASE i = 0
    BY <2>1, <2>2, <2>3
  <2>4. CASE i # 0
    <3>1. i \in 1..k /\ i + 1 - 1 = i /\ i + 1 # 1
      BY <2>4
    <3>2. f[i] = g[i]
      BY <3>1
    <3> QED BY <2>1, <2>2, <3>1, <3>2
  <2> QED BY <2>3, <2>4
<1>3. G \in SUBSET Nat
  OBVIOUS
<1> HIDE DEF G
<1>4. \A i \in Nat : i \in G
  BY <1>1, <1>2, <1>3, SetInduction
<1> QED BY <1>4 DEF G

LEMMA JoinedSteps ==
  ASSUME NEW u, Len(u) \in Nat \ {0}
  PROVE  \E f : FlattenSteps(f, u, Len(u)) /\ Joined(u) = f[Len(u)]
<1> DEFINE c == CHOOSE f : FlattenSteps(f, u, Len(u))
<1>1. FlattenSteps(c, u, Len(u))
  BY StepsExist
<1>2. Joined(u) = c[Len(u)]
  BY DEF Joined, SeqExt!FlattenSeq, FlattenSteps
<1> QED BY <1>1, <1>2

LEMMA JoinedEmpty == Joined(<<>>) = <<>>
  BY DEF Joined, SeqExt!FlattenSeq

LEMMA JoinedAppend ==
  ASSUME NEW S, NEW u \in Seq(SeqsOf(S)), NEW x \in SeqsOf(S), Joined(u) \in SeqsOf(S)
  PROVE  Joined(Append(u, x)) = Joined(u) \o x
<1> DEFINE v == Append(u, x)
           n == Len(u)
<1>1. n \in Nat /\ Len(v) = n + 1 /\ v[n + 1] = x /\ \A i \in 1..n : v[i] = u[i]
  BY AppendProperties, LenProperties
<1> HIDE DEF v
<1>2. PICK g : FlattenSteps(g, v, n + 1) /\ Joined(v) = g[n + 1]
  BY <1>1, JoinedSteps
<1>3. g[n + 1] = IF n + 1 = 1 THEN x ELSE g[n + 1 - 1] \o x
  <2>1. n + 1 \in Nat /\ n + 1 \in 1..n + 1
    BY <1>1
  <2>2. g[n + 1] = IF n + 1 = 1 THEN v[n + 1] ELSE g[n + 1 - 1] \o v[n + 1]
    BY <1>2, <2>1, StepsAt
  <2> QED BY <1>1, <2>2
<1>4. CASE n = 0
  <2>1. u = <<>>
    BY <1>4, EmptySeq
  <2>2. Joined(u) \o x = x
    BY <2>1, JoinedEmpty, ConcatEmptySeq DEF SeqsOf
  <2> QED BY <1>2, <1>3, <1>4, <2>2 DEF v
<1>5. CASE n # 0
  <2>1. PICK f : FlattenSteps(f, u, n) /\ Joined(u) = f[n]
    BY <1>1, <1>5, JoinedSteps
  <2>2. n + 1 \in Nat /\ n <= n + 1 /\ n <= n /\ n \in 1..n /\ n + 1 # 1 /\ n + 1 - 1 = n
    BY <1>1, <1>5
  <2>3. \A i \in 1..n : g[i] = f[i]
    BY <1>1, <1>2, <2>1, <2>2, StepsAgree
  <2>4. g[n] = Joined(u)
    BY <2>1, <2>2, <2>3
  <2> QED BY <1>2, <1>3, <2>2, <2>4 DEF v
<1> QED BY <1>4, <1>5

LEMMA JoinedType ==
  ASSUME NEW S
  PROVE  \A u \in Seq(SeqsOf(S)) : Joined(u) \in SeqsOf(S)
<1> DEFINE G == {n \in Nat : \A u \in Seq(SeqsOf(S)) : Len(u) = n => Joined(u) \in SeqsOf(S)}
<1>1. 0 \in G
  <2> SUFFICES ASSUME NEW u \in Seq(SeqsOf(S)), Len(u) = 0 PROVE Joined(u) \in SeqsOf(S)
    OBVIOUS
  <2>1. u = <<>>
    BY EmptySeq
  <2> QED BY <2>1, JoinedEmpty, EmptySeq DEF SeqsOf
<1>2. ASSUME NEW n \in G PROVE n + 1 \in G
  <2> SUFFICES ASSUME NEW u \in Seq(SeqsOf(S)), Len(u) = n + 1 PROVE Joined(u) \in SeqsOf(S)
    OBVIOUS
  <2>1. u # <<>>
    BY EmptySeq
  <2>2. PICK w \in Seq(SeqsOf(S)), x \in SeqsOf(S) : u = Append(w, x)
    BY <2>1, SequenceEmptyOrAppend
  <2>3. Len(u) = Len(w) + 1 /\ Len(w) \in Nat
    BY <2>2, AppendProperties, LenProperties
  <2>4. Len(w) = n
    BY <2>3
  <2>5. Joined(w) \in SeqsOf(S)
    BY <2>4
  <2>6. Joined(u) = Joined(w) \o x
    BY <2>2, <2>5, JoinedAppend
  <2> QED BY <2>5, <2>6, ConcatProperties DEF SeqsOf
<1> HIDE DEF G
<1>3. G \in SUBSET Nat
  BY DEF G
<1>4. \A n \in Nat : n \in G
  BY <1>1, <1>2, <1>3, SetInduction
<1> QED BY <1>4, LenProperties DEF G

LEMMA JoinedConcat ==
  ASSUME NEW S, NEW u \in Seq(SeqsOf(S))
  PROVE  \A v \in Seq(SeqsOf(S)) : Joined(u \o v) = Joined(u) \o Joined(v)
<1> DEFINE G == {n \in Nat : \A v \in Seq(SeqsOf(S)) : Len(v) = n => Joined(u \o v) = Joined(u) \o Joined(v)}
<1>0. Joined(u) \in Seq(S)
  BY JoinedType DEF SeqsOf
<1>1. 0 \in G
  <2> SUFFICES ASSUME NEW v \in Seq(SeqsOf(S)), Len(v) = 0 PROVE Joined(u \o v) = Joined(u) \o Joined(v)
    OBVIOUS
  <2>1. v = <<>>
    BY EmptySeq
  <2>2. u \o v = u
    BY <2>1, ConcatEmptySeq
  <2>3. Joined(u) \o Joined(v) = Joined(u)
    BY <1>0, <2>1, JoinedEmpty, ConcatEmptySeq
  <2> QED BY <2>2, <2>3
<1>2. ASSUME NEW n \in G PROVE n + 1 \in G
  <2> SUFFICES ASSUME NEW v \in Seq(SeqsOf(S)), Len(v) = n + 1 PROVE Joined(u \o v) = Joined(u) \o Joined(v)
    OBVIOUS
  <2>1. v # <<>>
    BY EmptySeq
  <2>2. PICK w \in Seq(SeqsOf(S)), x \in SeqsOf(S) : v = Append(w, x)
    BY <2>1, SequenceEmptyOrAppend
  <2>3. Len(v) = Len(w) + 1 /\ Len(w) \in Nat
    BY <2>2, AppendProperties, LenProperties
  <2>4. Len(w) = n
    BY <2>3
  <2>5. Joined(u \o w) = Joined(u) \o Joined(w)
    BY <2>4
  <2>6. u \o w \in Seq(SeqsOf(S))
    BY ConcatProperties
  <2>7. Joined(v) = Joined(w) \o x
    BY <2>2, JoinedType, JoinedAppend
  <2>8. u \o v = Append(u \o w, x)
    <3>1. <<x>> \in Seq(SeqsOf(S))
      OBVIOUS
    <3>2. v = w \o <<x>> /\ Append(u \o w, x) = (u \o w) \o <<x>>
      BY <2>2, <2>6, AppendIsConcat
    <3> QED BY <3>1, <3>2, ConcatAssociative
  <2>9. Joined(u \o v) = Joined(u \o w) \o x
    BY <2>6, <2>8, JoinedType, JoinedAppend
  <2>10. Joined(w) \in Seq(S) /\ x \in Seq(S)
    BY JoinedType DEF SeqsOf
  <2>11. (Joined(u) \o Joined(w)) \o x = Joined(u) \o (Joined(w) \o x)
    BY <1>0, <2>10, SeqsConcat DEF SeqsOf
  <2> QED BY <2>5, <2>7, <2>9, <2>11
<1> HIDE DEF G
<1>3. G \in SUBSET Nat
  BY DEF G
<1>4. \A n \in Nat : n \in G
  BY <1>1, <1>2, <1>3, SetInduction
<1> QED BY <1>4, LenProperties DEF G
=============================================================================
