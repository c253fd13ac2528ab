------------------------------ MODULE SumLemmas ------------------------------
(***************************************************************************)
(* What the sums over rows are made of: SumFunction of the community       *)
(* modules, for a function with a finite domain.  The definition is        *)
(* recursive; the facts below are proved by induction in the form of a     *)
(* minimal counterexample (theorem WFMin), where the property is a set     *)
(* instead of an operator.                                                 *)
(***************************************************************************)
EXTENDS Integers, FiniteSets, Functions, FiniteSetTheorems, TLAPS

\* The element by which a sum leaves the set s.
Chosen(s) == CHOOSE x \in s : TRUE

\* One unrolling of the sum over s: an element, and what h gives for the rest.
Unrolled(f, s, h) == IF s = {} THEN 0 ELSE f[Chosen(s)] + h[s \ {Chosen(s)}]

\* h satisfies the recursive definition of the sums over the subsets of S.
IsIter(f, S, h) == h = [s \in SUBSET S |-> Unrolled(f, s, h)]

\* The community modules define a sum by a function that is chosen among those
\* that satisfy its recursive definition.
LEMMA SumIsIter ==
  ASSUME NEW f, NEW S
  PROVE SumFunctionOnSet(f, S) = (CHOOSE h : IsIter(f, S, h))[S]
BY DEF SumFunctionOnSet, FoldFunctionOnSet, MapThenFoldSet, Unrolled, Chosen, IsIter

\* A set that is not empty holds the element chosen from it.
LEMMA ChosenIsIn == ASSUME NEW s, s # {} PROVE Chosen(s) \in s
BY DEF Chosen

\* A set of naturals that is not empty has a least element.  The interval up to
\* it is minimal for inclusion among finite sets, which is well founded.
LEMMA LeastNatural ==
  ASSUME NEW T \in SUBSET Nat, T # {}
  PROVE  \E m \in T : \A k \in T : m <= k
<1> DEFINE U == {0 .. n : n \in T}
<1>1. U # {} /\ U \in SUBSET FiniteSubsetsOf(Nat)
  <2>1. \A n \in T : 0 .. n \in SUBSET Nat /\ IsFiniteSet(0 .. n)
    BY FS_Interval
  <2> QED BY <2>1 DEF FiniteSubsetsOf
<1>2. PICK i \in U : \A j \in U : ~ (<<j, i>> \in StrictSubsetOrdering(Nat))
  <2> HIDE DEF U
  <2> QED BY <1>1, FS_StrictSubsetOrderingWellFounded, WFMin
<1>3. PICK m \in T : i = 0 .. m
  BY <1>2
<1>4. ASSUME NEW k \in T, k < m PROVE FALSE
  <2>1. <<0 .. k, 0 .. m>> \in StrictSubsetOrdering(Nat)
    <3>1. 0 .. k \subseteq 0 .. m /\ m \in 0 .. m /\ m \notin 0 .. k
      BY <1>4
    <3> QED BY <3>1 DEF StrictSubsetOrdering
  <2> QED BY <2>1, <1>2, <1>3
<1> QED BY <1>3, <1>4

\* Induction on the subsets of a finite set: what holds of the empty set, and of
\* a set whenever it holds of the set without its chosen element, holds of all.
\* The predicate is the set G of the subsets that satisfy it.
LEMMA SubsetInduction ==
  ASSUME NEW D, IsFiniteSet(D), NEW G, {} \in G,
         \A s \in SUBSET D : s # {} /\ s \ {Chosen(s)} \in G => s \in G
  PROVE  \A s \in SUBSET D : s \in G
<1> SUFFICES ASSUME (SUBSET D) \ G # {} PROVE FALSE
  OBVIOUS
<1>1. (SUBSET D) \ G \in SUBSET FiniteSubsetsOf(D)
  BY FS_FiniteSubsetsOfFinite
<1>2. PICK s \in (SUBSET D) \ G :
        \A t \in (SUBSET D) \ G : ~ (<<t, s>> \in StrictSubsetOrdering(D))
  <2> DEFINE B == (SUBSET D) \ G
  <2>1. B # {} /\ B \subseteq FiniteSubsetsOf(D)
    BY <1>1
  <2> HIDE DEF B
  <2>2. \E s \in B : \A t \in B : ~ (<<t, s>> \in StrictSubsetOrdering(D))
    BY <2>1, FS_StrictSubsetOrderingWellFounded, WFMin
  <2> QED BY <2>2 DEF B
<1>3. s # {} /\ Chosen(s) \in s
  BY <1>2, ChosenIsIn
<1>4. <<s \ {Chosen(s)}, s>> \in StrictSubsetOrdering(D)
  BY <1>3 DEF StrictSubsetOrdering
<1> QED BY <1>2, <1>3, <1>4

\* The recursive definition has a solution: a least bound on the cardinality up
\* to which no function satisfies it cannot exist.
LEMMA IterExists ==
  ASSUME NEW D, IsFiniteSet(D), NEW f \in [D -> Int]
  PROVE  \E h \in [SUBSET D -> Int] : IsIter(f, D, h)
<1> DEFINE Upto(n, h) == \A s \in SUBSET D : Cardinality(s) <= n => h[s] = Unrolled(f, s, h)
           B == {n \in Nat : ~ \E h \in [SUBSET D -> Int] : Upto(n, h)}
<1>1. ASSUME NEW s \in SUBSET D
      PROVE  /\ IsFiniteSet(s) /\ Cardinality(s) \in Nat
             /\ Cardinality(s) <= Cardinality(D) /\ Cardinality(D) \in Nat
             /\ Cardinality(s) = 0 <=> s = {}
             /\ s # {} => /\ Chosen(s) \in D /\ s \ {Chosen(s)} \in SUBSET D
                          /\ Cardinality(s \ {Chosen(s)}) = Cardinality(s) - 1
  <2>1. IsFiniteSet(s) /\ Cardinality(s) <= Cardinality(D)
    BY FS_Subset
  <2>2. s # {} => Chosen(s) \in s
    BY ChosenIsIn
  <2> QED BY <2>1, <2>2, FS_CardinalityType, FS_EmptySet, FS_RemoveElement
<1>2. B = {}
  <2> SUFFICES ASSUME B # {} PROVE FALSE
    OBVIOUS
  <2>1. PICK n \in B : \A k \in B : n <= k
    <3>1. B \in SUBSET Nat
      OBVIOUS
    <3> HIDE DEF B
    <3> QED BY <3>1, LeastNatural
  <2>2. n # 0
    <3> SUFFICES ASSUME n = 0 PROVE FALSE
      OBVIOUS
    <3> DEFINE h0 == [s \in SUBSET D |-> 0]
    <3>1. h0 \in [SUBSET D -> Int]
      OBVIOUS
    <3>2. Upto(0, h0)
      <4>1. ASSUME NEW s \in SUBSET D, Cardinality(s) <= 0
            PROVE  h0[s] = Unrolled(f, s, h0)
        <5>1. Cardinality(s) \in Nat /\ (Cardinality(s) = 0 <=> s = {})
          BY <1>1
        <5>2. Cardinality(s) = 0
          BY <4>1, <5>1
        <5>3. s = {}
          BY <5>1, <5>2
        <5> QED BY <5>3 DEF Unrolled
      <4> QED BY <4>1
    <3> HIDE DEF h0
    <3> QED BY <3>1, <3>2
  <2>3. n - 1 \in Nat /\ n - 1 \notin B
    <3>1. n \in Nat
      OBVIOUS
    <3> HIDE DEF B
    <3> QED BY <2>1, <2>2, <3>1
  <2>4. PICK h \in [SUBSET D -> Int] : Upto(n - 1, h)
    BY <2>3
  <2> DEFINE g == [s \in SUBSET D |-> IF Cardinality(s) <= n - 1 THEN h[s]
                                                                 ELSE Unrolled(f, s, h)]
  <2>5. g \in [SUBSET D -> Int]
    BY <1>1 DEF Unrolled
  <2>6. ASSUME NEW s \in SUBSET D, Cardinality(s) <= n
        PROVE  g[s] = Unrolled(f, s, g)
    <3>1. g[s] = Unrolled(f, s, h)
      BY <2>4
    <3>2. s # {} => g[s \ {Chosen(s)}] = h[s \ {Chosen(s)}]
      BY <1>1, <2>6
    <3> QED BY <3>1, <3>2 DEF Unrolled
  <2> QED BY <2>5, <2>6
<1>3. Cardinality(D) \in Nat
  BY FS_CardinalityType
<1>4. PICK h \in [SUBSET D -> Int] : Upto(Cardinality(D), h)
  BY <1>2, <1>3
<1>5. \A s \in SUBSET D : h[s] = Unrolled(f, s, h)
  BY <1>1, <1>4
<1>6. h = [s \in SUBSET D |-> Unrolled(f, s, h)]
  BY <1>5
<1> QED BY <1>6 DEF IsIter

\* ... and only one.
LEMMA IterUnique ==
  ASSUME NEW D, IsFiniteSet(D), NEW f, NEW g, NEW h, IsIter(f, D, g), IsIter(f, D, h)
  PROVE  g = h
<1> DEFINE G == {s \in SUBSET D : g[s] = h[s]}
<1>1. \A s \in SUBSET D : g[s] = Unrolled(f, s, g) /\ h[s] = Unrolled(f, s, h)
  BY DEF IsIter
<1>2. {} \in G
  BY <1>1 DEF Unrolled
<1>3. \A s \in SUBSET D : s # {} /\ s \ {Chosen(s)} \in G => s \in G
  BY <1>1 DEF Unrolled
<1>4. \A s \in SUBSET D : s \in G
  <2> HIDE DEF G
  <2> QED BY <1>2, <1>3, SubsetInduction
<1> QED BY <1>4 DEF IsIter

\* h gives the sum of f over every subset of D.
Totals(f, D, h) ==
  /\ h \in [SUBSET D -> Int]
  /\ SumFunction(f) = h[D]
  /\ h[{}] = 0
  /\ \A s \in SUBSET D : s # {} => h[s] = f[Chosen(s)] + h[s \ {Chosen(s)}]

\* A sum over a finite set comes with the sums over all its subsets.
LEMMA SumIter ==
  ASSUME NEW D, IsFiniteSet(D), NEW f \in [D -> Int]
  PROVE  \E h : Totals(f, D, h)
<1> DEFINE h == CHOOSE g : IsIter(f, D, g)
<1>1. SumFunction(f) = h[D]
  BY SumIsIter DEF SumFunction
<1>2. h \in [SUBSET D -> Int] /\ IsIter(f, D, h)
  <2>1. PICK g \in [SUBSET D -> Int] : IsIter(f, D, g)
    BY IterExists
  <2>2. IsIter(f, D, h)
    BY <2>1
  <2> HIDE DEF h
  <2>3. h = g
    BY <2>1, <2>2, IterUnique
  <2> QED BY <2>1, <2>2, <2>3
<1> HIDE DEF h
<1>3. \A s \in SUBSET D : h[s] = Unrolled(f, s, h)
  BY <1>2 DEF IsIter
<1> QED BY <1>1, <1>2, <1>3 DEF Unrolled, Totals

\* A sum of integers is an integer.
LEMMA SumType ==
  ASSUME NEW D, IsFiniteSet(D), NEW f \in [D -> Int]
  PROVE  SumFunction(f) \in Int
<1>1. PICK h : Totals(f, D, h)
  BY SumIter
<1>2. D \in SUBSET D
  OBVIOUS
<1> QED BY <1>1, <1>2 DEF Totals

\* A sum changes by as much as the only term that changes.
LEMMA SumChange ==
  ASSUME NEW D, IsFiniteSet(D), NEW f \in [D -> Int], NEW g \in [D -> Int], NEW x \in D,
         \A y \in D : y # x => g[y] = f[y]
  PROVE  SumFunction(g) = SumFunction(f) + g[x] - f[x]
<1>1. PICK i : Totals(f, D, i)
  BY SumIter
<1>2. PICK j : Totals(g, D, j)
  BY SumIter
<1> DEFINE G == {s \in SUBSET D : j[s] = i[s] + (IF x \in s THEN g[x] - f[x] ELSE 0)}
<1>3. {} \in G
  BY <1>1, <1>2 DEF Totals
<1>4. ASSUME NEW s \in SUBSET D, s # {}, s \ {Chosen(s)} \in G
      PROVE  s \in G
  <2>1. /\ Chosen(s) \in s /\ Chosen(s) \in D
        /\ i[s] \in Int /\ j[s] \in Int /\ i[s \ {Chosen(s)}] \in Int
        /\ j[s \ {Chosen(s)}] \in Int
    BY <1>1, <1>2, <1>4, ChosenIsIn DEF Totals
  <2> QED BY <1>1, <1>2, <1>4, <2>1 DEF Totals
<1>5. \A s \in SUBSET D : s \in G
  <2> HIDE DEF G
  <2> QED BY <1>3, <1>4, SubsetInduction
<1> QED BY <1>1, <1>2, <1>5 DEF Totals

\* A sum of naturals is a natural.
LEMMA SumNat ==
  ASSUME NEW D, IsFiniteSet(D), NEW f \in [D -> Nat]
  PROVE  SumFunction(f) \in Nat
<1>1. PICK i : Totals(f, D, i)
  <2>1. f \in [D -> Int]
    OBVIOUS
  <2> QED BY <2>1, SumIter
<1> DEFINE G == {s \in SUBSET D : i[s] \in Nat}
<1>2. \A s \in SUBSET D : s # {} /\ s \ {Chosen(s)} \in G => s \in G
  BY <1>1, ChosenIsIn DEF Totals
<1>3. \A s \in SUBSET D : s \in G
  <2>1. {} \in G
    BY <1>1 DEF Totals
  <2> HIDE DEF G
  <2> QED BY <1>2, <2>1, SubsetInduction
<1> QED BY <1>1, <1>3 DEF Totals

\* A sum of zeros is zero.
LEMMA SumZero ==
  ASSUME NEW D, IsFiniteSet(D)
  PROVE  SumFunction([d \in D |-> 0]) = 0
<1> DEFINE f == [d \in D |-> 0]
<1>1. PICK i : Totals(f, D, i)
  <2>1. f \in [D -> Int]
    OBVIOUS
  <2> HIDE DEF f
  <2> QED BY <2>1, SumIter
<1> DEFINE G == {s \in SUBSET D : i[s] = 0}
<1>2. \A s \in SUBSET D : s # {} /\ s \ {Chosen(s)} \in G => s \in G
  BY <1>1, ChosenIsIn DEF Totals
<1>3. \A s \in SUBSET D : s \in G
  <2>1. {} \in G
    BY <1>1 DEF Totals
  <2> HIDE DEF G
  <2> QED BY <1>2, <2>1, SubsetInduction
<1> QED BY <1>1, <1>3 DEF Totals

\* No term of a sum of naturals is larger than the sum.
LEMMA SumPart ==
  ASSUME NEW D, IsFiniteSet(D), NEW f \in [D -> Nat], NEW x \in D
  PROVE  f[x] <= SumFunction(f)
<1> DEFINE g == [f EXCEPT ![x] = 0]
<1>1. /\ f \in [D -> Int] /\ g \in [D -> Nat] /\ g \in [D -> Int]
      /\ g[x] = 0 /\ \A y \in D : y # x => f[y] = g[y]
  OBVIOUS
<1> HIDE DEF g
<1>2. SumFunction(g) \in Nat
  BY <1>1, SumNat
<1>3. SumFunction(f) = SumFunction(g) + f[x] - g[x]
  BY <1>1, SumChange
<1> QED BY <1>1, <1>2, <1>3

\* Terms that are at most k weights apart have sums that are at most k sums of
\* the weights apart.
LEMMA SumWithin ==
  ASSUME NEW D, IsFiniteSet(D), NEW f \in [D -> Int], NEW g \in [D -> Int], NEW e \in [D -> Int],
         NEW k \in Nat, \A x \in D : f[x] <= g[x] + k * e[x]
  PROVE  SumFunction(f) <= SumFunction(g) + k * SumFunction(e)
<1>1. PICK i : Totals(f, D, i)
  BY SumIter
<1>2. PICK j : Totals(g, D, j)
  BY SumIter
<1>3. PICK l : Totals(e, D, l)
  BY SumIter
<1> DEFINE G == {s \in SUBSET D : i[s] <= j[s] + k * l[s]}
<1>4. {} \in G
  BY <1>1, <1>2, <1>3 DEF Totals
<1>5. ASSUME NEW s \in SUBSET D, s # {}, s \ {Chosen(s)} \in G
      PROVE  s \in G
  <2> DEFINE x == Chosen(s)
             r == s \ {x}
  <2>1. x \in D /\ r \in SUBSET D /\ i[r] <= j[r] + k * l[r]
    BY <1>5, ChosenIsIn
  <2>2. i[s] = f[x] + i[r] /\ j[s] = g[x] + j[r] /\ l[s] = e[x] + l[r]
    BY <1>1, <1>2, <1>3, <1>5 DEF Totals
  <2>3. i[r] \in Int /\ j[r] \in Int /\ l[r] \in Int
    BY <1>1, <1>2, <1>3, <2>1 DEF Totals
  <2> HIDE DEF x, r
  <2>4. f[x] \in Int /\ g[x] \in Int /\ e[x] \in Int /\ f[x] <= g[x] + k * e[x]
    BY <2>1
  <2>5. k * (e[x] + l[r]) = k * e[x] + k * l[r] /\ k * e[x] \in Int /\ k * l[r] \in Int
    BY <2>3, <2>4
  <2>6. i[s] <= j[s] + k * l[s]
    BY <2>1, <2>2, <2>3, <2>4, <2>5
  <2> QED BY <2>6
<1>6. \A s \in SUBSET D : s \in G
  <2> HIDE DEF G
  <2> QED BY <1>4, <1>5, SubsetInduction
<1> QED BY <1>1, <1>2, <1>3, <1>6 DEF Totals

\* Quotients by n of numbers that are at most k * n apart are at most k apart.
LEMMA QuotientWithin ==
  ASSUME NEW a \in Int, NEW b \in Int, NEW n \in Nat \ {0}, NEW k \in Nat, a <= b + k * n
  PROVE  a \div n <= (b \div n) + k
<1> DEFINE p == a \div n
           q == b \div n
<1>1. p \in Int /\ q \in Int
  OBVIOUS
<1>2. n * p <= a /\ b < n * q + n
  OBVIOUS
<1> HIDE DEF p, q
<1>3. p <= q + k
  <2> SUFFICES ASSUME p >= q + k + 1 PROVE FALSE
    BY <1>1
  <2>1. n * p >= n * (q + k + 1)
    BY <1>1
  <2>2. n * (q + k + 1) = n * q + k * n + n
    BY <1>1
  <2> QED
    BY <1>1, <1>2, <2>1, <2>2
<1> QED BY <1>3 DEF p, q
=============================================================================
