------------------------------ MODULE Counting ------------------------------
(***************************************************************************)
(* Facts about the number of elements of a finite set and about sums over  *)
(* one, in the form the invariance proofs use them: threads that enter or  *)
(* leave a set of labels, CPUs whose parts of a counter are added up.      *)
(***************************************************************************)
EXTENDS Integers, FiniteSetsExt, FiniteSetTheorems, WellFoundedInduction, TLAPS

\* A count is a natural number, zero for the empty set only.
LEMMA CountIsNat ==
  ASSUME NEW S, IsFiniteSet(S)
  PROVE  /\ Cardinality(S) \in Nat
         /\ Cardinality(S) = 0 <=> S = {}
BY FS_CardinalityType, FS_EmptySet

\* One more element.
LEMMA CountUp ==
  ASSUME NEW S, IsFiniteSet(S), NEW t, t \notin S
  PROVE  /\ IsFiniteSet(S \cup {t})
         /\ Cardinality(S \cup {t}) = Cardinality(S) + 1
BY FS_AddElement

\* One element less.
LEMMA CountDown ==
  ASSUME NEW S, IsFiniteSet(S), NEW t \in S
  PROVE  /\ IsFiniteSet(S \ {t})
         /\ Cardinality(S \ {t}) = Cardinality(S) - 1
BY FS_RemoveElement

\* An element of a set of one is all of it.
LEMMA CountOne ==
  ASSUME NEW S, IsFiniteSet(S), NEW t \in S, Cardinality(S) = 1
  PROVE  S = {t}
<1>1. IsFiniteSet(S \ {t}) /\ Cardinality(S \ {t}) = 0
  BY CountDown
<1>2. S \ {t} = {}
  BY <1>1, FS_EmptySet
<1> QED
  BY <1>2

-----------------------------------------------------------------------------
\* Among some subsets of a finite set there is one with no smaller one.
LEMMA SmallestSubset ==
  ASSUME NEW U, IsFiniteSet(U), NEW Bad, Bad \subseteq SUBSET U, Bad # {}
  PROVE  \E T \in Bad : \A S \in SUBSET T : S # T => S \notin Bad
<1>1. Bad \subseteq FiniteSubsetsOf(U)
  BY FS_Subset DEF FiniteSubsetsOf
<1>2. IsWellFoundedOn(StrictSubsetOrdering(U), FiniteSubsetsOf(U))
  BY FS_StrictSubsetOrderingWellFounded
<1>3. PICK T \in Bad : \A S \in Bad : ~(<<S, T>> \in StrictSubsetOrdering(U))
  BY <1>1, <1>2, WFMin
<1> SUFFICES ASSUME NEW S \in SUBSET T, S # T, S \in Bad PROVE FALSE
  OBVIOUS
<1>4. <<S, T>> \in StrictSubsetOrdering(U)
  BY DEF StrictSubsetOrdering
<1> QED
  BY <1>3, <1>4

\* The element a fold over s takes first, and the sum of f over S.
Some(s) == CHOOSE x \in s : TRUE

Total(f, S) == MapThenSumSet(LAMBDA x : f[x], S)

\* g holds the totals of f over the subsets of S.
Totals(f, S, g) ==
  g = [s \in SUBSET S |-> IF s = {} THEN 0 ELSE f[Some(s)] + g[s \ {Some(s)}]]

\* A set that is not empty holds the element the fold takes.
LEMMA SomeOf == ASSUME NEW s, s # {} PROVE Some(s) \in s
  BY DEF Some

\* The fold of MapThenSumSet is a function of the subsets.
LEMMA TotalIs ==
  ASSUME NEW f, NEW S
  PROVE  Total(f, S) = (CHOOSE g : Totals(f, S, g))[S]
BY DEF Total, MapThenSumSet, MapThenFoldSet, Totals, Some

\* That function is the same whatever set it is defined for.
LEMMA TotalsAgree ==
  ASSUME NEW f, NEW S, IsFiniteSet(S), NEW R \in SUBSET S,
         NEW g, Totals(f, S, g), NEW h, Totals(f, R, h)
  PROVE  g[R] = h[R]
<1> DEFINE Bad == {T \in SUBSET R : g[T] # h[T]}
<1> SUFFICES ASSUME Bad # {} PROVE FALSE
  OBVIOUS
<1>0. IsFiniteSet(R) /\ Bad \subseteq SUBSET R
  BY FS_Subset
<1>1. PICK T \in Bad : \A r \in SUBSET T : r # T => r \notin Bad
  <2> HIDE DEF Bad
  <2> QED
    BY <1>0, SmallestSubset
<1>2. T \in SUBSET S /\ T \in SUBSET R
  OBVIOUS
<1>3. T # {}
  BY <1>2 DEF Totals
<1>4. g[T] = f[Some(T)] + g[T \ {Some(T)}] /\ h[T] = f[Some(T)] + h[T \ {Some(T)}]
  BY <1>2, <1>3 DEF Totals
<1>5. g[T \ {Some(T)}] = h[T \ {Some(T)}]
  BY <1>1, <1>2, <1>3, SomeOf
<1> QED
  BY <1>4, <1>5

\* There is such a function: by a smallest set that would have none.
LEMMA TotalsExist ==
  ASSUME NEW f, NEW S, IsFiniteSet(S)
  PROVE  \E g : Totals(f, S, g)
<1> DEFINE Bad == {T \in SUBSET S : ~ \E g : Totals(f, T, g)}
<1> SUFFICES ASSUME Bad # {} PROVE FALSE
  OBVIOUS
<1>0. Bad \subseteq SUBSET S
  OBVIOUS
<1>1. PICK T \in Bad : \A r \in SUBSET T : r # T => r \notin Bad
  <2> HIDE DEF Bad
  <2> QED
    BY <1>0, SmallestSubset
<1> DEFINE G(r) == CHOOSE g : Totals(f, r, g)
           g == [s \in SUBSET T |-> IF s = {} THEN 0 ELSE f[Some(s)] + G(s \ {Some(s)})[s \ {Some(s)}]]
<1>2. \A r \in SUBSET T : r # T => Totals(f, r, G(r))
  BY <1>1
<1>4. ASSUME NEW r \in SUBSET T, r # T PROVE g[r] = G(r)[r]
  <2>1. CASE r = {}
    <3>1. Totals(f, r, G(r))
      BY <1>2, <1>4
    <3> QED
      BY <2>1, <3>1 DEF Totals
  <2>2. CASE r # {}
    <3> DEFINE q == r \ {Some(r)}
    <3>0. q \in SUBSET r /\ q # r /\ q \in SUBSET T /\ q # T
      BY <2>2, SomeOf
    <3>1. Totals(f, r, G(r)) /\ Totals(f, q, G(q))
      BY <1>2, <1>4, <3>0
    <3>2. G(r)[r] = f[Some(r)] + G(r)[q]
      BY <2>2, <3>1 DEF Totals
    <3>3. IsFiniteSet(r)
      BY FS_Subset
    <3>4. G(r)[q] = G(q)[q]
      BY <3>0, <3>1, <3>3, TotalsAgree
    <3>5. g[r] = f[Some(r)] + G(q)[q]
      BY <2>2
    <3> QED
      BY <3>2, <3>4, <3>5
  <2> QED
    BY <2>1, <2>2
<1>5. ASSUME NEW s \in SUBSET T, s # {} PROVE g[s] = f[Some(s)] + g[s \ {Some(s)}]
  BY <1>4, <1>5, SomeOf
<1>6. ASSUME NEW s \in SUBSET T
      PROVE  g[s] = IF s = {} THEN 0 ELSE f[Some(s)] + g[s \ {Some(s)}]
  <2>1. CASE s = {}
    BY <2>1
  <2>2. CASE s # {}
    <3> HIDE DEF g
    <3> QED
      BY <1>5, <2>2
  <2> QED
    BY <2>1, <2>2
<1>7. g = [s \in SUBSET T |-> IF s = {} THEN 0 ELSE f[Some(s)] + g[s \ {Some(s)}]]
  <2> HIDE DEF g
  <2> DEFINE h == [s \in SUBSET T |-> IF s = {} THEN 0 ELSE f[Some(s)] + g[s \ {Some(s)}]]
  <2>1. g = [s \in SUBSET T |-> g[s]]
    BY DEF g
  <2>2. \A s \in SUBSET T : g[s] = h[s]
    BY <1>6
  <2> QED
    BY <2>1, <2>2
<1>8. Totals(f, T, g)
  BY <1>7 DEF Totals
<1> QED
  BY <1>8

\* The fold of MapThenSumSet, a step at a time.
LEMMA TotalStep ==
  ASSUME NEW f, NEW S, IsFiniteSet(S)
  PROVE  Total(f, S) = IF S = {} THEN 0 ELSE f[Some(S)] + Total(f, S \ {Some(S)})
<1> DEFINE g == CHOOSE h : Totals(f, S, h)
<1>1. Totals(f, S, g)
  BY TotalsExist
<1>2. Total(f, S) = g[S]
  BY TotalIs
<1>3. CASE S = {}
  BY <1>1, <1>2, <1>3 DEF Totals
<1>4. CASE S # {}
  <2> DEFINE R == S \ {Some(S)}
             k == CHOOSE h : Totals(f, R, h)
  <2>1. IsFiniteSet(R) /\ R \in SUBSET S
    BY FS_Subset
  <2>2. Totals(f, R, k)
    BY <2>1, TotalsExist
  <2>3. g[R] = k[R]
    BY <1>1, <2>1, <2>2, TotalsAgree
  <2>4. g[S] = f[Some(S)] + g[R]
    BY <1>1, <1>4 DEF Totals
  <2>5. Total(f, R) = k[R]
    BY TotalIs
  <2> QED
    BY <1>2, <1>4, <2>3, <2>4, <2>5
<1> QED
  BY <1>3, <1>4

\* An element can be added last, whatever the fold chooses.
LEMMA TotalLess ==
  ASSUME NEW f, NEW S, IsFiniteSet(S), NEW y \in S, \A x \in S : f[x] \in Int
  PROVE  Total(f, S) = f[y] + Total(f, S \ {y}) /\ Total(f, S) \in Int
<1> DEFINE Good(T) == /\ Total(f, T) \in Int
                      /\ \A x \in T : Total(f, T) = f[x] + Total(f, T \ {x})
           Bad == {T \in SUBSET S : ~Good(T)}
<1> SUFFICES ASSUME Bad # {} PROVE FALSE
  OBVIOUS
<1>1. PICK T \in Bad : \A R \in SUBSET T : R # T => R \notin Bad
  <2>1. Bad \subseteq SUBSET S
    OBVIOUS
  <2> HIDE DEF Bad
  <2> QED
    BY <2>1, SmallestSubset
<1> HIDE DEF Good
<1>2. \A R \in SUBSET T : R # T => Good(R)
  BY <1>1
<1>3. \A R \in SUBSET T : IsFiniteSet(R)
  BY FS_Subset
<1>4. T # {}
  <2>1. Total(f, {}) = 0
    BY <1>3, TotalStep
  <2>2. Good({})
    BY <2>1 DEF Good
  <2> QED
    BY <2>2
<1> DEFINE c == Some(T)
<1>5. c \in T /\ Total(f, T) = f[c] + Total(f, T \ {c})
  BY <1>3, <1>4, SomeOf, TotalStep
<1> HIDE DEF c
<1>6. Total(f, T) \in Int /\ Total(f, T \ {c}) \in Int
  BY <1>2, <1>5 DEF Good
<1>7. ASSUME NEW x \in T, x # c PROVE Total(f, T) = f[x] + Total(f, T \ {x})
  <2> DEFINE R == (T \ {c}) \ {x}
  <2>1. Total(f, T \ {c}) = f[x] + Total(f, R)
    BY <1>2, <1>5, <1>7 DEF Good
  <2>2. Total(f, T \ {x}) = f[c] + Total(f, R)
    <3>1. R = (T \ {x}) \ {c}
      OBVIOUS
    <3> QED
      BY <1>2, <1>5, <1>7, <3>1 DEF Good
  <2>3. Total(f, R) \in Int
    BY <1>2, <1>5, <1>7 DEF Good
  <2> QED
    BY <1>5, <2>1, <2>2, <2>3
<1>8. Good(T)
  BY <1>5, <1>6, <1>7 DEF Good
<1> QED
  BY <1>8

\* The sum over nothing.
LEMMA TotalNothing == ASSUME NEW f PROVE Total(f, {}) = 0
<1>1. IsFiniteSet({})
  BY FS_EmptySet
<1> QED
  BY <1>1, TotalStep

\* One more summand.
LEMMA TotalMore ==
  ASSUME NEW f, NEW S, IsFiniteSet(S), NEW y, y \notin S,
         \A x \in S \cup {y} : f[x] \in Int
  PROVE  Total(f, S \cup {y}) = f[y] + Total(f, S)
<1>1. IsFiniteSet(S \cup {y}) /\ (S \cup {y}) \ {y} = S
  BY FS_AddElement
<1> QED
  BY <1>1, TotalLess

\* A sum of integers is one.
LEMMA TotalInt ==
  ASSUME NEW f, NEW S, IsFiniteSet(S), \A x \in S : f[x] \in Int
  PROVE  Total(f, S) \in Int
<1>1. CASE S = {}
  BY <1>1, TotalNothing
<1>2. CASE S # {}
  BY <1>2, TotalLess
<1> QED
  BY <1>1, <1>2

\* Totals of functions that agree, and of those that are ordered.
LEMMA TotalOrder ==
  ASSUME NEW f, NEW g, NEW S, IsFiniteSet(S),
         \A x \in S : f[x] \in Int /\ g[x] \in Int /\ f[x] <= g[x]
  PROVE  Total(f, S) <= Total(g, S)
<1> DEFINE Bad == {T \in SUBSET S : ~(Total(f, T) <= Total(g, T))}
<1> SUFFICES ASSUME Bad # {} PROVE FALSE
  OBVIOUS
<1>1. PICK T \in Bad : \A R \in SUBSET T : R # T => R \notin Bad
  <2>1. Bad \subseteq SUBSET S
    OBVIOUS
  <2> HIDE DEF Bad
  <2> QED
    BY <2>1, SmallestSubset
<1>2. T \in SUBSET S /\ ~(Total(f, T) <= Total(g, T))
  OBVIOUS
<1>3. PICK y : y \in T
  <2>1. Total(f, {}) = 0 /\ Total(g, {}) = 0
    BY TotalNothing
  <2>2. T # {}
    BY <1>2, <2>1
  <2> QED
    BY <2>2
<1>4. Total(f, T \ {y}) <= Total(g, T \ {y})
  BY <1>1, <1>3
<1>5. IsFiniteSet(T) /\ IsFiniteSet(T \ {y})
  BY <1>2, FS_Subset
<1>6. /\ Total(f, T) = f[y] + Total(f, T \ {y})
      /\ Total(g, T) = g[y] + Total(g, T \ {y})
  BY <1>2, <1>3, <1>5, TotalLess
<1>7. Total(f, T \ {y}) \in Int /\ Total(g, T \ {y}) \in Int
  BY <1>2, <1>5, TotalInt
<1> QED
  BY <1>2, <1>3, <1>4, <1>6, <1>7

\* Functions that agree have the same sum.
LEMMA TotalSame ==
  ASSUME NEW f, NEW g, NEW S, IsFiniteSet(S),
         \A x \in S : f[x] \in Int /\ g[x] = f[x]
  PROVE  Total(g, S) = Total(f, S)
<1>1. Total(g, S) <= Total(f, S) /\ Total(f, S) <= Total(g, S)
  BY TotalOrder
<1>2. Total(g, S) \in Int /\ Total(f, S) \in Int
  BY TotalInt
<1> QED
  BY <1>1, <1>2

\* A sum of zeros.
LEMMA TotalZero ==
  ASSUME NEW f, NEW S, IsFiniteSet(S), \A x \in S : f[x] = 0
  PROVE  Total(f, S) = 0
<1> DEFINE Bad == {T \in SUBSET S : Total(f, T) # 0}
<1> SUFFICES ASSUME Bad # {} PROVE FALSE
  OBVIOUS
<1>1. PICK T \in Bad : \A R \in SUBSET T : R # T => R \notin Bad
  <2>1. Bad \subseteq SUBSET S
    OBVIOUS
  <2> HIDE DEF Bad
  <2> QED
    BY <2>1, SmallestSubset
<1>2. PICK y : y \in T
  BY TotalNothing
<1>3. Total(f, T \ {y}) = 0
  BY <1>1, <1>2
<1>4. IsFiniteSet(T)
  BY FS_Subset
<1>5. Total(f, T) = f[y] + Total(f, T \ {y})
  BY <1>2, <1>4, TotalLess
<1> QED
  BY <1>2, <1>3, <1>5

\* One summand changes, the others stay.
LEMMA TotalChange ==
  ASSUME NEW f, NEW g, NEW S, IsFiniteSet(S), NEW y \in S,
         \A x \in S : f[x] \in Int /\ g[x] \in Int /\ (x # y => g[x] = f[x])
  PROVE  Total(g, S) - Total(f, S) = g[y] - f[y]
<1>1. IsFiniteSet(S \ {y})
  BY FS_Subset
<1>2. /\ Total(f, S) = f[y] + Total(f, S \ {y})
      /\ Total(g, S) = g[y] + Total(g, S \ {y})
  BY TotalLess
<1>3. Total(g, S \ {y}) = Total(f, S \ {y}) /\ Total(f, S \ {y}) \in Int
  BY <1>1, TotalSame, TotalInt
<1> QED
  BY <1>2, <1>3

\* One summand grows by one.
LEMMA TotalUp ==
  ASSUME NEW f, NEW g, NEW S, IsFiniteSet(S), NEW y \in S,
         \A x \in S : f[x] \in Int /\ (x # y => g[x] = f[x]),
         g[y] = f[y] + 1
  PROVE  Total(g, S) = Total(f, S) + 1
<1>1. \A x \in S : g[x] \in Int
  OBVIOUS
<1>2. Total(g, S) - Total(f, S) = g[y] - f[y]
  BY <1>1, TotalChange
<1>3. Total(g, S) \in Int /\ Total(f, S) \in Int
  BY <1>1, TotalInt
<1> QED
  BY <1>2, <1>3

\* The sum of equal summands.
LEMMA TotalConstant ==
  ASSUME NEW f, NEW S, IsFiniteSet(S), NEW n \in Nat, \A x \in S : f[x] = n
  PROVE  Total(f, S) = Cardinality(S) * n
<1> DEFINE Bad == {T \in SUBSET S : Total(f, T) # Cardinality(T) * n}
<1> SUFFICES ASSUME Bad # {} PROVE FALSE
  OBVIOUS
<1>1. PICK T \in Bad : \A R \in SUBSET T : R # T => R \notin Bad
  <2>1. Bad \subseteq SUBSET S
    OBVIOUS
  <2> HIDE DEF Bad
  <2> QED
    BY <2>1, SmallestSubset
<1>2. PICK y : y \in T
  BY TotalNothing, FS_EmptySet
<1>3. IsFiniteSet(T)
  BY FS_Subset
<1>4. Total(f, T) = n + Total(f, T \ {y})
  BY <1>2, <1>3, TotalLess
<1>5. Total(f, T \ {y}) = Cardinality(T \ {y}) * n
  BY <1>1, <1>2
<1>6. Cardinality(T \ {y}) = Cardinality(T) - 1 /\ Cardinality(T) \in Nat
  BY <1>2, <1>3, CountDown, CountIsNat
<1>7. \A k \in Nat : n + (k - 1) * n = k * n
  OBVIOUS
<1> QED
  BY <1>4, <1>5, <1>6, <1>7

\* A sum of summands of which none is more than n and one is less.
LEMMA TotalBelow ==
  ASSUME NEW f, NEW S, IsFiniteSet(S), NEW n \in Nat,
         \A x \in S : f[x] \in Nat /\ f[x] <= n, NEW y \in S, f[y] < n
  PROVE  Total(f, S) < Cardinality(S) * n
<1> DEFINE g == [x \in S |-> n]
<1>1. IsFiniteSet(S \ {y})
  BY FS_Subset
<1>2. Total(f, S \ {y}) <= Total(g, S \ {y})
  BY <1>1, TotalOrder
<1>3. /\ Total(f, S) = f[y] + Total(f, S \ {y})
      /\ Total(g, S) = n + Total(g, S \ {y})
  BY TotalLess
<1>4. Total(g, S) = Cardinality(S) * n
  BY TotalConstant
<1>5. Total(f, S \ {y}) \in Int /\ Total(g, S \ {y}) \in Int
  BY <1>1, TotalInt
<1> QED
  BY <1>2, <1>3, <1>4, <1>5

\* A sum of natural numbers of which none is more than n.
LEMMA TotalWithin ==
  ASSUME NEW f, NEW S, IsFiniteSet(S), NEW n \in Nat,
         \A x \in S : f[x] \in 0 .. n
  PROVE  Total(f, S) \in 0 .. Cardinality(S) * n
<1> DEFINE z == [x \in S |-> 0]
           g == [x \in S |-> n]
<1>1. Total(z, S) = 0 /\ Total(g, S) = Cardinality(S) * n
  BY TotalZero, TotalConstant
<1>2. Total(z, S) <= Total(f, S) /\ Total(f, S) <= Total(g, S)
  BY TotalOrder
<1>3. Total(f, S) \in Int /\ Total(g, S) \in Int
  BY TotalInt
<1> QED
  BY <1>1, <1>2, <1>3

\* A sum grows with one of what is summed, if none of the others falls.
LEMMA TotalGrows ==
  ASSUME NEW f, NEW g, NEW S, IsFiniteSet(S), NEW y \in S, f[y] < g[y],
         \A x \in S : f[x] \in Int /\ g[x] \in Int /\ f[x] <= g[x]
  PROVE  Total(f, S) < Total(g, S)
<1>1. /\ Total(f, S) = f[y] + Total(f, S \ {y})
      /\ Total(g, S) = g[y] + Total(g, S \ {y})
  BY TotalLess
<1>2. IsFiniteSet(S \ {y})
  BY FS_RemoveElement
<1>3. Total(f, S \ {y}) <= Total(g, S \ {y})
  BY <1>2, TotalOrder
<1>4. Total(f, S \ {y}) \in Int /\ Total(g, S \ {y}) \in Int
  BY <1>2, TotalInt
<1> QED
  BY <1>1, <1>3, <1>4

\* The total of natural numbers is one, and no part of it is more.
LEMMA TotalPart ==
  ASSUME NEW f, NEW S, IsFiniteSet(S), \A x \in S : f[x] \in Nat,
         NEW R \in SUBSET S
  PROVE  Total(f, R) \in Nat /\ Total(f, R) <= Total(f, S)
<1> DEFINE z == [x \in S |-> 0]
<1>1. IsFiniteSet(R)
  BY FS_Subset
<1>2. Total(z, R) = 0
  BY <1>1, TotalZero
<1>3. Total(z, R) <= Total(f, R)
  BY <1>1, TotalOrder
<1>4. Total(f, R) \in Int /\ Total(f, S) \in Int
  BY <1>1, TotalInt
<1> DEFINE Bad == {T \in SUBSET (S \ R) : ~(Total(f, R) <= Total(f, R \cup T))}
<1>5. ASSUME Bad # {} PROVE FALSE
  <2>1. Bad \subseteq SUBSET (S \ R) /\ IsFiniteSet(S \ R)
    BY FS_Subset
  <2>2. PICK T \in Bad : \A Q \in SUBSET T : Q # T => Q \notin Bad
    <3> HIDE DEF Bad
    <3> QED
      BY <1>5, <2>1, SmallestSubset
  <2>3. T \in SUBSET (S \ R) /\ ~(Total(f, R) <= Total(f, R \cup T))
    OBVIOUS
  <2>4. PICK y : y \in T
    <3>1. R \cup {} = R
      OBVIOUS
    <3> QED
      BY <1>4, <2>3, <3>1
  <2>5. Total(f, R) <= Total(f, R \cup (T \ {y}))
    BY <2>2, <2>4
  <2>6. IsFiniteSet(R \cup T) /\ IsFiniteSet(R \cup (T \ {y}))
    <3>1. R \cup T \subseteq S /\ R \cup (T \ {y}) \subseteq S
      BY <2>3
    <3> QED
      BY <3>1, FS_Subset
  <2>7. Total(f, R \cup T) = f[y] + Total(f, R \cup (T \ {y}))
    <3>1. (R \cup T) \ {y} = R \cup (T \ {y}) /\ y \in R \cup T
      BY <2>3, <2>4
    <3>2. \A x \in R \cup T : f[x] \in Int
      BY <2>3
    <3> QED
      BY <2>6, <3>1, <3>2, TotalLess
  <2>8. Total(f, R \cup (T \ {y})) \in Int
    BY <2>3, <2>6, TotalInt
  <2> QED
    BY <1>4, <2>3, <2>4, <2>5, <2>7, <2>8
<1>6. Total(f, R) <= Total(f, R \cup (S \ R)) /\ R \cup (S \ R) = S
  BY <1>5
<1> QED
  BY <1>2, <1>3, <1>4, <1>6

=============================================================================
