----------------------------- MODULE DataFacts ------------------------------
(***************************************************************************)
(* Facts about naturals, sequences and sums that the proofs about the      *)
(* index manager share.                                                    *)
(***************************************************************************)
EXTENDS Integers, Sequences, FiniteSetsExt, FiniteSetTheorems, WellFoundedInduction, TLAPS

\* A non-empty set of naturals has a least element: the initial segments of the
\* naturals are well-founded under inclusion.
LEMMA LeastNatural ==
  ASSUME NEW S \in SUBSET Nat, S # {}
  PROVE  \E x \in S : \A y \in S : x <= y
<1>. DEFINE below(x) == 0 .. x
            T == {below(x) : x \in S}
            R == StrictSubsetOrdering(Nat)
<1>1. \A x \in S : IsFiniteSet(below(x)) /\ below(x) \in SUBSET Nat
  BY FS_Interval
<1>2. T \subseteq FiniteSubsetsOf(Nat) /\ T # {}
  BY <1>1 DEF FiniteSubsetsOf
<1>3. IsWellFoundedOn(R, FiniteSubsetsOf(Nat))
  BY FS_StrictSubsetOrderingWellFounded
<1>. HIDE DEF R
<1>4. PICK t \in T : \A u \in T : ~(<<u, t>> \in R)
  <2>. HIDE DEF T
  <2>. QED  BY <1>2, <1>3, WFMin
<1>5. PICK x \in S : t = below(x)
  BY <1>4
<1>6. ASSUME NEW y \in S, ~(x <= y)
      PROVE  FALSE
  <2>1. below(y) \in T /\ below(y) \subseteq below(x) /\ x \in below(x) /\ x \notin below(y)
    BY <1>5, <1>6
  <2>2. <<below(y), below(x)>> \in R
    BY <2>1, <1>1 DEF R, StrictSubsetOrdering
  <2>. QED  BY <2>1, <2>2, <1>4, <1>5
<1>. QED  BY <1>6

\* Min chooses the least element of a non-empty set of naturals.
LEMMA MinOfNaturals ==
  ASSUME NEW S \in SUBSET Nat, S # {}
  PROVE  Min(S) \in S /\ \A y \in S : Min(S) <= y
BY LeastNatural DEF Min

\* Max chooses the greatest element of a non-empty set of naturals that has an
\* upper bound.
LEMMA MaxOfNaturals ==
  ASSUME NEW n \in Nat, NEW S \in SUBSET (0 .. n), S # {}
  PROVE  Max(S) \in S /\ \A y \in S : y <= Max(S)
<1>. DEFINE T == {n - x : x \in S}
<1>1. \A x \in S : n - x \in Nat
  OBVIOUS
<1>2. T \in SUBSET Nat
  BY <1>1
<1>3. PICK t \in T : \A y \in T : t <= y
  <2>1. T # {}
    OBVIOUS
  <2>. HIDE DEF T
  <2>. QED  BY <1>2, <2>1, LeastNatural
<1>4. PICK x \in S : t = n - x
  BY <1>3
<1>5. \A y \in S : y <= x
  <2>. TAKE y \in S
  <2>1. n - x <= n - y
    BY <1>3, <1>4
  <2>. QED  BY <2>1
<1>. QED  BY <1>4, <1>5 DEF Max

------------------------------------------------------------------------------
(* Sequences *)

\* s is a sequence, of whatever its elements are.
IsSequence(s) == s \in Seq({s[i] : i \in DOMAIN s})

\* A sequence of elements of any set is one.
LEMMA SequenceOfValues ==
  ASSUME NEW U, NEW s \in Seq(U)
  PROVE  IsSequence(s) /\ Len(s) \in Nat /\ DOMAIN s = 1 .. Len(s)
<1>. DEFINE V == {s[i] : i \in DOMAIN s}
<1>1. Len(s) \in Nat /\ DOMAIN s = 1 .. Len(s) /\ s \in [1 .. Len(s) -> U]
  OBVIOUS
<1>2. s \in [1 .. Len(s) -> V]
  BY <1>1
<1>. HIDE DEF V
<1>3. s \in Seq(V)
  BY <1>1, <1>2
<1>. QED  BY <1>1, <1>3 DEF V, IsSequence

\* A function on 1 .. n is one.
LEMMA FunctionIsSequence ==
  ASSUME NEW n \in Nat, NEW s, DOMAIN s = 1 .. n, s = [i \in 1 .. n |-> s[i]]
  PROVE  IsSequence(s) /\ Len(s) = n
<1>. DEFINE V == {s[i] : i \in DOMAIN s}
<1>1. s \in [1 .. n -> V]
  OBVIOUS
<1>. HIDE DEF V
<1>2. s \in Seq(V) /\ Len(s) = n
  BY <1>1
<1>. QED  BY <1>2 DEF V, IsSequence

\* Append() adds one position and leaves the others alone.
LEMMA AppendedTo ==
  ASSUME NEW s, IsSequence(s), NEW e
  PROVE  /\ IsSequence(Append(s, e))
         /\ Len(s) \in Nat /\ DOMAIN s = 1 .. Len(s)
         /\ Len(s) + 1 \notin DOMAIN s /\ Len(s) + 1 # 0
         /\ Len(Append(s, e)) = Len(s) + 1
         /\ DOMAIN Append(s, e) = DOMAIN s \cup {Len(s) + 1}
         /\ \A i \in DOMAIN s : Append(s, e)[i] = s[i]
         /\ Append(s, e)[Len(s) + 1] = e
<1>. DEFINE V == {s[i] : i \in DOMAIN s}
<1>1. Len(s) \in Nat /\ DOMAIN s = 1 .. Len(s) /\ s \in [1 .. Len(s) -> V]
  BY SequenceOfValues DEF IsSequence
<1>2. s \in [1 .. Len(s) -> V \cup {e}]
  BY <1>1
<1>. HIDE DEF V
<1>3. s \in Seq(V \cup {e})
  BY <1>1, <1>2
<1>4. /\ Append(s, e) \in Seq(V \cup {e}) /\ Len(Append(s, e)) = Len(s) + 1
      /\ \A i \in 1 .. Len(s) : Append(s, e)[i] = s[i]
      /\ Append(s, e)[Len(s) + 1] = e
  BY <1>3
<1>5. IsSequence(Append(s, e)) /\ DOMAIN Append(s, e) = 1 .. Len(s) + 1
  BY <1>4, SequenceOfValues
<1>. QED  BY <1>1, <1>4, <1>5

------------------------------------------------------------------------------
(* Sums *)

\* The sum of f[x] over a set.
SumOver(f, S) == MapThenSumSet(LAMBDA x : f[x], S)

\* The element the sum takes next.
picked(s) == CHOOSE x \in s : TRUE

\* What the recursion of the sum says of the function h.
IsSumOf(h, f, S) ==
  h = [s \in SUBSET S |-> IF s = {} THEN 0 ELSE f[picked(s)] + h[s \ {picked(s)}]]

\* If there is such a function, the sum is taken by one.
LEMMA SumEquation ==
  ASSUME NEW f, NEW S, NEW h, IsSumOf(h, f, S)
  PROVE  \E g : IsSumOf(g, f, S) /\ SumOver(f, S) = g[S]
BY DEF IsSumOf, SumOver, MapThenSumSet, MapThenFoldSet, picked

\* There is no other than h.
LEMMA SumUnique ==
  ASSUME NEW f, NEW S, IsFiniteSet(S), NEW g, IsSumOf(g, f, S), NEW h, IsSumOf(h, f, S)
  PROVE  g[S] = h[S]
<1>. DEFINE D == {s \in SUBSET S : g[s] # h[s]}
            C == {Cardinality(s) : s \in D}
<1>1. SUFFICES ASSUME D # {} PROVE FALSE
  OBVIOUS
<1>2. \A s \in SUBSET S : IsFiniteSet(s) /\ Cardinality(s) \in Nat
  BY FS_Subset, FS_CardinalityType
<1>3. C \in SUBSET Nat /\ C # {}
  BY <1>1, <1>2
<1>4. PICK c \in C : \A d \in C : c <= d
  <2>. HIDE DEF C
  <2>. QED  BY <1>3, LeastNatural
<1>5. PICK s \in D : c = Cardinality(s)
  BY <1>4
<1>6. \A k \in SUBSET S : k # {} => /\ g[k] = f[picked(k)] + g[k \ {picked(k)}]
                                    /\ h[k] = f[picked(k)] + h[k \ {picked(k)}]
  BY DEF IsSumOf
<1>7. g[{}] = 0 /\ h[{}] = 0
  BY DEF IsSumOf
<1>8. s \in SUBSET S /\ g[s] # h[s] /\ s # {}
  BY <1>5, <1>7
<1>. DEFINE t == s \ {picked(s)}
<1>9. picked(s) \in s /\ t \in SUBSET S
  BY <1>8 DEF picked
<1>10. g[t] # h[t]
  BY <1>6, <1>8
<1>11. Cardinality(t) < c /\ Cardinality(t) \in C
  <2>1. Cardinality(t) = Cardinality(s) - 1 /\ Cardinality(s) \in Nat /\ Cardinality(t) \in Nat
    BY <1>2, <1>8, <1>9, FS_RemoveElement
  <2>2. Cardinality(t) \in C
    BY <1>9, <1>10
  <2>. HIDE DEF t, C, D
  <2>. QED  BY <1>5, <2>1, <2>2
<1>12. c \in Nat
  BY <1>3, <1>4
<1>13. Cardinality(t) \in Nat
  BY <1>2, <1>9
<1>. HIDE DEF t, C, D
<1>. QED  BY <1>4, <1>11, <1>12, <1>13

\* The union of finitely many of the finite sets A[x].
LEMMA FiniteUnion ==
  ASSUME NEW S, IsFiniteSet(S), NEW A, \A x \in S : IsFiniteSet(A[x])
  PROVE  IsFiniteSet(UNION {A[x] : x \in S})
<1>. DEFINE all(s) == UNION {A[x] : x \in s}
            D == {s \in SUBSET S : ~IsFiniteSet(all(s))}
            C == {Cardinality(s) : s \in D}
<1>1. SUFFICES ASSUME D # {} PROVE FALSE
  OBVIOUS
<1>2. \A s \in SUBSET S : IsFiniteSet(s) /\ Cardinality(s) \in Nat
  BY FS_Subset, FS_CardinalityType
<1>3. C \in SUBSET Nat /\ C # {}
  BY <1>1, <1>2
<1>4. PICK c \in C : \A d \in C : c <= d
  <2>. HIDE DEF C
  <2>. QED  BY <1>3, LeastNatural
<1>5. PICK s \in D : c = Cardinality(s)
  BY <1>4
<1>6. s # {}
  <2>1. all({}) = {}
    OBVIOUS
  <2>. QED  BY <1>5, <2>1, FS_EmptySet
<1>7. PICK x \in s : TRUE
  BY <1>6
<1>. DEFINE t == s \ {x}
<1>8. Cardinality(t) < c /\ t \in SUBSET S /\ Cardinality(t) \in Nat
  BY <1>2, <1>5, <1>7, FS_RemoveElement
<1>9. IsFiniteSet(all(t))
  <2>1. t \notin D
    <3>1. ASSUME t \in D PROVE FALSE
      <4>1. Cardinality(t) \in C
        BY <3>1
      <4>2. c \in Nat
        BY <1>3, <1>4
      <4>. HIDE DEF C, t
      <4>. QED  BY <1>4, <1>8, <4>1, <4>2
    <3>. QED  BY <3>1
  <2>. QED  BY <1>8, <2>1
<1>10. all(s) = A[x] \cup all(t)
  BY <1>7
<1>11. IsFiniteSet(A[x])
  BY <1>5, <1>7
<1>12. IsFiniteSet(all(s))
  <2>1. \A u, v : IsFiniteSet(u) /\ IsFiniteSet(v) => IsFiniteSet(u \cup v)
    BY FS_Union
  <2>. HIDE DEF all, t
  <2>. QED  BY <1>9, <1>10, <1>11, <2>1
<1>. QED  BY <1>5, <1>12

\* The sets A[x] are disjoint and have f[x] elements.
HaveSizes(A, f, S) ==
  /\ \A x \in S : IsFiniteSet(A[x]) /\ f[x] = Cardinality(A[x])
  /\ \A x, y \in S : x # y => A[x] \cap A[y] = {}

\* The sizes of the unions of disjoint sets are the sums of their sizes.
LEMMA SizesAreSums ==
  ASSUME NEW S, IsFiniteSet(S), NEW f, NEW A, HaveSizes(A, f, S)
  PROVE  \E h : IsSumOf(h, f, S) /\ h[S] = Cardinality(UNION {A[x] : x \in S})
<1>. DEFINE all(s) == UNION {A[x] : x \in s}
            h == [s \in SUBSET S |-> Cardinality(all(s))]
<1>1. \A s \in SUBSET S : IsFiniteSet(all(s))
  <2>. TAKE s \in SUBSET S
  <2>1. IsFiniteSet(s) /\ \A x \in s : IsFiniteSet(A[x])
    BY FS_Subset DEF HaveSizes
  <2>. QED  BY <2>1, FiniteUnion
<1>2. ASSUME NEW s \in SUBSET S, s # {}
      PROVE  Cardinality(all(s)) = f[picked(s)] + Cardinality(all(s \ {picked(s)}))
  <2>. DEFINE x == picked(s)
              t == s \ {x}
  <2>1. x \in s /\ t \in SUBSET S
    BY <1>2 DEF picked
  <2>. HIDE DEF x
  <2>2. all(s) = A[x] \cup all(t) /\ A[x] \cap all(t) = {}
    BY <2>1 DEF HaveSizes
  <2>3. IsFiniteSet(A[x]) /\ IsFiniteSet(all(t)) /\ f[x] = Cardinality(A[x])
    BY <1>1, <2>1 DEF HaveSizes
  <2>4. Cardinality(A[x]) \in Nat /\ Cardinality(all(t)) \in Nat /\ Cardinality({}) = 0
    BY <2>3, FS_CardinalityType, FS_EmptySet
  <2>5. Cardinality(A[x] \cup all(t)) = Cardinality(A[x]) + Cardinality(all(t)) - Cardinality(A[x] \cap all(t))
    <3>. HIDE DEF all
    <3>. QED  BY <2>3, FS_Union
  <2>6. Cardinality(all(s)) = f[x] + Cardinality(all(t))
    <3>1. Cardinality(all(s)) = Cardinality(A[x]) + Cardinality(all(t)) - 0
      <4>. HIDE DEF all, t
      <4>. QED  BY <2>2, <2>4, <2>5, Zenon
    <3>. DEFINE n == Cardinality(all(t))
                m == Cardinality(A[x])
    <3>2. n \in Nat /\ m \in Nat /\ f[x] = m /\ Cardinality(all(s)) = m + n - 0
      BY <2>3, <2>4, <3>1
    <3>3. f[x] + n = m + n - 0
      <4>. HIDE DEF n, m
      <4>. QED  BY <3>2
    <3>. QED  BY <3>2, <3>3
  <2>. QED  BY <2>6 DEF x
<1>3. Cardinality(all({})) = 0
  <2>1. all({}) = {}
    OBVIOUS
  <2>. QED  BY <2>1, FS_EmptySet
<1>. HIDE DEF all
<1>4. IsSumOf(h, f, S)
  BY <1>2, <1>3 DEF IsSumOf
<1>5. h[S] = Cardinality(all(S))
  OBVIOUS
<1>. HIDE DEF h
<1>. QED  BY <1>4, <1>5 DEF all

\* The sum of the sizes of disjoint finite sets is the size of their union.
LEMMA SumOfSizes ==
  ASSUME NEW S, IsFiniteSet(S), NEW f, NEW A, HaveSizes(A, f, S)
  PROVE  SumOver(f, S) = Cardinality(UNION {A[x] : x \in S})
<1>1. PICK h : IsSumOf(h, f, S) /\ h[S] = Cardinality(UNION {A[x] : x \in S})
  BY SizesAreSums
<1>2. PICK g : IsSumOf(g, f, S) /\ SumOver(f, S) = g[S]
  BY <1>1, SumEquation
<1>3. g[S] = h[S]
  BY <1>1, <1>2, SumUnique
<1>. QED  BY <1>1, <1>2, <1>3

\* f[x] units of each x.
unitsOf(f, S) == UNION {{x} \X (1 .. f[x]) : x \in S}

\* A sum of natural numbers counts the units.
LEMMA UnitsOfEach ==
  ASSUME NEW S, IsFiniteSet(S), NEW f, \A x \in S : f[x] \in Nat
  PROVE  \E A : HaveSizes(A, f, S) /\ unitsOf(f, S) = UNION {A[x] : x \in S}
<1>. DEFINE A == [x \in S |-> {x} \X (1 .. f[x])]
<1>1. ASSUME NEW x \in S
      PROVE  IsFiniteSet({x} \X (1 .. f[x])) /\ Cardinality({x} \X (1 .. f[x])) = f[x]
  <2>1. IsFiniteSet({x}) /\ Cardinality({x}) = 1
    BY FS_Singleton
  <2>2. IsFiniteSet(1 .. f[x]) /\ Cardinality(1 .. f[x]) = f[x]
    BY FS_Interval
  <2>3. IsFiniteSet({x} \X (1 .. f[x])) /\ Cardinality({x} \X (1 .. f[x])) = Cardinality({x}) * Cardinality(1 .. f[x])
    BY <2>1, <2>2, FS_Product
  <2>4. 1 * f[x] = f[x]
    OBVIOUS
  <2>. QED  BY <2>1, <2>2, <2>3, <2>4, Zenon
<1>2. \A x \in S : IsFiniteSet(A[x]) /\ f[x] = Cardinality(A[x])
  BY <1>1, Zenon
<1>3. \A x, y \in S : x # y => A[x] \cap A[y] = {}
  OBVIOUS
<1>4. unitsOf(f, S) = UNION {A[x] : x \in S}
  BY DEF unitsOf
<1>. HIDE DEF A
<1>. QED  BY <1>2, <1>3, <1>4 DEF HaveSizes

\* A sum of naturals is the number of its units.
LEMMA SumCounts ==
  ASSUME NEW S, IsFiniteSet(S), NEW f, \A x \in S : f[x] \in Nat
  PROVE  IsFiniteSet(unitsOf(f, S)) /\ SumOver(f, S) = Cardinality(unitsOf(f, S))
<1>1. PICK A : HaveSizes(A, f, S) /\ unitsOf(f, S) = UNION {A[x] : x \in S}
  BY UnitsOfEach
<1>2. IsFiniteSet(UNION {A[x] : x \in S})
  BY <1>1, FiniteUnion DEF HaveSizes
<1>3. SumOver(f, S) = Cardinality(UNION {A[x] : x \in S})
  BY <1>1, SumOfSizes
<1>. QED  BY <1>1, <1>2, <1>3

\* The recursion of such a sum has a solution.
LEMMA SumExists ==
  ASSUME NEW S, IsFiniteSet(S), NEW f, \A x \in S : f[x] \in Nat
  PROVE  \E h : IsSumOf(h, f, S)
<1>1. PICK A : HaveSizes(A, f, S) /\ unitsOf(f, S) = UNION {A[x] : x \in S}
  BY UnitsOfEach
<1>2. PICK h : IsSumOf(h, f, S) /\ h[S] = Cardinality(UNION {A[x] : x \in S})
  BY <1>1, SizesAreSums
<1>. QED  BY <1>2

\* The sum over no elements, over one, and over two disjoint sets.
LEMMA SumOfNone ==
  ASSUME NEW f
  PROVE  SumOver(f, {}) = 0
<1>1. unitsOf(f, {}) = {}
  BY DEF unitsOf
<1>. QED  BY <1>1, SumCounts, FS_EmptySet

\* A sum of naturals is a natural.
LEMMA SumNatural ==
  ASSUME NEW S, IsFiniteSet(S), NEW f, \A x \in S : f[x] \in Nat
  PROVE  SumOver(f, S) \in Nat
BY SumCounts, FS_CardinalityType

\* The sum over a single element.
LEMMA SumOfOne ==
  ASSUME NEW f, NEW x, f[x] \in Nat
  PROVE  SumOver(f, {x}) = f[x]
<1>1. IsFiniteSet({x}) /\ Cardinality({x}) = 1
  BY FS_Singleton
<1>2. IsFiniteSet(1 .. f[x]) /\ Cardinality(1 .. f[x]) = f[x]
  BY FS_Interval
<1>3. Cardinality({x} \X (1 .. f[x])) = Cardinality({x}) * Cardinality(1 .. f[x])
  BY <1>1, <1>2, FS_Product
<1>4. unitsOf(f, {x}) = {x} \X (1 .. f[x])
  BY DEF unitsOf
<1>5. 1 * f[x] = f[x]
  OBVIOUS
<1>6. SumOver(f, {x}) = Cardinality(unitsOf(f, {x}))
  BY <1>1, SumCounts
<1>. QED  BY <1>1, <1>2, <1>3, <1>4, <1>5, <1>6, Zenon

\* The sum over two disjoint sets is the sum of their sums.
LEMMA SumOfBoth ==
  ASSUME NEW S, IsFiniteSet(S), NEW T, IsFiniteSet(T), S \cap T = {},
         NEW f, \A x \in S \cup T : f[x] \in Nat
  PROVE  /\ SumOver(f, S \cup T) = SumOver(f, S) + SumOver(f, T)
         /\ SumOver(f, S) \in Nat /\ SumOver(f, T) \in Nat
<1>1. IsFiniteSet(S \cup T)
  BY FS_Union
<1>2. /\ IsFiniteSet(unitsOf(f, S)) /\ SumOver(f, S) = Cardinality(unitsOf(f, S))
      /\ IsFiniteSet(unitsOf(f, T)) /\ SumOver(f, T) = Cardinality(unitsOf(f, T))
      /\ SumOver(f, S \cup T) = Cardinality(unitsOf(f, S \cup T))
  BY <1>1, SumCounts
<1>3. unitsOf(f, S \cup T) = unitsOf(f, S) \cup unitsOf(f, T)
  BY DEF unitsOf
<1>4. unitsOf(f, S) \cap unitsOf(f, T) = {}
  BY DEF unitsOf
<1>. DEFINE u == unitsOf(f, S)
            v == unitsOf(f, T)
<1>5. Cardinality({}) = 0 /\ Cardinality(u) \in Nat /\ Cardinality(v) \in Nat
  BY <1>2, FS_EmptySet, FS_CardinalityType
<1>6. Cardinality(u \cup v) = Cardinality(u) + Cardinality(v) - Cardinality(u \cap v)
  <2>1. IsFiniteSet(u) /\ IsFiniteSet(v)
    BY <1>2
  <2>. HIDE DEF u, v
  <2>. QED  BY <2>1, FS_Union
<1>7. Cardinality(u \cup v) = Cardinality(u) + Cardinality(v)
  <2>1. Cardinality(u \cap v) = 0
    BY <1>4, <1>5, Zenon
  <2>. HIDE DEF u, v
  <2>. QED  BY <1>5, <1>6, <2>1
<1>. QED  BY <1>2, <1>3, <1>5, <1>7

\* The sum depends on the summands only.
LEMMA SumAgrees ==
  ASSUME NEW S, IsFiniteSet(S), NEW f, NEW g, \A x \in S : f[x] \in Nat /\ g[x] = f[x]
  PROVE  SumOver(g, S) = SumOver(f, S)
<1>1. unitsOf(g, S) = unitsOf(f, S)
  BY DEF unitsOf
<1>2. SumOver(g, S) = Cardinality(unitsOf(g, S)) /\ SumOver(f, S) = Cardinality(unitsOf(f, S))
  BY SumCounts
<1>. QED  BY <1>1, <1>2
=============================================================================
