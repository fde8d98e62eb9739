------------------------------ MODULE SumProofs ------------------------------
(* Facts about sums over finite sets, SumFunctionOnSet of the community        *)
(* module Functions, that the proofs about both optimizers rest on.  They are  *)
(* proved by looking at a smallest set for which they fail.                    *)
EXTENDS Integers, Functions, FiniteSets, FiniteSetTheorems, TLAPS

\* Among some finite sets there is one without a smaller one.
LEMMA SmallestSubset ==
    ASSUME NEW S, IsFiniteSet(S), NEW Some, Some \subseteq SUBSET S, Some # {}
    PROVE  \E T \in Some : \A U \in Some : U \subseteq T => U = T
<1>1. Some \subseteq FiniteSubsetsOf(S)
    BY FS_FiniteSubsetsOfFinite
<1>2. IsWellFoundedOn(StrictSubsetOrdering(S), FiniteSubsetsOf(S))
    BY FS_StrictSubsetOrderingWellFounded
<1>3. PICK T \in Some : \A U \in Some : ~ (<<U, T>> \in StrictSubsetOrdering(S))
    BY <1>1, <1>2, WFMin
<1> QED
    BY <1>3 DEF StrictSubsetOrdering

\* So what holds of each subset of which all smaller ones have it holds of all.
LEMMA SubsetInduction ==
    ASSUME NEW S, IsFiniteSet(S), NEW Good,
           \A T \in SUBSET S : (\A U \in SUBSET T : U # T => U \in Good) => T \in Good
    PROVE  \A T \in SUBSET S : T \in Good
<1> SUFFICES ASSUME NEW T \in SUBSET S, T \notin Good PROVE FALSE
    OBVIOUS
<1> DEFINE Bad == (SUBSET S) \ Good
<1>1. Bad \subseteq SUBSET S /\ Bad # {}
    OBVIOUS
<1>2. \E V \in Bad : \A U \in Bad : U \subseteq V => U = V
  <2> HIDE DEF Bad
  <2> QED
      BY <1>1, SmallestSubset
<1>3. PICK V \in Bad : \A U \in Bad : U \subseteq V => U = V
    BY <1>2
<1>4. \A U \in SUBSET V : U # V => U \in Good
    BY <1>3
<1> QED
    BY <1>3, <1>4

-----------------------------------------------------------------------------
(* The recursive function behind a sum                                        *)

\* The element a fold takes next.
First(T) == CHOOSE x \in T : TRUE

\* g adds up f over the subsets of S.
AddsUp(f, S, g) ==
    g = [T \in SUBSET S |-> IF T = {} THEN 0 ELSE f[First(T)] + g[T \ {First(T)}]]

LEMMA FirstIsMember ==
    ASSUME NEW T, T # {} PROVE First(T) \in T
  BY DEF First

LEMMA SumIsChosen ==
    ASSUME NEW f, NEW S
    PROVE  SumFunctionOnSet(f, S) = (CHOOSE g : AddsUp(f, S, g))[S]
  BY DEF SumFunctionOnSet, FoldFunctionOnSet, MapThenFoldSet, AddsUp, First

LEMMA AddsUpAt ==
    ASSUME NEW f, NEW S, NEW g, AddsUp(f, S, g)
    PROVE  /\ g[{}] = 0
           /\ \A T \in SUBSET S : T # {} => g[T] = f[First(T)] + g[T \ {First(T)}]
<1>1. \A T \in SUBSET S : g[T] = IF T = {} THEN 0 ELSE f[First(T)] + g[T \ {First(T)}]
    BY DEF AddsUp
<1> QED
    BY <1>1

\* Two such functions agree where both are defined.
LEMMA AddsUpOnce ==
    ASSUME NEW f, NEW S, IsFiniteSet(S), NEW T \in SUBSET S, NEW g, NEW h,
           AddsUp(f, S, g), AddsUp(f, T, h)
    PROVE  \A U \in SUBSET T : g[U] = h[U]
<1> DEFINE Good == {U \in SUBSET T : g[U] = h[U]}
<1>1. IsFiniteSet(T)
    BY FS_Subset
<1>2. ASSUME NEW U \in SUBSET T, \A V \in SUBSET U : V # U => V \in Good
      PROVE  U \in Good
  <2>1. CASE U = {}
      BY <2>1, AddsUpAt
  <2>2. CASE U # {}
    <3>1. First(U) \in U
        BY <2>2, FirstIsMember
    <3>2. U \ {First(U)} \in Good
        BY <1>2, <3>1
    <3>3. U \in SUBSET S
        OBVIOUS
    <3>4. g[U] = f[First(U)] + g[U \ {First(U)}]
        BY <2>2, <3>3, AddsUpAt
    <3>5. h[U] = f[First(U)] + h[U \ {First(U)}]
        BY <2>2, AddsUpAt
    <3> QED
        BY <3>2, <3>4, <3>5
  <2> QED
      BY <2>1, <2>2
<1>3. \A U \in SUBSET T : U \in Good
  <2> HIDE DEF Good
  <2> QED
      BY <1>1, <1>2, SubsetInduction
<1> QED
    BY <1>3

\* There is one for every finite set.
LEMMA AddsUpExists ==
    ASSUME NEW f, NEW S, IsFiniteSet(S)
    PROVE  \E g : AddsUp(f, S, g)
<1> DEFINE Good == {T \in SUBSET S : \E g : AddsUp(f, T, g)}
           Adding(U) == CHOOSE g : AddsUp(f, U, g)
<1>1. ASSUME NEW T \in SUBSET S, \A U \in SUBSET T : U # T => U \in Good
      PROVE  T \in Good
  <2> DEFINE Smaller(U) == IF U = {} THEN 0
                           ELSE f[First(U)] + Adding(U \ {First(U)})[U \ {First(U)}]
             h == [U \in SUBSET T |-> Smaller(U)]
  <2>1. ASSUME NEW U \in SUBSET T, U # T PROVE AddsUp(f, U, Adding(U))
      BY <1>1, <2>1
  <2>2. ASSUME NEW U \in SUBSET T, U # {}
        PROVE  h[U \ {First(U)}] = Adding(U \ {First(U)})[U \ {First(U)}]
    <3> DEFINE V == U \ {First(U)}
               W == V \ {First(V)}
    <3>1. First(U) \in U /\ V \in SUBSET T /\ V # T
        BY <2>2, FirstIsMember
    <3>2. AddsUp(f, V, Adding(V))
        BY <2>1, <3>1
    <3>3. CASE V = {}
        BY <3>1, <3>2, <3>3, AddsUpAt
    <3>4. CASE V # {}
      <4>1. First(V) \in V /\ W \in SUBSET V /\ W \in SUBSET T /\ W # T
          BY <3>1, <3>4, FirstIsMember
      <4>2. AddsUp(f, W, Adding(W))
          BY <2>1, <4>1
      <4>3. IsFiniteSet(V)
          BY <3>1, FS_Subset
      <4>4. Adding(V)[W] = Adding(W)[W]
        <5> HIDE DEF V, W, Adding
        <5> QED
            BY <3>2, <4>1, <4>2, <4>3, AddsUpOnce
      <4>5. Adding(V)[V] = f[First(V)] + Adding(V)[W]
        <5>1. V \in SUBSET V
            OBVIOUS
        <5> HIDE DEF V, Adding
        <5> QED
            BY <3>2, <3>4, <5>1, AddsUpAt
      <4>6. h[V] = f[First(V)] + Adding(W)[W]
          BY <3>1, <3>4
      <4> QED
          BY <4>4, <4>5, <4>6
    <3> QED
        BY <3>3, <3>4
  <2>3. h = [U \in SUBSET T |-> IF U = {} THEN 0 ELSE f[First(U)] + h[U \ {First(U)}]]
    <3>1. \A U \in SUBSET T :
             Smaller(U) = IF U = {} THEN 0 ELSE f[First(U)] + h[U \ {First(U)}]
      <4> TAKE U \in SUBSET T
      <4>1. CASE U = {}
          BY <4>1
      <4>2. CASE U # {}
        <5>1. h[U \ {First(U)}] = Adding(U \ {First(U)})[U \ {First(U)}]
            BY <2>2, <4>2
        <5> HIDE DEF h, Adding
        <5> QED
            BY <4>2, <5>1
      <4> QED
          BY <4>1, <4>2
    <3> HIDE DEF Smaller
    <3> QED
        BY <3>1
  <2> HIDE DEF h
  <2>4. AddsUp(f, T, h)
      BY <2>3 DEF AddsUp
  <2> QED
      BY <2>4
<1>2. \A T \in SUBSET S : T \in Good
  <2> HIDE DEF Good
  <2> QED
      BY <1>1, SubsetInduction
<1> QED
    BY <1>2

LEMMA SumAddsUp ==
    ASSUME NEW f, NEW S, IsFiniteSet(S), NEW g, AddsUp(f, S, g)
    PROVE  \A T \in SUBSET S : SumFunctionOnSet(f, T) = g[T]
<1> TAKE T \in SUBSET S
<1>1. IsFiniteSet(T)
    BY FS_Subset
<1> DEFINE h == CHOOSE h : AddsUp(f, T, h)
<1>2. AddsUp(f, T, h)
    BY <1>1, AddsUpExists
<1>3. SumFunctionOnSet(f, T) = h[T]
    BY SumIsChosen
<1> HIDE DEF h
<1> QED
    BY <1>2, <1>3, AddsUpOnce

\* A sum over a nonempty set is one value and the sum of the others.
LEMMA SumUnfolds ==
    ASSUME NEW f, NEW S, IsFiniteSet(S)
    PROVE  /\ SumFunctionOnSet(f, {}) = 0
           /\ S # {} => SumFunctionOnSet(f, S) = f[First(S)] + SumFunctionOnSet(f, S \ {First(S)})
<1>1. PICK g : AddsUp(f, S, g)
    BY AddsUpExists
<1>2. \A T \in SUBSET S : SumFunctionOnSet(f, T) = g[T]
    BY <1>1, SumAddsUp
<1>3. /\ g[{}] = 0
      /\ S # {} => g[S] = f[First(S)] + g[S \ {First(S)}]
  <2>1. S \in SUBSET S
      OBVIOUS
  <2> QED
      BY <1>1, <2>1, AddsUpAt
<1>4. {} \in SUBSET S /\ S \in SUBSET S /\ S \ {First(S)} \in SUBSET S
    OBVIOUS
<1> QED
    BY <1>2, <1>3, <1>4

-----------------------------------------------------------------------------
(* Sums of integers                                                           *)

LEMMA SumType ==
    ASSUME NEW f, NEW S, IsFiniteSet(S), \A x \in S : f[x] \in Int
    PROVE  SumFunctionOnSet(f, S) \in Int
<1> DEFINE Good == {T \in SUBSET S : SumFunctionOnSet(f, T) \in Int}
<1>1. ASSUME NEW T \in SUBSET S, \A U \in SUBSET T : U # T => U \in Good
      PROVE  T \in Good
  <2>1. IsFiniteSet(T)
      BY FS_Subset
  <2>2. CASE T = {}
      BY <2>1, <2>2, SumUnfolds
  <2>3. CASE T # {}
    <3>1. First(T) \in T
        BY <2>3, FirstIsMember
    <3>2. T \ {First(T)} \in Good /\ f[First(T)] \in Int
        BY <1>1, <3>1
    <3>3. SumFunctionOnSet(f, T) = f[First(T)] + SumFunctionOnSet(f, T \ {First(T)})
        BY <2>1, <2>3, SumUnfolds
    <3> QED
        BY <3>2, <3>3
  <2> QED
      BY <2>2, <2>3
<1>2. \A T \in SUBSET S : T \in Good
  <2> HIDE DEF Good
  <2> QED
      BY <1>1, SubsetInduction
<1> QED
    BY <1>2

\* The order does not matter: any element can be taken first.
LEMMA SumTakesOut ==
    ASSUME NEW f, NEW S, IsFiniteSet(S), \A x \in S : f[x] \in Int, NEW x \in S
    PROVE  SumFunctionOnSet(f, S) = f[x] + SumFunctionOnSet(f, S \ {x})
<1> DEFINE Good == {T \in SUBSET S :
                      \A y \in T : SumFunctionOnSet(f, T) = f[y] + SumFunctionOnSet(f, T \ {y})}
<1>1. ASSUME NEW T \in SUBSET S, \A U \in SUBSET T : U # T => U \in Good
      PROVE  T \in Good
  <2> SUFFICES ASSUME NEW y \in T
               PROVE  SumFunctionOnSet(f, T) = f[y] + SumFunctionOnSet(f, T \ {y})
      OBVIOUS
  <2> DEFINE z == First(T)
             V == (T \ {z}) \ {y}
  <2>1. IsFiniteSet(T) /\ IsFiniteSet(V)
      BY FS_Subset
  <2>2. z \in T
      BY FirstIsMember
  <2>3. SumFunctionOnSet(f, T) = f[z] + SumFunctionOnSet(f, T \ {z})
      BY <2>1, SumUnfolds
  <2> HIDE DEF z
  <2>4. CASE z = y
      BY <2>3, <2>4
  <2>5. CASE z # y
    <3>1. T \ {z} \in Good /\ T \ {y} \in Good
        BY <1>1, <2>2
    <3>2. SumFunctionOnSet(f, T \ {z}) = f[y] + SumFunctionOnSet(f, V)
        BY <2>5, <3>1
    <3>3. (T \ {y}) \ {z} = V
        OBVIOUS
    <3>4. SumFunctionOnSet(f, T \ {y}) = f[z] + SumFunctionOnSet(f, V)
        BY <2>2, <2>5, <3>1, <3>3
    <3>5. f[z] \in Int /\ f[y] \in Int /\ SumFunctionOnSet(f, V) \in Int
        BY <2>1, <2>2, SumType
    <3> QED
        BY <2>3, <3>2, <3>4, <3>5
  <2> QED
      BY <2>4, <2>5
<1>2. \A T \in SUBSET S : T \in Good
  <2> HIDE DEF Good
  <2> QED
      BY <1>1, SubsetInduction
<1> QED
    BY <1>2

LEMMA SumAdds ==
    ASSUME NEW f, NEW S, IsFiniteSet(S), NEW x, x \notin S,
           \A y \in S \cup {x} : f[y] \in Int
    PROVE  SumFunctionOnSet(f, S \cup {x}) = f[x] + SumFunctionOnSet(f, S)
<1>1. IsFiniteSet(S \cup {x}) /\ (S \cup {x}) \ {x} = S /\ x \in S \cup {x}
    BY FS_AddElement
<1> QED
    BY <1>1, SumTakesOut

\* A smaller value everywhere gives a smaller sum, and equal ones an equal one.
LEMMA SumOrder ==
    ASSUME NEW S, IsFiniteSet(S), NEW f, NEW g,
           \A x \in S : f[x] \in Int /\ g[x] \in Int /\ f[x] <= g[x]
    PROVE  SumFunctionOnSet(f, S) <= SumFunctionOnSet(g, S)
<1> DEFINE Good == {T \in SUBSET S : SumFunctionOnSet(f, T) <= SumFunctionOnSet(g, T)}
<1>1. ASSUME NEW T \in SUBSET S, \A U \in SUBSET T : U # T => U \in Good
      PROVE  T \in Good
  <2>1. IsFiniteSet(T)
      BY FS_Subset
  <2>2. CASE T = {}
    <3>1. SumFunctionOnSet(f, {}) = 0
        BY <2>1, <2>2, SumUnfolds
    <3>2. SumFunctionOnSet(g, {}) = 0
        BY <2>1, <2>2, SumUnfolds
    <3> QED
        BY <2>2, <3>1, <3>2
  <2>3. CASE T # {}
    <3> DEFINE z == First(T)
               V == T \ {z}
    <3>1. z \in T
        BY <2>3, FirstIsMember
    <3>2. V \in Good
        BY <1>1, <3>1
    <3>3. SumFunctionOnSet(f, T) = f[z] + SumFunctionOnSet(f, V)
        BY <2>1, <2>3, SumUnfolds
    <3>4. SumFunctionOnSet(g, T) = g[z] + SumFunctionOnSet(g, V)
        BY <2>1, <2>3, SumUnfolds
    <3>5. IsFiniteSet(V) /\ \A x \in V : f[x] \in Int /\ g[x] \in Int
        BY <2>1, FS_Subset
    <3>6. SumFunctionOnSet(f, V) \in Int /\ SumFunctionOnSet(g, V) \in Int
        BY <3>5, SumType
    <3>7. f[z] \in Int /\ g[z] \in Int /\ f[z] <= g[z]
        BY <3>1
    <3>8. SumFunctionOnSet(f, V) <= SumFunctionOnSet(g, V)
        BY <3>2
    <3> HIDE DEF z, V
    <3> QED
        BY <3>3, <3>4, <3>6, <3>7, <3>8
  <2> QED
      BY <2>2, <2>3
<1>2. \A T \in SUBSET S : T \in Good
  <2> HIDE DEF Good
  <2> QED
      BY <1>1, SubsetInduction
<1> QED
    BY <1>2

LEMMA SumSame ==
    ASSUME NEW S, IsFiniteSet(S), NEW f, NEW g, \A x \in S : f[x] = g[x]
    PROVE  SumFunctionOnSet(f, S) = SumFunctionOnSet(g, S)
<1> DEFINE Good == {T \in SUBSET S : SumFunctionOnSet(f, T) = SumFunctionOnSet(g, T)}
<1>1. ASSUME NEW T \in SUBSET S, \A U \in SUBSET T : U # T => U \in Good
      PROVE  T \in Good
  <2>1. IsFiniteSet(T)
      BY FS_Subset
  <2>2. CASE T = {}
      BY <2>1, <2>2, SumUnfolds
  <2>3. CASE T # {}
    <3>1. First(T) \in T
        BY <2>3, FirstIsMember
    <3>2. T \ {First(T)} \in Good /\ f[First(T)] = g[First(T)]
        BY <1>1, <3>1
    <3>3. SumFunctionOnSet(f, T) = f[First(T)] + SumFunctionOnSet(f, T \ {First(T)})
        BY <2>1, <2>3, SumUnfolds
    <3>4. SumFunctionOnSet(g, T) = g[First(T)] + SumFunctionOnSet(g, T \ {First(T)})
        BY <2>1, <2>3, SumUnfolds
    <3> QED
        BY <3>2, <3>3, <3>4
  <2> QED
      BY <2>2, <2>3
<1>2. \A T \in SUBSET S : T \in Good
  <2> HIDE DEF Good
  <2> QED
      BY <1>1, SubsetInduction
<1> QED
    BY <1>2

\* If no value rises but one, and that by at most d, the sum rises by at most d.
LEMMA SumWithin ==
    ASSUME NEW S, IsFiniteSet(S), NEW f, NEW g, NEW x \in S, NEW d \in Int,
           \A y \in S : f[y] \in Int /\ g[y] \in Int,
           \A y \in S \ {x} : f[y] <= g[y],
           f[x] <= g[x] + d
    PROVE  SumFunctionOnSet(f, S) <= SumFunctionOnSet(g, S) + d
<1> DEFINE V == S \ {x}
<1>1. IsFiniteSet(V)
    BY FS_Subset
<1>2. SumFunctionOnSet(f, S) = f[x] + SumFunctionOnSet(f, V)
    BY SumTakesOut
<1>3. SumFunctionOnSet(g, S) = g[x] + SumFunctionOnSet(g, V)
    BY SumTakesOut
<1>4. SumFunctionOnSet(f, V) <= SumFunctionOnSet(g, V)
    BY <1>1, SumOrder
<1>5. SumFunctionOnSet(f, V) \in Int /\ SumFunctionOnSet(g, V) \in Int
    BY <1>1, SumType
<1>6. f[x] \in Int /\ g[x] \in Int
    OBVIOUS
<1> HIDE DEF V
<1> QED
    BY <1>2, <1>3, <1>4, <1>5, <1>6

\* The sum over a part of some natural numbers is not greater.
LEMMA SumOfPart ==
    ASSUME NEW S, IsFiniteSet(S), NEW T \in SUBSET S, NEW f, \A x \in S : f[x] \in Nat
    PROVE  SumFunctionOnSet(f, T) <= SumFunctionOnSet(f, S)
<1> DEFINE Good == {U \in SUBSET S : SumFunctionOnSet(f, U \cap T) <= SumFunctionOnSet(f, U)}
<1>1. ASSUME NEW U \in SUBSET S, \A V \in SUBSET U : V # U => V \in Good
      PROVE  U \in Good
  <2>1. IsFiniteSet(U) /\ IsFiniteSet(U \cap T) /\ \A x \in U : f[x] \in Int
      BY FS_Subset
  <2>2. CASE U \subseteq T
    <3>1. U \cap T = U
        BY <2>2
    <3>2. SumFunctionOnSet(f, U) \in Int
        BY <2>1, SumType
    <3>3. SumFunctionOnSet(f, U \cap T) <= SumFunctionOnSet(f, U)
      <4>1. SumFunctionOnSet(f, U \cap T) = SumFunctionOnSet(f, U)
          BY <3>1
      <4> QED
          BY <3>2, <4>1
    <3> QED
        BY <3>3
  <2>3. ASSUME NEW x \in U \ T
        PROVE  U \in Good
    <3> DEFINE V == U \ {x}
    <3>1. V \in Good /\ V \cap T = U \cap T
        BY <1>1, <2>3
    <3>2. SumFunctionOnSet(f, U) = f[x] + SumFunctionOnSet(f, V)
        BY <2>1, SumTakesOut
    <3>3. IsFiniteSet(V) /\ \A y \in V : f[y] \in Int
        BY <2>1, FS_Subset
    <3>4. SumFunctionOnSet(f, V) \in Int
        BY <3>3, SumType
    <3>5. SumFunctionOnSet(f, U \cap T) \in Int
        BY <2>1, SumType
    <3>6. f[x] \in Nat /\ SumFunctionOnSet(f, U \cap T) <= SumFunctionOnSet(f, V)
        BY <3>1
    <3>7. SumFunctionOnSet(f, U \cap T) <= SumFunctionOnSet(f, U)
      <4> HIDE DEF V, Good
      <4> QED
          BY <3>2, <3>4, <3>5, <3>6
    <3> QED
        BY <3>7
  <2> QED
      BY <2>2, <2>3
<1>2. \A U \in SUBSET S : U \in Good
  <2> HIDE DEF Good
  <2> QED
      BY <1>1, SubsetInduction
<1>3. S \cap T = T
    OBVIOUS
<1> QED
    BY <1>2, <1>3

-----------------------------------------------------------------------------
(* Least elements                                                             *)

\* Among some natural numbers there is a least one.
LEMMA LeastNatural ==
    ASSUME NEW Some, Some \subseteq Nat, Some # {}
    PROVE  \E n \in Some : \A m \in Some : n <= m
<1>1. PICK n \in Some : \A m \in Some : ~ (<<m, n>> \in OpToRel(<, Nat))
    BY NatLessThanWellFounded, WFMin
<1>2. \A m \in Some : m \in Nat /\ n \in Nat /\ (m < n => <<m, n>> \in OpToRel(<, Nat))
    BY DEF OpToRel
<1>3. \A m \in Some : m \in Nat /\ n \in Nat /\ ~ (m < n)
    BY <1>1, <1>2
<1> QED
    BY <1>3
=============================================================================
