-------------------------------- MODULE Sums --------------------------------
(***************************************************************************)
(* Facts about sums over finite sets, as the properties of the accounting  *)
(* state them: Total is MapThenSumSet of the community modules, a fold     *)
(* that takes the elements of a set in an order of its own choosing.       *)
(*                                                                         *)
(* Induction is over the subsets of a finite set, which inclusion orders   *)
(* well: a set of subsets that contains each subset all of whose proper    *)
(* subsets it contains has all of them (SubsetInduction).                  *)
(***************************************************************************)
EXTENDS FiniteSetsExt, FiniteSetTheorems, WellFoundedInduction, TLAPS

\* The sum of F[x] over the x of S.
Total(F, S) == MapThenSumSet(LAMBDA x : F[x], S)

LEMMA SubsetInduction ==
  ASSUME NEW S, IsFiniteSet(S), NEW C,
         \A T \in SUBSET S : (\A U \in SUBSET T : U # T => U \in C) => T \in C
  PROVE  SUBSET S \subseteq C
<1> DEFINE D == {T \in SUBSET S : T \notin C}
<1> SUFFICES ASSUME D # {} PROVE FALSE
  OBVIOUS
<1>1. IsWellFoundedOn(StrictSubsetOrdering(S), SUBSET S)
  <2>1. FiniteSubsetsOf(S) = SUBSET S
    BY FS_FiniteSubsetsOfFinite
  <2>2. IsWellFoundedOn(StrictSubsetOrdering(S), FiniteSubsetsOf(S))
    BY FS_StrictSubsetOrderingWellFounded
  <2> QED
    BY <2>1, <2>2
<1>2. PICK T \in D : \A U \in D : <<U, T>> \notin StrictSubsetOrdering(S)
  <2>1. D \subseteq SUBSET S
    OBVIOUS
  <2> HIDE DEF D
  <2> QED
    BY <1>1, <2>1, WFMin
<1>3. \A U \in SUBSET T : U # T => U \in C
  BY <1>2 DEF StrictSubsetOrdering
<1> QED
  BY <1>2, <1>3

-----------------------------------------------------------------------------
(* The fold computes a function on the subsets of the set, which exists    *)
(* and gives the same sums whatever larger set it is taken on.             *)

\* The element that the fold takes first.
First(s) == CHOOSE x \in s : TRUE
SumOf(F, g, s) == IF s = {} THEN 0 ELSE F[First(s)] + g[s \ {First(s)}]
IsSum(F, S, g) == g = [s \in SUBSET S |-> SumOf(F, g, s)]

LEMMA FirstIn == \A s : s # {} => First(s) \in s
BY DEF First

LEMMA SumsAgree ==
  ASSUME NEW F, NEW S, NEW T, IsFiniteSet(S), NEW g, NEW h,
         IsSum(F, S, g), IsSum(F, T, h)
  PROVE  \A s \in SUBSET S : s \subseteq T => g[s] = h[s]
<1> DEFINE C == {s \in SUBSET S : s \subseteq T => g[s] = h[s]}
<1>1. ASSUME NEW s \in SUBSET S, \A u \in SUBSET s : u # s => u \in C, s \subseteq T
      PROVE  g[s] = h[s]
  <2>1. g[s] = SumOf(F, g, s) /\ h[s] = SumOf(F, h, s)
    BY <1>1, Zenon DEF IsSum
  <2>2. CASE s = {}
    BY <2>1, <2>2 DEF SumOf
  <2>3. CASE s # {}
    <3> DEFINE u == s \ {First(s)}
    <3>1. u \in SUBSET s /\ u # s /\ u \subseteq T
      BY <1>1, <2>3, FirstIn
    <3>2. g[u] = h[u]
      BY <1>1, <3>1
    <3> QED
      BY <2>1, <2>3, <3>2 DEF SumOf
  <2> QED
    BY <2>2, <2>3
<1>2. SUBSET S \subseteq C
  <2>1. \A s \in SUBSET S : (\A u \in SUBSET s : u # s => u \in C) => s \in C
    BY <1>1
  <2> HIDE DEF C
  <2> QED
    BY <2>1, SubsetInduction
<1> QED
  BY <1>2

LEMMA SumExists ==
  ASSUME NEW F, NEW S, IsFiniteSet(S)
  PROVE  \E g : IsSum(F, S, g)
<1> DEFINE C == {s \in SUBSET S : \E g : IsSum(F, s, g)}
           Sum(s) == CHOOSE g : IsSum(F, s, g)
<1>1. ASSUME NEW T \in SUBSET S, \A u \in SUBSET T : u # T => u \in C
      PROVE  \E g : IsSum(F, T, g)
  <2> DEFINE below == [s \in SUBSET T |-> Sum(s)[s]]
             g == [s \in SUBSET T |-> SumOf(F, below, s)]
  <2>1. ASSUME NEW s \in SUBSET T, s # T
        PROVE  IsSum(F, s, Sum(s))
    BY <1>1, <2>1
  <2>2. ASSUME NEW s \in SUBSET T, s # T
        PROVE  g[s] = below[s]
    <3>1. below[s] = SumOf(F, Sum(s), s)
      BY <2>1, <2>2, Zenon DEF IsSum
    <3>2. CASE s = {}
      BY <3>1, <3>2 DEF SumOf
    <3>3. CASE s # {}
      <4> DEFINE u == s \ {First(s)}
      <4>1. u \in SUBSET s /\ u \in SUBSET T /\ u # T /\ IsFiniteSet(s)
        BY <2>2, <3>3, FirstIn, FS_Subset
      <4>2. IsSum(F, s, Sum(s)) /\ IsSum(F, u, Sum(u))
        BY <2>1, <2>2, <4>1
      <4> HIDE DEF Sum
      <4>3. Sum(s)[u] = Sum(u)[u]
        <5> HIDE DEF u
        <5>1. ASSUME NEW a, NEW b, IsSum(F, s, a), IsSum(F, u, b)
              PROVE  a[u] = b[u]
          BY <4>1, <5>1, SumsAgree
        <5> QED
          BY <4>2, <5>1
      <4>4. below[u] = Sum(s)[u]
        BY <4>1, <4>3
      <4> QED
        BY <2>2, <3>1, <3>3, <4>4 DEF SumOf
    <3> QED
      BY <3>2, <3>3
  <2>3. ASSUME NEW s \in SUBSET T
        PROVE  SumOf(F, below, s) = SumOf(F, g, s)
    <3>1. CASE s = {}
      BY <3>1 DEF SumOf
    <3>2. CASE s # {}
      <4> DEFINE u == s \ {First(s)}
      <4>1. u \in SUBSET T /\ u # T
        BY <3>2, FirstIn
      <4>2. g[u] = below[u]
        BY <2>2, <4>1
      <4> HIDE DEF g, below
      <4> QED
        BY <3>2, <4>2 DEF SumOf
    <3> QED
      BY <3>1, <3>2
  <2>4. g = [s \in SUBSET T |-> SumOf(F, g, s)]
    <3> HIDE DEF below
    <3> QED
      BY <2>3
  <2> HIDE DEF g
  <2> QED
    BY <2>4 DEF IsSum
<1>2. SUBSET S \subseteq C
  <2>1. \A T \in SUBSET S : (\A u \in SUBSET T : u # T => u \in C) => T \in C
    BY <1>1
  <2> HIDE DEF C
  <2> QED
    BY <2>1, SubsetInduction
<1> QED
  BY <1>2

LEMMA TotalIsSum ==
  ASSUME NEW F, NEW S, IsFiniteSet(S)
  PROVE  \E g : IsSum(F, S, g) /\ \A T \in SUBSET S : Total(F, T) = g[T]
<1>1. PICK g : IsSum(F, S, g)
  BY SumExists
<1>2. ASSUME NEW T \in SUBSET S
      PROVE  Total(F, T) = g[T]
  <2>1. IsFiniteSet(T)
    BY FS_Subset
  <2> DEFINE Sum == CHOOSE h : IsSum(F, T, h)
  <2>2. Total(F, T) = Sum[T]
    BY Zenon DEF Total, MapThenSumSet, MapThenFoldSet, IsSum, SumOf, First
  <2>3. IsSum(F, T, Sum)
    BY <2>1, SumExists
  <2> HIDE DEF Sum
  <2>4. ASSUME NEW h, IsSum(F, T, h)
        PROVE  h[T] = g[T]
    BY <1>1, <2>1, <2>4, SumsAgree
  <2> QED
    BY <2>2, <2>3, <2>4
<1> QED
  BY <1>1, <1>2

-----------------------------------------------------------------------------
\* A sum is one element and the sum of the rest: the first, ...
LEMMA TotalFirst ==
  ASSUME NEW F, NEW S, IsFiniteSet(S)
  PROVE  Total(F, S) = IF S = {} THEN 0 ELSE F[First(S)] + Total(F, S \ {First(S)})
<1>1. PICK g : IsSum(F, S, g) /\ \A T \in SUBSET S : Total(F, T) = g[T]
  BY TotalIsSum
<1>2. g[S] = SumOf(F, g, S)
  BY <1>1, Zenon DEF IsSum
<1>3. Total(F, S) = g[S] /\ Total(F, S \ {First(S)}) = g[S \ {First(S)}]
  BY <1>1
<1> QED
  BY <1>2, <1>3 DEF SumOf

LEMMA TotalEmpty == ASSUME NEW F PROVE Total(F, {}) = 0
<1>1. IsFiniteSet({})
  BY FS_EmptySet
<1>2. Total(F, {}) = IF {} = {} THEN 0 ELSE F[First({})] + Total(F, {} \ {First({})})
  BY <1>1, TotalFirst
<1> QED
  BY <1>2

LEMMA TotalInt ==
  ASSUME NEW F, NEW S, IsFiniteSet(S), \A x \in S : F[x] \in Int
  PROVE  Total(F, S) \in Int
<1> DEFINE C == {s \in SUBSET S : Total(F, s) \in Int}
<1>1. ASSUME NEW T \in SUBSET S, \A u \in SUBSET T : u # T => u \in C
      PROVE  Total(F, T) \in Int
  <2>1. IsFiniteSet(T)
    BY FS_Subset
  <2>2. CASE T = {}
    BY <2>2, TotalEmpty
  <2>3. CASE T # {}
    <3> DEFINE u == T \ {First(T)}
    <3>1. First(T) \in T /\ F[First(T)] \in Int /\ u \in SUBSET T /\ u # T
      BY <2>3, FirstIn
    <3>2. Total(F, u) \in Int
      BY <1>1, <3>1
    <3>3. Total(F, T) = F[First(T)] + Total(F, u)
      BY <2>1, <2>3, TotalFirst
    <3> QED
      BY <3>1, <3>2, <3>3
  <2> QED
    BY <2>2, <2>3
<1>2. SUBSET S \subseteq C
  <2>1. \A T \in SUBSET S : (\A u \in SUBSET T : u # T => u \in C) => T \in C
    BY <1>1
  <2> HIDE DEF C
  <2> QED
    BY <2>1, SubsetInduction
<1> QED
  BY <1>2

\* ... or any other: the order does not matter.
LEMMA TotalRemove ==
  ASSUME NEW F, NEW S, IsFiniteSet(S), \A x \in S : F[x] \in Int, NEW k \in S
  PROVE  Total(F, S) = F[k] + Total(F, S \ {k})
<1> DEFINE C == {s \in SUBSET S : \A x \in s : Total(F, s) = F[x] + Total(F, s \ {x})}
<1>1. ASSUME NEW T \in SUBSET S, \A u \in SUBSET T : u # T => u \in C, NEW x \in T
      PROVE  Total(F, T) = F[x] + Total(F, T \ {x})
  <2> DEFINE f == First(T)
  <2>1. f \in T /\ F[f] \in Int /\ F[x] \in Int
    BY FirstIn
  <2>2. IsFiniteSet(T) /\ IsFiniteSet(T \ {x}) /\ IsFiniteSet(T \ {f})
    BY FS_Subset
  <2>3. Total(F, T) = F[f] + Total(F, T \ {f})
    BY <2>2, TotalFirst
  <2>4. CASE x = f
    BY <2>3, <2>4
  <2>5. CASE x # f
    <3> DEFINE rest == T \ {f, x}
    <3>1. IsFiniteSet(rest) /\ Total(F, rest) \in Int
      <4>1. IsFiniteSet(rest) /\ \A y \in rest : F[y] \in Int
        BY FS_Subset
      <4> QED
        BY <4>1, TotalInt
    <3>2. (T \ {f}) \ {x} = rest /\ (T \ {x}) \ {f} = rest
      OBVIOUS
    <3>3. Total(F, T \ {f}) = F[x] + Total(F, rest)
      <4>1. T \ {f} \in C /\ x \in T \ {f}
        BY <1>1, <2>1, <2>5
      <4> QED
        BY <3>2, <4>1
    <3>4. Total(F, T \ {x}) = F[f] + Total(F, rest)
      <4>1. T \ {x} \in C /\ f \in T \ {x}
        BY <1>1, <2>1, <2>5
      <4> QED
        BY <3>2, <4>1
    <3> HIDE DEF rest, f
    <3> QED
      BY <2>1, <2>3, <3>1, <3>3, <3>4
  <2> QED
    BY <2>4, <2>5
<1>2. SUBSET S \subseteq C
  <2>1. \A T \in SUBSET S : (\A u \in SUBSET T : u # T => u \in C) => T \in C
    BY <1>1
  <2> HIDE DEF C
  <2> QED
    BY <2>1, SubsetInduction
<1> QED
  BY <1>2

-----------------------------------------------------------------------------
\* Larger summands make larger sums.
LEMMA TotalLess ==
  ASSUME NEW F, NEW G, NEW S, IsFiniteSet(S),
         \A x \in S : F[x] \in Int /\ G[x] \in Int /\ F[x] <= G[x]
  PROVE  Total(F, S) <= Total(G, S)
<1> DEFINE C == {s \in SUBSET S : Total(F, s) <= Total(G, s)}
<1>1. ASSUME NEW T \in SUBSET S, \A u \in SUBSET T : u # T => u \in C
      PROVE  Total(F, T) <= Total(G, T)
  <2> DEFINE f == First(T)
             u == T \ {f}
  <2>1. IsFiniteSet(T) /\ IsFiniteSet(u)
    BY FS_Subset
  <2>2. CASE T = {}
    BY <2>2, TotalEmpty
  <2>3. CASE T # {}
    <3>1. f \in T /\ u \in SUBSET T /\ u # T
      BY <2>3, FirstIn
    <3>2. Total(F, u) <= Total(G, u) /\ Total(F, u) \in Int /\ Total(G, u) \in Int
      BY <1>1, <2>1, <3>1, TotalInt
    <3>3. Total(F, T) = F[f] + Total(F, u) /\ Total(G, T) = G[f] + Total(G, u)
      BY <2>1, <2>3, TotalFirst
    <3> HIDE DEF f, u
    <3>4. F[f] \in Int /\ G[f] \in Int /\ F[f] <= G[f]
      BY <3>1
    <3> QED
      BY <3>2, <3>3, <3>4
  <2> QED
    BY <2>2, <2>3
<1>2. SUBSET S \subseteq C
  <2>1. \A T \in SUBSET S : (\A u \in SUBSET T : u # T => u \in C) => T \in C
    BY <1>1
  <2> HIDE DEF C
  <2> QED
    BY <2>1, SubsetInduction
<1> QED
  BY <1>2

\* A sum of natural numbers is one.
LEMMA TotalNat ==
  ASSUME NEW F, NEW S, IsFiniteSet(S), \A x \in S : F[x] \in Nat
  PROVE  Total(F, S) \in Nat
<1> DEFINE C == {s \in SUBSET S : Total(F, s) \in Nat}
<1>1. ASSUME NEW T \in SUBSET S, \A u \in SUBSET T : u # T => u \in C
      PROVE  Total(F, T) \in Nat
  <2>1. IsFiniteSet(T)
    BY FS_Subset
  <2>2. CASE T = {}
    BY <2>2, TotalEmpty
  <2>3. CASE T # {}
    <3> DEFINE u == T \ {First(T)}
    <3>1. First(T) \in T /\ F[First(T)] \in Nat /\ u \in SUBSET T /\ u # T
      BY <2>3, FirstIn
    <3>2. Total(F, u) \in Nat
      BY <1>1, <3>1
    <3>3. Total(F, T) = F[First(T)] + Total(F, u)
      BY <2>1, <2>3, TotalFirst
    <3> QED
      BY <3>1, <3>2, <3>3
  <2> QED
    BY <2>2, <2>3
<1>2. SUBSET S \subseteq C
  <2>1. \A T \in SUBSET S : (\A u \in SUBSET T : u # T => u \in C) => T \in C
    BY <1>1
  <2> HIDE DEF C
  <2> QED
    BY <2>1, SubsetInduction
<1> QED
  BY <1>2

\* A sum grows at least by what one summand grows, if none shrinks.
LEMMA TotalGrows ==
  ASSUME NEW F, NEW G, NEW S, IsFiniteSet(S),
         \A x \in S : F[x] \in Int /\ G[x] \in Int /\ F[x] <= G[x], NEW k \in S
  PROVE  Total(F, S) + (G[k] - F[k]) <= Total(G, S)
<1> DEFINE u == S \ {k}
<1>1. IsFiniteSet(u)
  BY FS_Subset
<1>2. Total(F, u) <= Total(G, u) /\ Total(F, u) \in Int /\ Total(G, u) \in Int
  BY <1>1, TotalLess, TotalInt
<1>3. Total(F, S) = F[k] + Total(F, u) /\ Total(G, S) = G[k] + Total(G, u)
  BY TotalRemove
<1> HIDE DEF u
<1> QED
  BY <1>2, <1>3

\* A sum depends on its summands only, and changes as one of them does.
LEMMA TotalSame ==
  ASSUME NEW F, NEW G, NEW S, IsFiniteSet(S), \A x \in S : F[x] \in Int /\ G[x] = F[x]
  PROVE  Total(G, S) = Total(F, S)
<1>1. \A x \in S : F[x] \in Int /\ G[x] \in Int /\ F[x] <= G[x] /\ G[x] <= F[x]
  OBVIOUS
<1>2. Total(F, S) <= Total(G, S) /\ Total(G, S) <= Total(F, S)
  BY <1>1, TotalLess
<1>3. Total(F, S) \in Int /\ Total(G, S) \in Int
  BY <1>1, TotalInt
<1> QED
  BY <1>2, <1>3

LEMMA TotalChange ==
  ASSUME NEW F, NEW G, NEW S, IsFiniteSet(S),
         \A x \in S : F[x] \in Int /\ G[x] \in Int,
         NEW k \in S, \A x \in S \ {k} : G[x] = F[x]
  PROVE  Total(G, S) = Total(F, S) + (G[k] - F[k])
<1> DEFINE u == S \ {k}
<1>1. IsFiniteSet(u)
  BY FS_Subset
<1>2. Total(G, u) = Total(F, u) /\ Total(F, u) \in Int
  BY <1>1, TotalSame, TotalInt
<1>3. Total(F, S) = F[k] + Total(F, u) /\ Total(G, S) = G[k] + Total(G, u)
  BY TotalRemove
<1> HIDE DEF u
<1> QED
  BY <1>2, <1>3

\* A sum of zeros, and of zeros and one other summand.
LEMMA TotalZero ==
  ASSUME NEW F, NEW S, IsFiniteSet(S), \A x \in S : F[x] = 0
  PROVE  Total(F, S) = 0
<1> DEFINE C == {s \in SUBSET S : Total(F, s) = 0}
<1>1. ASSUME NEW T \in SUBSET S, \A u \in SUBSET T : u # T => u \in C
      PROVE  Total(F, T) = 0
  <2>1. IsFiniteSet(T)
    BY FS_Subset
  <2>2. CASE T = {}
    BY <2>2, TotalEmpty
  <2>3. CASE T # {}
    <3>1. First(T) \in T /\ T \ {First(T)} \in C
      BY <1>1, <2>3, FirstIn
    <3>2. Total(F, T) = F[First(T)] + Total(F, T \ {First(T)})
      BY <2>1, <2>3, TotalFirst
    <3> QED
      BY <3>1, <3>2
  <2> QED
    BY <2>2, <2>3
<1>2. SUBSET S \subseteq C
  <2>1. \A T \in SUBSET S : (\A u \in SUBSET T : u # T => u \in C) => T \in C
    BY <1>1
  <2> HIDE DEF C
  <2> QED
    BY <2>1, SubsetInduction
<1> QED
  BY <1>2

LEMMA TotalOnly ==
  ASSUME NEW F, NEW S, IsFiniteSet(S), NEW k \in S, F[k] \in Int,
         \A x \in S \ {k} : F[x] = 0
  PROVE  Total(F, S) = F[k]
<1>1. IsFiniteSet(S \ {k})
  BY FS_Subset
<1>2. Total(F, S \ {k}) = 0
  BY <1>1, TotalZero
<1>3. Total(F, S) = F[k] + Total(F, S \ {k})
  BY TotalRemove
<1> QED
  BY <1>2, <1>3

\* A sum to which some summands, those of K, bring five more.
LEMMA TotalCount ==
  ASSUME NEW F, NEW G, NEW S, IsFiniteSet(S),
         \A x \in S : F[x] \in Int /\ G[x] \in {F[x], F[x] + 5},
         NEW K, K = {x \in S : G[x] # F[x]}
  PROVE  Total(G, S) = Total(F, S) + 5 * Cardinality(K)
<1> DEFINE C == {s \in SUBSET S : Total(G, s) = Total(F, s) + 5 * Cardinality(s \cap K)}
<1>1. ASSUME NEW T \in SUBSET S, \A u \in SUBSET T : u # T => u \in C
      PROVE  Total(G, T) = Total(F, T) + 5 * Cardinality(T \cap K)
  <2> DEFINE f == First(T)
             u == T \ {f}
  <2>1. IsFiniteSet(T) /\ IsFiniteSet(u) /\ IsFiniteSet(T \cap K)
    BY FS_Subset
  <2>2. CASE T = {}
    <3>1. T \cap K = {} /\ Cardinality({}) = 0
      BY <2>2, FS_EmptySet
    <3>2. Total(F, T) = 0 /\ Total(G, T) = 0
      BY <2>2, TotalEmpty
    <3>3. Cardinality(T \cap K) = 0
      BY <3>1
    <3> QED
      BY <3>2, <3>3
  <2>3. CASE T # {}
    <3>1. f \in T /\ u \in SUBSET T /\ u # T
      BY <2>3, FirstIn
    <3>2. Total(G, u) = Total(F, u) + 5 * Cardinality(u \cap K) /\ Total(F, u) \in Int
      BY <1>1, <2>1, <3>1, TotalInt
    <3>3. Total(F, T) = F[f] + Total(F, u) /\ Total(G, T) = G[f] + Total(G, u)
      BY <2>1, <2>3, TotalFirst
    <3>4. /\ Cardinality(T \cap K) = Cardinality(u \cap K) + (IF f \in K THEN 1 ELSE 0)
          /\ Cardinality(u \cap K) \in Nat
      <4>1. u \cap K = (T \cap K) \ {f} /\ (f \in T \cap K <=> f \in K)
        BY <3>1
      <4> HIDE DEF f, u
      <4>2. Cardinality(T \cap K) \in Nat
        BY <2>1, FS_CardinalityType
      <4>3. /\ IsFiniteSet((T \cap K) \ {f})
            /\ Cardinality((T \cap K) \ {f}) =
                 IF f \in T \cap K THEN Cardinality(T \cap K) - 1 ELSE Cardinality(T \cap K)
        BY <2>1, FS_RemoveElement
      <4>4. Cardinality((T \cap K) \ {f}) \in Nat
        BY <4>3, FS_CardinalityType
      <4> QED
        <5> DEFINE c == Cardinality(T \cap K)
                   d == Cardinality((T \cap K) \ {f})
        <5>1. c \in Nat /\ d \in Nat /\ d = IF f \in K THEN c - 1 ELSE c
          BY <4>1, <4>2, <4>3, <4>4
        <5>2. d = Cardinality(u \cap K)
          BY <4>1
        <5> HIDE DEF c, d
        <5>3. c = d + (IF f \in K THEN 1 ELSE 0)
          BY <5>1
        <5> QED
          BY <5>1, <5>2, <5>3 DEF c
    <3> HIDE DEF f, u
    <3>5. F[f] \in Int /\ G[f] = F[f] + (IF f \in K THEN 5 ELSE 0)
      BY <3>1
    <3> QED
      BY <3>2, <3>3, <3>4, <3>5
  <2> QED
    BY <2>2, <2>3
<1>2. SUBSET S \subseteq C
  <2>1. \A T \in SUBSET S : (\A u \in SUBSET T : u # T => u \in C) => T \in C
    BY <1>1
  <2> HIDE DEF C
  <2> QED
    BY <2>1, SubsetInduction
<1>3. S \cap K = K
  OBVIOUS
<1> QED
  BY <1>2, <1>3

-----------------------------------------------------------------------------
\* A sum of natural numbers is at least the sum of some of them, ...
LEMMA TotalSubset ==
  ASSUME NEW G, NEW T, IsFiniteSet(T), \A y \in T : G[y] \in Nat, NEW U \in SUBSET T
  PROVE  Total(G, U) <= Total(G, T)
<1> DEFINE C == {s \in SUBSET T : Total(G, s \cap U) <= Total(G, s)}
<1>1. ASSUME NEW s \in SUBSET T, \A u \in SUBSET s : u # s => u \in C
      PROVE  Total(G, s \cap U) <= Total(G, s)
  <2> DEFINE f == First(s)
             u == s \ {f}
  <2>1. IsFiniteSet(s) /\ IsFiniteSet(u) /\ IsFiniteSet(s \cap U) /\ IsFiniteSet(u \cap U)
    BY FS_Subset
  <2>2. CASE s = {}
    <3>1. s \cap U = {} /\ Total(G, {}) = 0
      BY <2>2, TotalEmpty
    <3> QED
      BY <2>2, <3>1
  <2>3. CASE s # {}
    <3>1. f \in s /\ u \in SUBSET s /\ u # s
      BY <2>3, FirstIn
    <3>2. Total(G, u \cap U) <= Total(G, u)
      BY <1>1, <3>1
    <3>3. Total(G, u \cap U) \in Nat /\ Total(G, u) \in Nat /\ G[f] \in Nat
      BY <2>1, <3>1, TotalNat
    <3>4. Total(G, s) = G[f] + Total(G, u)
      BY <2>1, <2>3, TotalFirst
    <3>5. CASE f \in U
      <4>1. f \in s \cap U /\ (s \cap U) \ {f} = u \cap U
        BY <3>1, <3>5
      <4>2. \A y \in s \cap U : G[y] \in Int
        OBVIOUS
      <4>3. Total(G, s \cap U) = G[f] + Total(G, (s \cap U) \ {f})
        BY <2>1, <4>1, <4>2, TotalRemove
      <4>4. Total(G, s \cap U) = G[f] + Total(G, u \cap U)
        BY <4>1, <4>3
      <4> HIDE DEF f, u
      <4> QED
        BY <3>2, <3>3, <3>4, <4>4
    <3>6. CASE f \notin U
      <4>1. s \cap U = u \cap U
        BY <3>6
      <4>2. Total(G, s \cap U) = Total(G, u \cap U)
        BY <4>1
      <4> HIDE DEF f, u
      <4> QED
        BY <3>2, <3>3, <3>4, <4>2
    <3> QED
      BY <3>5, <3>6
  <2> QED
    BY <2>2, <2>3
<1>2. SUBSET T \subseteq C
  <2>1. \A s \in SUBSET T : (\A u \in SUBSET s : u # s => u \in C) => s \in C
    BY <1>1
  <2> HIDE DEF C
  <2> QED
    BY <2>1, SubsetInduction
<1>3. T \cap U = U
  OBVIOUS
<1> QED
  BY <1>2, <1>3

\* ... and at least a sum each of whose summands, but for zeros, has one of
\* them of its own that is no smaller.
LEMMA TotalInjection ==
  ASSUME NEW F, NEW G, NEW S, NEW T, IsFiniteSet(S), IsFiniteSet(T),
         \A x \in S : F[x] \in Nat, \A y \in T : G[y] \in Nat, NEW w,
         \A x \in S : F[x] # 0 => w[x] \in T /\ F[x] <= G[w[x]],
         \A x, y \in S : F[x] # 0 /\ F[y] # 0 /\ w[x] = w[y] => x = y
  PROVE  Total(F, S) <= Total(G, T)
<1> DEFINE Image(s) == {w[x] : x \in {y \in s : F[y] # 0}}
           C == {s \in SUBSET S : Total(F, s) <= Total(G, Image(s))}
<1>0. ASSUME NEW s \in SUBSET S
      PROVE  /\ IsFiniteSet(s) /\ Image(s) \in SUBSET T /\ IsFiniteSet(Image(s))
             /\ Total(F, s) \in Nat /\ Total(G, Image(s)) \in Nat
  <2>1. IsFiniteSet(s) /\ Image(s) \in SUBSET T
    BY FS_Subset
  <2>2. IsFiniteSet(Image(s))
    BY <2>1, FS_Subset
  <2>3. Total(G, Image(s)) \in Nat
    BY <2>1, <2>2, TotalNat
  <2> QED
    BY <2>1, <2>2, <2>3, TotalNat
<1>1. ASSUME NEW s \in SUBSET S, \A u \in SUBSET s : u # s => u \in C
      PROVE  Total(F, s) <= Total(G, Image(s))
  <2> DEFINE f == First(s)
             u == s \ {f}
  <2>1. CASE s = {}
    <3>1. Image(s) = {}
      BY <2>1
    <3> HIDE DEF Image
    <3> QED
      BY <2>1, <3>1, TotalEmpty
  <2>2. CASE s # {}
    <3>1. f \in s /\ u \in SUBSET s /\ u # s /\ F[f] \in Nat
      BY <2>2, FirstIn
    <3>2. Total(F, u) <= Total(G, Image(u))
      BY <1>1, <3>1
    <3>3. Total(F, u) \in Nat /\ Total(G, Image(u)) \in Nat
      BY <1>0, <3>1
    <3>4. Total(F, s) = F[f] + Total(F, u)
      BY <1>0, <2>2, TotalFirst
    <3>5. CASE F[f] = 0
      <4>1. Image(s) = Image(u)
        BY <3>1, <3>5
      <4> HIDE DEF Image, f, u
      <4> QED
        BY <3>2, <3>3, <3>4, <3>5, <4>1
    <3>6. CASE F[f] # 0
      <4>1. w[f] \in Image(s) /\ w[f] \in T /\ F[f] <= G[w[f]] /\ G[w[f]] \in Nat
        BY <3>1, <3>6
      <4>2. Image(s) \ {w[f]} = Image(u)
        BY <3>1, <3>6
      <4>3. Total(G, Image(s)) = G[w[f]] + Total(G, Image(u))
        <5>1. IsFiniteSet(Image(s)) /\ Image(s) \in SUBSET T
          BY <1>0
        <5> HIDE DEF Image, f, u
        <5>2. \A y \in Image(s) : G[y] \in Int
          BY <5>1
        <5>3. Total(G, Image(s)) = G[w[f]] + Total(G, Image(s) \ {w[f]})
          BY <4>1, <5>1, <5>2, TotalRemove
        <5> QED
          BY <4>2, <5>3
      <4> HIDE DEF Image, f, u
      <4> QED
        BY <3>1, <3>2, <3>3, <3>4, <4>1, <4>3
    <3> QED
      BY <3>5, <3>6
  <2> QED
    BY <2>1, <2>2
<1>2. SUBSET S \subseteq C
  <2>1. \A s \in SUBSET S : (\A u \in SUBSET s : u # s => u \in C) => s \in C
    BY <1>1
  <2> HIDE DEF C
  <2> QED
    BY <2>1, SubsetInduction
<1>3. Total(F, S) <= Total(G, Image(S)) /\ Total(G, Image(S)) <= Total(G, T)
  <2>1. Total(F, S) <= Total(G, Image(S))
    BY <1>2
  <2>2. Image(S) \in SUBSET T
    BY <1>0
  <2> HIDE DEF Image
  <2> QED
    BY <2>1, <2>2, TotalSubset
<1>4. Total(F, S) \in Nat /\ Total(G, Image(S)) \in Nat /\ Total(G, T) \in Nat
  BY <1>0, TotalNat
<1> HIDE DEF Image
<1> QED
  BY <1>3, <1>4
=============================================================================
