------------------------------ MODULE SetLemmas ------------------------------
(***************************************************************************)
(* Facts about finite sets, sums, orders and sequences that the proofs     *)
(* about the models share.  What a proof by induction would show is shown  *)
(* for a set that is closed under the step: the subsets of a finite set    *)
(* are well-founded by inclusion.                                          *)
(***************************************************************************)
EXTENDS Integers, SequencesExt, FiniteSetTheorems, WellFoundedInduction, TLAPS

-----------------------------------------------------------------------------
(* Induction on the subsets of a finite set                                *)

\* G has a set whenever it has all that is smaller.
GrowsIn(S, G) ==
  \A T \in SUBSET S : (\A U \in SUBSET T : U # T => U \in G) => T \in G

LEMMA SubsetInduction ==
  ASSUME NEW S, IsFiniteSet(S), NEW G, GrowsIn(S, G)
  PROVE  \A T \in SUBSET S : T \in G
<1> DEFINE Rest == (SUBSET S) \ G
<1>1. SUFFICES ASSUME Rest # {} PROVE FALSE
  OBVIOUS
<1> DEFINE R == StrictSubsetOrdering(S)
<1>2. IsWellFoundedOn(R, SUBSET S)
  BY FS_FiniteSubsetsOfFinite, FS_StrictSubsetOrderingWellFounded
<1>3. PICK T \in Rest : \A U \in Rest : ~(<<U, T>> \in R)
  <2> HIDE DEF R
  <2>1. Rest \subseteq SUBSET S
    OBVIOUS
  <2> HIDE DEF Rest
  <2>2. QED
    BY <1>1, <1>2, <2>1, WFMin
<1>4. ASSUME NEW U \in SUBSET T, U # T PROVE U \in G
  BY <1>3, <1>4 DEF StrictSubsetOrdering
<1>5. T \in G
  BY <1>4 DEF GrowsIn
<1>6. QED
  BY <1>5

\* A finite set of numbers has a least one.
LEMMA FiniteSetHasLeast ==
  ASSUME NEW S \in SUBSET Int, IsFiniteSet(S), S # {}
  PROVE  Min(S) \in S /\ \A e \in S : Min(S) <= e
<1> DEFINE Has(T) == T # {} => \E d \in T : \A e \in T : d <= e
           G == {T \in SUBSET S : Has(T)}
<1>1. ASSUME NEW T \in SUBSET S, \A U \in SUBSET T : U # T => U \in G
      PROVE  T \in G
  <2>1. SUFFICES ASSUME T # {} PROVE \E d \in T : \A e \in T : d <= e
    OBVIOUS
  <2>2. PICK x \in T : TRUE
    BY <2>1
  <2>3. CASE T \ {x} = {}
    BY <2>2, <2>3
  <2>4. CASE T \ {x} # {}
    <3>1. PICK d \in T \ {x} : \A e \in T \ {x} : d <= e
      BY <1>1, <2>2, <2>4
    <3>2. d \in Int /\ x \in Int
      BY <2>2, <3>1
    <3>3. CASE d <= x
      BY <3>1, <3>3
    <3>4. CASE ~(d <= x)
      <4>1. ASSUME NEW e \in T PROVE x <= e
        <5>1. e = x \/ e \in T \ {x}
          OBVIOUS
        <5>2. e \in Int
          OBVIOUS
        <5>3. QED
          BY <3>1, <3>2, <3>4, <5>1, <5>2
      <4>2. QED
        BY <2>2, <4>1
    <3>5. QED
      BY <3>3, <3>4
  <2>5. QED
    BY <2>3, <2>4
<1>2. S \in G
  <2>1. GrowsIn(S, G)
    <3> HIDE DEF G
    <3>1. QED
      BY <1>1 DEF GrowsIn
  <2> HIDE DEF G
  <2>2. QED
    BY <2>1, SubsetInduction
<1>3. \E d \in S : \A e \in S : d <= e
  BY <1>2
<1>4. QED
  BY <1>3 DEF Min

-----------------------------------------------------------------------------
(* Sums.  SumOf(f, S) is the sum of f[x] over the elements x of S.         *)

SumOf(f, S) == MapThenSumSet(LAMBDA x : f[x], S)

\* g[T] sums f over T, for all the subsets T of S.
Picked(T) == CHOOSE x \in T : TRUE
Sums(f, S, g) ==
  g = [T \in SUBSET S |-> IF T = {} THEN 0 ELSE f[Picked(T)] + g[T \ {Picked(T)}]]

LEMMA PickedIsIn ==
  ASSUME NEW T, T # {}
  PROVE  Picked(T) \in T /\ T \ {Picked(T)} # T
<1>1. Picked(T) \in T
  BY DEF Picked
<1>2. QED
  BY <1>1

LEMMA SumsAgree ==
  ASSUME NEW f, NEW S, IsFiniteSet(S), NEW V \in SUBSET S,
         NEW g, Sums(f, S, g), NEW h, Sums(f, V, h)
  PROVE  \A T \in SUBSET V : g[T] = h[T]
<1> DEFINE G == {T \in SUBSET V : g[T] = h[T]}
<1>1. ASSUME NEW T \in SUBSET V, \A U \in SUBSET T : U # T => U \in G
      PROVE  T \in G
  <2>1. g[T] = IF T = {} THEN 0 ELSE f[Picked(T)] + g[T \ {Picked(T)}]
    <3>1. T \in SUBSET S
      OBVIOUS
    <3>2. QED
      BY <3>1 DEF Sums
  <2>2. h[T] = IF T = {} THEN 0 ELSE f[Picked(T)] + h[T \ {Picked(T)}]
    BY DEF Sums
  <2>3. T # {} => g[T \ {Picked(T)}] = h[T \ {Picked(T)}]
    BY <1>1, PickedIsIn
  <2>4. QED
    BY <2>1, <2>2, <2>3
<1>2. GrowsIn(V, G)
  <2> HIDE DEF G
  <2>1. QED
    BY <1>1 DEF GrowsIn
<1>3. IsFiniteSet(V)
  BY FS_Subset
<1>4. \A T \in SUBSET V : T \in G
  <2> HIDE DEF G
  <2>1. QED
    BY <1>2, <1>3, SubsetInduction
<1>5. QED
  BY <1>4

LEMMA SumsExist ==
  ASSUME NEW f, NEW S, IsFiniteSet(S)
  PROVE  \E g : Sums(f, S, g)
<1> DEFINE G == {T \in SUBSET S : \E g : Sums(f, T, g)}
           Of(T) == CHOOSE g : Sums(f, T, g)
<1>1. ASSUME NEW T \in SUBSET S, \A U \in SUBSET T : U # T => U \in G
      PROVE  \E g : Sums(f, T, g)
  <2> DEFINE rest(U) == U \ {Picked(U)}
             g == [U \in SUBSET T |-> IF U = {} THEN 0 ELSE f[Picked(U)] + Of(rest(U))[rest(U)]]
  <2>1. ASSUME NEW U \in SUBSET T, U # T
        PROVE  Sums(f, U, Of(U)) /\ IsFiniteSet(U)
    <3>1. \E h : Sums(f, U, h)
      BY <1>1, <2>1
    <3>2. QED
      BY <3>1, FS_Subset
  <2>2. ASSUME NEW U \in SUBSET T, U # T
        PROVE  g[U] = Of(U)[U]
    <3>1. Of(U)[U] = IF U = {} THEN 0 ELSE f[Picked(U)] + Of(U)[rest(U)]
      <4>1. Sums(f, U, Of(U))
        BY <2>1, <2>2
      <4> HIDE DEF Of
      <4>2. QED
        BY <4>1 DEF Sums
    <3>2. CASE U = {}
      BY <3>1, <3>2
    <3>3. CASE U # {}
      <4>1. rest(U) \in SUBSET U /\ rest(U) \in SUBSET T /\ rest(U) # T
        BY <3>3, PickedIsIn
      <4>2. Sums(f, U, Of(U)) /\ Sums(f, rest(U), Of(rest(U))) /\ IsFiniteSet(U)
        BY <2>1, <2>2, <4>1
      <4>3. Of(U)[rest(U)] = Of(rest(U))[rest(U)]
        <5> HIDE DEF Of, rest
        <5>1. QED
          BY <4>1, <4>2, SumsAgree
      <4>4. g[U] = f[Picked(U)] + Of(rest(U))[rest(U)]
        BY <3>3
      <4>5. QED
        BY <3>1, <3>3, <4>3, <4>4
    <3>4. QED
      BY <3>2, <3>3
  <2>3. ASSUME NEW U \in SUBSET T, U # {}
        PROVE  Of(rest(U))[rest(U)] = g[rest(U)]
    <3>1. rest(U) \in SUBSET T /\ rest(U) # T
      BY <2>3, PickedIsIn
    <3>2. QED
      BY <2>2, <3>1
  <2>4. Sums(f, T, g)
    <3>1. g = [U \in SUBSET T |-> IF U = {} THEN 0 ELSE f[Picked(U)] + g[U \ {Picked(U)}]]
      <4>1. \A U \in SUBSET T : (IF U = {} THEN 0 ELSE f[Picked(U)] + Of(rest(U))[rest(U)])
                               = (IF U = {} THEN 0 ELSE f[Picked(U)] + g[U \ {Picked(U)}])
        <5> HIDE DEF Of, g
        <5>1. QED
          BY <2>3 DEF rest
      <4> HIDE DEF Of
      <4>2. QED
        BY <4>1, Zenon
    <3> HIDE DEF g
    <3>2. QED
      BY <3>1 DEF Sums
  <2>5. QED
    BY <2>4
<1>2. GrowsIn(S, G)
  <2>1. \A T \in SUBSET S : (\A U \in SUBSET T : U # T => U \in G) => T \in G
    BY <1>1
  <2> HIDE DEF G
  <2>2. QED
    BY <2>1 DEF GrowsIn
<1>3. S \in G
  <2> HIDE DEF G
  <2>1. QED
    BY <1>2, SubsetInduction
<1>4. QED
  BY <1>3

\* What the operator of the community modules is.
LEMMA SumIsSums ==
  ASSUME NEW f, NEW S, IsFiniteSet(S), NEW g, Sums(f, S, g)
  PROVE  SumOf(f, S) = g[S]
<1> DEFINE Is(h) == h = [T \in SUBSET S |-> IF T = {} THEN 0
                          ELSE f[CHOOSE x \in T : TRUE] + h[T \ {CHOOSE x \in T : TRUE}]]
           h == CHOOSE h : Is(h)
<1>1. SumOf(f, S) = h[S]
  BY DEF SumOf, MapThenSumSet, MapThenFoldSet
<1>2. Is(g)
  BY DEF Sums, Picked
<1>3. Is(h)
  <2> HIDE DEF Is
  <2>1. QED
    BY <1>2
<1>4. Sums(f, S, h)
  <2> HIDE DEF h
  <2>1. QED
    BY <1>3 DEF Sums, Picked
<1>5. h[S] = g[S]
  <2> HIDE DEF h
  <2>1. QED
    BY <1>4, SumsAgree
<1>6. QED
  BY <1>1, <1>5

-----------------------------------------------------------------------------
(* What a sum is                                                           *)

LEMMA SumOfNone ==
  ASSUME NEW f
  PROVE  SumOf(f, {}) = 0
<1>1. IsFiniteSet({})
  BY FS_EmptySet
<1>2. PICK g : Sums(f, {}, g)
  BY <1>1, SumsExist
<1>3. SumOf(f, {}) = g[{}]
  BY <1>1, <1>2, SumIsSums
<1>4. QED
  BY <1>2, <1>3 DEF Sums

LEMMA SumPicks ==
  ASSUME NEW f, NEW S, IsFiniteSet(S), S # {}
  PROVE  SumOf(f, S) = f[Picked(S)] + SumOf(f, S \ {Picked(S)})
<1> DEFINE V == S \ {Picked(S)}
<1>1. V \in SUBSET S /\ IsFiniteSet(V)
  BY FS_Subset
<1>2. PICK g : Sums(f, S, g)
  BY SumsExist
<1>3. PICK h : Sums(f, V, h)
  BY <1>1, SumsExist
<1>4. SumOf(f, S) = g[S] /\ SumOf(f, V) = h[V]
  BY <1>1, <1>2, <1>3, SumIsSums
<1>5. g[V] = h[V]
  <2> HIDE DEF V
  <2>1. QED
    BY <1>1, <1>2, <1>3, SumsAgree
<1>6. g[S] = f[Picked(S)] + g[V]
  BY <1>2 DEF Sums
<1>7. QED
  BY <1>4, <1>5, <1>6

LEMMA SumIsInt ==
  ASSUME NEW S, IsFiniteSet(S), NEW f, \A x \in S : f[x] \in Int
  PROVE  SumOf(f, S) \in Int
<1> DEFINE G == {T \in SUBSET S : SumOf(f, T) \in Int}
<1>1. ASSUME NEW T \in SUBSET S, \A U \in SUBSET T : U # T => U \in G
      PROVE  SumOf(f, T) \in Int
  <2>1. CASE T = {}
    BY <2>1, SumOfNone
  <2>2. CASE T # {}
    <3>1. IsFiniteSet(T)
      BY FS_Subset
    <3>2. Picked(T) \in T /\ T \ {Picked(T)} \in SUBSET T /\ T \ {Picked(T)} # T
      BY <2>2, PickedIsIn
    <3>3. SumOf(f, T \ {Picked(T)}) \in Int /\ f[Picked(T)] \in Int
      BY <1>1, <3>2
    <3>4. SumOf(f, T) = f[Picked(T)] + SumOf(f, T \ {Picked(T)})
      BY <2>2, <3>1, SumPicks
    <3>5. QED
      BY <3>3, <3>4
  <2>3. QED
    BY <2>1, <2>2
<1>2. GrowsIn(S, G)
  <2>1. \A T \in SUBSET S : (\A U \in SUBSET T : U # T => U \in G) => T \in G
    BY <1>1
  <2> HIDE DEF G
  <2>2. QED
    BY <2>1 DEF GrowsIn
<1>3. S \in G
  <2> HIDE DEF G
  <2>1. QED
    BY <1>2, SubsetInduction
<1>4. QED
  BY <1>3

\* Any element may be taken out first.
LEMMA SumWithout ==
  ASSUME NEW S, IsFiniteSet(S), NEW f, \A x \in S : f[x] \in Int, NEW x \in S
  PROVE  SumOf(f, S) = f[x] + SumOf(f, S \ {x})
<1> DEFINE Splits(T) == \A y \in T : SumOf(f, T) = f[y] + SumOf(f, T \ {y})
           G == {T \in SUBSET S : Splits(T)}
<1>1. ASSUME NEW T \in SUBSET S, \A U \in SUBSET T : U # T => U \in G,
             NEW y \in T
      PROVE  SumOf(f, T) = f[y] + SumOf(f, T \ {y})
  <2> DEFINE c == Picked(T)
  <2>1. IsFiniteSet(T) /\ c \in T
    BY FS_Subset, PickedIsIn
  <2>2. SumOf(f, T) = f[c] + SumOf(f, T \ {c})
    BY <2>1, SumPicks
  <2>3. CASE c = y
    BY <2>2, <2>3
  <2>4. CASE c # y
    <3>1. Splits(T \ {c}) /\ Splits(T \ {y})
      <4>1. T \ {c} \in G /\ T \ {y} \in G
        BY <1>1, <2>1
      <4>2. QED
        BY <4>1
    <3> HIDE DEF c
    <3> DEFINE r == SumOf(f, (T \ {y}) \ {c})
    <3>2. SumOf(f, T \ {c}) = f[y] + r
      <4>1. SumOf(f, T \ {c}) = f[y] + SumOf(f, (T \ {c}) \ {y})
        BY <2>4, <3>1
      <4>2. (T \ {c}) \ {y} = (T \ {y}) \ {c}
        OBVIOUS
      <4>3. QED
        BY <4>1, <4>2
    <3>3. SumOf(f, T \ {y}) = f[c] + r
      BY <2>1, <2>4, <3>1
    <3>4. f[c] \in Int /\ f[y] \in Int
      BY <2>1
    <3>5. r \in Int
      <4>1. IsFiniteSet((T \ {y}) \ {c})
        BY <2>1, FS_Subset
      <4>2. QED
        BY <2>1, <4>1, SumIsInt
    <3> HIDE DEF r
    <3>6. QED
      BY <2>2, <3>2, <3>3, <3>4, <3>5
  <2>5. QED
    BY <2>3, <2>4
<1>2. GrowsIn(S, G)
  <2>1. \A T \in SUBSET S : (\A U \in SUBSET T : U # T => U \in G) => T \in G
    BY <1>1
  <2> HIDE DEF G
  <2>2. QED
    BY <2>1 DEF GrowsIn
<1>3. S \in G
  <2> HIDE DEF G
  <2>1. QED
    BY <1>2, SubsetInduction
<1>4. QED
  BY <1>3

\* The sum of what is smaller is smaller.
LEMMA SumIsMonotone ==
  ASSUME NEW S, IsFiniteSet(S), NEW f, NEW g,
         \A x \in S : f[x] \in Int /\ g[x] \in Int /\ f[x] <= g[x]
  PROVE  SumOf(f, S) <= SumOf(g, S)
<1> DEFINE G == {T \in SUBSET S : SumOf(f, T) <= SumOf(g, T)}
<1>1. ASSUME NEW T \in SUBSET S, \A U \in SUBSET T : U # T => U \in G
      PROVE  SumOf(f, T) <= SumOf(g, T)
  <2>1. CASE T = {}
    BY <2>1, SumOfNone
  <2>2. CASE T # {}
    <3> DEFINE V == T \ {Picked(T)}
    <3>1. IsFiniteSet(T) /\ IsFiniteSet(V)
      BY FS_Subset
    <3>2. Picked(T) \in T /\ V \in SUBSET T /\ V # T
      BY <2>2, PickedIsIn
    <3>3. SumOf(f, V) <= SumOf(g, V)
      BY <1>1, <3>2
    <3>4. SumOf(f, V) \in Int /\ SumOf(g, V) \in Int
      BY <3>1, <3>2, SumIsInt
    <3>5. /\ SumOf(f, T) = f[Picked(T)] + SumOf(f, V)
          /\ SumOf(g, T) = g[Picked(T)] + SumOf(g, V)
      BY <2>2, <3>1, SumPicks
    <3>6. f[Picked(T)] \in Int /\ g[Picked(T)] \in Int /\ f[Picked(T)] <= g[Picked(T)]
      BY <3>2
    <3> HIDE DEF V
    <3>7. QED
      BY <3>3, <3>4, <3>5, <3>6
  <2>3. QED
    BY <2>1, <2>2
<1>2. GrowsIn(S, G)
  <2>1. \A T \in SUBSET S : (\A U \in SUBSET T : U # T => U \in G) => T \in G
    BY <1>1
  <2> HIDE DEF G
  <2>2. QED
    BY <2>1 DEF GrowsIn
<1>3. S \in G
  <2> HIDE DEF G
  <2>1. QED
    BY <1>2, SubsetInduction
<1>4. QED
  BY <1>3

\* Only the values on S count.
LEMMA SumIsExtensional ==
  ASSUME NEW S, IsFiniteSet(S), NEW f, NEW g,
         \A x \in S : f[x] \in Int /\ g[x] = f[x]
  PROVE  SumOf(f, S) = SumOf(g, S)
<1>1. SumOf(f, S) <= SumOf(g, S) /\ SumOf(g, S) <= SumOf(f, S)
  <2>1. \A x \in S : f[x] \in Int /\ g[x] \in Int /\ f[x] <= g[x] /\ g[x] <= f[x]
    OBVIOUS
  <2>2. QED
    BY <2>1, SumIsMonotone
<1>2. SumOf(f, S) \in Int /\ SumOf(g, S) \in Int
  BY SumIsInt
<1>3. QED
  BY <1>1, <1>2

\* A change at one point changes the sum as much.
LEMMA SumChangesAtOne ==
  ASSUME NEW S, IsFiniteSet(S), NEW f, NEW g, NEW x \in S,
         \A y \in S : f[y] \in Int /\ g[y] \in Int /\ (y # x => g[y] = f[y])
  PROVE  SumOf(g, S) = SumOf(f, S) + g[x] - f[x]
<1>1. SumOf(f, S) = f[x] + SumOf(f, S \ {x}) /\ SumOf(g, S) = g[x] + SumOf(g, S \ {x})
  BY SumWithout
<1>2. IsFiniteSet(S \ {x})
  BY FS_Subset
<1>3. SumOf(f, S \ {x}) = SumOf(g, S \ {x})
  BY <1>2, SumIsExtensional
<1>4. SumOf(f, S \ {x}) \in Int
  BY <1>2, SumIsInt
<1>5. QED
  BY <1>1, <1>3, <1>4

LEMMA SumChangesAtTwo ==
  ASSUME NEW S, IsFiniteSet(S), NEW f \in [S -> Int], NEW g \in [S -> Int],
         NEW x \in S, NEW y \in S, x # y,
         \A z \in S : z # x /\ z # y => g[z] = f[z]
  PROVE  SumOf(g, S) = SumOf(f, S) + (g[x] - f[x]) + (g[y] - f[y])
<1> DEFINE h == [f EXCEPT ![x] = g[x]]
<1>1. /\ h \in [S -> Int] /\ h[x] = g[x]
      /\ \A z \in S : z # x => h[z] = f[z]
      /\ \A z \in S : z # y => g[z] = h[z]
  OBVIOUS
<1> HIDE DEF h
<1>2. SumOf(h, S) = SumOf(f, S) + h[x] - f[x]
  BY <1>1, SumChangesAtOne
<1>3. SumOf(g, S) = SumOf(h, S) + g[y] - h[y]
  BY <1>1, SumChangesAtOne
<1>4. h[y] = f[y] /\ h[x] = g[x] /\ f[x] \in Int /\ g[x] \in Int /\ f[y] \in Int /\ g[y] \in Int
  BY <1>1
<1>5. SumOf(f, S) \in Int /\ SumOf(h, S) \in Int /\ SumOf(g, S) \in Int
  BY <1>1, SumIsInt
<1>6. QED
  BY <1>2, <1>3, <1>4, <1>5

-----------------------------------------------------------------------------
(* Counting up and ranks                                                   *)

LEMMA CountingUp ==
  ASSUME NEW n \in Nat, NEW G, 0 \in G, \A k \in 0..(n - 1) : k \in G => k + 1 \in G
  PROVE  \A k \in 0..n : k \in G
<1> DEFINE Rest == {k \in 0..n : k \notin G}
<1>1. SUFFICES ASSUME Rest # {} PROVE FALSE
  OBVIOUS
<1>2. IsFiniteSet(Rest) /\ Rest \in SUBSET Int
  <2>1. IsFiniteSet(0..n)
    BY FS_Interval
  <2>2. QED
    BY <2>1, FS_Subset
<1>3. Min(Rest) \in Rest /\ \A k \in Rest : Min(Rest) <= k
  <2> HIDE DEF Rest
  <2>1. QED
    BY <1>1, <1>2, FiniteSetHasLeast
<1> DEFINE m == Min(Rest)
<1>4. m \in 0..n /\ m \notin G /\ \A k \in Rest : m <= k
  BY <1>3
<1> HIDE DEF m
<1>5. m # 0 /\ m - 1 \in 0..(n - 1) /\ m - 1 \in 0..n
  BY <1>4
<1>6. m - 1 \in G
  <2>1. m - 1 \notin Rest
    BY <1>4, <1>5
  <2>2. QED
    BY <1>5, <2>1
<1>7. (m - 1) + 1 \in G
  BY <1>5, <1>6
<1>8. QED
  BY <1>4, <1>7

\* The numbers of a finite set from the greatest to the least, by how many
\* are greater.
GreaterIn(P, i) == Cardinality({j \in P : j > i})
Ranked(P) == [n \in 1..Cardinality(P) |-> CHOOSE i \in P : GreaterIn(P, i) = n - 1]

LEMMA RanksFall ==
  ASSUME NEW P \in SUBSET Int, IsFiniteSet(P), NEW i \in P
  PROVE  /\ GreaterIn(P, i) \in 0..(Cardinality(P) - 1)
         /\ \A k \in P : i < k => GreaterIn(P, k) < GreaterIn(P, i)
<1> DEFINE over(k) == {j \in P : j > k}
<1>1. \A k \in P : over(k) \subseteq P \ {k} /\ IsFiniteSet(over(k)) /\ Cardinality(over(k)) \in Nat
  <2> SUFFICES ASSUME NEW k \in P
               PROVE  over(k) \subseteq P \ {k} /\ IsFiniteSet(over(k)) /\ Cardinality(over(k)) \in Nat
    BY Zenon
  <2>1. over(k) \subseteq P \ {k} /\ over(k) \subseteq P
    OBVIOUS
  <2> HIDE DEF over
  <2>2. QED
    BY <2>1, FS_Subset, FS_CardinalityType
<1>2. IsFiniteSet(P \ {i}) /\ Cardinality(P \ {i}) = Cardinality(P) - 1 /\ Cardinality(P) \in Nat
  BY FS_RemoveElement, FS_CardinalityType
<1>3. Cardinality(over(i)) <= Cardinality(P \ {i})
  <2> HIDE DEF over
  <2>1. QED
    BY <1>1, <1>2, FS_Subset
<1>4. ASSUME NEW k \in P, i < k PROVE Cardinality(over(k)) < Cardinality(over(i))
  <2>1. over(k) \subseteq over(i) /\ k \in over(i) /\ k \notin over(k)
    <3>1. i \in Int /\ k \in Int /\ \A j \in P : j \in Int
      OBVIOUS
    <3>2. \A j \in P : j > k => j > i
      BY <1>4, <3>1
    <3>3. k > i /\ ~(k > k)
      BY <1>4, <3>1
    <3>4. QED
      BY <3>2, <3>3
  <2> HIDE DEF over
  <2>2. Cardinality(over(k)) <= Cardinality(over(i))
          /\ (Cardinality(over(k)) = Cardinality(over(i)) => over(i) = over(k))
    BY <1>1, <2>1, FS_Subset
  <2>3. QED
    BY <1>1, <2>1, <2>2
<1>5. Cardinality(over(i)) \in Nat
  BY <1>1
<1> HIDE DEF over
<1>6. QED
  BY <1>2, <1>3, <1>4, <1>5 DEF GreaterIn, over

LEMMA RankedDescends ==
  ASSUME NEW P \in SUBSET Int, IsFiniteSet(P)
  PROVE  /\ Cardinality(P) \in Nat /\ Ranked(P) \in [1..Cardinality(P) -> P]
         /\ \A n, m \in 1..Cardinality(P) : n < m => Ranked(P)[n] > Ranked(P)[m]
         /\ \A i \in P : \E n \in 1..Cardinality(P) : Ranked(P)[n] = i
<1> DEFINE size == Cardinality(P)
           rank == [i \in P |-> GreaterIn(P, i)]
<1>1. size \in Nat
  BY FS_CardinalityType
<1>2. rank \in [P -> 0..(size - 1)]
  BY RanksFall
<1>3. ASSUME NEW i \in P, NEW k \in P, rank[i] = rank[k] PROVE i = k
  <2>1. GreaterIn(P, i) = GreaterIn(P, k) /\ GreaterIn(P, i) \in Int /\ i \in Int /\ k \in Int
    BY <1>3, RanksFall
  <2>2. ~(GreaterIn(P, k) < GreaterIn(P, i)) /\ ~(GreaterIn(P, i) < GreaterIn(P, k))
    BY <2>1
  <2>3. ~(i < k) /\ ~(k < i)
    BY <2>2, RanksFall
  <2>4. QED
    BY <2>1, <2>3
<1>4. rank \in Surjection(P, 0..(size - 1))
  <2>1. rank \in Injection(P, 0..(size - 1))
    <3> HIDE DEF rank, size
    <3>1. QED
      BY <1>2, <1>3, Zenon DEF Injection, IsInjective
  <2>2. IsFiniteSet(0..(size - 1)) /\ Cardinality(0..(size - 1)) = size
    <3> HIDE DEF size
    <3>1. QED
      BY <1>1, FS_Interval
  <2> HIDE DEF rank
  <2>3. QED
    BY <2>1, <2>2, FS_Injection
<1>5. ASSUME NEW n \in 1..size
      PROVE  Ranked(P)[n] \in P /\ rank[Ranked(P)[n]] = n - 1
  <2>1. n - 1 \in 0..(size - 1)
    <3> HIDE DEF size
    <3>1. QED
      BY <1>1
  <2>2. \E i \in P : GreaterIn(P, i) = n - 1
    BY <1>4, <2>1 DEF Surjection
  <2>3. Ranked(P)[n] = CHOOSE i \in P : GreaterIn(P, i) = n - 1
    BY DEF Ranked
  <2>4. QED
    BY <2>2, <2>3
<1>6. Ranked(P) \in [1..size -> P]
  BY <1>5 DEF Ranked
<1>7. ASSUME NEW n \in 1..size, NEW m \in 1..size, n < m
      PROVE  Ranked(P)[n] > Ranked(P)[m]
  <2> DEFINE i == Ranked(P)[n]
             k == Ranked(P)[m]
  <2>1. i \in P /\ k \in P /\ GreaterIn(P, i) = n - 1 /\ GreaterIn(P, k) = m - 1
    BY <1>5
  <2> HIDE DEF i, k, size
  <2>2. i \in Int /\ k \in Int /\ n \in Int /\ m \in Int
    BY <1>1, <2>1
  <2>3. GreaterIn(P, i) < GreaterIn(P, k)
    BY <1>7, <2>1, <2>2
  <2>4. ~(i < k) /\ i # k
    <3>1. i < k => GreaterIn(P, k) < GreaterIn(P, i)
      BY <2>1, RanksFall
    <3>2. QED
      BY <2>1, <2>2, <2>3, <3>1
  <2>5. i > k
    BY <2>2, <2>4
  <2>6. QED
    BY <2>5 DEF i, k
<1>8. ASSUME NEW i \in P PROVE \E n \in 1..size : Ranked(P)[n] = i
  <2>1. rank[i] + 1 \in 1..size /\ (rank[i] + 1) - 1 = rank[i]
    <3>1. rank[i] \in 0..(size - 1)
      BY <1>2
    <3> HIDE DEF rank, size
    <3>2. QED
      BY <1>1, <3>1
  <2>2. Ranked(P)[rank[i] + 1] = i
    <3>1. Ranked(P)[rank[i] + 1] \in P /\ rank[Ranked(P)[rank[i] + 1]] = rank[i]
      <4> HIDE DEF rank, size
      <4>1. QED
        BY <1>5, <2>1
    <3> HIDE DEF rank
    <3>2. QED
      BY <1>3, <3>1
  <2> HIDE DEF rank, size
  <2>3. QED
    BY <2>1, <2>2
<1>9. QED
  BY <1>1, <1>6, <1>7, <1>8

-----------------------------------------------------------------------------
(* A sequence of copies: r[n] c[n] times, one after another.               *)

Copies(r, c) == [n \in DOMAIN r |-> [k \in 1..c[n] |-> r[n]]]

\* s repeats r[1] to r[n], each at least once, and p tells which is where.
Spread(r, n, s, p) ==
  /\ DOMAIN s = 1..Len(s) /\ Len(s) \in Nat /\ Len(s) >= n
  /\ p \in [1..Len(s) -> 1..n]
  /\ \A x, y \in 1..Len(s) : x <= y => p[x] <= p[y]
  /\ \A k \in 1..n : \E x \in 1..Len(s) : p[x] = k
  /\ \A x \in 1..Len(s) : s[x] = r[p[x]]

\* g[n] joins the first n of the sequences.
Joins(seqs, m, g) ==
  g = [n \in 1..m |-> IF n = 1 THEN seqs[n] ELSE g[n - 1] \o seqs[n]]

LEMMA JoinsExist ==
  ASSUME NEW m \in Nat, NEW seqs
  PROVE  \E g : Joins(seqs, m, g)
<1> DEFINE G == {k \in 0..m : \E g : Joins(seqs, k, g)}
<1>1. 0 \in G
  <2> DEFINE g == [n \in 1..0 |-> 0]
  <2>1. g = [n \in 1..0 |-> IF n = 1 THEN seqs[n] ELSE g[n - 1] \o seqs[n]]
    OBVIOUS
  <2> HIDE DEF g
  <2>2. Joins(seqs, 0, g)
    BY <2>1 DEF Joins
  <2>3. QED
    BY <2>2
<1>2. ASSUME NEW k \in 0..(m - 1), k \in G PROVE k + 1 \in G
  <2>1. PICK h : Joins(seqs, k, h)
    BY <1>2
  <2> DEFINE g == [n \in 1..(k + 1) |->
                     IF n <= k THEN h[n] ELSE IF n = 1 THEN seqs[n] ELSE h[n - 1] \o seqs[n]]
  <2>2. ASSUME NEW n \in 1..(k + 1)
        PROVE  g[n] = IF n = 1 THEN seqs[n] ELSE g[n - 1] \o seqs[n]
    <3>1. CASE n = 1
      <4>1. CASE n <= k
        <5>1. h[n] = seqs[n]
          BY <2>1, <3>1, <4>1 DEF Joins
        <5>2. QED
          BY <3>1, <4>1, <5>1
      <4>2. CASE ~(n <= k)
        BY <3>1, <4>2
      <4>3. QED
        BY <4>1, <4>2
    <3>2. CASE n # 1
      <4>1. n - 1 \in 1..k /\ n - 1 \in 1..(k + 1)
        BY <3>2
      <4>2. g[n - 1] = h[n - 1]
        BY <4>1
      <4>3. n <= k => h[n] = h[n - 1] \o seqs[n]
        <5>1. ASSUME n \in 1..k PROVE h[n] = IF n = 1 THEN seqs[n] ELSE h[n - 1] \o seqs[n]
          <6> HIDE DEF g
          <6>1. QED
            BY <2>1, <5>1 DEF Joins
        <5>2. n <= k => n \in 1..k
          OBVIOUS
        <5>3. QED
          BY <3>2, <5>1, <5>2
      <4>4. g[n] = h[n - 1] \o seqs[n]
        BY <3>2, <4>3
      <4> HIDE DEF g
      <4>5. QED
        BY <3>2, <4>2, <4>4
    <3>3. QED
      BY <3>1, <3>2
  <2>3. g = [n \in 1..(k + 1) |-> g[n]]
    OBVIOUS
  <2> HIDE DEF g
  <2>4. Joins(seqs, k + 1, g)
    BY <2>2, <2>3 DEF Joins
  <2>5. QED
    BY <2>4
<1>3. \A k \in 0..m : k \in G
  <2> HIDE DEF G
  <2>1. QED
    BY <1>1, <1>2, CountingUp
<1>4. QED
  BY <1>3

FirstOnes(r, n) == {r[k] : k \in 1..n}

LEMMA SpreadMore ==
  ASSUME NEW r, NEW n \in Nat \ {0}, NEW s, NEW p, Spread(r, n, s, p), NEW c \in Nat \ {0},
         s \in Seq(FirstOnes(r, n))
  PROVE  LET t == s \o [k \in 1..c |-> r[n + 1]] IN
         t \in Seq(FirstOnes(r, n + 1)) /\ \E q : Spread(r, n + 1, t, q)
<1> DEFINE u == [k \in 1..c |-> r[n + 1]]
           t == s \o u
           l == Len(s)
           q == [x \in 1..(l + c) |-> IF x <= l THEN p[x] ELSE n + 1]
           R == FirstOnes(r, n + 1)
<1>1. u \in Seq(R) /\ s \in Seq(R) /\ Len(u) = c
  <2>1. r[n + 1] \in R /\ FirstOnes(r, n) \subseteq R
    BY DEF FirstOnes
  <2> HIDE DEF R
  <2>2. QED
    BY <2>1
<1>2. t \in Seq(R) /\ Len(t) = l + c /\ DOMAIN t = 1..(l + c) /\ l \in Nat
      /\ \A x \in 1..(l + c) : t[x] = IF x <= l THEN s[x] ELSE u[x - l]
  <2> HIDE DEF u, R
  <2>1. QED
    BY <1>1
<1>3. \A x \in 1..(l + c) : x > l => u[x - l] = r[n + 1]
  <2> HIDE DEF R, l
  <2>1. QED
    BY <1>2
<1>4. /\ l >= n /\ p \in [1..l -> 1..n]
      /\ \A x, y \in 1..l : x <= y => p[x] <= p[y]
      /\ \A k \in 1..n : \E x \in 1..l : p[x] = k
      /\ \A x \in 1..l : s[x] = r[p[x]]
  BY DEF Spread
<1> HIDE DEF u, t, l, R
<1>5. q \in [1..(l + c) -> 1..(n + 1)]
  <2>1. ASSUME NEW x \in 1..(l + c) PROVE q[x] \in 1..(n + 1)
    <3>1. CASE x <= l
      <4>1. x \in 1..l
        BY <1>2, <3>1
      <4>2. p[x] \in 1..n
        BY <1>4, <4>1
      <4>3. QED
        BY <3>1, <4>2
    <3>2. CASE ~(x <= l)
      BY <3>2
    <3>3. QED
      BY <3>1, <3>2
  <2>2. QED
    BY <2>1
<1>6. ASSUME NEW x \in 1..(l + c), NEW y \in 1..(l + c), x <= y PROVE q[x] <= q[y]
  <2>1. x <= l => x \in 1..l /\ p[x] \in 1..n
    BY <1>2, <1>4
  <2>2. y <= l => y \in 1..l /\ p[y] \in 1..n /\ x <= l
    BY <1>2, <1>4, <1>6
  <2>3. x <= l /\ y <= l => p[x] <= p[y]
    BY <1>4, <1>6, <2>1, <2>2
  <2>4. QED
    BY <2>1, <2>2, <2>3
<1>7. ASSUME NEW k \in 1..(n + 1) PROVE \E x \in 1..(l + c) : q[x] = k
  <2>1. CASE k = n + 1
    <3>1. l + 1 \in 1..(l + c) /\ ~(l + 1 <= l)
      BY <1>2
    <3>2. q[l + 1] = k
      BY <2>1, <3>1
    <3>3. QED
      BY <3>1, <3>2
  <2>2. CASE k # n + 1
    <3>1. k \in 1..n
      BY <2>2
    <3>2. PICK x \in 1..l : p[x] = k
      BY <1>4, <3>1
    <3>3. x \in 1..(l + c) /\ q[x] = k
      BY <1>2, <3>2
    <3>4. QED
      BY <3>3
  <2>3. QED
    BY <2>1, <2>2
<1>8. ASSUME NEW x \in 1..(l + c) PROVE t[x] = r[q[x]]
  <2>1. CASE x <= l
    <3>1. x \in 1..l
      BY <1>2, <2>1
    <3>2. t[x] = s[x] /\ q[x] = p[x] /\ s[x] = r[p[x]]
      BY <1>2, <1>4, <2>1, <3>1
    <3>3. QED
      BY <3>2
  <2>2. CASE ~(x <= l)
    <3>1. t[x] = u[x - l] /\ u[x - l] = r[n + 1] /\ q[x] = n + 1
      BY <1>2, <1>3, <2>2
    <3>2. QED
      BY <3>1
  <2>3. QED
    BY <2>1, <2>2
<1>9. l + c \in Nat /\ l + c >= n + 1
  BY <1>2, <1>4
<1> HIDE DEF q
<1>10. Spread(r, n + 1, t, q)
  BY <1>2, <1>5, <1>6, <1>7, <1>8, <1>9 DEF Spread
<1>11. QED
  BY <1>2, <1>10 DEF t, u, R

LEMMA CopiesSpread ==
  ASSUME NEW S, NEW r \in Seq(S), NEW c, \A n \in DOMAIN r : c[n] \in Nat \ {0}
  PROVE  LET F == FlattenSeq(Copies(r, c)) IN
         F \in Seq(S) /\ \E p : Spread(r, Len(r), F, p)
<1> DEFINE seqs == Copies(r, c)
           m == Len(r)
           F == FlattenSeq(seqs)
<1>1. m \in Nat /\ DOMAIN r = 1..m /\ r = [n \in 1..m |-> r[n]] /\ \A n \in 1..m : r[n] \in S
  OBVIOUS
<1>2. /\ seqs \in Seq(Seq(S)) /\ Len(seqs) = m
      /\ \A n \in 1..m : seqs[n] = [k \in 1..c[n] |-> r[n]]
  <2>1. \A n \in 1..m : seqs[n] = [k \in 1..c[n] |-> r[n]]
    BY <1>1 DEF Copies
  <2>2. \A n \in 1..m : [k \in 1..c[n] |-> r[n]] \in Seq(S)
    BY <1>1
  <2>3. seqs = [n \in 1..m |-> [k \in 1..c[n] |-> r[n]]]
    BY <1>1 DEF Copies
  <2> HIDE DEF m, seqs
  <2>4. QED
    BY <1>1, <2>1, <2>2, <2>3
<1>3. CASE m = 0
  <2>1. F = seqs
    <3> HIDE DEF seqs, m
    <3>1. QED
      BY <1>2, <1>3 DEF FlattenSeq
  <2>2. seqs = << >>
    <3> HIDE DEF seqs, m
    <3>1. QED
      BY <1>2, <1>3
  <2> DEFINE p == [x \in 1..0 |-> x]
  <2>3. Spread(r, m, << >>, p)
    <3>1. p \in [1..0 -> 1..0]
      OBVIOUS
    <3> HIDE DEF p, m
    <3>2. QED
      BY <1>3, <3>1 DEF Spread
  <2>4. QED
    BY <2>1, <2>2, <2>3
<1>4. CASE m # 0
  <2> DEFINE Is(g) == g = [n \in 1..m |-> IF n = 1 THEN seqs[n] ELSE g[n - 1] \o seqs[n]]
             g == CHOOSE g : Is(g)
  <2>1. F = g[m]
    <3>1. Len(seqs) # 0 /\ Len(seqs) = m
      BY <1>2, <1>4
    <3> HIDE DEF seqs, m
    <3>2. QED
      BY <3>1 DEF FlattenSeq
  <2>2. Is(g)
    <3>1. \E h : Is(h)
      <4>1. \E h : Joins(seqs, m, h)
        BY <1>1, JoinsExist
      <4>2. QED
        BY <4>1 DEF Joins
    <3> HIDE DEF Is
    <3>2. QED
      BY <3>1
  <2>3. \A n \in 1..m : g[n] = IF n = 1 THEN seqs[n] ELSE g[n - 1] \o seqs[n]
    <3> HIDE DEF g, seqs, m
    <3>1. QED
      BY <2>2
  <2> HIDE DEF g, seqs, m, F
  <2> DEFINE R(n) == FirstOnes(r, n)
             Good(n) == g[n] \in Seq(R(n)) /\ \E p : Spread(r, n, g[n], p)
             H == {k \in 0..m : k = 0 \/ Good(k)}
  <2>4. Good(1)
    <3>1. 1 \in 1..m
      BY <1>1, <1>4
    <3>2. g[1] = [k \in 1..c[1] |-> r[1]] /\ c[1] \in Nat \ {0}
      BY <1>1, <1>2, <2>3, <3>1
    <3>3. r[1] \in R(1)
      BY DEF FirstOnes
    <3> HIDE DEF R
    <3>4. g[1] \in Seq(R(1)) /\ Len(g[1]) = c[1] /\ DOMAIN g[1] = 1..c[1]
      BY <3>2, <3>3
    <3> DEFINE p == [x \in 1..c[1] |-> 1]
    <3>5. p \in [1..Len(g[1]) -> 1..1] /\ \A x \in 1..c[1] : p[x] = 1
      BY <3>4
    <3> HIDE DEF p
    <3>6. Spread(r, 1, g[1], p)
      <4>1. \A x, y \in 1..Len(g[1]) : x <= y => p[x] <= p[y]
        BY <3>4, <3>5
      <4>2. \A k \in 1..1 : \E x \in 1..Len(g[1]) : p[x] = k
        <5>1. 1 \in 1..Len(g[1]) /\ p[1] = 1
          BY <3>2, <3>4, <3>5
        <5>2. \A k \in 1..1 : k = 1
          OBVIOUS
        <5>3. QED
          BY <5>1, <5>2
      <4>3. \A x \in 1..Len(g[1]) : g[1][x] = r[p[x]]
        BY <3>2, <3>4, <3>5
      <4>4. Len(g[1]) \in Nat /\ Len(g[1]) >= 1
        BY <3>2, <3>4
      <4>5. QED
        BY <3>4, <3>5, <4>1, <4>2, <4>3, <4>4 DEF Spread
    <3>7. QED
      BY <3>4, <3>6
  <2>5. ASSUME NEW k \in 0..(m - 1), k \in H PROVE k + 1 \in H
    <3>1. k + 1 \in 0..m
      BY <1>1
    <3>2. CASE k = 0
      <4>1. k + 1 = 1
        BY <3>2
      <4> HIDE DEF Good
      <4>2. QED
        BY <2>4, <3>1, <4>1
    <3>3. CASE k # 0
      <4>1. Good(k) /\ k \in Nat \ {0} /\ k + 1 \in 1..m /\ (k + 1) - 1 = k /\ k + 1 # 1
        <5> HIDE DEF Good
        <5>1. QED
          BY <1>1, <2>5, <3>3
      <4>2. PICK p : Spread(r, k, g[k], p)
        BY <4>1
      <4>3. g[k + 1] = g[k] \o [x \in 1..c[k + 1] |-> r[k + 1]] /\ c[k + 1] \in Nat \ {0}
        <5>1. g[k + 1] = g[(k + 1) - 1] \o seqs[k + 1]
          BY <2>3, <4>1
        <5>2. seqs[k + 1] = [x \in 1..c[k + 1] |-> r[k + 1]]
          BY <1>2, <4>1
        <5>3. c[k + 1] \in Nat \ {0}
          BY <1>1, <4>1
        <5>4. QED
          BY <4>1, <5>1, <5>2, <5>3
      <4>4. g[k] \in Seq(R(k))
        BY <4>1
      <4>5. Good(k + 1)
        <5> DEFINE t == g[k] \o [x \in 1..c[k + 1] |-> r[k + 1]]
        <5>1. t \in Seq(FirstOnes(r, k + 1)) /\ \E q : Spread(r, k + 1, t, q)
          BY <4>1, <4>2, <4>3, <4>4, SpreadMore
        <5>2. g[k + 1] = t
          BY <4>3
        <5> HIDE DEF t
        <5>3. QED
          BY <5>1, <5>2
      <4> HIDE DEF Good
      <4>6. QED
        BY <3>1, <4>5
    <3>4. QED
      BY <3>2, <3>3
  <2>6. m \in H
    <3>1. 0 \in H
      <4> HIDE DEF Good
      <4>1. QED
        BY <1>1
    <3> HIDE DEF H
    <3>2. \A k \in 0..m : k \in H
      BY <1>1, <2>5, <3>1, CountingUp
    <3>3. QED
      BY <1>1, <3>2
  <2>7. Good(m)
    <3> HIDE DEF Good
    <3>1. QED
      BY <1>4, <2>6
  <2>8. F \in Seq(S)
    <3>1. R(m) \subseteq S
      BY <1>1 DEF FirstOnes
    <3>2. F \in Seq(R(m))
      BY <2>1, <2>7
    <3> HIDE DEF R
    <3>3. QED
      BY <3>1, <3>2
  <2>9. QED
    BY <2>1, <2>7, <2>8 DEF F, m, seqs
<1>5. QED
  BY <1>3, <1>4

-----------------------------------------------------------------------------
(* What a sequence is after another was joined to it.                      *)

IsList(s, n, U) == n \in Nat /\ s = [k \in 1..n |-> s[k]] /\ \A k \in 1..n : s[k] \in U

LEMMA SeqFromElements ==
  ASSUME NEW U, NEW s, NEW n, IsList(s, n, U)
  PROVE  s \in Seq(U) /\ Len(s) = n /\ DOMAIN s = 1..n
<1>1. [k \in 1..n |-> s[k]] \in [1..n -> U] /\ n \in Nat
  BY Zenon DEF IsList
<1>2. [1..n -> U] \subseteq Seq(U)
  BY <1>1
<1>3. s \in Seq(U)
  BY <1>1, <1>2, Zenon DEF IsList
<1>4. DOMAIN s = 1..n
  BY Zenon DEF IsList
<1>5. QED
  BY <1>1, <1>3, <1>4

LEMMA SeqOfElements ==
  ASSUME NEW S, NEW U, NEW s \in Seq(S), \A n \in DOMAIN s : s[n] \in U
  PROVE  s \in Seq(U)
<1>1. s = [n \in 1..Len(s) |-> s[n]] /\ Len(s) \in Nat /\ DOMAIN s = 1..Len(s)
  OBVIOUS
<1>2. IsList(s, Len(s), U)
  BY <1>1 DEF IsList
<1>3. QED
  BY <1>2, SeqFromElements

LEMMA Appended ==
  ASSUME NEW S, NEW s \in Seq(S), NEW t \in Seq(S)
  PROVE  /\ s \o t \in Seq(S) /\ Len(s) \in Nat /\ Len(t) \in Nat
         /\ Len(s \o t) = Len(s) + Len(t)
         /\ DOMAIN s = 1..Len(s) /\ DOMAIN t = 1..Len(t) /\ DOMAIN (s \o t) = 1..(Len(s) + Len(t))
         /\ \A i \in 1..Len(s) : (s \o t)[i] = s[i]
         /\ \A i \in 1..(Len(s) + Len(t)) :
              i \notin 1..Len(s) => i - Len(s) \in 1..Len(t) /\ (s \o t)[i] = t[i - Len(s)]
<1>1. s \o t \in Seq(S) /\ Len(s) \in Nat /\ Len(t) \in Nat /\ Len(s \o t) = Len(s) + Len(t)
  OBVIOUS
<1>2. DOMAIN s = 1..Len(s) /\ DOMAIN t = 1..Len(t) /\ DOMAIN (s \o t) = 1..(Len(s) + Len(t))
  OBVIOUS
<1>3. \A i \in 1..Len(s) : (s \o t)[i] = s[i]
  OBVIOUS
<1>4. ASSUME NEW i \in 1..(Len(s) + Len(t)), i \notin 1..Len(s)
      PROVE  i - Len(s) \in 1..Len(t) /\ (s \o t)[i] = t[i - Len(s)]
  BY <1>1, <1>4
<1>5. QED
  BY <1>1, <1>2, <1>3, <1>4

LEMMA Prefix ==
  ASSUME NEW S, NEW s \in Seq(S), NEW k \in Nat, k <= Len(s)
  PROVE  /\ SubSeq(s, 1, k) \in Seq(S) /\ Len(SubSeq(s, 1, k)) = k
         /\ DOMAIN SubSeq(s, 1, k) = 1..k
         /\ \A i \in 1..k : SubSeq(s, 1, k)[i] = s[i]
<1> DEFINE t == SubSeq(s, 1, k)
<1>1. t = [i \in 1..k |-> s[i]]
  OBVIOUS
<1>2. Len(s) \in Nat /\ \A i \in 1..k : i \in 1..Len(s) /\ s[i] \in S
  OBVIOUS
<1> HIDE DEF t
<1>3. t \in Seq(S) /\ Len(t) = k /\ DOMAIN t = 1..k /\ \A i \in 1..k : t[i] = s[i]
  BY <1>1, <1>2
<1>4. QED
  BY <1>3 DEF t

-----------------------------------------------------------------------------
(* What is filtered from a sequence: the elements at some of its places,   *)
(* in their order.                                                         *)

PlacesTo(I, i) == Cardinality(I \cap 1..i)
Chosen(s, I) == [n \in 1..Cardinality(I) |-> s[CHOOSE i \in I : PlacesTo(I, i) = n]]

\* t has the elements of s at the places I, each once, and p tells which is
\* where.
ChosenAt(s, I, t, p) ==
  /\ DOMAIN t = 1..Len(t) /\ Len(t) \in Nat /\ Len(t) = Cardinality(I)
  /\ \A n \in DOMAIN t : p[n] \in I /\ t[n] = s[p[n]]
  /\ \A n, m \in DOMAIN t : p[n] = p[m] => n = m
  /\ \A i \in I : \E n \in DOMAIN t : p[n] = i

LEMMA PlacesRise ==
  ASSUME NEW I \in SUBSET (Nat \ {0}), IsFiniteSet(I), NEW i \in I
  PROVE  /\ PlacesTo(I, i) \in 1..Cardinality(I)
         /\ \A k \in I : i < k => PlacesTo(I, i) < PlacesTo(I, k)
<1> DEFINE to(k) == I \cap 1..k
<1>1. \A k : IsFiniteSet(to(k)) /\ Cardinality(to(k)) \in Nat /\ Cardinality(to(k)) <= Cardinality(I)
  <2> SUFFICES ASSUME NEW k
               PROVE  IsFiniteSet(to(k)) /\ Cardinality(to(k)) \in Nat
                        /\ Cardinality(to(k)) <= Cardinality(I)
    BY Zenon
  <2>1. to(k) \subseteq I
    OBVIOUS
  <2> HIDE DEF to
  <2>2. QED
    BY <2>1, FS_Subset, FS_CardinalityType
<1>2. Cardinality(I) \in Nat
  BY FS_CardinalityType
<1>3. i \in to(i)
  OBVIOUS
<1>4. Cardinality(to(i)) # 0
  <2> HIDE DEF to
  <2>1. QED
    BY <1>1, <1>3, FS_EmptySet
<1>5. ASSUME NEW k \in I, i < k PROVE Cardinality(to(i)) < Cardinality(to(k))
  <2>1. to(i) \subseteq to(k) /\ k \in to(k) /\ k \notin to(i)
    BY <1>5
  <2> HIDE DEF to
  <2>2. Cardinality(to(i)) <= Cardinality(to(k))
          /\ (Cardinality(to(i)) = Cardinality(to(k)) => to(k) = to(i))
    BY <1>1, <2>1, FS_Subset
  <2>3. QED
    BY <1>1, <2>1, <2>2
<1>6. Cardinality(to(i)) \in 1..Cardinality(I)
  <2> HIDE DEF to
  <2>1. QED
    BY <1>1, <1>2, <1>4
<1> HIDE DEF to
<1>7. QED
  BY <1>5, <1>6 DEF PlacesTo, to

LEMMA ChosenIsThere ==
  ASSUME NEW S, NEW s \in Seq(S), NEW I \in SUBSET DOMAIN s
  PROVE  Chosen(s, I) \in Seq(S) /\ \E p : ChosenAt(s, I, Chosen(s, I), p)
<1> DEFINE size == Cardinality(I)
           place == [i \in I |-> PlacesTo(I, i)]
           p == [n \in 1..size |-> CHOOSE i \in I : PlacesTo(I, i) = n]
           t == Chosen(s, I)
<1>1. I \in SUBSET (Nat \ {0}) /\ IsFiniteSet(I) /\ size \in Nat
  <2>1. DOMAIN s = 1..Len(s) /\ Len(s) \in Nat
    OBVIOUS
  <2>2. IsFiniteSet(1..Len(s)) /\ I \subseteq 1..Len(s)
    BY <2>1, FS_Interval
  <2>3. IsFiniteSet(I)
    BY <2>2, FS_Subset
  <2>4. QED
    BY <2>2, <2>3, FS_CardinalityType
<1>2. place \in [I -> 1..size]
  BY <1>1, PlacesRise
<1>3. ASSUME NEW i \in I, NEW k \in I, place[i] = place[k] PROVE i = k
  <2>1. PlacesTo(I, i) = PlacesTo(I, k) /\ i \in Nat /\ k \in Nat /\ PlacesTo(I, i) \in Int
    BY <1>1, <1>3, PlacesRise
  <2>2. ~(PlacesTo(I, i) < PlacesTo(I, k)) /\ ~(PlacesTo(I, k) < PlacesTo(I, i))
    BY <2>1
  <2>3. ~(i < k) /\ ~(k < i)
    BY <1>1, <2>2, PlacesRise
  <2>4. QED
    BY <2>1, <2>3
<1>4. place \in Surjection(I, 1..size)
  <2>1. place \in Injection(I, 1..size)
    <3> HIDE DEF place, size
    <3>1. QED
      BY <1>2, <1>3, Zenon DEF Injection, IsInjective
  <2>2. IsFiniteSet(1..size) /\ Cardinality(1..size) = size
    <3> HIDE DEF size
    <3>1. QED
      BY <1>1, FS_Interval
  <2> HIDE DEF place
  <2>3. QED
    BY <2>1, <2>2, FS_Injection
<1>5. ASSUME NEW n \in 1..size PROVE p[n] \in I /\ PlacesTo(I, p[n]) = n
  <2>1. \E i \in I : PlacesTo(I, i) = n
    BY <1>4 DEF Surjection
  <2>2. p[n] = CHOOSE i \in I : PlacesTo(I, i) = n
    OBVIOUS
  <2> HIDE DEF p
  <2>3. QED
    BY <2>1, <2>2
<1>6. t = [n \in 1..size |-> s[p[n]]]
  BY DEF Chosen
<1> HIDE DEF p, t, size
<1>7. \A n \in 1..size : p[n] \in DOMAIN s /\ s[p[n]] \in S
  BY <1>5
<1>8. t \in Seq(S) /\ DOMAIN t = 1..Len(t) /\ Len(t) = size /\ \A n \in 1..size : t[n] = s[p[n]]
  BY <1>1, <1>6, <1>7
<1>9. ASSUME NEW i \in I PROVE \E n \in 1..size : p[n] = i
  <2>1. place[i] \in 1..size /\ PlacesTo(I, p[place[i]]) = place[i] /\ p[place[i]] \in I
    BY <1>2, <1>5
  <2>2. place[p[place[i]]] = place[i]
    BY <2>1
  <2>3. p[place[i]] = i
    BY <1>3, <2>1, <2>2
  <2> HIDE DEF place
  <2>4. QED
    BY <2>1, <2>3
<1>10. \A n, m \in 1..size : p[n] = p[m] => n = m
  BY <1>5
<1>11. ChosenAt(s, I, t, p)
  BY <1>1, <1>5, <1>8, <1>9, <1>10 DEF ChosenAt, size
<1>12. QED
  BY <1>8, <1>11 DEF t

-----------------------------------------------------------------------------
(* Sequences joined to one: where each of their elements is.               *)

\* The element x of f is the element b[x] of seqs[a[x]].
Placed(seqs, m, f, a, b) ==
  /\ Len(f) \in Nat /\ DOMAIN f = 1..Len(f)
  /\ \A x \in DOMAIN f : a[x] \in 1..m /\ b[x] \in DOMAIN seqs[a[x]] /\ f[x] = seqs[a[x]][b[x]]
  /\ \A x, y \in DOMAIN f : a[x] = a[y] /\ b[x] = b[y] => x = y
  /\ \A n \in 1..m : \A k \in DOMAIN seqs[n] : \E x \in DOMAIN f : a[x] = n /\ b[x] = k

LEMMA PlacedMore ==
  ASSUME NEW S, NEW n \in Nat \ {0}, NEW seqs, NEW f \in Seq(S), NEW a, NEW b,
         Placed(seqs, n, f, a, b), seqs[n + 1] \in Seq(S)
  PROVE  LET t == f \o seqs[n + 1] IN
         t \in Seq(S) /\ \E c, d : Placed(seqs, n + 1, t, c, d)
<1> DEFINE u == seqs[n + 1]
           t == f \o u
           l == Len(f)
           c == [x \in 1..(l + Len(u)) |-> IF x <= l THEN a[x] ELSE n + 1]
           d == [x \in 1..(l + Len(u)) |-> IF x <= l THEN b[x] ELSE x - l]
<1>1. /\ t \in Seq(S) /\ l \in Nat /\ Len(u) \in Nat /\ Len(t) = l + Len(u)
      /\ DOMAIN f = 1..l /\ DOMAIN u = 1..Len(u) /\ DOMAIN t = 1..(l + Len(u))
      /\ \A x \in 1..l : t[x] = f[x]
      /\ \A x \in 1..(l + Len(u)) : x \notin 1..l => x - l \in 1..Len(u) /\ t[x] = u[x - l]
  <2> HIDE DEF u
  <2>1. u \in Seq(S)
    BY DEF u
  <2>2. QED
    BY <2>1, Appended
<1>2. \A x \in 1..(l + Len(u)) : /\ x \in 1..l => c[x] = a[x] /\ d[x] = b[x]
                                 /\ x \notin 1..l => c[x] = n + 1 /\ d[x] = x - l
  <2> HIDE DEF u, l
  <2>1. QED
    BY <1>1
<1> HIDE DEF t, c, d
<1>3. /\ \A x \in 1..l : a[x] \in 1..n /\ b[x] \in DOMAIN seqs[a[x]] /\ f[x] = seqs[a[x]][b[x]]
      /\ \A x, y \in 1..l : a[x] = a[y] /\ b[x] = b[y] => x = y
      /\ \A m \in 1..n : \A k \in DOMAIN seqs[m] : \E x \in 1..l : a[x] = m /\ b[x] = k
  <2>1. DOMAIN f = 1..l
    BY <1>1
  <2> HIDE DEF l
  <2>2. \A x \in 1..l : a[x] \in 1..n /\ b[x] \in DOMAIN seqs[a[x]] /\ f[x] = seqs[a[x]][b[x]]
    BY <2>1 DEF Placed
  <2>3. \A x, y \in 1..l : a[x] = a[y] /\ b[x] = b[y] => x = y
    BY <2>1 DEF Placed
  <2>4. \A m \in 1..n : \A k \in DOMAIN seqs[m] : \E x \in 1..l : a[x] = m /\ b[x] = k
    <3> SUFFICES ASSUME NEW m \in 1..n, NEW k \in DOMAIN seqs[m]
                 PROVE  \E x \in DOMAIN f : a[x] = m /\ b[x] = k
      BY <2>1
    <3>1. \A z \in 1..n : \A y \in DOMAIN seqs[z] : \E x \in DOMAIN f : a[x] = z /\ b[x] = y
      BY DEF Placed
    <3>2. QED
      BY <3>1
  <2>5. QED
    BY <2>2, <2>3, <2>4
<1> HIDE DEF l
<1>4. ASSUME NEW x \in DOMAIN t
      PROVE  c[x] \in 1..(n + 1) /\ d[x] \in DOMAIN seqs[c[x]] /\ t[x] = seqs[c[x]][d[x]]
  <2>1. CASE x \in 1..l
    <3>1. c[x] = a[x] /\ d[x] = b[x] /\ t[x] = f[x]
      BY <1>1, <1>2, <2>1
    <3>2. a[x] \in 1..n /\ b[x] \in DOMAIN seqs[a[x]] /\ f[x] = seqs[a[x]][b[x]]
      BY <1>3, <2>1
    <3>3. QED
      BY <3>1, <3>2
  <2>2. CASE x \notin 1..l
    <3>1. c[x] = n + 1 /\ d[x] = x - l /\ x - l \in DOMAIN u /\ t[x] = u[x - l]
      BY <1>1, <1>2, <2>2
    <3>2. n + 1 \in 1..(n + 1)
      OBVIOUS
    <3>3. QED
      BY <3>1, <3>2
  <2>3. QED
    BY <2>1, <2>2
<1>5. ASSUME NEW x \in DOMAIN t, NEW y \in DOMAIN t, c[x] = c[y], d[x] = d[y] PROVE x = y
  <2>1. \A z \in DOMAIN t : (z \in 1..l <=> c[z] # n + 1)
    <3> TAKE z \in DOMAIN t
    <3>1. CASE z \in 1..l
      <4>1. c[z] \in 1..n
        BY <1>1, <1>2, <1>3, <3>1
      <4>2. QED
        BY <3>1, <4>1
    <3>2. CASE z \notin 1..l
      BY <1>1, <1>2, <3>2
    <3>3. QED
      BY <3>1, <3>2
  <2>2. CASE x \in 1..l /\ y \in 1..l
    <3>1. a[x] = a[y] /\ b[x] = b[y]
      BY <1>1, <1>2, <1>5, <2>2
    <3>2. QED
      BY <1>3, <2>2, <3>1
  <2>3. CASE x \notin 1..l /\ y \notin 1..l
    <3>1. x - l = y - l /\ x \in Int /\ y \in Int
      BY <1>1, <1>2, <1>5, <2>3
    <3>2. QED
      BY <1>1, <3>1
  <2>4. QED
    BY <1>5, <2>1, <2>2, <2>3
<1>6. ASSUME NEW m \in 1..(n + 1), NEW k \in DOMAIN seqs[m]
      PROVE  \E x \in DOMAIN t : c[x] = m /\ d[x] = k
  <2>1. CASE m \in 1..n
    <3>1. PICK x \in 1..l : a[x] = m /\ b[x] = k
      BY <1>3, <2>1
    <3>2. x \in 1..(l + Len(u)) /\ x \in DOMAIN t
      BY <1>1
    <3>3. c[x] = m /\ d[x] = k
      BY <1>2, <3>1, <3>2
    <3>4. QED
      BY <3>2, <3>3
  <2>2. CASE m \notin 1..n
    <3>1. m = n + 1 /\ k \in 1..Len(u)
      BY <1>1, <2>2
    <3> DEFINE x == l + k
    <3>2. x \in 1..(l + Len(u)) /\ x \notin 1..l /\ x - l = k
      <4> HIDE DEF u
      <4>1. QED
        BY <1>1, <3>1
    <3> HIDE DEF x
    <3>3. x \in DOMAIN t /\ c[x] = m /\ d[x] = k
      BY <1>1, <1>2, <3>1, <3>2
    <3>4. QED
      BY <3>3
  <2>3. QED
    BY <2>1, <2>2
<1>7. Len(t) \in Nat /\ DOMAIN t = 1..Len(t)
  BY <1>1
<1>8. Placed(seqs, n + 1, t, c, d)
  BY <1>4, <1>5, <1>6, <1>7 DEF Placed
<1>9. QED
  BY <1>1, <1>8 DEF t

LEMMA FlattenedIsPlaced ==
  ASSUME NEW S, NEW seqs \in Seq(Seq(S))
  PROVE  LET F == FlattenSeq(seqs) IN
         F \in Seq(S) /\ \E a, b : Placed(seqs, Len(seqs), F, a, b)
<1> DEFINE m == Len(seqs)
           F == FlattenSeq(seqs)
<1>1. m \in Nat /\ DOMAIN seqs = 1..m /\ \A n \in 1..m : seqs[n] \in Seq(S)
  OBVIOUS
<1>2. CASE m = 0
  <2>1. F = seqs
    BY <1>2 DEF FlattenSeq
  <2>2. seqs = << >>
    BY <1>2
  <2>3. Placed(seqs, m, << >>, << >>, << >>)
    <3> HIDE DEF m
    <3>1. QED
      BY <1>2 DEF Placed
  <2>4. QED
    BY <2>1, <2>2, <2>3
<1>3. CASE m # 0
  <2> DEFINE Is(g) == g = [n \in 1..m |-> IF n = 1 THEN seqs[n] ELSE g[n - 1] \o seqs[n]]
             g == CHOOSE g : Is(g)
  <2>1. F = g[m]
    BY <1>3 DEF FlattenSeq
  <2>2. Is(g)
    <3>1. \E h : Is(h)
      <4>1. \E h : Joins(seqs, m, h)
        BY <1>1, JoinsExist
      <4>2. QED
        BY <4>1 DEF Joins
    <3> HIDE DEF Is
    <3>2. QED
      BY <3>1
  <2>3. \A n \in 1..m : g[n] = IF n = 1 THEN seqs[n] ELSE g[n - 1] \o seqs[n]
    <3> HIDE DEF g, m
    <3>1. QED
      BY <2>2
  <2> HIDE DEF g, m, F
  <2> DEFINE Good(n) == g[n] \in Seq(S) /\ \E a, b : Placed(seqs, n, g[n], a, b)
             G == {k \in 0..m : k = 0 \/ Good(k)}
  <2>4. Good(1)
    <3>1. 1 \in 1..m
      BY <1>1, <1>3
    <3>2. g[1] = seqs[1] /\ seqs[1] \in Seq(S)
      BY <1>1, <2>3, <3>1
    <3> DEFINE u == seqs[1]
               a == [x \in 1..Len(u) |-> 1]
               b == [x \in 1..Len(u) |-> x]
    <3>3. u \in Seq(S)
      BY <3>2
    <3> HIDE DEF u
    <3>4. Len(u) \in Nat /\ DOMAIN u = 1..Len(u) /\ \A x \in 1..Len(u) : a[x] = 1 /\ b[x] = x
      BY <3>3
    <3> HIDE DEF a, b
    <3>5. Placed(seqs, 1, u, a, b)
      <4>1. \A n \in 1..1 : n = 1
        OBVIOUS
      <4>2. \A x \in DOMAIN u : a[x] \in 1..1 /\ b[x] \in DOMAIN seqs[a[x]] /\ u[x] = seqs[a[x]][b[x]]
        BY <3>4 DEF u
      <4>3. \A x, y \in DOMAIN u : a[x] = a[y] /\ b[x] = b[y] => x = y
        BY <3>4
      <4>4. \A k \in DOMAIN seqs[1] : \E x \in DOMAIN u : a[x] = 1 /\ b[x] = k
        BY <3>4 DEF u
      <4>5. QED
        BY <3>4, <4>1, <4>2, <4>3, <4>4 DEF Placed
    <3>6. QED
      BY <3>2, <3>3, <3>5 DEF u
  <2>5. ASSUME NEW k \in 0..(m - 1), k \in G PROVE k + 1 \in G
    <3>1. k + 1 \in 0..m
      BY <1>1
    <3>2. CASE k = 0
      <4>1. k + 1 = 1
        BY <3>2
      <4> HIDE DEF Good
      <4>2. QED
        BY <2>4, <3>1, <4>1
    <3>3. CASE k # 0
      <4>1. Good(k) /\ k \in Nat \ {0} /\ k + 1 \in 1..m /\ (k + 1) - 1 = k /\ k + 1 # 1
        <5> HIDE DEF Good
        <5>1. QED
          BY <1>1, <2>5, <3>3
      <4>2. PICK a, b : Placed(seqs, k, g[k], a, b)
        BY <4>1
      <4>3. g[k + 1] = g[k] \o seqs[k + 1] /\ seqs[k + 1] \in Seq(S) /\ g[k] \in Seq(S)
        BY <1>1, <2>3, <4>1
      <4>4. Good(k + 1)
        <5> DEFINE t == g[k] \o seqs[k + 1]
        <5>1. t \in Seq(S) /\ \E c, d : Placed(seqs, k + 1, t, c, d)
          BY <4>1, <4>2, <4>3, PlacedMore
        <5>2. g[k + 1] = t
          BY <4>3
        <5> HIDE DEF t
        <5>3. QED
          BY <5>1, <5>2
      <4> HIDE DEF Good
      <4>5. QED
        BY <3>1, <4>4
    <3>4. QED
      BY <3>2, <3>3
  <2>6. m \in G
    <3>1. 0 \in G
      <4> HIDE DEF Good
      <4>1. QED
        BY <1>1
    <3> HIDE DEF G
    <3>2. \A k \in 0..m : k \in G
      BY <1>1, <2>5, <3>1, CountingUp
    <3>3. QED
      BY <1>1, <3>2
  <2>7. Good(m)
    <3> HIDE DEF Good
    <3>1. QED
      BY <1>3, <2>6
  <2>8. QED
    BY <2>1, <2>7 DEF F, m
<1>4. QED
  BY <1>2, <1>3

=============================================================================
