--------------------------- MODULE InductionLemmas ---------------------------
(***************************************************************************)
(* Induction and recursion in a form that needs no operator as parameter:  *)
(* the property is a set, the step of a recursion a function.  Everything  *)
(* rests on one fact, that the natural numbers are well founded.           *)
(***************************************************************************)
EXTENDS Integers, FiniteSets, FiniteSetsExt, FiniteSetTheorems, WellFoundedInduction, TLAPS

----------------------------------------------------------------------------
(* Induction. *)

\* A nonempty set of natural numbers has a least element.
LEMMA LeastNatural ==
  ASSUME NEW T, T \subseteq Nat, T # {}
  PROVE  \E m \in T : \A k \in T : m <= k
<1>1. IsWellFoundedOn(OpToRel(<, Nat), Nat)
  BY NatLessThanWellFounded, Zenon
<1>2. PICK R : IsWellFoundedOn(R, Nat) /\ \A j, k \in Nat : j < k => <<j, k>> \in R
  <2>1. \A j, k \in Nat : j < k => <<j, k>> \in OpToRel(<, Nat)
    BY Zenon DEF OpToRel
  <2>. QED
    BY <1>1, <2>1, Zenon
<1>3. IsWellFoundedOn(R, Nat)
  BY <1>2
<1>4. \E x \in T : \A y \in T : ~(<<y, x>> \in R)
  BY <1>3, WFMin
<1>5. PICK m \in T : \A k \in T : ~(<<k, m>> \in R)
  BY <1>4
<1>6. ASSUME NEW k \in T
      PROVE  m <= k
  <2>1. k \in Nat /\ m \in Nat /\ ~(k < m)
    BY <1>2, <1>5
  <2>. QED
    BY <2>1
<1>. QED
  BY <1>6

\* Induction: a set that contains 0, and with every number the next one,
\* contains all natural numbers.
LEMMA NatSetInduction ==
  ASSUME NEW S, 0 \in S, \A n \in Nat : n \in S => n + 1 \in S
  PROVE  \A n \in Nat : n \in S
<1>. SUFFICES ASSUME NEW n \in Nat, n \notin S
              PROVE  FALSE
  OBVIOUS
<1>. DEFINE T == {k \in Nat : k \notin S}
<1>1. T \subseteq Nat /\ T # {}
  OBVIOUS
<1>2. PICK m \in T : \A k \in T : m <= k
  BY <1>1, LeastNatural
<1>3. m # 0 /\ m \in Nat
  OBVIOUS
<1>4. m - 1 \in Nat /\ m - 1 \notin T
  BY <1>2, <1>3
<1>5. (m - 1) + 1 = m
  BY <1>3
<1>. QED
  BY <1>4, <1>5

\* Induction over a finite set: what holds of the empty set, and with every
\* set of the set with one element more, holds of the set.
LEMMA FiniteSetInduction ==
  ASSUME NEW S, IsFiniteSet(S), NEW X, {} \in X,
         \A T \in SUBSET S : \A x \in S \ T : T \in X => T \cup {x} \in X
  PROVE  S \in X
<1>. DEFINE Y == {n \in Nat : \A T \in SUBSET S : Cardinality(T) = n => T \in X}
<1>1. \A T \in SUBSET S : IsFiniteSet(T) /\ Cardinality(T) \in Nat
  BY FS_Subset, FS_CardinalityType
<1>2. 0 \in Y
  BY <1>1, FS_EmptySet
<1>3. ASSUME NEW n \in Nat, n \in Y
      PROVE  n + 1 \in Y
  <2>1. ASSUME NEW T \in SUBSET S, Cardinality(T) = n + 1
        PROVE  T \in X
    <3>1. T # {}
      BY <2>1, FS_EmptySet
    <3>2. PICK x : x \in T
      BY <3>1
    <3>3. Cardinality(T \ {x}) = n
      <4>1. IsFiniteSet(T) /\ Cardinality(T) = n + 1 /\ x \in T
        BY <1>1, <2>1, <3>2
      <4>2. Cardinality(T \ {x}) = Cardinality(T) - 1
        BY <4>1, FS_RemoveElement
      <4>. QED
        BY <4>1, <4>2
    <3>4. T \ {x} \in X /\ x \in S \ (T \ {x}) /\ T \ {x} \in SUBSET S
      BY <1>3, <3>2, <3>3
    <3>5. (T \ {x}) \cup {x} = T
      BY <3>2
    <3>. QED
      BY <3>4, <3>5
  <2>. QED
    BY <2>1
<1>. HIDE DEF Y
<1>4. \A n \in Nat : n \in Y
  BY <1>2, <1>3, NatSetInduction
<1>5. Cardinality(S) \in Nat /\ S \in SUBSET S
  BY <1>1
<1>. QED
  BY <1>4, <1>5 DEF Y

----------------------------------------------------------------------------
(* Recursion: a function with the given equation exists, so the function   *)
(* that a LET chooses satisfies its equation.                              *)

\* A function defined on an interval by its value at the beginning and a step.
SolvesOnInterval(f, lo, hi, D, a, g) ==
  /\ f \in [lo .. hi -> D]
  /\ f = [k \in lo .. hi |-> IF k = lo THEN a ELSE g[<<k, f[k - 1]>>]]

LEMMA RecursionOnInterval ==
  ASSUME NEW D, NEW a \in D, NEW lo \in Int, NEW hi \in Int,
         NEW g \in [(lo .. hi) \X D -> D]
  PROVE  \E f : SolvesOnInterval(f, lo, hi, D, a, g)
<1>. DEFINE Upto(n) == {k \in lo .. hi : k <= lo + n}
            Solves(f, n) ==
              \A k \in Upto(n) : f[k] = IF k = lo THEN a ELSE g[<<k, f[k - 1]>>]
            X == {n \in Nat : \E f \in [Upto(n) -> D] : Solves(f, n)}
<1>1. 0 \in X
  <2>1. \A k \in Upto(0) : k = lo
    OBVIOUS
  <2>2. [k \in Upto(0) |-> a] \in [Upto(0) -> D] /\ Solves([k \in Upto(0) |-> a], 0)
    BY <2>1
  <2>. QED
    BY <2>2
<1>2. ASSUME NEW n \in Nat, n \in X
      PROVE  n + 1 \in X
  <2>1. PICK f \in [Upto(n) -> D] : Solves(f, n)
    BY <1>2
  <2>. DEFINE h == [k \in Upto(n + 1) |-> IF k <= lo + n THEN f[k] ELSE g[<<k, f[k - 1]>>]]
  <2>2. ASSUME NEW k \in Upto(n + 1)
        PROVE  h[k] \in D /\ h[k] = IF k = lo THEN a ELSE g[<<k, h[k - 1]>>]
    <3>1. CASE k <= lo + n
      <4>1. k \in Upto(n) /\ h[k] = f[k] /\ f[k] \in D
        BY <3>1
      <4>2. CASE k = lo
        BY <4>1, <4>2, <2>1
      <4>3. CASE k # lo
        <5>1. k - 1 \in Upto(n) /\ k - 1 \in Upto(n + 1) /\ k - 1 <= lo + n
          BY <3>1, <4>3
        <5>2. h[k - 1] = f[k - 1]
          BY <5>1
        <5>3. f[k] = g[<<k, f[k - 1]>>]
          BY <2>1, <4>1, <4>3
        <5>. QED
          BY <4>1, <4>3, <5>2, <5>3
      <4>. QED
        BY <4>2, <4>3
    <3>2. CASE ~(k <= lo + n)
      <4>1. k # lo /\ k - 1 \in Upto(n) /\ k - 1 \in Upto(n + 1) /\ k - 1 <= lo + n /\ k \in lo .. hi
        BY <3>2
      <4>2. h[k - 1] = f[k - 1] /\ h[k] = g[<<k, f[k - 1]>>] /\ f[k - 1] \in D
        BY <3>2, <4>1
      <4>3. <<k, f[k - 1]>> \in (lo .. hi) \X D
        BY <4>1, <4>2
      <4>. QED
        BY <4>1, <4>2, <4>3
    <3>. QED
      BY <3>1, <3>2
  <2>. HIDE DEF h
  <2>3. h \in [Upto(n + 1) -> D]
    <3>1. h = [k \in Upto(n + 1) |-> h[k]]
      BY DEF h
    <3>. QED
      BY <2>2, <3>1
  <2>4. Solves(h, n + 1)
    BY <2>2
  <2>5. n + 1 \in Nat
    OBVIOUS
  <2>. HIDE DEF Upto, Solves
  <2>. QED
    BY <2>3, <2>4, <2>5
<1>. HIDE DEF X
<1>3. \A n \in Nat : n \in X
  BY <1>1, <1>2, NatSetInduction
<1>4. PICK n \in Nat : lo + n >= hi
  <2>1. CASE hi >= lo
    <3>1. hi - lo \in Nat /\ lo + (hi - lo) >= hi
      BY <2>1
    <3>. QED
      BY <3>1
  <2>2. CASE hi < lo
    BY <2>2, 0 \in Nat, lo + 0 >= hi
  <2>. QED
    BY <2>1, <2>2
<1>5. Upto(n) = lo .. hi
  BY <1>4
<1>6. PICK f \in [Upto(n) -> D] : Solves(f, n)
  BY <1>3 DEF X
<1>7. f \in [lo .. hi -> D]
  BY <1>5, <1>6
<1>8. f = [k \in lo .. hi |-> IF k = lo THEN a ELSE g[<<k, f[k - 1]>>]]
  <2>1. \A k \in lo .. hi : f[k] = IF k = lo THEN a ELSE g[<<k, f[k - 1]>>]
    BY <1>5, <1>6
  <2>2. f = [k \in lo .. hi |-> f[k]]
    BY <1>7
  <2>. QED
    BY <2>1, <2>2
<1>. QED
  BY <1>7, <1>8 DEF SolvesOnInterval

\* A function defined on the subsets of a finite set by its value for the
\* empty set and a step that takes one chosen element away.
SolvesOnSubsets(F, S, D, base, c, g) ==
  /\ F \in [SUBSET S -> D]
  /\ F = [T \in SUBSET S |-> IF T = {} THEN base ELSE g[<<c[T], F[T \ {c[T]}]>>]]

LEMMA RecursionOnSubsets ==
  ASSUME NEW S, IsFiniteSet(S), NEW D, NEW base \in D,
         NEW c, \A T \in SUBSET S : T # {} => c[T] \in T,
         NEW g \in [S \X D -> D]
  PROVE  \E F : SolvesOnSubsets(F, S, D, base, c, g)
<1>. DEFINE Upto(n) == {T \in SUBSET S : Cardinality(T) <= n}
            Solves(F, n) ==
              \A T \in Upto(n) : F[T] = IF T = {} THEN base ELSE g[<<c[T], F[T \ {c[T]}]>>]
            X == {n \in Nat : \E F \in [Upto(n) -> D] : Solves(F, n)}
<1>1. \A T \in SUBSET S : IsFiniteSet(T) /\ Cardinality(T) \in Nat
  BY FS_Subset, FS_CardinalityType
<1>2. ASSUME NEW T \in SUBSET S, T # {}
      PROVE  /\ c[T] \in T /\ c[T] \in S
             /\ T \ {c[T]} \in SUBSET S
             /\ Cardinality(T \ {c[T]}) = Cardinality(T) - 1
  <2>1. c[T] \in T
    BY <1>2
  <2>. QED
    BY <2>1, <1>1, FS_RemoveElement
<1>3. 0 \in X
  <2>1. \A T \in Upto(0) : T = {}
    BY <1>1, FS_EmptySet
  <2>2. [T \in Upto(0) |-> base] \in [Upto(0) -> D] /\ Solves([T \in Upto(0) |-> base], 0)
    BY <2>1
  <2>. QED
    BY <2>2
<1>4. ASSUME NEW n \in Nat, n \in X
      PROVE  n + 1 \in X
  <2>1. PICK F \in [Upto(n) -> D] : Solves(F, n)
    BY <1>4
  <2>. DEFINE H == [T \in Upto(n + 1) |-> IF Cardinality(T) <= n THEN F[T]
                                          ELSE g[<<c[T], F[T \ {c[T]}]>>]]
  <2>2. ASSUME NEW T \in Upto(n + 1)
        PROVE  H[T] \in D /\ H[T] = IF T = {} THEN base ELSE g[<<c[T], H[T \ {c[T]}]>>]
    <3>1. CASE T = {}
      <4>1. T \in Upto(n) /\ Cardinality(T) <= n
        BY <3>1, FS_EmptySet
      <4>. QED
        BY <3>1, <4>1, <2>1
    <3>2. CASE T # {}
      <4>. DEFINE R == T \ {c[T]}
      <4>1. /\ R \in SUBSET S /\ Cardinality(R) = Cardinality(T) - 1
            /\ Cardinality(T) \in Nat /\ c[T] \in S
        BY <3>2, <1>1, <1>2
      <4>2. R \in Upto(n) /\ R \in Upto(n + 1) /\ Cardinality(R) <= n
        BY <4>1
      <4>3. H[R] = F[R] /\ F[R] \in D
        BY <4>2
      <4>4. <<c[T], F[R]>> \in S \X D
        BY <4>1, <4>3
      <4>5. CASE Cardinality(T) <= n
        <5>1. T \in Upto(n) /\ H[T] = F[T]
          BY <4>5
        <5>2. F[T] = g[<<c[T], F[R]>>]
          BY <3>2, <5>1, <2>1
        <5>. QED
          BY <3>2, <4>3, <4>4, <5>1, <5>2
      <4>6. CASE ~(Cardinality(T) <= n)
        <5>1. H[T] = g[<<c[T], F[R]>>]
          BY <4>6
        <5>. QED
          BY <3>2, <4>3, <4>4, <5>1
      <4>. QED
        BY <4>5, <4>6
    <3>. QED
      BY <3>1, <3>2
  <2>. HIDE DEF H
  <2>3. H \in [Upto(n + 1) -> D]
    <3>1. H = [T \in Upto(n + 1) |-> H[T]]
      BY DEF H
    <3>. QED
      BY <2>2, <3>1
  <2>4. Solves(H, n + 1)
    BY <2>2
  <2>5. n + 1 \in Nat
    OBVIOUS
  <2>. HIDE DEF Upto, Solves
  <2>. QED
    BY <2>3, <2>4, <2>5
<1>. HIDE DEF X
<1>5. \A n \in Nat : n \in X
  BY <1>3, <1>4, NatSetInduction
<1>6. Cardinality(S) \in Nat
  BY <1>1
<1>7. Upto(Cardinality(S)) = SUBSET S
  BY FS_Subset
<1>8. PICK F \in [Upto(Cardinality(S)) -> D] : Solves(F, Cardinality(S))
  BY <1>5, <1>6 DEF X
<1>9. F \in [SUBSET S -> D]
  BY <1>7, <1>8
<1>10. F = [T \in SUBSET S |-> IF T = {} THEN base ELSE g[<<c[T], F[T \ {c[T]}]>>]]
  <2>1. \A T \in SUBSET S : F[T] = IF T = {} THEN base ELSE g[<<c[T], F[T \ {c[T]}]>>]
    BY <1>7, <1>8
  <2>2. F = [T \in SUBSET S |-> F[T]]
    BY <1>9
  <2>. QED
    BY <2>1, <2>2
<1>. QED
  BY <1>9, <1>10 DEF SolvesOnSubsets

----------------------------------------------------------------------------
(* Sums over finite sets. *)

SumOver(f, S) == MapThenSumSet(LAMBDA x : f[x], S)

\* The equation by which the sums over the subsets of S are defined.
SumEquation(F, f, S) ==
  F = [T \in SUBSET S |->
         IF T = {} THEN 0
         ELSE f[CHOOSE x \in T : TRUE] + F[T \ {CHOOSE x \in T : TRUE}]]

IsSumFunction(F, f, S) == F \in [SUBSET S -> Int] /\ SumEquation(F, f, S)

Numbers(f, S) == \A x \in S : f[x] \in Int

LEMMA SumIsChosen ==
  ASSUME NEW f, NEW S
  PROVE  SumOver(f, S) = (CHOOSE F : SumEquation(F, f, S))[S]
BY Zenon DEF SumOver, MapThenSumSet, MapThenFoldSet, SumEquation

LEMMA SumFunctionExists ==
  ASSUME NEW S, IsFiniteSet(S), NEW f, Numbers(f, S)
  PROVE  \E F : IsSumFunction(F, f, S)
<1>. DEFINE c == [T \in SUBSET S |-> CHOOSE x \in T : TRUE]
            g == [p \in S \X Int |-> f[p[1]] + p[2]]
<1>1. \A T \in SUBSET S : T # {} => c[T] \in T
  OBVIOUS
<1>2. g \in [S \X Int -> Int]
  BY DEF Numbers
<1>3. \A x \in S, n \in Int : g[<<x, n>>] = f[x] + n
  OBVIOUS
<1>4. \A T \in SUBSET S : c[T] = CHOOSE x \in T : TRUE
  OBVIOUS
<1>. HIDE DEF c, g
<1>0. 0 \in Int
  OBVIOUS
<1>5. PICK F : SolvesOnSubsets(F, S, Int, 0, c, g)
  BY <1>0, <1>1, <1>2, RecursionOnSubsets
<1>6. ASSUME NEW T \in SUBSET S
      PROVE  F[T] = IF T = {} THEN 0
                    ELSE f[CHOOSE x \in T : TRUE] + F[T \ {CHOOSE x \in T : TRUE}]
  <2>1. F[T] = IF T = {} THEN 0 ELSE g[<<c[T], F[T \ {c[T]}]>>]
    BY <1>5 DEF SolvesOnSubsets
  <2>2. ASSUME T # {}
        PROVE  g[<<c[T], F[T \ {c[T]}]>>] = f[c[T]] + F[T \ {c[T]}]
    <3>1. c[T] \in S /\ T \ {c[T]} \in SUBSET S
      BY <1>1, <2>2
    <3>2. F[T \ {c[T]}] \in Int
      BY <3>1, <1>5 DEF SolvesOnSubsets
    <3>. QED
      BY <1>3, <3>1, <3>2
  <2>. QED
    BY <2>1, <2>2, <1>4
<1>7. F = [T \in SUBSET S |->
             IF T = {} THEN 0
             ELSE f[CHOOSE x \in T : TRUE] + F[T \ {CHOOSE x \in T : TRUE}]]
  <2>1. F = [T \in SUBSET S |-> F[T]]
    BY <1>5 DEF SolvesOnSubsets
  <2>. QED
    BY <2>1, <1>6
<1>. QED
  BY <1>5, <1>7 DEF SolvesOnSubsets, IsSumFunction, SumEquation

\* All sums over subsets of S are values of one such function.
LEMMA SumsOfSubsets ==
  ASSUME NEW S, IsFiniteSet(S), NEW f, Numbers(f, S)
  PROVE  \E F : IsSumFunction(F, f, S) /\ \A T \in SUBSET S : SumOver(f, T) = F[T]
<1>1. PICK F : IsSumFunction(F, f, S)
  BY SumFunctionExists
<1>2. ASSUME NEW T \in SUBSET S
      PROVE  SumOver(f, T) = F[T]
  <2>. DEFINE G == CHOOSE H : SumEquation(H, f, T)
  <2>1. IsFiniteSet(T) /\ Numbers(f, T)
    BY FS_Subset DEF Numbers
  <2>2. \E H : SumEquation(H, f, T)
    BY <2>1, SumFunctionExists DEF IsSumFunction
  <2>3. SumEquation(G, f, T)
    BY <2>2
  <2>. HIDE DEF G
  <2>. DEFINE X == {U \in SUBSET T : G[U] = F[U]}
              Y == {n \in Nat : \A U \in SUBSET T : Cardinality(U) = n => G[U] = F[U]}
  <2>4. \A U \in SUBSET T : IsFiniteSet(U) /\ Cardinality(U) \in Nat
    BY <2>1, FS_Subset, FS_CardinalityType
  <2>5. ASSUME NEW U \in SUBSET T
        PROVE  /\ U = {} => G[U] = 0 /\ F[U] = 0
               /\ U # {} => LET x == CHOOSE x \in U : TRUE
                            IN  G[U] = f[x] + G[U \ {x}] /\ F[U] = f[x] + F[U \ {x}]
    BY <1>1, <2>3 DEF IsSumFunction, SumEquation
  <2>6. 0 \in Y
    BY <2>4, <2>5, FS_EmptySet
  <2>7. ASSUME NEW n \in Nat, n \in Y
        PROVE  n + 1 \in Y
    <3>1. ASSUME NEW U \in SUBSET T, Cardinality(U) = n + 1
          PROVE  G[U] = F[U]
      <4>. DEFINE x == CHOOSE x \in U : TRUE
      <4>0. U # {} => x \in U
        OBVIOUS
      <4>5. U # {} => G[U] = f[x] + G[U \ {x}] /\ F[U] = f[x] + F[U \ {x}]
        BY <2>5
      <4>. HIDE DEF x
      <4>1. U # {}
        BY <3>1, FS_EmptySet
      <4>2. x \in U
        BY <4>0, <4>1
      <4>3. Cardinality(U \ {x}) = n /\ U \ {x} \in SUBSET T
        <5>1. IsFiniteSet(U) /\ Cardinality(U) - 1 = n
          BY <2>4, <3>1
        <5>. QED
          BY <4>2, <5>1, FS_RemoveElement
      <4>4. G[U \ {x}] = F[U \ {x}]
        BY <2>7, <4>3
      <4>. QED
        BY <4>1, <4>4, <4>5
    <3>. QED
      BY <3>1
  <2>. HIDE DEF Y
  <2>8. \A n \in Nat : n \in Y
    BY <2>6, <2>7, NatSetInduction
  <2>9. G[T] = F[T]
    BY <2>4, <2>8 DEF Y
  <2>. QED
    BY <2>9, SumIsChosen DEF G
<1>. QED
  BY <1>1, <1>2

\* The empty sum; and a sum of integers is an integer.
LEMMA SumType ==
  ASSUME NEW S, IsFiniteSet(S), NEW f, Numbers(f, S)
  PROVE  SumOver(f, S) \in Int /\ SumOver(f, {}) = 0
<1>1. PICK F : IsSumFunction(F, f, S) /\ \A T \in SUBSET S : SumOver(f, T) = F[T]
  BY SumsOfSubsets
<1>2. {} \in SUBSET S /\ S \in SUBSET S
  OBVIOUS
<1>. QED
  BY <1>1, <1>2 DEF IsSumFunction, SumEquation

\* Any element may be taken out of the sum first.
LEMMA SumTakeOut ==
  ASSUME NEW S, IsFiniteSet(S), NEW f, Numbers(f, S), NEW x \in S
  PROVE  SumOver(f, S) = f[x] + SumOver(f, S \ {x})
<1>1. PICK F : IsSumFunction(F, f, S) /\ \A T \in SUBSET S : SumOver(f, T) = F[T]
  BY SumsOfSubsets
<1>. DEFINE Y == {n \in Nat : \A T \in SUBSET S : \A y \in T :
                    Cardinality(T) = n => F[T] = f[y] + F[T \ {y}]}
<1>2. \A T \in SUBSET S : IsFiniteSet(T) /\ Cardinality(T) \in Nat
  BY FS_Subset, FS_CardinalityType
<1>3. ASSUME NEW T \in SUBSET S, T # {}
      PROVE  LET c == CHOOSE c \in T : TRUE
             IN  c \in T /\ F[T] = f[c] + F[T \ {c}]
  BY <1>1, <1>3 DEF IsSumFunction, SumEquation
<1>4. 0 \in Y
  <2>1. \A T \in SUBSET S : Cardinality(T) = 0 => T = {}
    BY <1>2, FS_EmptySet
  <2>. QED
    BY <2>1
<1>5. ASSUME NEW n \in Nat, n \in Y
      PROVE  n + 1 \in Y
  <2>1. ASSUME NEW T \in SUBSET S, NEW y \in T, Cardinality(T) = n + 1
        PROVE  F[T] = f[y] + F[T \ {y}]
    <3>. DEFINE c == CHOOSE c \in T : TRUE
    <3>1. c \in T /\ F[T] = f[c] + F[T \ {c}]
      BY <1>3
    <3>. HIDE DEF c
    <3>2. CASE y = c
      BY <3>1, <3>2
    <3>3. CASE y # c
      <4>0. IsFiniteSet(T) /\ Cardinality(T) - 1 = n
        BY <1>2, <2>1
      <4>1. Cardinality(T \ {c}) = n /\ Cardinality(T \ {y}) = n
        BY <3>1, <4>0, FS_RemoveElement
      <4>2. /\ y \in T \ {c} /\ T \ {c} \in SUBSET S
            /\ c \in T \ {y} /\ T \ {y} \in SUBSET S
        BY <3>1, <3>3
      <4>3. /\ F[T \ {c}] = f[y] + F[(T \ {c}) \ {y}]
            /\ F[T \ {y}] = f[c] + F[(T \ {y}) \ {c}]
        BY <1>5, <4>1, <4>2
      <4>4. (T \ {c}) \ {y} = (T \ {y}) \ {c}
        OBVIOUS
      <4>. DEFINE U == (T \ {c}) \ {y}
      <4>5. f[c] \in Int /\ f[y] \in Int /\ F[U] \in Int
        <5>1. U \in SUBSET S /\ c \in S /\ y \in S
          BY <3>1
        <5>. HIDE DEF U
        <5>. QED
          BY <1>1, <5>1 DEF Numbers, IsSumFunction
      <4>6. F[T \ {c}] = f[y] + F[U] /\ F[T \ {y}] = f[c] + F[U]
        BY <4>3, <4>4
      <4>. HIDE DEF U
      <4>. QED
        BY <3>1, <4>5, <4>6
    <3>. QED
      BY <3>2, <3>3
  <2>2. n + 1 \in Nat
    OBVIOUS
  <2>. QED
    BY <2>1, <2>2
<1>. HIDE DEF Y
<1>6. \A n \in Nat : n \in Y
  BY <1>4, <1>5, NatSetInduction
<1>7. F[S] = f[x] + F[S \ {x}]
  BY <1>2, <1>6 DEF Y
<1>8. S \in SUBSET S /\ S \ {x} \in SUBSET S
  OBVIOUS
<1>. QED
  BY <1>1, <1>7, <1>8

\* A sum depends on the values of its function on the set only.
LEMMA SumSame ==
  ASSUME NEW S, IsFiniteSet(S), NEW f, Numbers(f, S), NEW g, \A x \in S : g[x] = f[x]
  PROVE  SumOver(g, S) = SumOver(f, S)
<1>. DEFINE X == {T \in SUBSET S : SumOver(g, T) = SumOver(f, T)}
<1>1. \A T \in SUBSET S : IsFiniteSet(T) /\ Numbers(f, T) /\ Numbers(g, T)
  BY FS_Subset DEF Numbers
<1>2. {} \in X
  BY <1>1, SumType
<1>3. ASSUME NEW T \in SUBSET S, NEW x \in S \ T, T \in X
      PROVE  T \cup {x} \in X
  <2>. DEFINE U == T \cup {x}
  <2>1. U \in SUBSET S /\ x \in U /\ U \ {x} = T
    OBVIOUS
  <2>. HIDE DEF U
  <2>2. /\ SumOver(f, U) = f[x] + SumOver(f, U \ {x})
        /\ SumOver(g, U) = g[x] + SumOver(g, U \ {x})
    BY <1>1, <2>1, SumTakeOut
  <2>3. SumOver(g, U) = SumOver(f, U)
    BY <1>3, <2>1, <2>2
  <2>4. U \in X
    BY <2>1, <2>3
  <2>. QED
    BY <2>4 DEF U
<1>. HIDE DEF X
<1>4. S \in X
  BY <1>2, <1>3, FiniteSetInduction
<1>. QED
  BY <1>4 DEF X

\* A sum changes by as much as its only value that changes.
LEMMA SumUpdate ==
  ASSUME NEW S, IsFiniteSet(S), NEW f, Numbers(f, S), NEW g, NEW w \in S, g[w] \in Int,
         \A x \in S \ {w} : g[x] = f[x]
  PROVE  SumOver(g, S) = SumOver(f, S) + g[w] - f[w]
<1>1. IsFiniteSet(S \ {w}) /\ Numbers(f, S \ {w}) /\ Numbers(g, S) /\ f[w] \in Int
  BY FS_Subset DEF Numbers
<1>2. SumOver(f, S) = f[w] + SumOver(f, S \ {w})
  BY SumTakeOut
<1>3. SumOver(g, S) = g[w] + SumOver(g, S \ {w})
  BY <1>1, SumTakeOut
<1>4. SumOver(g, S \ {w}) = SumOver(f, S \ {w}) /\ SumOver(f, S \ {w}) \in Int
  BY <1>1, SumSame, SumType
<1>. QED
  BY <1>1, <1>2, <1>3, <1>4

\* A sum of nothing but zeros.
LEMMA SumZero ==
  ASSUME NEW S, IsFiniteSet(S), NEW f, \A x \in S : f[x] = 0
  PROVE  SumOver(f, S) = 0
<1>. DEFINE X == {T \in SUBSET S : SumOver(f, T) = 0}
<1>1. \A T \in SUBSET S : IsFiniteSet(T) /\ Numbers(f, T)
  BY FS_Subset DEF Numbers
<1>2. {} \in X
  BY <1>1, SumType
<1>3. ASSUME NEW T \in SUBSET S, NEW x \in S \ T, T \in X
      PROVE  T \cup {x} \in X
  <2>. DEFINE U == T \cup {x}
  <2>1. U \in SUBSET S /\ x \in U /\ U \ {x} = T
    OBVIOUS
  <2>. HIDE DEF U
  <2>2. SumOver(f, U) = f[x] + SumOver(f, U \ {x})
    BY <1>1, <2>1, SumTakeOut
  <2>3. U \in X
    BY <1>3, <2>1, <2>2
  <2>. QED
    BY <2>3 DEF U
<1>. HIDE DEF X
<1>4. S \in X
  BY <1>2, <1>3, FiniteSetInduction
<1>. QED
  BY <1>4 DEF X

\* A sum of numbers none of which is negative is at least each of them.
LEMMA SumAtLeast ==
  ASSUME NEW S, IsFiniteSet(S), NEW f, \A x \in S : f[x] \in Nat
  PROVE  SumOver(f, S) \in Nat /\ \A x \in S : SumOver(f, S) >= f[x]
<1>. DEFINE X == {T \in SUBSET S : SumOver(f, T) \in Nat}
<1>1. \A T \in SUBSET S : IsFiniteSet(T) /\ Numbers(f, T)
  BY FS_Subset DEF Numbers
<1>2. {} \in X
  BY <1>1, SumType
<1>3. ASSUME NEW T \in SUBSET S, NEW x \in S \ T, T \in X
      PROVE  T \cup {x} \in X
  <2>. DEFINE U == T \cup {x}
  <2>1. U \in SUBSET S /\ x \in U /\ U \ {x} = T
    OBVIOUS
  <2>. HIDE DEF U
  <2>2. SumOver(f, U) = f[x] + SumOver(f, U \ {x})
    BY <1>1, <2>1, SumTakeOut
  <2>3. U \in X
    BY <1>3, <2>1, <2>2
  <2>. QED
    BY <2>3 DEF U
<1>. HIDE DEF X
<1>4. \A T \in SUBSET S : T \in X
  <2>. TAKE T \in SUBSET S
  <2>1. /\ IsFiniteSet(T)
        /\ \A U \in SUBSET T : \A x \in T \ U : U \in X => U \cup {x} \in X
    BY <1>1, <1>3
  <2>. QED
    BY <1>2, <2>1, FiniteSetInduction
<1>5. ASSUME NEW x \in S
      PROVE  SumOver(f, S) >= f[x]
  <2>1. SumOver(f, S) = f[x] + SumOver(f, S \ {x})
    BY <1>1, SumTakeOut
  <2>2. SumOver(f, S \ {x}) \in Nat
    BY <1>4 DEF X
  <2>. QED
    BY <2>1, <2>2
<1>. QED
  BY <1>4, <1>5 DEF X

\* The sum of the sums is the sum of a sum.
LEMMA SumAdd ==
  ASSUME NEW S, IsFiniteSet(S), NEW f, Numbers(f, S), NEW g, Numbers(g, S),
         NEW h, \A x \in S : h[x] = f[x] + g[x]
  PROVE  SumOver(h, S) = SumOver(f, S) + SumOver(g, S)
<1>. DEFINE X == {T \in SUBSET S : SumOver(h, T) = SumOver(f, T) + SumOver(g, T)}
<1>1. \A T \in SUBSET S : IsFiniteSet(T) /\ Numbers(f, T) /\ Numbers(g, T) /\ Numbers(h, T)
  BY FS_Subset DEF Numbers
<1>2. {} \in X
  <2>1. SumOver(f, {}) = 0 /\ SumOver(g, {}) = 0 /\ SumOver(h, {}) = 0
    BY <1>1, SumType
  <2>. QED
    BY <2>1
<1>3. ASSUME NEW T \in SUBSET S, NEW x \in S \ T, T \in X
      PROVE  T \cup {x} \in X
  <2>. DEFINE U == T \cup {x}
  <2>1. U \in SUBSET S /\ x \in U /\ U \ {x} = T
    OBVIOUS
  <2>. HIDE DEF U
  <2>2. /\ SumOver(f, U) = f[x] + SumOver(f, T)
        /\ SumOver(g, U) = g[x] + SumOver(g, T)
        /\ SumOver(h, U) = h[x] + SumOver(h, T)
    BY <1>1, <2>1, SumTakeOut
  <2>3. /\ f[x] \in Int /\ g[x] \in Int /\ h[x] = f[x] + g[x]
        /\ SumOver(f, T) \in Int /\ SumOver(g, T) \in Int
        /\ SumOver(h, T) = SumOver(f, T) + SumOver(g, T)
    BY <1>1, <1>3, SumType DEF Numbers
  <2>4. SumOver(h, U) = SumOver(f, U) + SumOver(g, U)
    BY <2>2, <2>3
  <2>5. U \in X
    BY <2>1, <2>4
  <2>. QED
    BY <2>5 DEF U
<1>. HIDE DEF X
<1>4. S \in X
  BY <1>2, <1>3, FiniteSetInduction
<1>. QED
  BY <1>4 DEF X

\* Ones for the members and zeros for the others count the members.
LEMMA SumCounts ==
  ASSUME NEW S, IsFiniteSet(S), NEW Y \in SUBSET S,
         NEW f, \A x \in S : f[x] = IF x \in Y THEN 1 ELSE 0
  PROVE  SumOver(f, S) = Cardinality(Y)
<1>. DEFINE X == {T \in SUBSET S : SumOver(f, T) = Cardinality(T \cap Y)}
<1>1. \A T \in SUBSET S : IsFiniteSet(T) /\ Numbers(f, T) /\ IsFiniteSet(T \cap Y)
  BY FS_Subset DEF Numbers
<1>2. {} \in X
  <2>1. SumOver(f, {}) = 0
    BY <1>1, SumType
  <2>2. {} \cap Y = {} /\ Cardinality({}) = 0
    BY FS_EmptySet
  <2>. QED
    BY <2>1, <2>2
<1>3. ASSUME NEW T \in SUBSET S, NEW x \in S \ T, T \in X
      PROVE  T \cup {x} \in X
  <2>. DEFINE U == T \cup {x}
  <2>1. U \in SUBSET S /\ x \in U /\ U \ {x} = T
    OBVIOUS
  <2>2. U \cap Y = IF x \in Y THEN (T \cap Y) \cup {x} ELSE T \cap Y
    OBVIOUS
  <2>. HIDE DEF U
  <2>3. SumOver(f, U) = f[x] + SumOver(f, T)
    BY <1>1, <2>1, SumTakeOut
  <2>4. SumOver(f, T) = Cardinality(T \cap Y) /\ Cardinality(T \cap Y) \in Nat
    BY <1>1, <1>3, FS_CardinalityType
  <2>5. Cardinality((T \cap Y) \cup {x}) = Cardinality(T \cap Y) + 1
    <3>1. IsFiniteSet(T \cap Y) /\ x \notin T \cap Y
      BY <1>1
    <3>. QED
      BY <3>1, FS_AddElement
  <2>6. SumOver(f, U) = Cardinality(U \cap Y)
    BY <2>2, <2>3, <2>4, <2>5
  <2>7. U \in X
    BY <2>1, <2>6
  <2>. QED
    BY <2>7 DEF U
<1>. HIDE DEF X
<1>4. S \in X
  BY <1>2, <1>3, FiniteSetInduction
<1>5. S \cap Y = Y
  OBVIOUS
<1>. QED
  BY <1>4, <1>5 DEF X

\* The sum of a sequence: its last element, or its first, may be taken out.
LEMMA SumLast ==
  ASSUME NEW n \in Nat, NEW f, Numbers(f, 1 .. n + 1)
  PROVE  SumOver(f, 1 .. n + 1) = f[n + 1] + SumOver(f, 1 .. n)
<1>1. IsFiniteSet(1 .. n + 1)
  BY FS_Interval
<1>2. n + 1 \in 1 .. n + 1 /\ (1 .. n + 1) \ {n + 1} = 1 .. n
  OBVIOUS
<1>. QED
  BY <1>1, <1>2, SumTakeOut

LEMMA SumFirst ==
  ASSUME NEW n \in Nat, NEW f, Numbers(f, 1 .. n + 1),
         NEW g, \A k \in 1 .. n : g[k] = f[k + 1]
  PROVE  SumOver(f, 1 .. n + 1) = f[1] + SumOver(g, 1 .. n)
<1>. DEFINE X == {m \in Nat : m <= n => SumOver(f, 1 .. m + 1) = f[1] + SumOver(g, 1 .. m)}
<1>1. \A k \in 1 .. n + 1 : f[k] \in Int
  BY DEF Numbers
<1>2. 0 \in X
  <2>1. SumOver(f, 1 .. 0) = 0 /\ SumOver(g, 1 .. 0) = 0
    <3>1. 1 .. 0 = {}
      OBVIOUS
    <3>2. IsFiniteSet({}) /\ Numbers(f, {}) /\ Numbers(g, {})
      BY FS_EmptySet DEF Numbers
    <3>. QED
      BY <3>1, <3>2, SumType
  <2>2. SumOver(f, 1 .. 0 + 1) = f[0 + 1] + SumOver(f, 1 .. 0)
    <3>1. 0 \in Nat /\ Numbers(f, 1 .. 0 + 1)
      BY <1>1 DEF Numbers
    <3>. QED
      BY <3>1, SumLast
  <2>3. f[1] \in Int
    BY <1>1
  <2>. QED
    BY <2>1, <2>2, <2>3
<1>3. ASSUME NEW m \in Nat, m \in X
      PROVE  m + 1 \in X
  <2>1. ASSUME m + 1 <= n
        PROVE  SumOver(f, 1 .. (m + 1) + 1) = f[1] + SumOver(g, 1 .. m + 1)
    <3>1. /\ m + 1 \in Nat /\ m + 1 \in 1 .. n /\ g[m + 1] = f[(m + 1) + 1]
          /\ Numbers(f, 1 .. (m + 1) + 1) /\ Numbers(g, 1 .. m + 1) /\ Numbers(g, 1 .. m)
      BY <1>1, <2>1 DEF Numbers
    <3>2. SumOver(f, 1 .. (m + 1) + 1) = f[(m + 1) + 1] + SumOver(f, 1 .. m + 1)
      BY <3>1, SumLast
    <3>3. SumOver(g, 1 .. m + 1) = g[m + 1] + SumOver(g, 1 .. m)
      BY <3>1, SumLast
    <3>4. SumOver(f, 1 .. m + 1) = f[1] + SumOver(g, 1 .. m)
      BY <1>3, <2>1
    <3>5. /\ f[1] \in Int /\ g[m + 1] \in Int /\ SumOver(g, 1 .. m) \in Int
      <4>1. IsFiniteSet(1 .. m)
        BY FS_Interval
      <4>2. SumOver(g, 1 .. m) \in Int
        BY <3>1, <4>1, SumType
      <4>. QED
        BY <1>1, <3>1, <4>2 DEF Numbers
    <3>. QED
      BY <3>1, <3>2, <3>3, <3>4, <3>5
  <2>. QED
    BY <2>1
<1>. HIDE DEF X
<1>4. \A m \in Nat : m \in X
  BY <1>2, <1>3, NatSetInduction
<1>. QED
  BY <1>4 DEF X
=============================================================================
