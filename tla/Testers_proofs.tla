--------------------------- MODULE Testers_proofs ---------------------------
(***************************************************************************)
(* Proof that the exhaustive tester and the automata checker test every    *)
(* history once and leave no message unreceived, for any number of         *)
(* processes, any monitors, and whatever MPI does with the messages.       *)
(***************************************************************************)
EXTENDS Testers, InductionLemmas, TLAPS

----------------------------------------------------------------------------
(***************************************************************************)
(* First, that the generator divides its work as it should: the beginnings *)
(* of create_inits, each continued to the end by create_generator_         *)
(* prepended, give every history that the generator gives when it is read  *)
(* from the first event on, and none of them twice.                        *)
(***************************************************************************)

----------------------------------------------------------------------------
(* One event more. *)

IsBeginning(n, h) == h \in Seq(0 .. n - 1)

NextIndices(n, maxConc, h) == PossibleIndices(StateAfter(n, h), maxConc)

Stuck(n, maxConc, h) == NextIndices(n, maxConc, h) = {}

LEMMA IndicesAreValues ==
  ASSUME NEW n \in Nat, NEW maxConc, NEW h
  PROVE  NextIndices(n, maxConc, h) \subseteq 0 .. n - 1
<1>1. DOMAIN StateAfter(n, h) = 0 .. n - 1
  BY DEF StateAfter
<1>. QED
  BY <1>1 DEF NextIndices, PossibleIndices, Pending

\* What Longer makes of a set it makes of its elements, one by one.
LEMMA LongerOfOne ==
  ASSUME NEW n \in Nat, NEW maxConc, NEW h
  PROVE  Longer(n, maxConc, {h}) =
           IF Stuck(n, maxConc, h) THEN {h}
           ELSE {Append(h, i) : i \in NextIndices(n, maxConc, h)}
<1>1. Longer(n, maxConc, {h}) =
        UNION {IF NextIndices(n, maxConc, g) = {} THEN {g}
               ELSE {Append(g, i) : i \in NextIndices(n, maxConc, g)} : g \in {h}}
  BY DEF Longer, NextIndices
<1>. QED
  BY <1>1 DEF Stuck

LEMMA LongerOfAll ==
  ASSUME NEW n \in Nat, NEW maxConc, NEW hs
  PROVE  Longer(n, maxConc, hs) = UNION {Longer(n, maxConc, {h}) : h \in hs}
<1>. DEFINE One(g) == IF NextIndices(n, maxConc, g) = {} THEN {g}
                      ELSE {Append(g, i) : i \in NextIndices(n, maxConc, g)}
<1>1. \A h : Longer(n, maxConc, {h}) = One(h)
  BY LongerOfOne DEF Stuck
<1>2. Longer(n, maxConc, hs) = UNION {One(g) : g \in hs}
  BY DEF Longer, NextIndices
<1>. HIDE DEF One
<1>3. {Longer(n, maxConc, {h}) : h \in hs} = {One(h) : h \in hs}
  BY <1>1
<1>. QED
  BY <1>2, <1>3

LEMMA LongerOfUnion ==
  ASSUME NEW n \in Nat, NEW maxConc, NEW S
  PROVE  Longer(n, maxConc, UNION S) = UNION {Longer(n, maxConc, hs) : hs \in S}
<1>. DEFINE L(h) == Longer(n, maxConc, {h})
<1>1. \A hs : Longer(n, maxConc, hs) = UNION {L(h) : h \in hs}
  BY LongerOfAll
<1>. HIDE DEF L
<1>. QED
  BY <1>1

LEMMA LongerHas ==
  ASSUME NEW n \in Nat, NEW maxConc, NEW hs, NEW x \in Longer(n, maxConc, hs)
  PROVE  \E h \in hs : x \in Longer(n, maxConc, {h})
<1>1. x \in UNION {Longer(n, maxConc, {h}) : h \in hs}
  BY LongerOfAll
<1>. QED
  BY <1>1

\* An event more is appended, or the beginning is complete and stays.
OneMore(n, maxConc, h, x) ==
  /\ IsBeginning(n, x)
  /\ \/ Stuck(n, maxConc, h) /\ x = h
     \/ /\ ~Stuck(n, maxConc, h)
        /\ Len(x) = Len(h) + 1
        /\ \A k \in 1 .. Len(h) : x[k] = h[k]

LEMMA LongerByOne ==
  ASSUME NEW n \in Nat, NEW maxConc, NEW h, IsBeginning(n, h), NEW x \in Longer(n, maxConc, {h})
  PROVE  OneMore(n, maxConc, h, x)
<1>1. CASE Stuck(n, maxConc, h)
  BY <1>1, LongerOfOne DEF OneMore
<1>2. CASE ~Stuck(n, maxConc, h)
  <2>0. x \in {Append(h, i) : i \in NextIndices(n, maxConc, h)}
    BY <1>2, LongerOfOne
  <2>1. PICK i \in NextIndices(n, maxConc, h) : x = Append(h, i)
    BY <2>0
  <2>2. i \in 0 .. n - 1
    BY <2>1, IndicesAreValues
  <2>. QED
    BY <1>2, <2>1, <2>2 DEF IsBeginning, OneMore
<1>. QED
  BY <1>1, <1>2

LEMMA LongerType ==
  ASSUME NEW n \in Nat, NEW maxConc, NEW hs \in SUBSET Seq(0 .. n - 1)
  PROVE  Longer(n, maxConc, hs) \in SUBSET Seq(0 .. n - 1)
<1>. SUFFICES ASSUME NEW x \in Longer(n, maxConc, hs)
              PROVE  x \in Seq(0 .. n - 1)
  OBVIOUS
<1>1. PICK h \in hs : x \in Longer(n, maxConc, {h})
  BY LongerHas
<1>2. IsBeginning(n, h)
  BY DEF IsBeginning
<1>. QED
  BY <1>1, <1>2, LongerByOne DEF OneMore, IsBeginning

LEMMA LongerIsFinite ==
  ASSUME NEW n \in Nat, NEW maxConc, NEW hs, IsFiniteSet(hs)
  PROVE  IsFiniteSet(Longer(n, maxConc, hs))
<1>1. IsFiniteSet(0 .. n - 1)
  BY FS_Interval
<1>2. ASSUME NEW h
      PROVE  IsFiniteSet(Longer(n, maxConc, {h}))
  <2>. DEFINE I == NextIndices(n, maxConc, h)
              f == [i \in I |-> Append(h, i)]
  <2>1. IsFiniteSet(I)
    BY <1>1, IndicesAreValues, FS_Subset
  <2>2. f \in Surjection(I, {Append(h, i) : i \in I})
    BY DEF Surjection
  <2>. HIDE DEF f
  <2>3. IsFiniteSet({Append(h, i) : i \in I})
    BY <2>1, <2>2, FS_Surjection
  <2>4. IsFiniteSet({h})
    BY FS_Singleton
  <2>. QED
    BY <2>3, <2>4, LongerOfOne
<1>. DEFINE T == {Longer(n, maxConc, {h}) : h \in hs}
            f == [h \in hs |-> Longer(n, maxConc, {h})]
<1>3. f \in Surjection(hs, T)
  BY DEF Surjection
<1>. HIDE DEF f
<1>4. IsFiniteSet(T)
  BY <1>3, FS_Surjection
<1>5. \A t \in T : IsFiniteSet(t)
  BY <1>2
<1>. HIDE DEF T
<1>6. IsFiniteSet(UNION T)
  BY <1>4, <1>5, FS_UNION
<1>. QED
  BY <1>6, LongerOfAll DEF T

----------------------------------------------------------------------------
(* The beginnings after any number of events. *)

LevelsEquation(f, n, maxConc, b, m) ==
  f = [k \in 0 .. m |-> IF k = 0 THEN {b} ELSE Longer(n, maxConc, f[k - 1])]

Levels(n, maxConc, b) == CHOOSE f : LevelsEquation(f, n, maxConc, b, 4 * n)

\* What b may be k events later.
Level(n, maxConc, b, k) == Levels(n, maxConc, b)[k]

LEMMA LevelsExist ==
  ASSUME NEW n \in Nat, NEW maxConc, NEW b, IsBeginning(n, b), NEW m \in Nat
  PROVE  \E f : LevelsEquation(f, n, maxConc, b, m)
<1>. DEFINE D == SUBSET Seq(0 .. n - 1)
            g == [p \in (0 .. m) \X D |-> Longer(n, maxConc, p[2])]
<1>1. \A hs \in D : Longer(n, maxConc, hs) \in D
  BY LongerType
<1>2. {b} \in D
  BY DEF IsBeginning
<1>. HIDE DEF D
<1>3. g \in [(0 .. m) \X D -> D]
  BY <1>1
<1>4. \A k \in 0 .. m, hs \in D : g[<<k, hs>>] = Longer(n, maxConc, hs)
  OBVIOUS
<1>. HIDE DEF g
<1>5. 0 \in Int /\ m \in Int
  OBVIOUS
<1>6. PICK f : SolvesOnInterval(f, 0, m, D, {b}, g)
  BY <1>2, <1>3, <1>5, RecursionOnInterval
<1>7. f \in [0 .. m -> D]
  BY <1>6 DEF SolvesOnInterval
<1>8. ASSUME NEW k \in 0 .. m
      PROVE  f[k] = IF k = 0 THEN {b} ELSE Longer(n, maxConc, f[k - 1])
  <2>1. f[k] = IF k = 0 THEN {b} ELSE g[<<k, f[k - 1]>>]
    BY <1>6 DEF SolvesOnInterval
  <2>2. ASSUME k # 0
        PROVE  g[<<k, f[k - 1]>>] = Longer(n, maxConc, f[k - 1])
    <3>1. k - 1 \in 0 .. m
      BY <2>2
    <3>2. f[k - 1] \in D
      BY <3>1, <1>7
    <3>. QED
      BY <3>2, <1>4
  <2>. QED
    BY <2>1, <2>2
<1>9. f = [k \in 0 .. m |-> f[k]]
  BY <1>7
<1>. QED
  BY <1>8, <1>9 DEF LevelsEquation

LEMMA LevelsSolve ==
  ASSUME NEW n \in Nat, NEW maxConc, NEW b, IsBeginning(n, b)
  PROVE  LevelsEquation(Levels(n, maxConc, b), n, maxConc, b, 4 * n)
<1>1. 4 * n \in Nat
  OBVIOUS
<1>. QED
  BY <1>1, LevelsExist DEF Levels

LEMMA LevelZero ==
  ASSUME NEW n \in Nat, NEW maxConc, NEW b, IsBeginning(n, b)
  PROVE  Level(n, maxConc, b, 0) = {b}
<1>1. 0 \in 0 .. 4 * n
  OBVIOUS
<1>. QED
  BY <1>1, LevelsSolve DEF LevelsEquation, Level

LEMMA LevelNext ==
  ASSUME NEW n \in Nat, NEW maxConc, NEW b, IsBeginning(n, b), NEW k \in 1 .. 4 * n
  PROVE  Level(n, maxConc, b, k) = Longer(n, maxConc, Level(n, maxConc, b, k - 1))
<1>1. k \in 0 .. 4 * n /\ k # 0
  OBVIOUS
<1>. QED
  BY <1>1, LevelsSolve DEF LevelsEquation, Level

\* Induction over the levels: what holds of {b}, and with every level of the
\* next, holds of all.
LEMMA LevelInduction ==
  ASSUME NEW m \in Nat, NEW S, 0 \in S, \A k \in 1 .. m : k - 1 \in S => k \in S
  PROVE  \A k \in 0 .. m : k \in S
<1>. DEFINE T == {k \in Nat : k <= m => k \in S}
<1>1. 0 \in T
  OBVIOUS
<1>2. ASSUME NEW k \in Nat, k \in T
      PROVE  k + 1 \in T
  <2>1. CASE k + 1 <= m
    <3>1. k \in S /\ k + 1 \in 1 .. m /\ (k + 1) - 1 = k
      BY <2>1, <1>2
    <3>2. k + 1 \in S
      BY <3>1
    <3>. QED
      BY <3>2
  <2>2. CASE ~(k + 1 <= m)
    BY <2>2
  <2>. QED
    BY <2>1, <2>2
<1>. HIDE DEF T
<1>3. \A k \in Nat : k \in T
  BY <1>1, <1>2, NatSetInduction
<1>. QED
  BY <1>3 DEF T

LEMMA LevelType ==
  ASSUME NEW n \in Nat, NEW maxConc, NEW b, IsBeginning(n, b)
  PROVE  \A k \in 0 .. 4 * n : /\ Level(n, maxConc, b, k) \in SUBSET Seq(0 .. n - 1)
                               /\ IsFiniteSet(Level(n, maxConc, b, k))
<1>. DEFINE S == {k \in 0 .. 4 * n : /\ Level(n, maxConc, b, k) \in SUBSET Seq(0 .. n - 1)
                                    /\ IsFiniteSet(Level(n, maxConc, b, k))}
<1>1. 4 * n \in Nat
  OBVIOUS
<1>0. \A k \in 1 .. 4 * n :
        Level(n, maxConc, b, k) = Longer(n, maxConc, Level(n, maxConc, b, k - 1))
  BY LevelNext
<1>2. 0 \in S
  <2>1. Level(n, maxConc, b, 0) = {b} /\ {b} \in SUBSET Seq(0 .. n - 1)
    BY LevelZero DEF IsBeginning
  <2>2. IsFiniteSet({b})
    BY FS_Singleton
  <2>3. 0 \in 0 .. 4 * n
    BY <1>1
  <2>. QED
    BY <2>1, <2>2, <2>3
<1>3. ASSUME NEW k \in 1 .. 4 * n, k - 1 \in S
      PROVE  k \in S
  <2>1. k \in 0 .. 4 * n
    OBVIOUS
  <2>2. Level(n, maxConc, b, k) = Longer(n, maxConc, Level(n, maxConc, b, k - 1))
    BY <1>0
  <2>3. /\ Level(n, maxConc, b, k - 1) \in SUBSET Seq(0 .. n - 1)
        /\ IsFiniteSet(Level(n, maxConc, b, k - 1))
    BY <1>3
  <2>4. /\ Level(n, maxConc, b, k) \in SUBSET Seq(0 .. n - 1)
        /\ IsFiniteSet(Level(n, maxConc, b, k))
    BY <2>2, <2>3, LongerType, LongerIsFinite
  <2>. QED
    BY <2>1, <2>4
<1>. HIDE DEF S
<1>4. \A k \in 0 .. 4 * n : k \in S
  BY <1>1, <1>2, <1>3, LevelInduction
<1>. QED
  BY <1>4 DEF S

\* The generator, read to its end, gives the last of the levels.
LEMMA PrependedIsLevel ==
  ASSUME NEW n \in Nat, NEW maxConc, NEW b, IsBeginning(n, b), Len(b) <= 4 * n
  PROVE  Prepended(n, maxConc, b) = Level(n, maxConc, b, 4 * n - Len(b))
<1>. DEFINE m == 4 * n - Len(b)
            f == CHOOSE f : LevelsEquation(f, n, maxConc, b, m)
<1>1. Prepended(n, maxConc, b) = f[m]
  BY Zenon DEF Prepended, LevelsEquation
<1>2. m \in Nat /\ m <= 4 * n /\ 4 * n \in Nat
  BY DEF IsBeginning
<1>. HIDE DEF m
<1>3. LevelsEquation(f, n, maxConc, b, m)
  BY <1>2, LevelsExist
<1>. HIDE DEF f
<1>. DEFINE S == {k \in 0 .. m : f[k] = Level(n, maxConc, b, k)}
<1>0. \A k \in 1 .. 4 * n :
        Level(n, maxConc, b, k) = Longer(n, maxConc, Level(n, maxConc, b, k - 1))
  BY LevelNext
<1>4. 0 \in S
  BY <1>2, <1>3, LevelZero DEF LevelsEquation
<1>5. ASSUME NEW k \in 1 .. m, k - 1 \in S
      PROVE  k \in S
  <2>1. k \in 0 .. m /\ k \in 1 .. 4 * n /\ k # 0
    BY <1>2
  <2>2. f[k] = Longer(n, maxConc, f[k - 1])
    BY <2>1, <1>3 DEF LevelsEquation
  <2>3. Level(n, maxConc, b, k) = Longer(n, maxConc, Level(n, maxConc, b, k - 1))
    BY <2>1, <1>0
  <2>4. f[k - 1] = Level(n, maxConc, b, k - 1)
    BY <1>5
  <2>. QED
    BY <2>1, <2>2, <2>3, <2>4
<1>. HIDE DEF S
<1>6. \A k \in 0 .. m : k \in S
  BY <1>2, <1>4, <1>5, LevelInduction
<1>7. m \in S
  BY <1>2, <1>6
<1>. QED
  BY <1>1, <1>7 DEF S, m

----------------------------------------------------------------------------
(* How the levels hang together. *)

\* x is b with k events more, or with fewer and complete.
Continues(n, maxConc, b, x, k) ==
  /\ IsBeginning(n, x)
  /\ Len(b) <= Len(x) /\ Len(x) <= Len(b) + k
  /\ \A i \in 1 .. Len(b) : x[i] = b[i]
  /\ Len(x) = Len(b) + k \/ Stuck(n, maxConc, x)

LEMMA LevelContinues ==
  ASSUME NEW n \in Nat, NEW maxConc, NEW b, IsBeginning(n, b)
  PROVE  \A k \in 0 .. 4 * n : \A x \in Level(n, maxConc, b, k) : Continues(n, maxConc, b, x, k)
<1>. DEFINE S == {k \in 0 .. 4 * n :
                    \A x \in Level(n, maxConc, b, k) : Continues(n, maxConc, b, x, k)}
<1>1. 4 * n \in Nat
  OBVIOUS
<1>2. 0 \in S
  <2>1. Level(n, maxConc, b, 0) = {b}
    BY LevelZero
  <2>2. Continues(n, maxConc, b, b, 0)
    BY DEF Continues, IsBeginning
  <2>. QED
    BY <1>1, <2>1, <2>2
<1>3. ASSUME NEW k \in 1 .. 4 * n, k - 1 \in S
      PROVE  k \in S
  <2>1. ASSUME NEW x \in Level(n, maxConc, b, k)
        PROVE  Continues(n, maxConc, b, x, k)
    <3>. DEFINE H == Level(n, maxConc, b, k - 1)
    <3>1. x \in Longer(n, maxConc, H)
      BY <2>1, LevelNext
    <3>2. PICK h \in H : x \in Longer(n, maxConc, {h})
      BY <3>1, LongerHas
    <3>3. Continues(n, maxConc, b, h, k - 1)
      BY <1>3
    <3>. HIDE DEF H
    <3>4. IsBeginning(n, h) /\ Len(h) \in Nat /\ Len(b) \in Nat
      BY <3>3 DEF Continues, IsBeginning
    <3>5. OneMore(n, maxConc, h, x)
      BY <3>2, <3>4, LongerByOne
    <3>6. CASE Stuck(n, maxConc, h)
      BY <3>3, <3>4, <3>5, <3>6 DEF Continues, OneMore
    <3>7. CASE ~Stuck(n, maxConc, h)
      <4>1. Len(h) = Len(b) + (k - 1) /\ \A i \in 1 .. Len(b) : h[i] = b[i]
        BY <3>3, <3>7 DEF Continues
      <4>2. Len(x) = Len(b) + k
        BY <4>1, <3>4, <3>5, <3>7 DEF OneMore
      <4>3. \A i \in 1 .. Len(b) : x[i] = b[i]
        BY <4>1, <3>4, <3>5, <3>7 DEF OneMore
      <4>. QED
        BY <4>2, <4>3, <3>4, <3>5 DEF Continues, OneMore
    <3>. QED
      BY <3>6, <3>7
  <2>2. k \in 0 .. 4 * n
    OBVIOUS
  <2>. QED
    BY <2>1, <2>2
<1>. HIDE DEF S
<1>4. \A k \in 0 .. 4 * n : k \in S
  BY <1>1, <1>2, <1>3, LevelInduction
<1>. QED
  BY <1>4 DEF S

LEMMA StuckStays ==
  ASSUME NEW n \in Nat, NEW maxConc, NEW b, IsBeginning(n, b), Stuck(n, maxConc, b)
  PROVE  \A k \in 0 .. 4 * n : Level(n, maxConc, b, k) = {b}
<1>. DEFINE S == {k \in 0 .. 4 * n : Level(n, maxConc, b, k) = {b}}
<1>1. 4 * n \in Nat
  OBVIOUS
<1>2. 0 \in S
  BY <1>1, LevelZero
<1>3. ASSUME NEW k \in 1 .. 4 * n, k - 1 \in S
      PROVE  k \in S
  <2>1. Level(n, maxConc, b, k) = Longer(n, maxConc, {b})
    BY <1>3, LevelNext
  <2>2. Level(n, maxConc, b, k) = {b}
    BY <2>1, LongerOfOne
  <2>3. k \in 0 .. 4 * n
    OBVIOUS
  <2>. QED
    BY <2>2, <2>3
<1>. HIDE DEF S
<1>4. \A k \in 0 .. 4 * n : k \in S
  BY <1>1, <1>2, <1>3, LevelInduction
<1>. QED
  BY <1>4 DEF S

\* The events may be counted from any level on.
LEMMA LevelsCompose ==
  ASSUME NEW n \in Nat, NEW maxConc, NEW a, IsBeginning(n, a), NEW j \in 0 .. 4 * n
  PROVE  \A i \in 0 .. 4 * n - j :
           Level(n, maxConc, a, j + i)
             = UNION {Level(n, maxConc, b, i) : b \in Level(n, maxConc, a, j)}
<1>. DEFINE L(b, i) == Level(n, maxConc, b, i)
            B == L(a, j)
            S == {i \in 0 .. 4 * n - j : L(a, j + i) = UNION {L(b, i) : b \in B}}
<1>1. 4 * n - j \in Nat
  OBVIOUS
<1>2. \A b \in B : IsBeginning(n, b)
  BY LevelType DEF IsBeginning
<1>3. 0 \in S
  <2>1. \A b \in B : L(b, 0) = {b}
    BY <1>2, LevelZero
  <2>. HIDE DEF L
  <2>2. B = UNION {L(b, 0) : b \in B}
    BY <2>1
  <2>3. j + 0 = j
    OBVIOUS
  <2>. QED
    BY <1>1, <2>2, <2>3
<1>4. ASSUME NEW i \in 1 .. 4 * n - j, i - 1 \in S
      PROVE  i \in S
  <2>1. i \in 1 .. 4 * n /\ j + i \in 1 .. 4 * n /\ (j + i) - 1 = j + (i - 1)
    OBVIOUS
  <2>2. L(a, j + i) = Longer(n, maxConc, L(a, (j + i) - 1))
    BY <2>1, LevelNext
  <2>3. L(a, (j + i) - 1) = UNION {L(b, i - 1) : b \in B}
    BY <1>4, <2>1
  <2>4. \A b \in B : L(b, i) = Longer(n, maxConc, L(b, i - 1))
    BY <1>2, <2>1, LevelNext
  <2>. HIDE DEF L, B
  <2>. DEFINE T == {L(b, i - 1) : b \in B}
  <2>6. {Longer(n, maxConc, hs) : hs \in T} = {L(b, i) : b \in B}
    BY <2>4
  <2>. HIDE DEF T
  <2>5. L(a, j + i) = UNION {Longer(n, maxConc, hs) : hs \in T}
    <3>1. L(a, j + i) = Longer(n, maxConc, UNION T)
      BY <2>2, <2>3 DEF T
    <3>. QED
      BY <3>1, LongerOfUnion
  <2>7. i \in 0 .. 4 * n - j
    OBVIOUS
  <2>. QED
    BY <2>5, <2>6, <2>7
<1>. HIDE DEF S
<1>5. \A i \in 0 .. 4 * n - j : i \in S
  BY <1>1, <1>3, <1>4, LevelInduction
<1>. QED
  BY <1>5 DEF S

----------------------------------------------------------------------------
(* The beginnings that are handed out. *)

InitsEquation(f, n, minAmt, maxConc) ==
  f = [k \in 1 .. 4 * n |->
         IF k = 1 THEN {<<0>>}
         ELSE UNION {IF Cardinality(hs) >= minAmt THEN hs ELSE Longer(n, maxConc, hs)
                       : hs \in {f[k - 1]}}]

LEMMA InitsExist ==
  ASSUME NEW n \in Nat, NEW minAmt, NEW maxConc, IsBeginning(n, << 0 >>)
  PROVE  \E f : InitsEquation(f, n, minAmt, maxConc)
<1>. DEFINE D == SUBSET Seq(0 .. n - 1)
            step(hs) == IF Cardinality(hs) >= minAmt THEN hs ELSE Longer(n, maxConc, hs)
            g == [p \in (1 .. 4 * n) \X D |-> step(p[2])]
<1>1. \A hs \in D : step(hs) \in D
  BY LongerType
<1>2. {<<0>>} \in D
  BY DEF IsBeginning
<1>. HIDE DEF D, step
<1>3. g \in [(1 .. 4 * n) \X D -> D]
  BY <1>1
<1>4. \A k \in 1 .. 4 * n, hs \in D : g[<<k, hs>>] = step(hs)
  OBVIOUS
<1>. HIDE DEF g
<1>5. 1 \in Int /\ 4 * n \in Int
  OBVIOUS
<1>6. PICK f : SolvesOnInterval(f, 1, 4 * n, D, {<<0>>}, g)
  BY <1>2, <1>3, <1>5, RecursionOnInterval
<1>7. f \in [1 .. 4 * n -> D]
  BY <1>6 DEF SolvesOnInterval
<1>8. ASSUME NEW k \in 1 .. 4 * n
      PROVE  f[k] = IF k = 1 THEN {<<0>>} ELSE UNION {step(hs) : hs \in {f[k - 1]}}
  <2>1. f[k] = IF k = 1 THEN {<<0>>} ELSE g[<<k, f[k - 1]>>]
    BY <1>6 DEF SolvesOnInterval
  <2>2. ASSUME k # 1
        PROVE  g[<<k, f[k - 1]>>] = UNION {step(hs) : hs \in {f[k - 1]}}
    <3>1. k - 1 \in 1 .. 4 * n
      BY <2>2
    <3>2. f[k - 1] \in D
      BY <3>1, <1>7
    <3>. QED
      BY <3>2, <1>4
  <2>. QED
    BY <2>1, <2>2
<1>9. f = [k \in 1 .. 4 * n |-> f[k]]
  BY <1>7
<1>10. f = [k \in 1 .. 4 * n |-> IF k = 1 THEN {<<0>>} ELSE UNION {step(hs) : hs \in {f[k - 1]}}]
  BY <1>8, <1>9
<1>. QED
  BY <1>10 DEF InitsEquation, step

\* create_inits stops at one of the levels.
LEMMA InitsAreLevel ==
  ASSUME NEW n \in Nat \ {0}, NEW minAmt, NEW maxConc
  PROVE  \E j \in 0 .. 4 * n - 1 :
           CreateInits(n, minAmt, maxConc) = Level(n, maxConc, <<0>>, j)
<1>. DEFINE f == CHOOSE f : InitsEquation(f, n, minAmt, maxConc)
            L(j) == Level(n, maxConc, <<0>>, j)
            S == {k \in 0 .. 4 * n - 1 : \E j \in 0 .. k : f[k + 1] = L(j)}
<1>1. IsBeginning(n, <<0>>)
  BY DEF IsBeginning
<1>2. CreateInits(n, minAmt, maxConc) = f[4 * n]
  BY Zenon DEF CreateInits, InitsEquation
<1>3. InitsEquation(f, n, minAmt, maxConc)
  BY <1>1, InitsExist
<1>. HIDE DEF f
<1>4. 4 * n - 1 \in Nat
  OBVIOUS
<1>5. \A k \in 1 .. 4 * n :
        f[k] = IF k = 1 THEN {<<0>>}
               ELSE IF Cardinality(f[k - 1]) >= minAmt THEN f[k - 1]
               ELSE Longer(n, maxConc, f[k - 1])
  <2>. DEFINE step(hs) == IF Cardinality(hs) >= minAmt THEN hs ELSE Longer(n, maxConc, hs)
  <2>1. f = [k \in 1 .. 4 * n |->
               IF k = 1 THEN {<<0>>} ELSE UNION {step(hs) : hs \in {f[k - 1]}}]
    BY <1>3 DEF InitsEquation
  <2>. HIDE DEF step
  <2>2. ASSUME NEW k \in 1 .. 4 * n
        PROVE  f[k] = IF k = 1 THEN {<<0>>} ELSE step(f[k - 1])
    <3>1. f[k] = IF k = 1 THEN {<<0>>} ELSE UNION {step(hs) : hs \in {f[k - 1]}}
      BY <2>1
    <3>2. UNION {step(hs) : hs \in {f[k - 1]}} = step(f[k - 1])
      OBVIOUS
    <3>. QED
      BY <3>1, <3>2
  <2>. QED
    BY <2>2 DEF step
<1>6. 0 \in S
  <2>1. f[0 + 1] = L(0)
    BY <1>1, <1>4, <1>5, LevelZero
  <2>. QED
    BY <2>1, <1>4
<1>7. ASSUME NEW k \in 1 .. 4 * n - 1, k - 1 \in S
      PROVE  k \in S
  <2>1. /\ k + 1 \in 1 .. 4 * n /\ k + 1 # 1 /\ (k + 1) - 1 = k /\ (k - 1) + 1 = k
        /\ k \in 0 .. 4 * n - 1
    OBVIOUS
  <2>2. PICK j \in 0 .. k - 1 : f[k] = L(j)
    BY <1>7, <2>1
  <2>3. f[k + 1] = f[k] \/ f[k + 1] = Longer(n, maxConc, f[k])
    BY <1>5, <2>1
  <2>4. j \in 0 .. k /\ j + 1 \in 0 .. k /\ j + 1 \in 1 .. 4 * n /\ (j + 1) - 1 = j
    OBVIOUS
  <2>5. L(j + 1) = Longer(n, maxConc, L(j))
    BY <1>1, <2>4, LevelNext
  <2>. HIDE DEF L
  <2>. QED
    BY <2>1, <2>2, <2>3, <2>4, <2>5
<1>. HIDE DEF S
<1>8. \A k \in 0 .. 4 * n - 1 : k \in S
  BY <1>4, <1>6, <1>7, LevelInduction
<1>9. 4 * n - 1 \in S /\ (4 * n - 1) + 1 = 4 * n
  BY <1>4, <1>8
<1>. QED
  BY <1>2, <1>9 DEF S

\* The beginnings of a level have as many continuations as the level lets them.
LEMMA PrependedFromLevel ==
  ASSUME NEW n \in Nat \ {0}, NEW maxConc, NEW j \in 0 .. 4 * n - 1,
         NEW b \in Level(n, maxConc, << 0 >>, j)
  PROVE  /\ IsBeginning(n, b) /\ Len(b) <= 4 * n
         /\ Prepended(n, maxConc, b) = Level(n, maxConc, b, (4 * n - 1) - j)
<1>1. IsBeginning(n, <<0>>) /\ Len(<<0>>) = 1 /\ j \in 0 .. 4 * n
  BY DEF IsBeginning
<1>2. Continues(n, maxConc, <<0>>, b, j)
  BY <1>1, LevelContinues
<1>3. /\ IsBeginning(n, b) /\ Len(b) \in Nat /\ 1 <= Len(b) /\ Len(b) <= 1 + j
      /\ Len(b) = 1 + j \/ Stuck(n, maxConc, b)
  BY <1>1, <1>2 DEF Continues, IsBeginning
<1>4. Len(b) <= 4 * n
  BY <1>3
<1>5. Prepended(n, maxConc, b) = Level(n, maxConc, b, 4 * n - Len(b))
  BY <1>3, <1>4, PrependedIsLevel
<1>6. CASE Len(b) = 1 + j
  <2>1. 4 * n - Len(b) = (4 * n - 1) - j
    BY <1>6
  <2>. QED
    BY <1>3, <1>4, <1>5, <2>1
<1>7. CASE Stuck(n, maxConc, b)
  <2>1. 4 * n - Len(b) \in 0 .. 4 * n /\ (4 * n - 1) - j \in 0 .. 4 * n
    BY <1>3, <1>4
  <2>2. /\ Level(n, maxConc, b, 4 * n - Len(b)) = {b}
        /\ Level(n, maxConc, b, (4 * n - 1) - j) = {b}
    BY <1>3, <1>7, <2>1, StuckStays
  <2>. QED
    BY <1>3, <1>4, <1>5, <2>2
<1>. QED
  BY <1>3, <1>6, <1>7

\* Two beginnings of a level have no history in common: of the same length,
\* they differ in an event; the shorter of two is complete, and no history
\* but itself.
LEMMA LevelsApart ==
  ASSUME NEW n \in Nat \ {0}, NEW maxConc, NEW j \in 0 .. 4 * n - 1,
         NEW b \in Level(n, maxConc, << 0 >>, j), NEW c \in Level(n, maxConc, << 0 >>, j),
         NEW x \in Prepended(n, maxConc, b) \cap Prepended(n, maxConc, c),
         Len(b) <= Len(c)
  PROVE  b = c
<1>1. IsBeginning(n, <<0>>) /\ Len(<<0>>) = 1 /\ j \in 0 .. 4 * n
  BY DEF IsBeginning
<1>2. Continues(n, maxConc, <<0>>, b, j) /\ Continues(n, maxConc, <<0>>, c, j)
  BY <1>1, LevelContinues
<1>3. /\ IsBeginning(n, b) /\ Len(b) \in Nat
      /\ Len(b) = 1 + j \/ Stuck(n, maxConc, b)
      /\ IsBeginning(n, c) /\ Len(c) \in Nat /\ Len(c) <= 1 + j
  BY <1>1, <1>2 DEF Continues, IsBeginning
<1>. DEFINE m == (4 * n - 1) - j
<1>4. m \in 0 .. 4 * n
  OBVIOUS
<1>5. x \in Level(n, maxConc, b, m) /\ x \in Level(n, maxConc, c, m)
  BY PrependedFromLevel
<1>. HIDE DEF m
<1>6. \A y \in {b, c} : Continues(n, maxConc, y, x, m)
  <2>1. \A y \in {b, c} : IsBeginning(n, y) /\ x \in Level(n, maxConc, y, m)
    BY <1>3, <1>5
  <2>. QED
    BY <1>4, <2>1, LevelContinues
<1>7. CASE Len(b) = Len(c)
  <2>1. \A i \in 1 .. Len(b) : b[i] = c[i]
    BY <1>6, <1>7 DEF Continues
  <2>2. b \in Seq(0 .. n - 1) /\ c \in Seq(0 .. n - 1)
    BY <1>3 DEF IsBeginning
  <2>. QED
    BY <1>7, <2>1, <2>2
<1>8. CASE Len(b) # Len(c)
  <2>1. Stuck(n, maxConc, b)
    BY <1>3, <1>8
  <2>2. x = b
    <3>1. Level(n, maxConc, b, m) = {b}
      BY <1>3, <1>4, <2>1, StuckStays
    <3>. QED
      BY <1>5, <3>1
  <2>3. Len(c) <= Len(x)
    BY <1>6 DEF Continues
  <2>. QED
    BY <1>3, <1>8, <2>2, <2>3
<1>. QED
  BY <1>7, <1>8

\* The beginnings of create_inits, however many are asked for, divide the
\* histories of a size: continued to their ends they give all histories, and
\* no history twice.
THEOREM BeginningsDivide ==
  ASSUME NEW n \in Nat \ {0}, NEW minAmt, NEW maxConc
  PROVE  /\ Prepended(n, maxConc, <<0>>)
              = UNION {Prepended(n, maxConc, b) : b \in CreateInits(n, minAmt, maxConc)}
         /\ \A b, c \in CreateInits(n, minAmt, maxConc) :
              b # c => Prepended(n, maxConc, b) \cap Prepended(n, maxConc, c) = {}
<1>1. PICK j \in 0 .. 4 * n - 1 :
        CreateInits(n, minAmt, maxConc) = Level(n, maxConc, <<0>>, j)
  BY InitsAreLevel
<1>. DEFINE B == Level(n, maxConc, <<0>>, j)
            L(b, k) == Level(n, maxConc, b, k)
            P(b) == Prepended(n, maxConc, b)
            m == (4 * n - 1) - j
<1>2. /\ IsBeginning(n, <<0>>) /\ Len(<<0>>) = 1 /\ 4 * n - 1 = j + m
      /\ j \in 0 .. 4 * n /\ m \in 0 .. 4 * n - j /\ 1 <= 4 * n
  BY DEF IsBeginning
<1>3. \A b \in B : P(b) = L(b, m)
  BY PrependedFromLevel
<1>4. P(<<0>>) = L(<<0>>, j + m)
  BY <1>2, PrependedIsLevel
<1>. HIDE DEF m
<1>5. L(<<0>>, j + m) = UNION {L(b, m) : b \in B}
  BY <1>2, LevelsCompose
<1>6. ASSUME NEW b \in B, NEW c \in B, b # c
      PROVE  P(b) \cap P(c) = {}
  <2>. SUFFICES ASSUME NEW x \in P(b) \cap P(c)
                PROVE  FALSE
    OBVIOUS
  <2>1. Len(b) \in Nat /\ Len(c) \in Nat
    BY PrependedFromLevel DEF IsBeginning
  <2>2. Len(b) <= Len(c) \/ Len(c) <= Len(b)
    BY <2>1
  <2>3. x \in P(c) \cap P(b)
    OBVIOUS
  <2>. QED
    BY <1>6, <2>2, <2>3, LevelsApart
<1>. HIDE DEF B, L, P
<1>7. {P(b) : b \in B} = {L(b, m) : b \in B}
  BY <1>3
<1>8. P(<<0>>) = UNION {P(b) : b \in B}
  BY <1>4, <1>5, <1>7
<1>9. CreateInits(n, minAmt, maxConc) = B
  BY <1>1 DEF B
<1>. QED
  BY <1>6, <1>8, <1>9 DEF P

\* There are finitely many histories of a size.
LEMMA HistoriesAreFinite ==
  ASSUME NEW n \in Nat \ {0}, NEW maxConc
  PROVE  IsFiniteSet(Prepended(n, maxConc, <<0>>))
<1>1. IsBeginning(n, <<0>>) /\ Len(<<0>>) = 1 /\ 1 <= 4 * n /\ 4 * n - 1 \in 0 .. 4 * n
  BY DEF IsBeginning
<1>2. Prepended(n, maxConc, <<0>>) = Level(n, maxConc, <<0>>, 4 * n - 1)
  BY <1>1, PrependedIsLevel
<1>. QED
  BY <1>1, <1>2, LevelType

----------------------------------------------------------------------------
(* Channels are sequences of messages, whatever these carry. *)

IsChannel(c) == \E S : c \in Seq(S)

LEMMA EmptyChannel ==
  /\ IsChannel(<<>>)
  /\ \A c : IsChannel(c) => Len(c) \in Nat /\ (c = <<>> <=> Len(c) = 0)
<1>1. <<>> \in Seq({})
  OBVIOUS
<1>2. ASSUME NEW c, NEW S, c \in Seq(S)
      PROVE  Len(c) \in Nat /\ (c = <<>> <=> Len(c) = 0)
  BY <1>2
<1>. QED
  BY <1>1, <1>2 DEF IsChannel

LEMMA AppendToChannel ==
  ASSUME NEW c, IsChannel(c), NEW m
  PROVE  /\ IsChannel(Append(c, m))
         /\ Append(c, m) # <<>>
         /\ Len(Append(c, m)) = Len(c) + 1
         /\ \A k \in 1 .. Len(c) : Append(c, m)[k] = c[k]
         /\ Append(c, m)[Len(c) + 1] = m
<1>1. PICK S : c \in Seq(S)
  BY DEF IsChannel
<1>2. c \in Seq(S \cup {m})
  BY <1>1
<1>3. Append(c, m) \in Seq(S \cup {m})
  BY <1>2
<1>. QED
  BY <1>2, <1>3 DEF IsChannel

LEMMA TailOfChannel ==
  ASSUME NEW c, IsChannel(c), c # <<>>
  PROVE  /\ IsChannel(Tail(c))
         /\ Len(c) \in Nat \ {0}
         /\ Len(Tail(c)) = Len(c) - 1
         /\ \A k \in 1 .. Len(c) - 1 : Tail(c)[k] = c[k + 1]
         /\ Head(c) = c[1]
<1>1. PICK S : c \in Seq(S)
  BY DEF IsChannel
<1>2. Tail(c) \in Seq(S) /\ Len(c) \in Nat \ {0}
  BY <1>1
<1>. QED
  BY <1>1, <1>2 DEF IsChannel

----------------------------------------------------------------------------
(* The steps, whichever of the two programs it is. *)

Exhaustive == program \in {"exhaustive", "automata_checker"}

\* The root receives something that changes none of its plans.
RootCounts(w) ==
  /\ \E tag \in {"COUNT", "MISMATCH", "CRASH", "AUTOMATA_FAIL"} : Receive(w, tag)
  /\ UNCHANGED <<thread_done, from, at, toWorker>>

Tests(w) ==
  \E told \in [left[w] -> {"nothing", "MISMATCH", "CRASH", "AUTOMATA_FAIL"}] :
    TestTelling(w, told)

Idles == UNCHANGED <<size, n_elements, gens, thread_done, from, left, tested, at, toRoot, toWorker>>

TesterStep(w) ==
  \/ RootCounts(w) \/ ReceiveDone(w) \/ ReceiveRequest(w) \/ SendData(w)
  \/ Request(w) \/ ReceiveAnswer(w) \/ ReceiveData(w) \/ Tests(w) \/ Count(w)
  \/ SendCount(w) \/ SendDone(w) \/ EnterReduce(w)

LEMMA WentWrongTells == \A h : WentWrong(h) \in {"nothing", "MISMATCH", "CRASH", "AUTOMATA_FAIL"}
  BY DEF WentWrong

LEMMA StepOfTester ==
  ASSUME Exhaustive, [Next]_testVars
  PROVE  /\ program' = program
         /\ Idles \/ LeaveLoop \/ Finish \/ \E w \in Workers : TesterStep(w)
<1>1. CASE UNCHANGED testVars
  BY <1>1 DEF testVars, exhVars, rootVars, workerVars, Idles
<1>2. ASSUME NEW w \in Workers, RootReceives(w)
      PROVE  RootCounts(w) \/ ReceiveDone(w) \/ ReceiveRequest(w)
  BY <1>2 DEF RootReceives, RootCounts, ReceiveCount, ReceiveMismatch, ReceiveCrash
<1>3. ASSUME NEW w \in Workers, ReceiveFail(w)
      PROVE  RootCounts(w)
  BY <1>3 DEF RootCounts, ReceiveFail
<1>4. ASSUME NEW w \in Workers, Test(w) \/ CheckerTest(w)
      PROVE  Tests(w)
  BY <1>4, WentWrongTells DEF Test, CheckerTest, Tests
<1>5. ASSUME ProbeNothing
      PROVE  Idles
  BY <1>5 DEF ProbeNothing, Idles, workerVars
<1>6. CASE Next
  <2>1. program' = program
    BY <1>6 DEF Next
  <2>2. ASSUME NEW w \in Workers, WorkerTalks(w)
        PROVE  TesterStep(w)
    BY <2>2 DEF WorkerTalks, TesterStep
  <2>3. CASE ExhaustiveNext
    BY <2>3, <2>1, <2>2, <1>2, <1>4, <1>5 DEF ExhaustiveNext, TesterStep
  <2>4. CASE CheckerNext
    BY <2>4, <2>1, <2>2, <1>2, <1>3, <1>4, <1>5
       DEF CheckerNext, CheckerRoot, CheckerWorker, TesterStep
  <2>. QED
    BY <1>6, <2>3, <2>4 DEF Next, Exhaustive
<1>. QED
  BY <1>1, <1>6

----------------------------------------------------------------------------
(* The protocol between the root and one worker. *)

Gone == {"sent", "reduce", "finished"}
Ending == {"count", "status"} \cup Gone

IsStatus(m, body) == m.tag = "STATUS" /\ m.body = body

\* What w has sent and the root has not received: a request comes last, and
\* then w waits for the answer; its end mark comes last of all.
Upward(w) ==
  \A k \in 1 .. Len(toRoot[w]) :
    toRoot[w][k].tag = "STATUS" =>
      /\ k = Len(toRoot[w])
      /\ \/ toRoot[w][k].body = "REQUEST" /\ at[w] = "answer" /\ toWorker[w] = <<>>
                                          /\ from # w
         \/ toRoot[w][k].body = "DONE" /\ at[w] \in Gone

\* What the root has sent, or is about to send, and w has not received.
Nothing(w) == toWorker[w] = <<>>
OneMessage(w) == Len(toWorker[w]) = 1
EndMark(w) == OneMessage(w) /\ IsStatus(toWorker[w][1], "DONE") /\ gens = {}
Promise(w) == OneMessage(w) /\ IsStatus(toWorker[w][1], "REQUEST")
PromiseKept(w) ==
  /\ Len(toWorker[w]) = 2
  /\ IsStatus(toWorker[w][1], "REQUEST") /\ toWorker[w][2].tag = "DATA"
Beginning(w) == OneMessage(w) /\ toWorker[w][1].tag = "DATA"

Downward(w) ==
  CASE at[w] = "answer" -> IF from = w THEN Promise(w)
                           ELSE Nothing(w) \/ EndMark(w) \/ PromiseKept(w)
    [] at[w] = "data"   -> IF from = w THEN Nothing(w) ELSE Beginning(w)
    [] OTHER            -> from # w /\ Nothing(w)

Protocol(w) ==
  /\ IsChannel(toRoot[w]) /\ IsChannel(toWorker[w])
  /\ Upward(w) /\ Downward(w)
  /\ thread_done[w] => toRoot[w] = <<>> /\ at[w] \in Gone
  /\ at[w] \notin {"test", "tested"} => left[w] = {}
  /\ at[w] \in Ending => gens = {}

TesterTypeOK ==
  /\ size \in Nat \ {0}
  /\ DOMAIN at = Processes
  /\ DOMAIN thread_done = Workers /\ DOMAIN left = Workers
  /\ DOMAIN toRoot = Workers /\ DOMAIN toWorker = Workers
  /\ at[0] \in {"loop", "data", "reduce", "finished"}
  /\ IF at[0] = "data" THEN from \in Workers /\ gens # {} ELSE from = 0
  /\ at[0] \in {"reduce", "finished"} => \A w \in Workers : thread_done[w]

ProtocolHolds == TesterTypeOK /\ \A w \in Workers : Protocol(w)

LEMMA WorkersAreProcesses ==
  ASSUME size \in Nat \ {0}
  PROVE  Processes = {0} \cup Workers /\ 0 \notin Workers /\ Workers \subseteq Nat
  BY DEF Processes, Workers

\* A step that does not touch w, nor hand out anything to it.
LEMMA ProtocolFrame ==
  ASSUME NEW w, Protocol(w),
         at'[w] = at[w], left'[w] = left[w], thread_done'[w] = thread_done[w],
         toRoot'[w] = toRoot[w], toWorker'[w] = toWorker[w],
         from' = w <=> from = w, gens = {} => gens' = {}
  PROVE  Protocol(w)'
BY DEF Protocol, Upward, Downward, Nothing, OneMessage, EndMark, Promise,
       PromiseKept, Beginning, IsStatus

\* A message of w to the root.
LEMMA ProtocolSend ==
  ASSUME NEW w, Protocol(w), NEW tag, NEW body, w \in DOMAIN toRoot,
         SendToRoot(w, tag, body), at[w] \notin Gone, at[w] \notin {"answer", "data"},
         tag = "STATUS" => \/ body = "REQUEST" /\ at'[w] = "answer"
                           \/ body = "DONE" /\ at'[w] \in Gone,
         at'[w] # "data", at'[w] = "answer" => tag = "STATUS",
         at'[w] \notin {"test", "tested"} => left'[w] = {},
         at'[w] \in Ending => gens = {},
         UNCHANGED <<thread_done, toWorker, from, gens>>
  PROVE  Protocol(w)'
<1>1. PICK m : /\ toRoot'[w] = Append(toRoot[w], m)
               /\ m.tag = tag /\ m.body = body
  <2>1. PICK sent \in Send(toRoot[w], tag, body) : toRoot' = [toRoot EXCEPT ![w] = sent]
    BY DEF SendToRoot
  <2>2. PICK waits \in BOOLEAN : sent = Append(toRoot[w], Message(tag, body, waits))
    BY DEF Send
  <2>3. Message(tag, body, waits).tag = tag /\ Message(tag, body, waits).body = body
    BY DEF Message
  <2>. QED
    BY <2>1, <2>2, <2>3
<1>2. /\ IsChannel(toRoot'[w])
      /\ Len(toRoot'[w]) = Len(toRoot[w]) + 1
      /\ \A k \in 1 .. Len(toRoot[w]) : toRoot'[w][k] = toRoot[w][k]
      /\ toRoot'[w][Len(toRoot[w]) + 1] = m
      /\ Len(toRoot[w]) \in Nat
  BY <1>1, AppendToChannel, EmptyChannel DEF Protocol
<1>3. /\ Nothing(w) /\ from # w /\ ~thread_done[w]
      /\ \A k \in 1 .. Len(toRoot[w]) : toRoot[w][k].tag # "STATUS"
  BY DEF Protocol, Downward, Upward
<1>4. Upward(w)'
  BY <1>1, <1>2, <1>3 DEF Upward, Nothing
<1>5. Downward(w)'
  BY <1>3 DEF Downward, Nothing
<1>. QED
  BY <1>2, <1>3, <1>4, <1>5 DEF Protocol

\* A message of w is received, which the root does not answer.
LEMMA ProtocolReceive ==
  ASSUME NEW w, Protocol(w), toRoot[w] # <<>>, w \in DOMAIN toRoot,
         toRoot' = [toRoot EXCEPT ![w] = Tail(@)],
         thread_done'[w] => thread_done[w] \/ (/\ Head(toRoot[w]).tag = "STATUS"
                                              /\ Head(toRoot[w]).body = "DONE"),
         UNCHANGED <<at, left, gens, from, toWorker>>
  PROVE  Protocol(w)'
<1>1. /\ IsChannel(toRoot'[w])
      /\ Len(toRoot[w]) \in Nat \ {0}
      /\ Len(toRoot'[w]) = Len(toRoot[w]) - 1
      /\ \A k \in 1 .. Len(toRoot'[w]) : toRoot'[w][k] = toRoot[w][k + 1]
      /\ Head(toRoot[w]) = toRoot[w][1]
  BY TailOfChannel DEF Protocol
<1>2. ~thread_done[w]
  BY DEF Protocol
<1>3. Upward(w)'
  BY <1>1 DEF Protocol, Upward
<1>4. ASSUME thread_done'[w]
      PROVE  toRoot'[w] = <<>> /\ at[w] \in Gone
  <2>1. Len(toRoot[w]) = 1 /\ at[w] \in Gone
    BY <1>1, <1>2, <1>4 DEF Protocol, Upward
  <2>2. Len(toRoot'[w]) = 0
    BY <1>1, <2>1
  <2>. QED
    BY <1>1, <2>1, <2>2, EmptyChannel
<1>5. Downward(w)'
  BY DEF Protocol, Downward, Nothing, OneMessage, EndMark, Promise, PromiseKept,
         Beginning, IsStatus
<1>. QED
  BY <1>1, <1>3, <1>4, <1>5 DEF Protocol

\* What a step of or for v leaves alone.
OnlyFor(v) ==
  /\ size' = size
  /\ \A w \in Workers \ {v} :
       /\ at'[w] = at[w] /\ left'[w] = left[w] /\ thread_done'[w] = thread_done[w]
       /\ toRoot'[w] = toRoot[w] /\ toWorker'[w] = toWorker[w]
       /\ from' = w <=> from = w
  /\ gens = {} => gens' = {}

LEMMA OthersKeepProtocol ==
  ASSUME NEW v, OnlyFor(v), Protocol(v)', \A w \in Workers : Protocol(w)
  PROVE  \A w \in Workers' : Protocol(w)'
<1>1. Workers' = Workers
  BY DEF OnlyFor, Workers
<1>2. ASSUME NEW w \in Workers \ {v}
      PROVE  Protocol(w)'
  BY <1>2, ProtocolFrame DEF OnlyFor
<1>. QED
  BY <1>1, <1>2

\* What the root receives and does not answer.
LEMMA ReceivingKeepsProtocol ==
  ASSUME ProtocolHolds, NEW v \in Workers, RootCounts(v) \/ ReceiveDone(v)
  PROVE  ProtocolHolds'
<1>1. /\ at[0] = "loop" /\ from = 0 /\ 0 \notin Workers
      /\ toRoot[v] # <<>>
      /\ toRoot' = [toRoot EXCEPT ![v] = Tail(@)]
      /\ UNCHANGED <<size, at, left, gens, from, toWorker>>
  BY WorkersAreProcesses
     DEF ProtocolHolds, TesterTypeOK, RootCounts, ReceiveDone, Receive, Looping, workerVars
<1>2. \/ thread_done' = thread_done
      \/ /\ thread_done' = [thread_done EXCEPT ![v] = TRUE]
         /\ Head(toRoot[v]).tag = "STATUS" /\ Head(toRoot[v]).body = "DONE"
  BY DEF RootCounts, ReceiveDone, Receive
<1>3. Protocol(v)'
  BY <1>1, <1>2, ProtocolReceive DEF ProtocolHolds, TesterTypeOK
<1>4. OnlyFor(v)
  BY <1>1, <1>2 DEF OnlyFor, ProtocolHolds, TesterTypeOK
<1>5. TesterTypeOK'
  BY <1>1, <1>2 DEF ProtocolHolds, TesterTypeOK, Processes, Workers
<1>. QED
  BY <1>3, <1>4, <1>5, OthersKeepProtocol DEF ProtocolHolds

\* A message that the root sends to a worker.
LEMMA RootSends ==
  ASSUME NEW w, NEW tag, NEW body, NEW sent \in Send(toWorker[w], tag, body),
         IsChannel(toWorker[w])
  PROVE  \E m : /\ m.tag = tag /\ m.body = body
                /\ sent = Append(toWorker[w], m)
                /\ IsChannel(sent) /\ Len(sent) = Len(toWorker[w]) + 1
                /\ \A k \in 1 .. Len(toWorker[w]) : sent[k] = toWorker[w][k]
                /\ sent[Len(toWorker[w]) + 1] = m
<1>1. PICK waits \in BOOLEAN : sent = Append(toWorker[w], Message(tag, body, waits))
  BY DEF Send
<1>2. Message(tag, body, waits).tag = tag /\ Message(tag, body, waits).body = body
  BY DEF Message
<1>. QED
  BY <1>1, <1>2, AppendToChannel

\* The last message of a worker is a request, and is answered.
LEMMA RequestKeepsProtocol ==
  ASSUME ProtocolHolds, NEW v \in Workers, ReceiveRequest(v)
  PROVE  ProtocolHolds'
<1>1. /\ at[0] = "loop" /\ from = 0 /\ v # 0 /\ 0 \notin Workers
      /\ toRoot[v] # <<>>
      /\ toRoot' = [toRoot EXCEPT ![v] = Tail(@)]
      /\ IsStatus(Head(toRoot[v]), "REQUEST")
      /\ UNCHANGED <<size, left, gens, thread_done>>
      /\ \/ gens # {} /\ from' = v /\ at' = [at EXCEPT ![0] = "data"]
         \/ gens = {} /\ from' = from /\ at' = at
  BY WorkersAreProcesses
     DEF ProtocolHolds, TesterTypeOK, ReceiveRequest, Receive, Looping, workerVars, IsStatus
<1>2. /\ Protocol(v)
      /\ v \in DOMAIN toRoot /\ v \in DOMAIN toWorker
      /\ 0 \in DOMAIN at /\ Workers \subseteq DOMAIN at
  BY WorkersAreProcesses DEF ProtocolHolds, TesterTypeOK
<1>3. /\ Len(toRoot[v]) \in Nat \ {0}
      /\ IsChannel(Tail(toRoot[v])) /\ Len(Tail(toRoot[v])) = Len(toRoot[v]) - 1
      /\ Head(toRoot[v]) = toRoot[v][1]
  BY <1>1, <1>2, TailOfChannel DEF Protocol
<1>4. /\ Len(toRoot[v]) = 1 /\ at[v] = "answer" /\ toWorker[v] = <<>>
      /\ left[v] = {} /\ ~thread_done[v]
  BY <1>1, <1>2, <1>3 DEF Protocol, Upward, IsStatus, Gone
<1>5. toRoot'[v] = <<>> /\ at'[v] = "answer"
  <2>1. Len(Tail(toRoot[v])) = 0
    BY <1>3, <1>4
  <2>2. Tail(toRoot[v]) = <<>>
    BY <2>1, <1>3, EmptyChannel
  <2>3. at'[v] = at[v]
    BY <1>1, <1>2
  <2>. QED
    BY <2>2, <2>3, <1>1, <1>2, <1>4
<1>6. PICK answer \in {"REQUEST", "DONE"} :
        /\ \E sent \in Send(toWorker[v], "STATUS", answer) :
             toWorker' = [toWorker EXCEPT ![v] = sent]
        /\ answer = (IF gens # {} THEN "REQUEST" ELSE "DONE")
  BY DEF ReceiveRequest
<1>7. PICK sent \in Send(toWorker[v], "STATUS", answer) :
        toWorker' = [toWorker EXCEPT ![v] = sent]
  BY <1>6
<1>8. /\ IsChannel(toWorker'[v]) /\ Len(toWorker'[v]) = 1
      /\ IsStatus(toWorker'[v][1], answer)
  <2>1. IsChannel(toWorker[v]) /\ Len(toWorker[v]) = 0
    BY <1>2, <1>4, EmptyChannel DEF Protocol
  <2>2. PICK m : /\ m.tag = "STATUS" /\ m.body = answer
                 /\ sent = Append(toWorker[v], m)
                 /\ IsChannel(sent) /\ Len(sent) = Len(toWorker[v]) + 1
                 /\ \A k \in 1 .. Len(toWorker[v]) : sent[k] = toWorker[v][k]
                 /\ sent[Len(toWorker[v]) + 1] = m
    BY <1>7, <2>1, RootSends, Zenon
  <2>. QED
    BY <1>2, <1>7, <2>1, <2>2 DEF IsStatus
<1>9. Downward(v)'
  <2>1. CASE gens # {}
    BY <2>1, <1>1, <1>5, <1>6, <1>8 DEF Downward, Promise, OneMessage
  <2>2. CASE gens = {}
    BY <2>2, <1>1, <1>5, <1>6, <1>8 DEF Downward, EndMark, OneMessage
  <2>. QED
    BY <2>1, <2>2
<1>10. Upward(v)'
  BY <1>5, EmptyChannel DEF Upward
<1>11. Protocol(v)'
  BY <1>1, <1>4, <1>5, <1>8, <1>9, <1>10, EmptyChannel DEF Protocol, Ending, Gone
<1>12. OnlyFor(v)
  <2>1. ASSUME NEW w \in Workers \ {v}
        PROVE  /\ at'[w] = at[w] /\ (from' = w <=> from = w)
    BY <1>1, <1>2
  <2>2. ASSUME NEW w \in Workers \ {v}
        PROVE  toRoot'[w] = toRoot[w] /\ toWorker'[w] = toWorker[w]
    BY <1>1, <1>2, <1>7 DEF ProtocolHolds, TesterTypeOK
  <2>. QED
    BY <1>1, <2>1, <2>2 DEF OnlyFor
<1>13. TesterTypeOK'
  BY <1>1, <1>7 DEF ProtocolHolds, TesterTypeOK, Processes, Workers
<1>. QED
  BY <1>11, <1>12, <1>13, OthersKeepProtocol DEF ProtocolHolds

\* The promise is kept.
LEMMA SendDataKeepsProtocol ==
  ASSUME ProtocolHolds, NEW v \in Workers, SendData(v)
  PROVE  ProtocolHolds'
<1> DEFINE init == CHOOSE g \in gens : TRUE
<1>1. /\ at[0] = "data" /\ from = v /\ v # 0 /\ from' = 0 /\ 0 \notin Workers
      /\ at' = [at EXCEPT ![0] = "loop"]
      /\ gens' = gens \ {init}
      /\ UNCHANGED <<size, left, thread_done, toRoot>>
  BY WorkersAreProcesses
     DEF ProtocolHolds, TesterTypeOK, SendData, workerVars
<1>2. PICK sent \in Send(toWorker[v], "DATA", init) :
        toWorker' = [toWorker EXCEPT ![v] = sent]
  BY DEF SendData
<1>. HIDE DEF init
<1>3. /\ Protocol(v) /\ IsChannel(toWorker[v])
      /\ v \in DOMAIN toWorker /\ 0 \in DOMAIN at /\ Workers \subseteq DOMAIN at
  BY WorkersAreProcesses DEF ProtocolHolds, TesterTypeOK, Protocol
<1>4. PICK m : /\ m.tag = "DATA" /\ m.body = init
               /\ sent = Append(toWorker[v], m)
               /\ IsChannel(sent) /\ Len(sent) = Len(toWorker[v]) + 1
               /\ \A k \in 1 .. Len(toWorker[v]) : sent[k] = toWorker[v][k]
               /\ sent[Len(toWorker[v]) + 1] = m
  BY <1>2, <1>3, RootSends, Zenon
<1>5. toWorker'[v] = sent /\ at'[v] = at[v]
  BY <1>1, <1>2, <1>3
<1>6. /\ at[v] \in {"answer", "data"}
      /\ Downward(v)'
  <2>1. CASE at[v] = "answer"
    <3>1. Promise(v)
      BY <2>1, <1>1, <1>3 DEF Protocol, Downward
    <3>2. PromiseKept(v)'
      BY <3>1, <1>4, <1>5 DEF Promise, OneMessage, PromiseKept, IsStatus
    <3>. QED
      BY <2>1, <3>2, <1>1, <1>5 DEF Downward
  <2>2. CASE at[v] = "data"
    <3>1. Len(toWorker[v]) = 0
      BY <2>2, <1>1, <1>3, EmptyChannel DEF Protocol, Downward, Nothing
    <3>2. Beginning(v)'
      BY <3>1, <1>4, <1>5 DEF OneMessage, Beginning
    <3>. QED
      BY <2>2, <3>2, <1>1, <1>5 DEF Downward
  <2>. QED
    BY <2>1, <2>2, <1>1, <1>3 DEF Protocol, Downward
<1>7. Upward(v)'
  BY <1>1, <1>3, <1>5, <1>6 DEF Protocol, Upward, Gone
<1>8. Protocol(v)'
  BY <1>1, <1>3, <1>4, <1>5, <1>6, <1>7 DEF Protocol, Ending, Gone
<1>9. OnlyFor(v)
  BY <1>1, <1>2, <1>3 DEF OnlyFor, ProtocolHolds, TesterTypeOK
<1>10. TesterTypeOK'
  BY <1>1, <1>2 DEF ProtocolHolds, TesterTypeOK, Processes, Workers
<1>. QED
  BY <1>8, <1>9, <1>10, OthersKeepProtocol DEF ProtocolHolds

\* What a worker sends.
LEMMA SendingKeepsProtocol ==
  ASSUME ProtocolHolds, NEW v \in Workers,
         Request(v) \/ SendCount(v) \/ SendDone(v) \/ Count(v) \/ Tests(v)
  PROVE  ProtocolHolds'
<1>1. /\ v # 0 /\ v \in DOMAIN at /\ v \in DOMAIN toRoot /\ v \in DOMAIN left
      /\ Workers \subseteq DOMAIN at /\ 0 \in DOMAIN at /\ Protocol(v)
  BY WorkersAreProcesses DEF ProtocolHolds, TesterTypeOK
<1>2. /\ UNCHANGED <<size, gens, from, thread_done, toWorker>>
      /\ \/ left' = left
         \/ \E h : left' = [left EXCEPT ![v] = @ \ {h}]
      /\ \/ at' = at
         \/ \E place : at' = [at EXCEPT ![v] = place]
      /\ \/ toRoot' = toRoot
         \/ \E tag, body : SendToRoot(v, tag, body)
  BY DEF Request, SendCount, SendDone, Count, Tests, TestTelling, CountTested,
         rootVars, workerVars
<1>3. ASSUME NEW w \in Workers \ {v}
      PROVE  at'[w] = at[w] /\ left'[w] = left[w] /\ toRoot'[w] = toRoot[w]
  <2>1. w \in DOMAIN at /\ w \in DOMAIN left /\ w \in DOMAIN toRoot
    BY <1>1 DEF ProtocolHolds, TesterTypeOK
  <2>2. at'[w] = at[w]
    BY <1>2, <2>1
  <2>3. left'[w] = left[w]
    BY <1>2, <2>1
  <2>4. toRoot'[w] = toRoot[w]
    BY <1>2, <2>1 DEF SendToRoot
  <2>. QED
    BY <2>2, <2>3, <2>4
<1>4. OnlyFor(v)
  BY <1>2, <1>3 DEF OnlyFor
<1>5. TesterTypeOK'
  <2>1. DOMAIN at' = Processes /\ DOMAIN left' = Workers /\ DOMAIN toRoot' = Workers
    BY <1>2 DEF SendToRoot, ProtocolHolds, TesterTypeOK
  <2>2. at'[0] = at[0]
    BY <1>1, <1>2
  <2>. QED
    BY <1>2, <2>1, <2>2 DEF ProtocolHolds, TesterTypeOK, Processes, Workers
<1>6. Protocol(v)'
  <2>1. CASE Request(v)
    <3>1. /\ at[v] = "test" /\ left[v] = {} /\ at'[v] = "answer"
          /\ UNCHANGED left
          /\ SendToRoot(v, "STATUS", "REQUEST")
      BY <2>1, <1>1 DEF Request, workerVars
    <3>. QED
      BY <3>1, <1>1, <1>2, ProtocolSend DEF Gone, Ending
  <2>2. CASE SendCount(v)
    <3>1. /\ at[v] = "count" /\ at'[v] = "status" /\ UNCHANGED left
          /\ SendToRoot(v, "COUNT", counter[v])
      BY <2>2, <1>1 DEF SendCount, workerVars
    <3>2. left[v] = {} /\ gens = {}
      BY <3>1, <1>1 DEF Protocol, Ending
    <3>. QED
      BY <3>1, <3>2, <1>1, <1>2, ProtocolSend DEF Gone, Ending
  <2>3. CASE SendDone(v)
    <3>1. /\ at[v] = "status" /\ at'[v] = "sent" /\ UNCHANGED left
          /\ SendToRoot(v, "STATUS", "DONE")
      BY <2>3, <1>1 DEF SendDone, workerVars
    <3>2. left[v] = {} /\ gens = {}
      BY <3>1, <1>1 DEF Protocol, Ending
    <3>. QED
      BY <3>1, <3>2, <1>1, <1>2, ProtocolSend DEF Gone, Ending
  <2>4. CASE Count(v) \/ Tests(v)
    <3>1. at[v] \in {"test", "tested"} /\ at'[v] \in {"test", "tested"}
      BY <2>4, <1>1 DEF Count, Tests, TestTelling
    <3>2. \/ toRoot' = toRoot
          \/ \E tag \in {"COUNT", "MISMATCH", "CRASH", "AUTOMATA_FAIL"} : \E body :
               SendToRoot(v, tag, body)
      <4>1. CASE Count(v)
        BY <4>1 DEF Count, CountTested
      <4>2. CASE Tests(v)
        <5>1. PICK told \in [left[v] -> {"nothing", "MISMATCH", "CRASH", "AUTOMATA_FAIL"}] :
                TestTelling(v, told)
          BY <4>2 DEF Tests
        <5>2. left[v] # {}
          BY <5>1 DEF TestTelling
        <5>3. told[CHOOSE g \in left[v] : TRUE]
                \in {"nothing", "MISMATCH", "CRASH", "AUTOMATA_FAIL"}
          BY <5>1, <5>2
        <5>. QED
          BY <5>1, <5>3 DEF TestTelling, CountTested
      <4>. QED
        BY <2>4, <4>1, <4>2
    <3>3. CASE toRoot' = toRoot
      BY <3>1, <3>3, <1>1, <1>2
         DEF Protocol, Upward, Downward, Nothing, Gone, Ending
    <3>4. ASSUME NEW tag \in {"COUNT", "MISMATCH", "CRASH", "AUTOMATA_FAIL"}, NEW body,
                 SendToRoot(v, tag, body)
          PROVE  Protocol(v)'
      BY <3>1, <3>4, <1>1, <1>2, ProtocolSend DEF Gone, Ending
    <3>. QED
      BY <3>2, <3>3, <3>4
  <2>. QED
    BY <2>1, <2>2, <2>3, <2>4
<1>. QED
  BY <1>4, <1>5, <1>6, OthersKeepProtocol DEF ProtocolHolds

\* What a worker receives.
LEMMA AnswerKeepsProtocol ==
  ASSUME ProtocolHolds, NEW v \in Workers, ReceiveAnswer(v) \/ ReceiveData(v)
  PROVE  ProtocolHolds'
<1>1. /\ v # 0 /\ v \in DOMAIN toWorker /\ v \in DOMAIN left
      /\ Workers \subseteq DOMAIN at /\ 0 \in DOMAIN at
      /\ Protocol(v) /\ IsChannel(toWorker[v])
  BY WorkersAreProcesses DEF ProtocolHolds, TesterTypeOK, Protocol
<1>2. /\ UNCHANGED <<size, gens, from, thread_done, toRoot>>
      /\ toWorker[v] # <<>> /\ toWorker' = [toWorker EXCEPT ![v] = Tail(@)]
      /\ \E place : at' = [at EXCEPT ![v] = place]
      /\ \/ left' = left
         \/ \E hs : left' = [left EXCEPT ![v] = hs]
  BY DEF ReceiveAnswer, ReceiveData, rootVars, workerVars
<1>3. /\ Len(toWorker[v]) \in Nat \ {0}
      /\ IsChannel(toWorker'[v]) /\ Len(toWorker'[v]) = Len(toWorker[v]) - 1
      /\ \A k \in 1 .. Len(toWorker[v]) - 1 : toWorker'[v][k] = toWorker[v][k + 1]
      /\ Head(toWorker[v]) = toWorker[v][1]
  BY <1>1, <1>2, TailOfChannel
<1>4. ASSUME NEW w \in Workers \ {v}
      PROVE  at'[w] = at[w] /\ left'[w] = left[w] /\ toWorker'[w] = toWorker[w]
  <2>1. w \in DOMAIN at /\ w \in DOMAIN left /\ w \in DOMAIN toWorker
    BY <1>1 DEF ProtocolHolds, TesterTypeOK
  <2>2. at'[w] = at[w]
    BY <1>2, <2>1
  <2>3. left'[w] = left[w]
    BY <1>2, <2>1
  <2>. QED
    BY <1>2, <2>1, <2>2, <2>3
<1>5. OnlyFor(v)
  BY <1>2, <1>4 DEF OnlyFor
<1>6. TesterTypeOK'
  <2>1. DOMAIN at' = Processes /\ DOMAIN left' = Workers /\ DOMAIN toWorker' = Workers
    BY <1>2 DEF ProtocolHolds, TesterTypeOK
  <2>2. at'[0] = at[0]
    BY <1>1, <1>2
  <2>. QED
    BY <1>2, <2>1, <2>2 DEF ProtocolHolds, TesterTypeOK, Processes, Workers
<1>7. Upward(v)' /\ ~thread_done[v]
  <2>1. at[v] \in {"answer", "data"}
    BY DEF ReceiveAnswer, ReceiveData
  <2>2. ~thread_done[v]
    BY <2>1, <1>1 DEF Protocol, Gone
  <2>3. \A k \in 1 .. Len(toRoot[v]) : toRoot[v][k].tag # "STATUS"
    BY <2>1, <1>1, <1>2 DEF Protocol, Upward, Gone
  <2>. QED
    BY <2>2, <2>3, <1>2 DEF Upward
<1>8. CASE ReceiveAnswer(v)
  <2>1. /\ at[v] = "answer" /\ left' = left /\ toWorker[v][1].tag = "STATUS"
        /\ at'[v] = IF toWorker[v][1].body = "DONE" THEN "count" ELSE "data"
    BY <1>8, <1>1, <1>3 DEF ReceiveAnswer, workerVars
  <2>2. left[v] = {}
    BY <2>1, <1>1 DEF Protocol
  <2>3. ASSUME EndMark(v)
        PROVE  Protocol(v)'
    <3>1. at'[v] = "count" /\ gens = {} /\ Len(toWorker'[v]) = 0
      BY <2>1, <2>3, <1>3 DEF EndMark, OneMessage, IsStatus
    <3>2. toWorker'[v] = <<>> /\ from # v
      BY <3>1, <2>1, <2>3, <1>1, <1>3, EmptyChannel
         DEF Protocol, Downward, Promise, EndMark, IsStatus
    <3>. QED
      BY <3>1, <3>2, <2>1, <2>2, <1>1, <1>2, <1>3, <1>7
         DEF Protocol, Downward, Nothing
  <2>4. ASSUME from = v
        PROVE  Protocol(v)'
    <3>1. at'[v] = "data" /\ Len(toWorker'[v]) = 0
      BY <2>1, <2>4, <1>1, <1>3 DEF Protocol, Downward, Promise, OneMessage, IsStatus
    <3>2. toWorker'[v] = <<>>
      BY <3>1, <1>3, EmptyChannel
    <3>. QED
      BY <3>1, <3>2, <2>1, <2>2, <2>4, <1>1, <1>2, <1>3, <1>7
         DEF Protocol, Downward, Nothing, Ending, Gone
  <2>5. ASSUME from # v /\ PromiseKept(v)
        PROVE  Protocol(v)'
    <3>1. at'[v] = "data" /\ Len(toWorker'[v]) = 1 /\ toWorker'[v][1].tag = "DATA"
      BY <2>1, <2>5, <1>3 DEF PromiseKept, IsStatus
    <3>. QED
      BY <3>1, <2>1, <2>2, <2>5, <1>1, <1>2, <1>3, <1>7
         DEF Protocol, Downward, Beginning, OneMessage, Ending, Gone
  <2>. QED
    BY <2>1, <2>3, <2>4, <2>5, <1>1, <1>2, <1>5, <1>6, OthersKeepProtocol
       DEF Protocol, Downward, Nothing, ProtocolHolds
<1>9. CASE ReceiveData(v)
  <2>1. at[v] = "data" /\ at'[v] = "test"
    BY <1>9, <1>1 DEF ReceiveData
  <2>2. from # v /\ Len(toWorker'[v]) = 0
    BY <2>1, <1>1, <1>2, <1>3 DEF Protocol, Downward, Nothing, Beginning, OneMessage
  <2>3. toWorker'[v] = <<>>
    BY <2>2, <1>3, EmptyChannel
  <2>4. Protocol(v)'
    BY <2>1, <2>2, <2>3, <1>1, <1>2, <1>3, <1>7
       DEF Protocol, Downward, Nothing, Ending, Gone
  <2>. QED
    BY <2>4, <1>5, <1>6, OthersKeepProtocol DEF ProtocolHolds
<1>. QED
  BY <1>8, <1>9

\* The ends of the loops.
LEMMA EnterReduceKeepsProtocol ==
  ASSUME ProtocolHolds, NEW v \in Workers, EnterReduce(v)
  PROVE  ProtocolHolds'
<1>1. /\ v # 0 /\ 0 \in DOMAIN at /\ Workers \subseteq DOMAIN at /\ Protocol(v)
  BY WorkersAreProcesses DEF ProtocolHolds, TesterTypeOK
<1>2. /\ at[v] = "sent" /\ at' = [at EXCEPT ![v] = "reduce"]
      /\ UNCHANGED <<size, gens, from, thread_done, left, toRoot, toWorker>>
  BY DEF EnterReduce, rootVars, workerVars
<1>3. at'[v] = "reduce" /\ at'[0] = at[0] /\ \A w \in Workers \ {v} : at'[w] = at[w]
  BY <1>1, <1>2
<1>4. Protocol(v)'
  BY <1>1, <1>2, <1>3 DEF Protocol, Upward, Downward, Nothing, Ending, Gone
<1>5. OnlyFor(v)
  BY <1>2, <1>3 DEF OnlyFor
<1>6. TesterTypeOK'
  BY <1>2, <1>3 DEF ProtocolHolds, TesterTypeOK, Processes, Workers
<1>. QED
  BY <1>4, <1>5, <1>6, OthersKeepProtocol DEF ProtocolHolds

LEMMA EndKeepsProtocol ==
  ASSUME ProtocolHolds, LeaveLoop \/ Finish \/ Idles
  PROVE  ProtocolHolds'
<1>1. /\ 0 \in DOMAIN at /\ 0 \notin Workers /\ Workers \subseteq DOMAIN at
      /\ Workers' = Workers /\ Processes' = Processes
      /\ UNCHANGED <<size, gens, from, thread_done, left, toRoot, toWorker>>
  BY WorkersAreProcesses
     DEF ProtocolHolds, TesterTypeOK, LeaveLoop, Finish, Idles, rootVars, workerVars,
         Workers, Processes
<1>2. CASE Idles
  <2>1. UNCHANGED at
    BY <1>2 DEF Idles
  <2>2. TesterTypeOK'
    BY <1>1, <2>1 DEF ProtocolHolds, TesterTypeOK
  <2>. QED
    BY <1>1, <2>1, <2>2, ProtocolFrame DEF ProtocolHolds
<1>3. CASE LeaveLoop
  <2>1. /\ at[0] = "loop" /\ at' = [at EXCEPT ![0] = "reduce"]
        /\ \A w \in Workers : thread_done[w]
    BY <1>3 DEF LeaveLoop, Looping
  <2>2. at'[0] = "reduce" /\ \A w \in Workers : at'[w] = at[w]
    BY <1>1, <2>1
  <2>3. TesterTypeOK'
    BY <1>1, <2>1, <2>2 DEF ProtocolHolds, TesterTypeOK
  <2>. QED
    BY <1>1, <2>2, <2>3, ProtocolFrame DEF ProtocolHolds
<1>4. CASE Finish
  <2>1. /\ \A p \in Processes : at[p] = "reduce"
        /\ at' = [p \in Processes |-> "finished"]
    BY <1>4 DEF Finish
  <2>2. /\ at[0] = "reduce" /\ at'[0] = "finished"
        /\ \A w \in Workers : at[w] = "reduce" /\ at'[w] = "finished"
    BY <1>1, <2>1, WorkersAreProcesses DEF ProtocolHolds, TesterTypeOK
  <2>3. TesterTypeOK'
    BY <1>1, <2>1, <2>2 DEF ProtocolHolds, TesterTypeOK
  <2>4. ASSUME NEW w \in Workers
        PROVE  Protocol(w)'
    BY <1>1, <2>2 DEF ProtocolHolds, Protocol, Upward, Downward, Nothing, Ending, Gone
  <2>. QED
    BY <1>1, <2>3, <2>4 DEF ProtocolHolds
<1>. QED
  BY <1>2, <1>3, <1>4

LEMMA StartsByProtocol ==
  ASSUME Init, Exhaustive
  PROVE  ProtocolHolds
<1>1. /\ \E p \in DOMAIN Sizes : size \in Sizes[p]
      /\ \E sizes, lengths : ExhaustiveInit(sizes, lengths)
  BY DEF Init, Exhaustive, CheckerInit, ExhaustiveInit
<1>2. size \in Nat \ {0}
  BY <1>1, ProgramsAssumption
<1>3. /\ at = [p \in Processes |-> IF p = 0 THEN "loop" ELSE "test"]
      /\ thread_done = [w \in Workers |-> FALSE] /\ left = [w \in Workers |-> {}]
      /\ toRoot = [w \in Workers |-> <<>>] /\ toWorker = [w \in Workers |-> <<>>]
      /\ from = 0
  BY <1>1 DEF ExhaustiveInit
<1>4. /\ 0 \in Processes /\ at[0] = "loop"
      /\ \A w \in Workers : at[w] = "test" /\ w # 0
  BY <1>2, <1>3, WorkersAreProcesses
<1>5. TesterTypeOK
  BY <1>2, <1>3, <1>4 DEF TesterTypeOK
<1>6. ASSUME NEW w \in Workers
      PROVE  Protocol(w)
  BY <1>3, <1>4, EmptyChannel DEF Protocol, Upward, Downward, Nothing, Ending, Gone
<1>. QED
  BY <1>5, <1>6 DEF ProtocolHolds

\* The protocol is kept by every step of the two programs.
LEMMA ProtocolKept ==
  ASSUME Exhaustive, ProtocolHolds, [Next]_testVars
  PROVE  ProtocolHolds'
<1>1. CASE Idles \/ LeaveLoop \/ Finish
  BY <1>1, EndKeepsProtocol
<1>2. ASSUME NEW v \in Workers, TesterStep(v)
      PROVE  ProtocolHolds'
  BY <1>2, ReceivingKeepsProtocol, RequestKeepsProtocol, SendDataKeepsProtocol,
     SendingKeepsProtocol, AnswerKeepsProtocol, EnterReduceKeepsProtocol
     DEF TesterStep
<1>. QED
  BY <1>1, <1>2, StepOfTester

\* When the root of exhaustive or of the automata checker has left its loop,
\* every message has been received and no worker waits, for any number of
\* processes and whatever sends wait.
THEOREM AllReceived == Spec => []NothingUnreceived
<1> DEFINE Inv == Exhaustive => ProtocolHolds
<1>1. Init => Inv
  BY StartsByProtocol
<1>2. Inv /\ [Next]_testVars => Inv'
  <2>. SUFFICES ASSUME Inv, [Next]_testVars, Exhaustive'
                PROVE  ProtocolHolds'
    OBVIOUS
  <2>1. program' = program
    BY DEF Next, testVars
  <2>2. Exhaustive
    BY <2>1 DEF Exhaustive
  <2>. QED
    BY <2>2, ProtocolKept
<1>3. Inv /\ program \in {"exhaustive", "automata_checker", "random"} => NothingUnreceived
  <2>. SUFFICES ASSUME ProtocolHolds, at[0] \in {"reduce", "finished"}, NEW w \in Workers
                PROVE  toRoot[w] = <<>> /\ toWorker[w] = <<>> /\ at[w] \notin {"answer", "data"}
    BY DEF NothingUnreceived, Exhaustive
  <2>1. thread_done[w] /\ Protocol(w)
    BY DEF ProtocolHolds, TesterTypeOK
  <2>. QED
    BY <2>1 DEF Protocol, Downward, Nothing, Gone
<1>4. Init => program \in {"exhaustive", "automata_checker", "random"}
  BY ProgramsAssumption DEF Init
<1>5. program \in {"exhaustive", "automata_checker", "random"} /\ [Next]_testVars
        => (program \in {"exhaustive", "automata_checker", "random"})'
  BY DEF Next, testVars
<1>. QED
  BY <1>1, <1>2, <1>3, <1>4, <1>5, PTL DEF Spec

----------------------------------------------------------------------------
(* Where the histories are: with the root, with a worker, or tested. *)

Continuations(b) == Prepended(n_elements, MaxThr, b)

ToHandOut == UNION {Continuations(b) : b \in gens}

Bodies(c) == {c[k].body : k \in {j \in 1 .. Len(c) : c[j].tag = "DATA"}}

OnTheWay(w) == Bodies(toWorker[w])

Held(w) == left[w] \cup UNION {Continuations(b) : b \in OnTheWay(w)}

Accounted ==
  /\ DOMAIN tested = AllHistories(n_elements)
  /\ ToHandOut \subseteq AllHistories(n_elements)
  /\ \A b, c \in gens : b # c => Continuations(b) \cap Continuations(c) = {}
  /\ \A w \in Workers : /\ Held(w) \subseteq AllHistories(n_elements)
                        /\ Held(w) \cap ToHandOut = {}
                        /\ \A v \in Workers : v # w => Held(v) \cap Held(w) = {}
  /\ \A h \in AllHistories(n_elements) :
       tested[h] = IF h \in ToHandOut \/ \E w \in Workers : h \in Held(w)
                   THEN 0 ELSE 1

\* What a step can do to the histories.
NothingMoves ==
  /\ UNCHANGED <<n_elements, size, gens, tested>>
  /\ \A w \in Workers : Held(w)' = Held(w)

HandedOut(v) ==
  /\ UNCHANGED <<n_elements, size, tested>>
  /\ \E b \in gens : gens' = gens \ {b} /\ Held(v)' = Held(v) \cup Continuations(b)
  /\ \A w \in Workers \ {v} : Held(w)' = Held(w)

TestedBy(v) ==
  /\ UNCHANGED <<n_elements, size, gens>>
  /\ \E h \in Held(v) : /\ Held(v)' = Held(v) \ {h}
                        /\ tested' = [tested EXCEPT ![h] = @ + 1]
  /\ \A w \in Workers \ {v} : Held(w)' = Held(w)

LEMMA AccountsKept ==
  ASSUME Accounted,
         NothingMoves \/ \E v \in Workers : HandedOut(v) \/ TestedBy(v)
  PROVE  Accounted'
<1>1. /\ Workers' = Workers /\ AllHistories(n_elements)' = AllHistories(n_elements)
      /\ \A b : Continuations(b)' = Continuations(b)
  BY DEF NothingMoves, HandedOut, TestedBy, Workers, AllHistories, Continuations
<1>2. CASE NothingMoves
  <2>1. ToHandOut' = ToHandOut
    BY <1>1, <1>2 DEF ToHandOut, NothingMoves
  <2>. QED
    BY <1>1, <1>2, <2>1 DEF Accounted, NothingMoves
<1>3. ASSUME NEW v \in Workers, HandedOut(v)
      PROVE  Accounted'
  <2>1. PICK b \in gens : gens' = gens \ {b} /\ Held(v)' = Held(v) \cup Continuations(b)
    BY <1>3 DEF HandedOut
  <2>2. /\ ToHandOut = ToHandOut' \cup Continuations(b)
        /\ ToHandOut' \cap Continuations(b) = {}
    BY <1>1, <2>1 DEF ToHandOut, Accounted
  <2>3. \A w \in Workers \ {v} : Held(w)' = Held(w)
    BY <1>3 DEF HandedOut
  <2>4. \A w \in Workers : /\ Held(w)' \subseteq AllHistories(n_elements)
                          /\ Held(w)' \cap ToHandOut' = {}
    BY <2>1, <2>2, <2>3 DEF Accounted
  <2>5. \A w, u \in Workers : u # w => Held(u)' \cap Held(w)' = {}
    BY <2>1, <2>2, <2>3 DEF Accounted
  <2>6. \A h : (h \in ToHandOut \/ \E w \in Workers : h \in Held(w))
                 <=> (h \in ToHandOut' \/ \E w \in Workers : h \in Held(w)')
    BY <2>1, <2>2, <2>3
  <2>7. tested' = tested
    BY <1>3 DEF HandedOut
  <2>. QED
    BY <1>1, <2>1, <2>2, <2>4, <2>5, <2>6, <2>7 DEF Accounted
<1>4. ASSUME NEW v \in Workers, TestedBy(v)
      PROVE  Accounted'
  <2>1. PICK h \in Held(v) : /\ Held(v)' = Held(v) \ {h}
                             /\ tested' = [tested EXCEPT ![h] = @ + 1]
    BY <1>4 DEF TestedBy
  <2>2. \A w \in Workers \ {v} : Held(w)' = Held(w)
    BY <1>4 DEF TestedBy
  <2>3. gens' = gens /\ ToHandOut' = ToHandOut
    BY <1>1, <1>4 DEF TestedBy, ToHandOut
  <2>4. \A w \in Workers : Held(w)' \subseteq Held(w)
    BY <2>1, <2>2
  <2>5. tested[h] = 0 /\ h \notin ToHandOut /\ \A w \in Workers : h \notin Held(w)'
    BY <2>1, <2>2 DEF Accounted
  <2>6. \A g \in AllHistories(n_elements) \ {h} :
          /\ tested'[g] = tested[g]
          /\ (\E w \in Workers : g \in Held(w)) <=> (\E w \in Workers : g \in Held(w)')
    BY <2>1, <2>2 DEF Accounted
  <2>7. tested'[h] = 1
    BY <2>1, <2>5 DEF Accounted
  <2>8. \A g \in AllHistories(n_elements) :
          tested'[g] = IF g \in ToHandOut' \/ \E w \in Workers : g \in Held(w)'
                       THEN 0 ELSE 1
    BY <2>3, <2>5, <2>6, <2>7 DEF Accounted
  <2>9. DOMAIN tested' = AllHistories(n_elements)
    BY <2>1 DEF Accounted
  <2>10. \A w \in Workers : /\ Held(w)' \subseteq AllHistories(n_elements)
                           /\ Held(w)' \cap ToHandOut' = {}
                           /\ \A u \in Workers : u # w => Held(u)' \cap Held(w)' = {}
    BY <2>3, <2>4 DEF Accounted
  <2>. QED
    BY <1>1, <2>3, <2>8, <2>9, <2>10 DEF Accounted
<1>. QED
  BY <1>2, <1>3, <1>4

LEMMA BodiesAppended ==
  ASSUME NEW c, IsChannel(c), NEW m
  PROVE  Bodies(Append(c, m)) = IF m.tag = "DATA" THEN Bodies(c) \cup {m.body} ELSE Bodies(c)
<1> DEFINE d == Append(c, m)
<1>1. /\ Len(c) \in Nat /\ Len(d) = Len(c) + 1
      /\ \A k \in 1 .. Len(c) : d[k] = c[k]
      /\ d[Len(c) + 1] = m
  BY AppendToChannel, EmptyChannel
<1>. HIDE DEF d
<1>2. \A k : k \in 1 .. Len(d) <=> k \in 1 .. Len(c) \/ k = Len(c) + 1
  BY <1>1
<1>3. Bodies(d) = IF m.tag = "DATA" THEN Bodies(c) \cup {m.body} ELSE Bodies(c)
  BY <1>1, <1>2 DEF Bodies
<1>. QED
  BY <1>3 DEF d

LEMMA BodiesOfTail ==
  ASSUME NEW c, IsChannel(c), c # <<>>
  PROVE  Bodies(c) = IF Head(c).tag = "DATA" THEN Bodies(Tail(c)) \cup {Head(c).body}
                     ELSE Bodies(Tail(c))
<1> DEFINE d == Tail(c)
<1>1. /\ Len(c) \in Nat \ {0} /\ Len(d) = Len(c) - 1
      /\ \A k \in 1 .. Len(c) - 1 : d[k] = c[k + 1]
      /\ Head(c) = c[1]
  BY TailOfChannel
<1>. HIDE DEF d
<1>2. ASSUME NEW b
      PROVE  b \in Bodies(c) <=> b \in Bodies(d) \/ (Head(c).tag = "DATA" /\ b = Head(c).body)
  <2>1. ASSUME b \in Bodies(c)
        PROVE  b \in Bodies(d) \/ (Head(c).tag = "DATA" /\ b = Head(c).body)
    <3>1. PICK k \in 1 .. Len(c) : c[k].tag = "DATA" /\ b = c[k].body
      BY <2>1 DEF Bodies
    <3>2. CASE k # 1
      <4>1. k - 1 \in 1 .. Len(d) /\ d[k - 1] = c[k]
        BY <3>2, <1>1
      <4>. QED
        BY <3>1, <4>1 DEF Bodies
    <3>. QED
      BY <3>1, <3>2, <1>1
  <2>2. ASSUME b \in Bodies(d)
        PROVE  b \in Bodies(c)
    <3>1. PICK k \in 1 .. Len(d) : d[k].tag = "DATA" /\ b = d[k].body
      BY <2>2 DEF Bodies
    <3>2. k + 1 \in 1 .. Len(c) /\ d[k] = c[k + 1]
      BY <1>1
    <3>. QED
      BY <3>1, <3>2 DEF Bodies
  <2>3. ASSUME Head(c).tag = "DATA"
        PROVE  Head(c).body \in Bodies(c)
    <3>1. 1 \in 1 .. Len(c)
      BY <1>1
    <3>. QED
      BY <3>1, <2>3, <1>1 DEF Bodies
  <2>. QED
    BY <2>1, <2>2, <2>3
<1>3. Bodies(c) = IF Head(c).tag = "DATA" THEN Bodies(d) \cup {Head(c).body} ELSE Bodies(d)
  BY <1>2
<1>. QED
  BY <1>3 DEF d

LEMMA HeldByOthers ==
  ASSUME NEW w, left'[w] = left[w], toWorker'[w] = toWorker[w], n_elements' = n_elements
  PROVE  Held(w)' = Held(w)
BY DEF Held, OnTheWay, Continuations

\* The root hands out one beginning when it sends it; a worker loses one
\* history when it tests it; no other step moves any.
LEMMA HistoriesMove ==
  ASSUME ProtocolHolds, NEW v \in Workers, TesterStep(v)
  PROVE  NothingMoves \/ HandedOut(v) \/ TestedBy(v)
<1>1. /\ v \in DOMAIN toWorker /\ v \in DOMAIN left
      /\ Protocol(v) /\ IsChannel(toWorker[v])
      /\ DOMAIN toWorker = Workers /\ DOMAIN left = Workers
  BY DEF ProtocolHolds, TesterTypeOK, Protocol
<1>2. CASE RootCounts(v) \/ ReceiveDone(v) \/ Request(v) \/ Count(v) \/ SendCount(v)
             \/ SendDone(v) \/ EnterReduce(v)
  <2>1. UNCHANGED <<n_elements, size, gens, tested, left, toWorker>>
    BY <1>2 DEF RootCounts, ReceiveDone, Receive, Request, Count, SendCount, SendDone,
                EnterReduce, rootVars, workerVars
  <2>. QED
    BY <2>1, HeldByOthers DEF NothingMoves
<1>3. CASE ReceiveRequest(v)
  <2>1. PICK answer : \E sent \in Send(toWorker[v], "STATUS", answer) :
                        toWorker' = [toWorker EXCEPT ![v] = sent]
    BY <1>3 DEF ReceiveRequest
  <2>2. PICK sent \in Send(toWorker[v], "STATUS", answer) :
          toWorker' = [toWorker EXCEPT ![v] = sent]
    BY <2>1
  <2>3. PICK m : /\ m.tag = "STATUS" /\ m.body = answer
                 /\ sent = Append(toWorker[v], m)
                 /\ IsChannel(sent) /\ Len(sent) = Len(toWorker[v]) + 1
                 /\ \A k \in 1 .. Len(toWorker[v]) : sent[k] = toWorker[v][k]
                 /\ sent[Len(toWorker[v]) + 1] = m
    BY <2>2, <1>1, RootSends, Zenon
  <2>4. toWorker'[v] = Append(toWorker[v], m)
    BY <2>2, <2>3, <1>1
  <2>5. UNCHANGED <<n_elements, size, gens, tested, left>>
    BY <1>3 DEF ReceiveRequest, Receive, workerVars
  <2>6. OnTheWay(v)' = OnTheWay(v)
    BY <2>3, <2>4, <1>1, BodiesAppended DEF OnTheWay
  <2>7. Held(v)' = Held(v)
    BY <2>5, <2>6 DEF Held, Continuations
  <2>8. \A w \in Workers \ {v} : Held(w)' = Held(w)
    BY <2>2, <2>5, <1>1, HeldByOthers
  <2>. QED
    BY <2>5, <2>7, <2>8 DEF NothingMoves
<1>4. CASE SendData(v)
  <2> DEFINE init == CHOOSE g \in gens : TRUE
  <2>1. PICK sent \in Send(toWorker[v], "DATA", init) :
          toWorker' = [toWorker EXCEPT ![v] = sent]
    BY <1>4 DEF SendData
  <2>2. init \in gens /\ gens' = gens \ {init}
    BY <1>4 DEF SendData, ProtocolHolds, TesterTypeOK
  <2>3. UNCHANGED <<n_elements, size, tested, left>>
    BY <1>4 DEF SendData, workerVars
  <2>. HIDE DEF init
  <2>4. PICK m : /\ m.tag = "DATA" /\ m.body = init
                 /\ sent = Append(toWorker[v], m)
                 /\ IsChannel(sent) /\ Len(sent) = Len(toWorker[v]) + 1
                 /\ \A k \in 1 .. Len(toWorker[v]) : sent[k] = toWorker[v][k]
                 /\ sent[Len(toWorker[v]) + 1] = m
    BY <2>1, <1>1, RootSends, Zenon
  <2>5. toWorker'[v] = Append(toWorker[v], m)
    BY <2>1, <2>4, <1>1
  <2>6. OnTheWay(v)' = OnTheWay(v) \cup {init}
    BY <2>4, <2>5, <1>1, BodiesAppended DEF OnTheWay
  <2>7. Held(v)' = Held(v) \cup Continuations(init)
    BY <2>3, <2>6 DEF Held, Continuations
  <2>8. \A w \in Workers \ {v} : Held(w)' = Held(w)
    BY <2>1, <2>3, <1>1, HeldByOthers
  <2>. QED
    BY <2>2, <2>3, <2>7, <2>8 DEF HandedOut
<1>5. CASE ReceiveAnswer(v) \/ ReceiveData(v)
  <2>1. /\ toWorker[v] # <<>> /\ toWorker' = [toWorker EXCEPT ![v] = Tail(@)]
        /\ UNCHANGED <<n_elements, size, gens, tested>>
    BY <1>5 DEF ReceiveAnswer, ReceiveData, rootVars, workerVars
  <2>2. toWorker'[v] = Tail(toWorker[v])
    BY <2>1, <1>1
  <2>3. Held(v)' = Held(v)
    <3>1. CASE ReceiveAnswer(v)
      <4>1. left' = left /\ Head(toWorker[v]).tag = "STATUS"
        BY <3>1 DEF ReceiveAnswer, workerVars
      <4>2. OnTheWay(v)' = OnTheWay(v)
        BY <4>1, <2>1, <2>2, <1>1, BodiesOfTail DEF OnTheWay
      <4>. QED
        BY <4>1, <4>2, <2>1 DEF Held, Continuations
    <3>2. CASE ReceiveData(v)
      <4> DEFINE init == Head(toWorker[v]).body
      <4>1. left'[v] = Continuations(init) /\ Head(toWorker[v]).tag = "DATA"
        BY <3>2, <1>1 DEF ReceiveData, Continuations
      <4>2. left[v] = {}
        BY <3>2, <1>1 DEF ReceiveData, Protocol
      <4>3. OnTheWay(v) = OnTheWay(v)' \cup {init}
        BY <4>1, <2>1, <2>2, <1>1, BodiesOfTail DEF OnTheWay
      <4>. HIDE DEF init
      <4>4. \A b : Continuations(b)' = Continuations(b)
        BY <2>1 DEF Continuations
      <4>. QED
        BY <4>1, <4>2, <4>3, <4>4 DEF Held
    <3>. QED
      BY <1>5, <3>1, <3>2
  <2>4. \A w \in Workers \ {v} : Held(w)' = Held(w)
    <3>1. \A w \in Workers \ {v} : left'[w] = left[w]
      BY <1>5, <1>1 DEF ReceiveAnswer, ReceiveData, workerVars
    <3>. QED
      BY <3>1, <2>1, <1>1, HeldByOthers
  <2>. QED
    BY <2>1, <2>3, <2>4 DEF NothingMoves
<1>6. CASE Tests(v)
  <2> DEFINE h == CHOOSE g \in left[v] : TRUE
  <2>1. /\ at[v] = "test" /\ left[v] # {}
        /\ left' = [left EXCEPT ![v] = @ \ {h}]
        /\ tested' = [tested EXCEPT ![h] = @ + 1]
        /\ UNCHANGED <<size, n_elements, gens, toWorker>>
    BY <1>6 DEF Tests, TestTelling, rootVars
  <2>2. h \in left[v]
    BY <2>1
  <2>. HIDE DEF h
  <2>3. OnTheWay(v) = {} /\ OnTheWay(v)' = {}
    BY <2>1, <1>1, EmptyChannel DEF Protocol, Downward, Nothing, OnTheWay, Bodies
  <2>4. Held(v) = left[v] /\ Held(v)' = left[v] \ {h}
    BY <2>1, <2>3, <1>1 DEF Held
  <2>5. \A w \in Workers \ {v} : Held(w)' = Held(w)
    BY <2>1, <1>1, HeldByOthers
  <2>. QED
    BY <2>1, <2>2, <2>4, <2>5 DEF TestedBy
<1>. QED
  BY <1>2, <1>3, <1>4, <1>5, <1>6 DEF TesterStep

LEMMA StartsAccounted ==
  ASSUME Init, Exhaustive
  PROVE  Accounted
<1>1. PICK p \in DOMAIN Sizes : ExhaustiveInit(Sizes[p], Lengths)
  BY DEF Init, Exhaustive, CheckerInit
<1>2. /\ size \in Sizes[p] /\ n_elements \in Lengths
      /\ gens = Beginnings(size, n_elements)
      /\ left = [w \in Workers |-> {}] /\ toWorker = [w \in Workers |-> <<>>]
      /\ tested = [h \in AllHistories(n_elements) |-> 0]
  BY <1>1 DEF ExhaustiveInit
<1>3. /\ AllHistories(n_elements) = ToHandOut
      /\ \A b, c \in gens : b # c => Continuations(b) \cap Continuations(c) = {}
  <2>1. n_elements \in Nat \ {0}
    BY <1>2, LengthsAssumption
  <2>2. \E minAmt : gens = CreateInits(n_elements, minAmt, MaxThr)
    BY <1>2 DEF Beginnings
  <2>. QED
    BY <2>1, <2>2, BeginningsDivide DEF ToHandOut, Continuations, AllHistories
<1>4. ASSUME NEW w \in Workers
      PROVE  Held(w) = {}
  BY <1>2, EmptyChannel DEF Held, OnTheWay, Bodies
<1>. QED
  BY <1>2, <1>3, <1>4 DEF Accounted

\* When exhaustive or the automata checker ends, it has tested every history
\* once and none twice, for any number of processes, whatever the monitors
\* answer and whatever sends wait.
THEOREM EveryHistoryTestedOnce == Spec => []EveryHistoryOnce
<1> DEFINE Programs == program \in {"exhaustive", "automata_checker", "random"}
           Inv == Programs /\ (Exhaustive => ProtocolHolds /\ Accounted)
<1>1. Init => Inv
  BY StartsByProtocol, StartsAccounted, ProgramsAssumption DEF Init
<1>2. Inv /\ [Next]_testVars => Inv'
  <2>. SUFFICES ASSUME Inv, [Next]_testVars
                PROVE  Inv'
    OBVIOUS
  <2>1. program' = program
    BY DEF Next, testVars
  <2>2. ASSUME Exhaustive
        PROVE  ProtocolHolds' /\ Accounted'
    <3>1. Idles \/ LeaveLoop \/ Finish \/ \E w \in Workers : TesterStep(w)
      BY <2>2, StepOfTester
    <3>2. CASE Idles \/ LeaveLoop \/ Finish
      <4>1. UNCHANGED <<n_elements, size, gens, tested, left, toWorker>>
        BY <3>2 DEF Idles, LeaveLoop, Finish, rootVars, workerVars
      <4>. QED
        BY <4>1, <2>2, HeldByOthers, AccountsKept, ProtocolKept DEF NothingMoves
    <3>3. ASSUME NEW v \in Workers, TesterStep(v)
          PROVE  ProtocolHolds' /\ Accounted'
      BY <3>3, <2>2, HistoriesMove, AccountsKept, ProtocolKept
    <3>. QED
      BY <3>1, <3>2, <3>3
  <2>3. Programs' /\ (Exhaustive' <=> Exhaustive)
    BY <2>1 DEF Exhaustive
  <2>. QED
    BY <2>2, <2>3
<1>3. Inv => EveryHistoryOnce
  <2>. SUFFICES ASSUME ProtocolHolds, Accounted, Workers # {}, Finished, NEW h \in DOMAIN tested
                PROVE  tested[h] = 1
    BY DEF EveryHistoryOnce, Exhausting, Exhaustive
  <2>1. ASSUME NEW w \in Workers
        PROVE  gens = {} /\ Held(w) = {}
    <3>1. at[w] = "finished" /\ Protocol(w)
      BY WorkersAreProcesses DEF Finished, ProtocolHolds, TesterTypeOK
    <3>2. gens = {} /\ left[w] = {} /\ toWorker[w] = <<>>
      BY <3>1 DEF Protocol, Downward, Nothing, Ending, Gone
    <3>. QED
      BY <3>2, EmptyChannel DEF Held, OnTheWay, Bodies
  <2>2. gens = {}
    BY <2>1
  <2>3. ToHandOut = {}
    BY <2>2 DEF ToHandOut
  <2>. QED
    BY <2>1, <2>3 DEF Accounted
<1>. QED
  BY <1>1, <1>2, <1>3, PTL DEF Spec

----------------------------------------------------------------------------
(* The totals.  Of what a worker has to tell the root, a part is with the  *)
(* worker, a part in its messages, and a part has been received.           *)

Kinds == {"count", "outcome", "fail"}

\* What a message tells: a number of histories, one that went wrong, or one
\* that the automaton catches.
Weight(m, kind) ==
  CASE kind = "count"   -> IF m.tag = "COUNT" THEN m.body ELSE 0
    [] kind = "outcome" -> IF m.tag \in {"MISMATCH", "CRASH"} THEN 1 ELSE 0
    [] kind = "fail"    -> IF m.tag = "AUTOMATA_FAIL" THEN 1 ELSE 0

Carried(c, kind) == SumOver([k \in 1 .. Len(c) |-> Weight(c[k], kind)], 1 .. Len(c))

\* A worker's own count is out of date while it tells of a history, and is
\* used up when it has been sent.
Own(w, kind) ==
  CASE kind = "count"   -> IF at[w] \in {"status"} \cup Gone THEN 0
                           ELSE counter[w] + (IF at[w] = "tested" THEN 1 ELSE 0)
    [] kind = "outcome" -> linearizable[w] + violations[w]
    [] kind = "fail"    -> 0

Share(w, kind) == Own(w, kind) + Carried(toRoot[w], kind)

Received(kind) ==
  CASE kind = "count" -> num_finished [] kind = "outcome" -> mismatches + crashes
    [] kind = "fail" -> fails

Failure(h) == program = "automata_checker" /\ IsFailure(h)

\* How much of each is due for a history.
Due(h, kind) == IF kind = "fail" /\ ~Failure(h) THEN 0 ELSE tested[h]

Shares(kind) == [w \in Workers |-> Share(w, kind)]
Dues(kind) == [h \in AllHistories(n_elements) |-> Due(h, kind)]

Balanced(kind) ==
  Received(kind) + SumOver(Shares(kind), Workers)
    = SumOver(Dues(kind), AllHistories(n_elements))

CountsAreNumbers(c) == \A k \in 1 .. Len(c) : c[k].tag = "COUNT" => c[k].body \in Int

NumbersOK ==
  /\ num_finished \in Int /\ mismatches \in Int /\ crashes \in Int /\ fails \in Int
  /\ DOMAIN counter = Workers /\ DOMAIN linearizable = Workers /\ DOMAIN violations = Workers
  /\ \A w \in Workers : /\ counter[w] \in Int /\ linearizable[w] \in Int /\ violations[w] \in Int
                        /\ CountsAreNumbers(toRoot[w])

Totals == NumbersOK /\ \A kind \in Kinds : Balanced(kind)

LEMMA WeightType ==
  ASSUME NEW m, m.tag = "COUNT" => m.body \in Int, NEW kind \in Kinds
  PROVE  Weight(m, kind) \in Int
BY DEF Weight, Kinds

LEMMA CarriedType ==
  ASSUME NEW c, IsChannel(c), CountsAreNumbers(c), NEW kind \in Kinds
  PROVE  Carried(c, kind) \in Int
<1>. DEFINE f == [k \in 1 .. Len(c) |-> Weight(c[k], kind)]
<1>1. Len(c) \in Nat
  BY EmptyChannel
<1>2. IsFiniteSet(1 .. Len(c))
  BY <1>1, FS_Interval
<1>3. Numbers(f, 1 .. Len(c))
  BY WeightType DEF CountsAreNumbers, Numbers
<1>. HIDE DEF f
<1>4. SumOver(f, 1 .. Len(c)) \in Int
  BY <1>2, <1>3, SumType
<1>. QED
  BY <1>4 DEF Carried, f

LEMMA CarriedByNone == \A kind \in Kinds : Carried(<<>>, kind) = 0
<1>. TAKE kind \in Kinds
<1>. DEFINE f == [k \in 1 .. Len(<<>>) |-> Weight(<<>>[k], kind)]
<1>1. 1 .. Len(<<>>) = {}
  BY EmptyChannel
<1>. HIDE DEF f
<1>2. IsFiniteSet({}) /\ Numbers(f, {})
  BY FS_EmptySet DEF Numbers
<1>3. SumOver(f, {}) = 0
  BY <1>2, SumType
<1>. QED
  BY <1>1, <1>3 DEF Carried, f

LEMMA CarriedAppended ==
  ASSUME NEW c, IsChannel(c), CountsAreNumbers(c), NEW m, m.tag = "COUNT" => m.body \in Int
  PROVE  /\ CountsAreNumbers(Append(c, m))
         /\ \A kind \in Kinds :
              Carried(Append(c, m), kind) = Carried(c, kind) + Weight(m, kind)
<1>. DEFINE d == Append(c, m)
            n == Len(c)
<1>1. /\ n \in Nat /\ Len(d) = n + 1
      /\ \A k \in 1 .. n : d[k] = c[k]
      /\ d[n + 1] = m
  BY AppendToChannel, EmptyChannel
<1>. HIDE DEF d
<1>2. CountsAreNumbers(d)
  BY <1>1 DEF CountsAreNumbers
<1>3. ASSUME NEW kind \in Kinds
      PROVE  Carried(d, kind) = Carried(c, kind) + Weight(m, kind)
  <2>. DEFINE f == [k \in 1 .. n |-> Weight(c[k], kind)]
              g == [k \in 1 .. n + 1 |-> Weight(d[k], kind)]
  <2>1. Numbers(g, 1 .. n + 1)
    BY <1>1, <1>2, WeightType DEF CountsAreNumbers, Numbers
  <2>2. Numbers(f, 1 .. n) /\ \A k \in 1 .. n : g[k] = f[k]
    BY <1>1, WeightType DEF CountsAreNumbers, Numbers
  <2>3. g[n + 1] = Weight(m, kind) /\ Weight(m, kind) \in Int
    BY <1>1, WeightType
  <2>4. Carried(d, kind) = SumOver(g, 1 .. n + 1) /\ Carried(c, kind) = SumOver(f, 1 .. n)
    BY <1>1 DEF Carried
  <2>5. IsFiniteSet(1 .. n)
    BY <1>1, FS_Interval
  <2>. HIDE DEF f, g, n
  <2>6. SumOver(g, 1 .. n + 1) = g[n + 1] + SumOver(g, 1 .. n)
    BY <1>1, <2>1, SumLast
  <2>7. SumOver(g, 1 .. n) = SumOver(f, 1 .. n) /\ SumOver(f, 1 .. n) \in Int
    BY <2>2, <2>5, SumSame, SumType
  <2>. QED
    BY <2>3, <2>4, <2>6, <2>7
<1>. QED
  BY <1>2, <1>3 DEF d

LEMMA CarriedByTail ==
  ASSUME NEW c, IsChannel(c), c # <<>>, CountsAreNumbers(c)
  PROVE  /\ CountsAreNumbers(Tail(c))
         /\ \A kind \in Kinds :
              /\ Carried(c, kind) = Weight(Head(c), kind) + Carried(Tail(c), kind)
              /\ Weight(Head(c), kind) \in Int /\ Carried(Tail(c), kind) \in Int
<1>. DEFINE d == Tail(c)
            n == Len(d)
<1>1. /\ n \in Nat /\ Len(c) = n + 1 /\ IsChannel(d)
      /\ \A k \in 1 .. n : d[k] = c[k + 1]
      /\ Head(c) = c[1]
  BY TailOfChannel
<1>. HIDE DEF d
<1>2. CountsAreNumbers(d)
  BY <1>1 DEF CountsAreNumbers
<1>3. ASSUME NEW kind \in Kinds
      PROVE  /\ Carried(c, kind) = Weight(Head(c), kind) + Carried(d, kind)
             /\ Weight(Head(c), kind) \in Int /\ Carried(d, kind) \in Int
  <2>. DEFINE f == [k \in 1 .. n + 1 |-> Weight(c[k], kind)]
              g == [k \in 1 .. n |-> Weight(d[k], kind)]
  <2>1. Numbers(f, 1 .. n + 1)
    BY <1>1, WeightType DEF CountsAreNumbers, Numbers
  <2>2. \A k \in 1 .. n : g[k] = f[k + 1]
    BY <1>1
  <2>3. f[1] = Weight(Head(c), kind) /\ f[1] \in Int
    BY <1>1, <2>1 DEF Numbers
  <2>4. Carried(c, kind) = SumOver(f, 1 .. n + 1) /\ Carried(d, kind) = SumOver(g, 1 .. n)
    BY <1>1 DEF Carried
  <2>. HIDE DEF f, g, n
  <2>5. SumOver(f, 1 .. n + 1) = f[1] + SumOver(g, 1 .. n)
    BY <1>1, <2>1, <2>2, SumFirst
  <2>6. Carried(d, kind) \in Int
    BY <1>1, <1>2, CarriedType
  <2>. QED
    BY <2>3, <2>4, <2>5, <2>6
<1>. QED
  BY <1>2, <1>3 DEF d

\* A step that moves as much as it takes away keeps the balance.
LEMMA MovingBalances ==
  ASSUME NEW W, IsFiniteSet(W), NEW H, IsFiniteSet(H), NEW R \in Int, NEW R2 \in Int,
         NEW S, NEW S2, NEW T, Numbers(S, W), Numbers(T, H),
         R + SumOver(S, W) = SumOver(T, H),
         NEW v \in W, S2[v] \in Int, \A w \in W \ {v} : S2[w] = S[w],
         R2 + S2[v] = R + S[v]
  PROVE  R2 + SumOver(S2, W) = SumOver(T, H)
<1>1. SumOver(S2, W) = SumOver(S, W) + S2[v] - S[v]
  BY SumUpdate
<1>2. SumOver(S, W) \in Int /\ SumOver(T, H) \in Int /\ S[v] \in Int
  BY SumType DEF Numbers
<1>. QED
  BY <1>1, <1>2

\* So does the test of a history, which adds to both sides.
LEMMA TestingBalances ==
  ASSUME NEW W, IsFiniteSet(W), NEW H, IsFiniteSet(H), NEW R \in Int, NEW R2 \in Int,
         NEW S, NEW S2, NEW T, NEW T2, Numbers(S, W), Numbers(T, H),
         R + SumOver(S, W) = SumOver(T, H),
         NEW v \in W, S2[v] \in Int, \A w \in W \ {v} : S2[w] = S[w],
         NEW h \in H, T2[h] \in Int, \A g \in H \ {h} : T2[g] = T[g],
         R2 + S2[v] = R + S[v] + (T2[h] - T[h])
  PROVE  R2 + SumOver(S2, W) = SumOver(T2, H)
<1>1. SumOver(S2, W) = SumOver(S, W) + S2[v] - S[v]
  BY SumUpdate
<1>2. SumOver(S, W) \in Int /\ SumOver(T, H) \in Int /\ S[v] \in Int /\ T[h] \in Int
  BY SumType DEF Numbers
<1>3. SumOver(T2, H) = SumOver(T, H) + T2[h] - T[h]
  BY SumUpdate
<1>. QED
  BY <1>1, <1>2, <1>3

\* What a step of or for v does to the totals.
OthersShare(v) ==
  \A w \in Workers \ {v} : \A kind \in Kinds : Share(w, kind)' = Share(w, kind)

Moves(v) ==
  /\ tested' = tested
  /\ \A kind \in Kinds :
       Received(kind)' + Share(v, kind)' = Received(kind) + Share(v, kind)

Adds(v) ==
  \E h \in DOMAIN tested :
    /\ tested' = [tested EXCEPT ![h] = @ + 1]
    /\ \A kind \in Kinds :
         Received(kind)' + Share(v, kind)'
           = Received(kind) + Share(v, kind) + (IF kind = "fail" /\ ~Failure(h) THEN 0 ELSE 1)

AddsUp(v) ==
  /\ program' = program /\ size' = size /\ n_elements' = n_elements
  /\ NumbersOK'
  /\ OthersShare(v)
  /\ Moves(v) \/ Adds(v)

LEMMA ShareType ==
  ASSUME ProtocolHolds, NumbersOK, NEW w \in Workers, NEW kind \in Kinds
  PROVE  Share(w, kind) \in Int
<1>1. Carried(toRoot[w], kind) \in Int
  BY CarriedType DEF ProtocolHolds, Protocol, NumbersOK
<1>2. Own(w, kind) \in Int
  BY DEF Own, Kinds, NumbersOK
<1>. QED
  BY <1>1, <1>2 DEF Share

LEMMA ShareTypeNext ==
  ASSUME ProtocolHolds', NumbersOK', NEW w \in Workers', NEW kind \in Kinds
  PROVE  Share(w, kind)' \in Int
<1>1. Carried(toRoot[w], kind)' \in Int
  <2>1. IsChannel(toRoot'[w]) /\ CountsAreNumbers(toRoot'[w])
    BY DEF ProtocolHolds, Protocol, NumbersOK
  <2>2. Carried(toRoot'[w], kind) \in Int
    BY <2>1, CarriedType
  <2>. QED
    BY <2>2 DEF Carried, Weight
<1>2. Own(w, kind)' \in Int
  BY DEF Own, Kinds, NumbersOK
<1>. QED
  BY <1>1, <1>2 DEF Share

LEMMA ReceivedType ==
  ASSUME NEW kind \in Kinds
  PROVE  /\ NumbersOK => Received(kind) \in Int
         /\ NumbersOK' => Received(kind)' \in Int
BY DEF Received, Kinds, NumbersOK

LEMMA TotalsKept ==
  ASSUME ProtocolHolds, ProtocolHolds', Accounted, Accounted', Totals,
         n_elements \in Nat \ {0}, NEW v \in Workers, AddsUp(v)
  PROVE  Totals'
<1>. DEFINE H == AllHistories(n_elements)
<1>1. /\ Workers' = Workers /\ AllHistories(n_elements)' = H
      /\ \A h : Failure(h)' = Failure(h)
  BY DEF AddsUp, Workers, AllHistories, Failure, IsFailure
<1>2. IsFiniteSet(Workers) /\ IsFiniteSet(H)
  <2>1. size - 1 \in Int /\ 1 \in Int
    BY DEF ProtocolHolds, TesterTypeOK
  <2>2. IsFiniteSet(1 .. size - 1)
    BY <2>1, FS_Interval
  <2>. QED
    BY <2>2, HistoriesAreFinite DEF Workers, AllHistories
<1>3. \A h \in H : tested[h] \in Int /\ tested'[h] \in Int
  <2>1. \A h \in H : tested[h] \in {0, 1}
    BY DEF Accounted
  <2>2. \A h \in AllHistories(n_elements)' : tested'[h] \in {0, 1}
    BY DEF Accounted
  <2>. QED
    BY <1>1, <2>1, <2>2
<1>4. DOMAIN tested = H
  BY DEF Accounted
<1>5. NumbersOK /\ NumbersOK'
  BY DEF Totals, AddsUp
<1>6. ASSUME NEW kind \in Kinds
      PROVE  Balanced(kind)'
  <2>. DEFINE S == [w \in Workers |-> Share(w, kind)]
              S2 == [w \in Workers |-> Share(w, kind)']
              T == [h \in H |-> Due(h, kind)]
              T2 == [h \in H |-> Due(h, kind)']
              R == Received(kind)
              R2 == Received(kind)'
  <2>1. Numbers(S, Workers) /\ \A w \in Workers : S2[w] \in Int
    BY <1>1, <1>5, ShareType, ShareTypeNext DEF Numbers
  <2>2. R \in Int /\ R2 \in Int
    BY <1>5, ReceivedType
  <2>3. Numbers(T, H) /\ \A h \in H : T2[h] \in Int
    BY <1>1, <1>3 DEF Due, Numbers
  <2>4. R + SumOver(S, Workers) = SumOver(T, H)
    BY DEF Totals, Balanced, Shares, Dues
  <2>5. S2[v] \in Int /\ \A w \in Workers \ {v} : S2[w] = S[w]
    BY <2>1 DEF AddsUp, OthersShare
  <2>6. ASSUME Moves(v)
        PROVE  R2 + SumOver(S2, Workers) = SumOver(T2, H)
    <3>1. T2 = T
      BY <1>1, <2>6 DEF Moves, Due
    <3>2. R2 + S2[v] = R + S[v]
      BY <2>6 DEF Moves
    <3>. HIDE DEF S, S2, T, T2, R, R2, H
    <3>. QED
      BY <1>2, <2>1, <2>2, <2>3, <2>4, <2>5, <3>1, <3>2, MovingBalances
  <2>7. ASSUME Adds(v)
        PROVE  R2 + SumOver(S2, Workers) = SumOver(T2, H)
    <3>1. PICK h \in H :
            /\ tested' = [tested EXCEPT ![h] = @ + 1]
            /\ \A k \in Kinds :
                 Received(k)' + Share(v, k)'
                   = Received(k) + Share(v, k) + (IF k = "fail" /\ ~Failure(h) THEN 0 ELSE 1)
      BY <1>4, <2>7 DEF Adds
    <3>2. tested'[h] = tested[h] + 1 /\ \A g \in H \ {h} : tested'[g] = tested[g]
      BY <1>4, <3>1
    <3>3. \A g \in H \ {h} : T2[g] = T[g]
      BY <1>1, <3>2 DEF Due
    <3>4. T2[h] - T[h] = IF kind = "fail" /\ ~Failure(h) THEN 0 ELSE 1
      BY <1>1, <1>3, <3>2 DEF Due
    <3>5. R2 + S2[v] = R + S[v] + (T2[h] - T[h])
      BY <3>1, <3>4
    <3>6. T2[h] \in Int
      BY <2>3
    <3>. HIDE DEF S, S2, T, T2, R, R2, H
    <3>. QED
      BY <1>2, <2>1, <2>2, <2>3, <2>4, <2>5, <3>3, <3>5, <3>6, TestingBalances
  <2>8. R2 + SumOver(S2, Workers) = SumOver(T2, H)
    BY <2>6, <2>7 DEF AddsUp
  <2>9. Shares(kind)' = S2 /\ Dues(kind)' = T2
    BY <1>1 DEF Shares, Dues
  <2>. HIDE DEF S, S2, T, T2, H
  <2>10. (Received(kind)' + SumOver(Shares(kind)', Workers') = SumOver(Dues(kind)', H))
    BY <1>1, <2>8, <2>9
  <2>. QED
    BY <1>1, <2>10 DEF Balanced
<1>. QED
  BY <1>5, <1>6 DEF Totals

\* A message sent to the root carries its weight, one received no longer.
LEMMA SendCarries ==
  ASSUME ProtocolHolds, NumbersOK, NEW v \in Workers, NEW tag, NEW body,
         SendToRoot(v, tag, body), tag = "COUNT" => body \in Int
  PROVE  /\ CountsAreNumbers(toRoot'[v])
         /\ \A w \in Workers \ {v} : toRoot'[w] = toRoot[w]
         /\ \E m : /\ m.tag = tag /\ m.body = body
                   /\ \A kind \in Kinds :
                        /\ Carried(toRoot'[v], kind) = Carried(toRoot[v], kind) + Weight(m, kind)
                        /\ Carried(toRoot[v], kind) \in Int /\ Weight(m, kind) \in Int
<1>1. PICK sent \in Send(toRoot[v], tag, body) : toRoot' = [toRoot EXCEPT ![v] = sent]
  BY DEF SendToRoot
<1>2. PICK waits \in BOOLEAN : sent = Append(toRoot[v], Message(tag, body, waits))
  BY <1>1 DEF Send
<1>. DEFINE m == Message(tag, body, waits)
<1>3. m.tag = tag /\ m.body = body
  BY DEF Message
<1>4. sent = Append(toRoot[v], m)
  BY <1>2
<1>. HIDE DEF m
<1>5. /\ DOMAIN toRoot = Workers /\ IsChannel(toRoot[v]) /\ CountsAreNumbers(toRoot[v])
  BY DEF ProtocolHolds, TesterTypeOK, Protocol, NumbersOK
<1>6. toRoot'[v] = Append(toRoot[v], m) /\ \A w \in Workers \ {v} : toRoot'[w] = toRoot[w]
  BY <1>1, <1>4, <1>5
<1>7. m.tag = "COUNT" => m.body \in Int
  BY <1>3
<1>8. /\ CountsAreNumbers(toRoot'[v])
      /\ \A kind \in Kinds : Carried(toRoot'[v], kind) = Carried(toRoot[v], kind) + Weight(m, kind)
  BY <1>5, <1>6, <1>7, CarriedAppended
<1>9. \A kind \in Kinds : Carried(toRoot[v], kind) \in Int /\ Weight(m, kind) \in Int
  BY <1>5, <1>7, CarriedType, WeightType
<1>. QED
  BY <1>3, <1>6, <1>8, <1>9

LEMMA ReceiveCarries ==
  ASSUME ProtocolHolds, NumbersOK, NEW v \in Workers, NEW tag, Receive(v, tag)
  PROVE  /\ CountsAreNumbers(toRoot'[v])
         /\ \A w \in Workers \ {v} : toRoot'[w] = toRoot[w]
         /\ tag = "COUNT" => Head(toRoot[v]).body \in Int
         /\ \A kind \in Kinds :
              /\ Carried(toRoot[v], kind) = Weight(Head(toRoot[v]), kind) + Carried(toRoot'[v], kind)
              /\ Weight(Head(toRoot[v]), kind) \in Int /\ Carried(toRoot'[v], kind) \in Int
<1>1. /\ DOMAIN toRoot = Workers /\ IsChannel(toRoot[v]) /\ CountsAreNumbers(toRoot[v])
      /\ toRoot[v] # <<>> /\ Head(toRoot[v]).tag = tag
      /\ toRoot' = [toRoot EXCEPT ![v] = Tail(@)]
  BY DEF ProtocolHolds, TesterTypeOK, Protocol, NumbersOK, Receive
<1>2. toRoot'[v] = Tail(toRoot[v]) /\ \A w \in Workers \ {v} : toRoot'[w] = toRoot[w]
  BY <1>1
<1>3. tag = "COUNT" => Head(toRoot[v]).body \in Int
  <2>1. Head(toRoot[v]) = toRoot[v][1] /\ 1 \in 1 .. Len(toRoot[v])
    BY <1>1, TailOfChannel
  <2>. QED
    BY <1>1, <2>1 DEF CountsAreNumbers
<1>. QED
  BY <1>1, <1>2, <1>3, CarriedByTail

\* What the others have to tell depends on what they are and have sent.
LEMMA OthersKeepShares ==
  ASSUME NEW v,
         \A w \in Workers \ {v} :
           /\ at'[w] = at[w] /\ counter'[w] = counter[w] /\ toRoot'[w] = toRoot[w]
           /\ linearizable'[w] = linearizable[w] /\ violations'[w] = violations[w]
  PROVE  OthersShare(v)
<1>1. ASSUME NEW w \in Workers \ {v}, NEW kind \in Kinds
      PROVE  Own(w, kind)' = Own(w, kind)
  BY DEF Own
<1>2. ASSUME NEW w \in Workers \ {v}, NEW kind \in Kinds
      PROVE  Carried(toRoot[w], kind)' = Carried(toRoot[w], kind)
  <2>1. Carried(toRoot'[w], kind) = Carried(toRoot[w], kind)
    OBVIOUS
  <2>. QED
    BY <2>1 DEF Carried, Weight
<1>. QED
  BY <1>1, <1>2 DEF OthersShare, Share

\* A share, taken apart.
LEMMA ShareParts ==
  ASSUME NEW v, NEW kind \in Kinds
  PROVE  /\ Share(v, kind) = Own(v, kind) + Carried(toRoot[v], kind)
         /\ Share(v, kind)' = Own(v, kind)' + Carried(toRoot'[v], kind)
<1>1. Share(v, kind)' = Own(v, kind)' + Carried(toRoot[v], kind)'
  BY DEF Share
<1>2. Carried(toRoot[v], kind)' = Carried(toRoot'[v], kind)
  BY DEF Carried, Weight
<1>. QED
  BY <1>1, <1>2 DEF Share

\* What the root receives, it has and no message carries any more.
LEMMA ReceivingAddsUp ==
  ASSUME ProtocolHolds, NumbersOK, NEW v \in Workers, program' = program,
         \/ /\ ReceiveCount(v) \/ ReceiveMismatch(v) \/ ReceiveCrash(v)
               \/ ReceiveDone(v) \/ ReceiveRequest(v)
            /\ UNCHANGED fails
         \/ ReceiveFail(v)
  PROVE  AddsUp(v)
<1>1. PICK tag : Receive(v, tag)
  BY DEF ReceiveCount, ReceiveMismatch, ReceiveCrash, ReceiveDone, ReceiveRequest, ReceiveFail
<1>2. /\ UNCHANGED <<size, n_elements, counter, linearizable, violations, tested>>
      /\ \A w \in Workers : at'[w] = at[w]
  <2>1. UNCHANGED <<size, n_elements, counter, linearizable, violations, tested>>
    BY <1>1 DEF Receive, workerVars
  <2>2. at' = at \/ at' = [at EXCEPT ![0] = "data"]
    BY DEF ReceiveCount, ReceiveMismatch, ReceiveCrash, ReceiveDone, ReceiveRequest, ReceiveFail
  <2>3. \A w \in Workers : w # 0 /\ w \in DOMAIN at
    BY WorkersAreProcesses DEF ProtocolHolds, TesterTypeOK
  <2>. QED
    BY <2>1, <2>2, <2>3
<1>3. /\ CountsAreNumbers(toRoot'[v])
      /\ \A w \in Workers \ {v} : toRoot'[w] = toRoot[w]
  BY <1>1, ReceiveCarries
<1>4. /\ Head(toRoot[v]).tag = tag
      /\ tag = "COUNT" => Head(toRoot[v]).body \in Int
      /\ \A kind \in Kinds :
           /\ Carried(toRoot[v], kind) = Weight(Head(toRoot[v]), kind) + Carried(toRoot'[v], kind)
           /\ Weight(Head(toRoot[v]), kind) \in Int /\ Carried(toRoot'[v], kind) \in Int
  BY <1>1, ReceiveCarries DEF Receive
<1>5. /\ num_finished' = num_finished + (IF tag = "COUNT" THEN Head(toRoot[v]).body ELSE 0)
      /\ mismatches' = mismatches + (IF tag = "MISMATCH" THEN 1 ELSE 0)
      /\ crashes' = crashes + (IF tag = "CRASH" THEN 1 ELSE 0)
      /\ fails' = fails + (IF tag = "AUTOMATA_FAIL" THEN 1 ELSE 0)
  <2>1. num_finished \in Int /\ mismatches \in Int /\ crashes \in Int /\ fails \in Int
    BY DEF NumbersOK
  <2>. QED
    BY <1>1, <2>1
       DEF ReceiveCount, ReceiveMismatch, ReceiveCrash, ReceiveDone, ReceiveRequest,
           ReceiveFail, Receive
<1>6. \A kind \in Kinds : Own(v, kind)' = Own(v, kind) /\ Own(v, kind) \in Int
  BY <1>2 DEF Own, Kinds, NumbersOK
<1>7. \A kind \in Kinds : Received(kind)' = Received(kind) + Weight(Head(toRoot[v]), kind)
  BY <1>4, <1>5 DEF Received, Weight, Kinds, NumbersOK
<1>8. Moves(v)
  <2>1. ASSUME NEW kind \in Kinds
        PROVE  Received(kind)' + Share(v, kind)' = Received(kind) + Share(v, kind)
    <3>1. Received(kind) \in Int
      BY ReceivedType
    <3>. HIDE DEF Kinds
    <3>. QED
      BY <3>1, <1>4, <1>6, <1>7, ShareParts
  <2>. QED
    BY <1>2, <2>1 DEF Moves
<1>9. NumbersOK'
  BY <1>2, <1>3, <1>4, <1>5 DEF NumbersOK, Workers
<1>. QED
  BY <1>2, <1>3, <1>8, <1>9, OthersKeepShares DEF AddsUp

\* The test of a history, with what is told of it.
TellsOf(v) ==
  /\ UNCHANGED fails
  /\ \E told : /\ TestTelling(v, told)
               /\ \A h \in left[v] :
                    told[h] = IF Failure(h) THEN "AUTOMATA_FAIL" ELSE WentWrong(h)

\* The counter goes one up, or is sent and set back.
LEMMA CountingCarries ==
  ASSUME ProtocolHolds, NumbersOK, NEW v \in Workers, CountTested(v)
  PROVE  /\ CountsAreNumbers(toRoot'[v]) /\ DOMAIN counter' = Workers /\ counter'[v] \in Int
         /\ \A w \in Workers \ {v} : toRoot'[w] = toRoot[w] /\ counter'[w] = counter[w]
         /\ \E n \in Int :
              /\ counter'[v] + n = counter[v] + 1
              /\ \A kind \in Kinds :
                   /\ Carried(toRoot'[v], kind)
                        = Carried(toRoot[v], kind) + (IF kind = "count" THEN n ELSE 0)
                   /\ Carried(toRoot[v], kind) \in Int
<1>. DEFINE report == (counter[v] + 1) % CountEvery = 0
<1>1. /\ IF report THEN SendToRoot(v, "COUNT", counter[v] + 1) ELSE UNCHANGED toRoot
      /\ counter' = [counter EXCEPT ![v] = IF report THEN 0 ELSE @ + 1]
  BY DEF CountTested
<1>. HIDE DEF report
<1>2. DOMAIN counter = Workers /\ counter[v] \in Int
  BY DEF NumbersOK
<1>3. /\ DOMAIN counter' = Workers
      /\ counter'[v] = IF report THEN 0 ELSE counter[v] + 1
      /\ \A w \in Workers \ {v} : counter'[w] = counter[w]
  BY <1>1, <1>2
<1>4. CASE report
  <2>1. SendToRoot(v, "COUNT", counter[v] + 1) /\ counter[v] + 1 \in Int
    BY <1>1, <1>2, <1>4
  <2>2. /\ CountsAreNumbers(toRoot'[v])
        /\ \A w \in Workers \ {v} : toRoot'[w] = toRoot[w]
    BY <2>1, SendCarries
  <2>3. PICK m : /\ m.tag = "COUNT" /\ m.body = counter[v] + 1
                 /\ \A kind \in Kinds :
                      /\ Carried(toRoot'[v], kind) = Carried(toRoot[v], kind) + Weight(m, kind)
                      /\ Carried(toRoot[v], kind) \in Int /\ Weight(m, kind) \in Int
    BY <2>1, SendCarries
  <2>4. \A kind \in Kinds : Weight(m, kind) = IF kind = "count" THEN counter[v] + 1 ELSE 0
    BY <2>3 DEF Weight, Kinds
  <2>5. counter'[v] + (counter[v] + 1) = counter[v] + 1
    BY <1>2, <1>3, <1>4
  <2>. QED
    BY <1>2, <1>3, <1>4, <2>1, <2>2, <2>3, <2>4, <2>5
<1>5. CASE ~report
  <2>1. toRoot' = toRoot
    BY <1>1, <1>5
  <2>2. IsChannel(toRoot[v]) /\ CountsAreNumbers(toRoot[v])
    BY DEF ProtocolHolds, Protocol, NumbersOK
  <2>3. \A kind \in Kinds : Carried(toRoot[v], kind) \in Int
    BY <2>2, CarriedType
  <2>4. /\ 0 \in Int /\ counter'[v] + 0 = counter[v] + 1
        /\ \A kind \in Kinds :
             Carried(toRoot'[v], kind)
               = Carried(toRoot[v], kind) + (IF kind = "count" THEN 0 ELSE 0)
    BY <1>2, <1>3, <1>5, <2>1, <2>3
  <2>. QED
    BY <1>2, <1>3, <1>5, <2>1, <2>2, <2>3, <2>4
<1>. QED
  BY <1>4, <1>5

\* A worker that sends, or receives, no history's count is what it was.
LEMMA TalkingAddsUp ==
  ASSUME ProtocolHolds, NumbersOK, NEW v \in Workers, program' = program, UNCHANGED fails,
         WorkerTalks(v) \/ SendData(v)
  PROVE  AddsUp(v)
<1>1. /\ v # 0 /\ 0 \notin Workers /\ v \in DOMAIN at /\ Workers \subseteq DOMAIN at
      /\ IsChannel(toRoot[v]) /\ CountsAreNumbers(toRoot[v])
      /\ \A kind \in Kinds : Carried(toRoot[v], kind) \in Int
  <2>1. IsChannel(toRoot[v]) /\ CountsAreNumbers(toRoot[v])
    BY DEF ProtocolHolds, Protocol, NumbersOK
  <2>. QED
    BY <2>1, WorkersAreProcesses, CarriedType DEF ProtocolHolds, TesterTypeOK
<1>2. /\ UNCHANGED <<size, n_elements, tested, num_finished, mismatches, crashes,
                     linearizable, violations>>
      /\ \A w \in Workers \ {v} : at'[w] = at[w]
  <2>1. UNCHANGED <<size, n_elements, tested, num_finished, mismatches, crashes,
                    linearizable, violations>>
    BY DEF WorkerTalks, SendData, Request, ReceiveAnswer, ReceiveData, Count, SendCount,
           SendDone, EnterReduce, rootVars, workerVars
  <2>2. (\E place : at' = [at EXCEPT ![v] = place]) \/ at' = [at EXCEPT ![0] = "loop"]
    BY DEF WorkerTalks, SendData, Request, ReceiveAnswer, ReceiveData, Count, SendCount,
           SendDone, EnterReduce
  <2>. QED
    BY <1>1, <2>1, <2>2
<1>3. \A kind \in Kinds : Received(kind)' = Received(kind) /\ Received(kind) \in Int
  BY <1>2, ReceivedType DEF Received, Kinds
\* It is enough to follow the messages and the worker's own count.
<1>4. ASSUME /\ CountsAreNumbers(toRoot'[v]) /\ DOMAIN counter' = Workers /\ counter'[v] \in Int
             /\ \A w \in Workers \ {v} : toRoot'[w] = toRoot[w] /\ counter'[w] = counter[w],
             \A kind \in Kinds : Own(v, kind)' + Carried(toRoot'[v], kind)
                                   = Own(v, kind) + Carried(toRoot[v], kind)
      PROVE  AddsUp(v)
  <2>1. \A kind \in Kinds : Share(v, kind)' = Share(v, kind)
    BY <1>4, ShareParts
  <2>2. Moves(v)
    BY <1>2, <1>3, <2>1 DEF Moves
  <2>3. NumbersOK'
    BY <1>2, <1>4 DEF NumbersOK, Workers
  <2>4. OthersShare(v)
    BY <1>2, <1>4, OthersKeepShares
  <2>. QED
    BY <1>2, <2>2, <2>3, <2>4 DEF AddsUp
<1>5. CASE Request(v) \/ SendDone(v)
  <2>1. /\ UNCHANGED counter
        /\ \E body : SendToRoot(v, "STATUS", body)
        /\ \/ at[v] = "test" /\ at'[v] = "answer"
           \/ at[v] = "status" /\ at'[v] = "sent"
    BY <1>1, <1>5 DEF Request, SendDone, workerVars
  <2>2. PICK m : /\ m.tag = "STATUS"
                 /\ \A kind \in Kinds :
                      Carried(toRoot'[v], kind) = Carried(toRoot[v], kind) + Weight(m, kind)
    BY <2>1, SendCarries
  <2>3. /\ CountsAreNumbers(toRoot'[v])
        /\ \A w \in Workers \ {v} : toRoot'[w] = toRoot[w]
    BY <2>1, SendCarries
  <2>4. \A kind \in Kinds : Weight(m, kind) = 0
    BY <2>2 DEF Weight, Kinds
  <2>5. \A kind \in Kinds : Own(v, kind)' = Own(v, kind)
    BY <1>2, <2>1 DEF Own, Kinds, Gone, NumbersOK
  <2>6. \A kind \in Kinds : Carried(toRoot'[v], kind) = Carried(toRoot[v], kind)
    BY <1>1, <2>2, <2>4
  <2>7. DOMAIN counter' = Workers /\ counter'[v] \in Int
    BY <2>1 DEF NumbersOK
  <2>. QED
    BY <1>4, <2>1, <2>3, <2>5, <2>6, <2>7
<1>6. CASE ReceiveAnswer(v) \/ ReceiveData(v) \/ EnterReduce(v) \/ SendData(v)
  <2>1. /\ UNCHANGED <<counter, toRoot>>
        /\ \/ at[v] = "answer" /\ at'[v] \in {"count", "data"}
           \/ at[v] = "data" /\ at'[v] = "test"
           \/ at[v] = "sent" /\ at'[v] = "reduce"
           \/ at'[v] = at[v]
    BY <1>1, <1>6 DEF ReceiveAnswer, ReceiveData, EnterReduce, SendData, workerVars
  <2>2. \A kind \in Kinds : Own(v, kind)' = Own(v, kind)
    BY <1>2, <2>1 DEF Own, Kinds, Gone, NumbersOK
  <2>3. DOMAIN counter' = Workers /\ counter'[v] \in Int
    BY <2>1 DEF NumbersOK
  <2>. QED
    BY <1>1, <1>4, <2>1, <2>2, <2>3
<1>7. CASE SendCount(v)
  <2>1. /\ UNCHANGED counter /\ SendToRoot(v, "COUNT", counter[v])
        /\ at[v] = "count" /\ at'[v] = "status" /\ counter[v] \in Int
    BY <1>1, <1>7 DEF SendCount, workerVars, NumbersOK
  <2>2. PICK m : /\ m.tag = "COUNT" /\ m.body = counter[v]
                 /\ \A kind \in Kinds :
                      Carried(toRoot'[v], kind) = Carried(toRoot[v], kind) + Weight(m, kind)
    BY <2>1, SendCarries
  <2>3. /\ CountsAreNumbers(toRoot'[v])
        /\ \A w \in Workers \ {v} : toRoot'[w] = toRoot[w]
    BY <2>1, SendCarries
  <2>4. \A kind \in Kinds : /\ Own(v, kind)' + Weight(m, kind) = Own(v, kind)
                            /\ Own(v, kind)' \in Int /\ Weight(m, kind) \in Int
    BY <1>2, <2>1, <2>2 DEF Own, Weight, Kinds, Gone, NumbersOK
  <2>5. \A kind \in Kinds : Own(v, kind)' + Carried(toRoot'[v], kind)
                              = Own(v, kind) + Carried(toRoot[v], kind)
    BY <1>1, <2>2, <2>4
  <2>6. DOMAIN counter' = Workers /\ counter'[v] \in Int
    BY <2>1 DEF NumbersOK
  <2>. QED
    BY <1>4, <2>1, <2>3, <2>5, <2>6
<1>8. CASE Count(v)
  <2>1. at[v] = "tested" /\ at'[v] = "test" /\ CountTested(v) /\ counter[v] \in Int
    BY <1>1, <1>8 DEF Count, NumbersOK
  <2>2. /\ CountsAreNumbers(toRoot'[v]) /\ DOMAIN counter' = Workers /\ counter'[v] \in Int
        /\ \A w \in Workers \ {v} : toRoot'[w] = toRoot[w] /\ counter'[w] = counter[w]
    BY <2>1, CountingCarries
  <2>3. PICK n \in Int :
          /\ counter'[v] + n = counter[v] + 1
          /\ \A kind \in Kinds :
               Carried(toRoot'[v], kind)
                 = Carried(toRoot[v], kind) + (IF kind = "count" THEN n ELSE 0)
    BY <2>1, CountingCarries
  <2>4. \A kind \in Kinds :
          /\ Own(v, kind)' + (IF kind = "count" THEN n ELSE 0) = Own(v, kind)
          /\ Own(v, kind)' \in Int
    BY <1>2, <2>1, <2>2, <2>3 DEF Own, Kinds, Gone, NumbersOK
  <2>5. \A kind \in Kinds : Own(v, kind)' + Carried(toRoot'[v], kind)
                              = Own(v, kind) + Carried(toRoot[v], kind)
    BY <1>1, <2>3, <2>4
  <2>. QED
    BY <1>4, <2>2, <2>5
<1>. QED
  BY <1>5, <1>6, <1>7, <1>8 DEF WorkerTalks

\* A history that is tested is counted, has one outcome, and is told if it
\* went wrong or the automaton catches it.
LEMMA TestingAddsUp ==
  ASSUME ProtocolHolds, Accounted, NumbersOK, NEW v \in Workers, program' = program, TellsOf(v)
  PROVE  AddsUp(v)
<1>1. PICK told : /\ TestTelling(v, told)
                  /\ \A h \in left[v] :
                       told[h] = IF Failure(h) THEN "AUTOMATA_FAIL" ELSE WentWrong(h)
  BY DEF TellsOf
<1>. DEFINE h == CHOOSE g \in left[v] : TRUE
            lin == IF TryHistory(h) = "MatchLin" THEN 1 ELSE 0
            viol == IF TryHistory(h) = "MatchViol" THEN 1 ELSE 0
            wrong == IF TryHistory(h) \in {"Mismatch", "MonitorCrash"} THEN 1 ELSE 0
            caught == IF Failure(h) THEN 1 ELSE 0
<1>2. /\ at[v] = "test" /\ left[v] # {}
      /\ IF told[h] # "nothing"
           THEN /\ SendToRoot(v, told[h], h)
                /\ at' = [at EXCEPT ![v] = "tested"]
                /\ UNCHANGED counter
           ELSE CountTested(v) /\ UNCHANGED at
      /\ linearizable' = [linearizable EXCEPT ![v] = @ + lin]
      /\ violations' = [violations EXCEPT ![v] = @ + viol]
      /\ tested' = [tested EXCEPT ![h] = @ + 1]
      /\ UNCHANGED <<size, n_elements, num_finished, mismatches, crashes>>
  BY <1>1 DEF TestTelling, rootVars
<1>3. h \in left[v]
  BY <1>2
<1>4. h \in DOMAIN tested
  BY <1>3 DEF Accounted, Held
<1>5. told[h] = IF Failure(h) THEN "AUTOMATA_FAIL" ELSE WentWrong(h)
  BY <1>1, <1>3
<1>6. /\ lin + viol + wrong = 1 /\ lin \in Int /\ viol \in Int /\ wrong \in Int /\ caught \in Int
      /\ told[h] \in {"nothing", "MISMATCH", "CRASH", "AUTOMATA_FAIL"}
      /\ wrong = 1 <=> told[h] \in {"MISMATCH", "CRASH"}
      /\ caught = 1 <=> told[h] = "AUTOMATA_FAIL"
      /\ caught = IF Failure(h) THEN 1 ELSE 0
  BY <1>5 DEF TryHistory, WentWrong, Failure, IsFailure
<1>. HIDE DEF h, lin, viol, wrong, caught
<1>7. /\ v # 0 /\ v \in DOMAIN at /\ Workers \subseteq DOMAIN at
      /\ DOMAIN linearizable = Workers /\ DOMAIN violations = Workers
      /\ linearizable[v] \in Int /\ violations[v] \in Int /\ counter[v] \in Int
  BY WorkersAreProcesses DEF ProtocolHolds, TesterTypeOK, NumbersOK
<1>8. /\ linearizable'[v] = linearizable[v] + lin /\ violations'[v] = violations[v] + viol
      /\ DOMAIN linearizable' = Workers /\ DOMAIN violations' = Workers
      /\ \A w \in Workers \ {v} : /\ linearizable'[w] = linearizable[w]
                                  /\ violations'[w] = violations[w] /\ at'[w] = at[w]
      /\ at'[v] = IF told[h] = "nothing" THEN "test" ELSE "tested"
  BY <1>2, <1>7
<1>9. fails' = fails
  BY DEF TellsOf
\* The changes of the worker's counter and of what its messages carry.
<1>10. /\ CountsAreNumbers(toRoot'[v]) /\ DOMAIN counter' = Workers /\ counter'[v] \in Int
       /\ \A w \in Workers \ {v} : toRoot'[w] = toRoot[w] /\ counter'[w] = counter[w]
       /\ \E d, e, f \in Int :
            /\ counter'[v] + d = counter[v] + (IF told[h] = "nothing" THEN 1 ELSE 0)
            /\ e = wrong /\ f = caught
            /\ \A kind \in Kinds :
                 /\ Carried(toRoot[v], kind) \in Int
                 /\ Carried(toRoot'[v], kind)
                      = Carried(toRoot[v], kind)
                          + (IF kind = "count" THEN d ELSE IF kind = "outcome" THEN e ELSE f)
  <2>1. CASE told[h] = "nothing"
    <3>1. CountTested(v)
      BY <1>2, <2>1
    <3>2. PICK n \in Int :
            /\ counter'[v] + n = counter[v] + 1
            /\ \A kind \in Kinds :
                 /\ Carried(toRoot'[v], kind)
                      = Carried(toRoot[v], kind) + (IF kind = "count" THEN n ELSE 0)
                 /\ Carried(toRoot[v], kind) \in Int
      BY <3>1, CountingCarries
    <3>3. wrong = 0 /\ caught = 0
      BY <1>6, <2>1 DEF wrong, caught
    <3>4. /\ CountsAreNumbers(toRoot'[v]) /\ DOMAIN counter' = Workers /\ counter'[v] \in Int
          /\ \A w \in Workers \ {v} : toRoot'[w] = toRoot[w] /\ counter'[w] = counter[w]
      BY <3>1, CountingCarries
    <3>. QED
      BY <1>6, <2>1, <3>2, <3>3, <3>4 DEF Kinds
  <2>2. CASE told[h] # "nothing"
    <3>1. SendToRoot(v, told[h], h) /\ UNCHANGED counter /\ told[h] # "COUNT"
      BY <1>2, <1>6, <2>2
    <3>2. PICK m : /\ m.tag = told[h]
                   /\ \A kind \in Kinds :
                        /\ Carried(toRoot'[v], kind) = Carried(toRoot[v], kind) + Weight(m, kind)
                        /\ Carried(toRoot[v], kind) \in Int /\ Weight(m, kind) \in Int
      BY <3>1, SendCarries
    <3>3. \A kind \in Kinds :
            Weight(m, kind) = IF kind = "count" THEN 0 ELSE IF kind = "outcome" THEN wrong ELSE caught
      BY <1>6, <3>1, <3>2 DEF Weight, Kinds, wrong, caught
    <3>4. /\ CountsAreNumbers(toRoot'[v])
          /\ \A w \in Workers \ {v} : toRoot'[w] = toRoot[w]
      BY <3>1, SendCarries
    <3>5. DOMAIN counter' = Workers /\ counter'[v] \in Int /\ counter'[v] + 0 = counter[v] + 0
      BY <1>7, <3>1 DEF NumbersOK
    <3>6. 0 \in Int
      OBVIOUS
    <3>. QED
      BY <1>6, <1>7, <2>2, <3>1, <3>2, <3>3, <3>4, <3>5, <3>6
  <2>. QED
    BY <2>1, <2>2
<1>11. PICK d, e, f \in Int :
         /\ counter'[v] + d = counter[v] + (IF told[h] = "nothing" THEN 1 ELSE 0)
         /\ e = wrong /\ f = caught
         /\ \A kind \in Kinds :
              /\ Carried(toRoot[v], kind) \in Int
              /\ Carried(toRoot'[v], kind)
                   = Carried(toRoot[v], kind)
                       + (IF kind = "count" THEN d ELSE IF kind = "outcome" THEN e ELSE f)
  BY <1>10
<1>12. \A kind \in Kinds : Received(kind)' = Received(kind) /\ Received(kind) \in Int
  BY <1>2, <1>9, ReceivedType DEF Received, Kinds
<1>13. ASSUME NEW kind \in Kinds
       PROVE  /\ Own(v, kind) \in Int /\ Own(v, kind)' \in Int
              /\ Own(v, kind)' + (IF kind = "count" THEN d ELSE IF kind = "outcome" THEN e ELSE f)
                   = Own(v, kind) + (IF kind = "fail" /\ ~Failure(h) THEN 0 ELSE 1)
  <2>1. CASE kind = "count"
    BY <2>1, <1>2, <1>7, <1>8, <1>10, <1>11 DEF Own, Gone
  <2>2. CASE kind = "outcome"
    BY <2>2, <1>6, <1>7, <1>8, <1>11 DEF Own
  <2>3. CASE kind = "fail"
    BY <2>3, <1>6, <1>11 DEF Own
  <2>. QED
    BY <2>1, <2>2, <2>3 DEF Kinds
<1>14. ASSUME NEW kind \in Kinds
       PROVE  Received(kind)' + Share(v, kind)'
                = Received(kind) + Share(v, kind) + (IF kind = "fail" /\ ~Failure(h) THEN 0 ELSE 1)
  <2>. DEFINE x == IF kind = "count" THEN d ELSE IF kind = "outcome" THEN e ELSE f
              y == IF kind = "fail" /\ ~Failure(h) THEN 0 ELSE 1
  <2>1. x \in Int /\ y \in Int
    OBVIOUS
  <2>2. Own(v, kind)' + x = Own(v, kind) + y /\ Own(v, kind) \in Int /\ Own(v, kind)' \in Int
    BY <1>13
  <2>3. Carried(toRoot'[v], kind) = Carried(toRoot[v], kind) + x /\ Carried(toRoot[v], kind) \in Int
    BY <1>11
  <2>. HIDE DEF x, y
  <2>4. Received(kind)' + Share(v, kind)' = Received(kind) + Share(v, kind) + y
    <3>1. /\ Share(v, kind) = Own(v, kind) + Carried(toRoot[v], kind)
          /\ Share(v, kind)' = Own(v, kind)' + Carried(toRoot'[v], kind)
      BY ShareParts
    <3>2. Received(kind)' = Received(kind) /\ Received(kind) \in Int
      BY <1>12
    <3>. QED
      BY <2>1, <2>2, <2>3, <3>1, <3>2
  <2>. QED
    BY <2>4 DEF y
<1>15. Adds(v)
  BY <1>2, <1>4, <1>14 DEF Adds
<1>16. NumbersOK'
  <2>1. Workers' = Workers
    BY <1>2 DEF Workers
  <2>2. ASSUME NEW w \in Workers
        PROVE  /\ counter'[w] \in Int /\ linearizable'[w] \in Int /\ violations'[w] \in Int
               /\ CountsAreNumbers(toRoot'[w])
    <3>1. CASE w = v
      BY <3>1, <1>6, <1>7, <1>8, <1>10
    <3>2. CASE w # v
      BY <3>2, <1>8, <1>10 DEF NumbersOK
    <3>. QED
      BY <3>1, <3>2
  <2>3. ASSUME NEW w \in Workers
        PROVE  CountsAreNumbers(toRoot[w])'
    BY <2>2 DEF CountsAreNumbers
  <2>4. /\ num_finished' \in Int /\ mismatches' \in Int /\ crashes' \in Int /\ fails' \in Int
    BY <1>2, <1>9 DEF NumbersOK
  <2>. QED
    BY <2>1, <2>2, <2>3, <2>4, <1>8, <1>10 DEF NumbersOK
<1>. QED
  BY <1>2, <1>8, <1>10, <1>15, <1>16, OthersKeepShares DEF AddsUp

\* A step that leaves all counts and messages alone.
Silent ==
  /\ UNCHANGED <<size, n_elements, tested, num_finished, mismatches, crashes, fails, counter,
                 linearizable, violations, toRoot>>
  /\ \A w \in Workers : at'[w] = at[w] \/ (at[w] \in Gone /\ at'[w] \in Gone)

LEMMA SilenceKeepsTotals ==
  ASSUME Totals, Silent, program' = program
  PROVE  Totals'
<1>1. /\ Workers' = Workers /\ AllHistories(n_elements)' = AllHistories(n_elements)
      /\ \A h : Failure(h)' = Failure(h)
  BY DEF Silent, Workers, AllHistories, Failure, IsFailure
<1>2. NumbersOK'
  BY <1>1 DEF Totals, NumbersOK, Silent, CountsAreNumbers
<1>3. ASSUME NEW kind \in Kinds
      PROVE  Balanced(kind)'
  <2>1. Received(kind)' = Received(kind)
    BY DEF Received, Kinds, Silent
  <2>2. \A w \in Workers : Share(w, kind)' = Share(w, kind)
    <3>1. \A w \in Workers : Own(w, kind)' = Own(w, kind)
      BY DEF Own, Kinds, Silent, Gone
    <3>2. \A w \in Workers : Carried(toRoot[w], kind)' = Carried(toRoot[w], kind)
      BY DEF Carried, Weight, Silent
    <3>. QED
      BY <3>1, <3>2 DEF Share
  <2>3. Shares(kind)' = Shares(kind)
    BY <1>1, <2>2 DEF Shares
  <2>4. Dues(kind)' = Dues(kind)
    BY <1>1 DEF Dues, Due, Silent
  <2>5. Balanced(kind)
    BY DEF Totals
  <2>. QED
    BY <1>1, <2>1, <2>3, <2>4, <2>5 DEF Balanced
<1>. QED
  BY <1>2, <1>3 DEF Totals

LEMMA StepOfTotals ==
  ASSUME Exhaustive, ProtocolHolds, Accounted, NumbersOK, [Next]_testVars
  PROVE  program' = program /\ (Silent \/ \E v \in Workers : AddsUp(v))
<1>1. CASE UNCHANGED testVars
  BY <1>1 DEF testVars, exhVars, rootVars, workerVars, Silent
<1>2. CASE Next
  <2>1. program' = program
    BY <1>2 DEF Next
  <2>2. ASSUME ProbeNothing \/ LeaveLoop \/ Finish, UNCHANGED fails
        PROVE  Silent
    <3>1. UNCHANGED <<size, n_elements, tested, num_finished, mismatches, crashes, counter,
                      linearizable, violations, toRoot>>
      BY <2>2 DEF ProbeNothing, LeaveLoop, Finish, rootVars, workerVars
    <3>2. \A w \in Workers : at'[w] = at[w] \/ (at[w] \in Gone /\ at'[w] \in Gone)
      <4>1. /\ DOMAIN at = Processes /\ Workers \subseteq Processes /\ 0 \notin Workers
        BY WorkersAreProcesses DEF ProtocolHolds, TesterTypeOK
      <4>2. CASE ProbeNothing \/ LeaveLoop
        BY <4>1, <4>2 DEF ProbeNothing, LeaveLoop
      <4>3. CASE Finish
        <5>1. /\ \A p \in Processes : at[p] = "reduce"
              /\ at' = [p \in Processes |-> "finished"]
          BY <4>3 DEF Finish
        <5>. QED
          BY <4>1, <5>1 DEF Gone
      <4>. QED
        BY <2>2, <4>2, <4>3
    <3>. QED
      BY <2>2, <3>1, <3>2 DEF Silent
  <2>3. ASSUME NEW v \in Workers, RootReceives(v) \/ SendData(v) \/ WorkerTalks(v), UNCHANGED fails
        PROVE  AddsUp(v)
    BY <2>1, <2>3, ReceivingAddsUp, TalkingAddsUp DEF RootReceives
  <2>4. ASSUME NEW v \in Workers, ReceiveFail(v)
        PROVE  AddsUp(v)
    BY <2>1, <2>4, ReceivingAddsUp
  <2>5. ASSUME NEW v \in Workers, TellsOf(v)
        PROVE  AddsUp(v)
    BY <2>1, <2>5, TestingAddsUp
  <2>6. CASE program = "exhaustive" /\ ExhaustiveNext /\ UNCHANGED fails
    <3>1. ASSUME NEW v \in Workers, Test(v)
          PROVE  TellsOf(v)
      <4>1. \A h : ~Failure(h)
        BY <2>6 DEF Failure
      <4>. DEFINE told == [h \in left[v] |-> WentWrong(h)]
      <4>2. TestTelling(v, told)
        BY <3>1 DEF Test
      <4>3. \A h \in left[v] : told[h] = WentWrong(h)
        OBVIOUS
      <4>. HIDE DEF told
      <4>. QED
        BY <2>6, <4>1, <4>2, <4>3 DEF TellsOf
    <3>. QED
      BY <2>1, <2>2, <2>3, <2>5, <2>6, <3>1 DEF ExhaustiveNext
  <2>7. CASE program = "automata_checker" /\ CheckerNext
    <3>1. ASSUME NEW v \in Workers, CheckerTest(v), UNCHANGED fails
          PROVE  TellsOf(v)
      <4>1. \A h : Failure(h) <=> IsFailure(h)
        BY <2>7 DEF Failure
      <4>. DEFINE told == [h \in left[v] |->
                             IF IsFailure(h) THEN "AUTOMATA_FAIL" ELSE WentWrong(h)]
      <4>2. TestTelling(v, told)
        BY <3>1 DEF CheckerTest
      <4>3. \A h \in left[v] :
              told[h] = IF IsFailure(h) THEN "AUTOMATA_FAIL" ELSE WentWrong(h)
        OBVIOUS
      <4>. HIDE DEF told
      <4>. QED
        BY <3>1, <4>1, <4>2, <4>3 DEF TellsOf
    <3>. QED
      BY <2>1, <2>2, <2>3, <2>4, <2>5, <2>7, <3>1 DEF CheckerNext, CheckerRoot, CheckerWorker
  <2>. QED
    BY <1>2, <2>6, <2>7 DEF Next, Exhaustive
<1>. QED
  BY <1>1, <1>2

LEMMA StartsBalanced ==
  ASSUME Init, Exhaustive
  PROVE  Totals
<1>1. PICK p \in DOMAIN Sizes : ExhaustiveInit(Sizes[p], Lengths)
  BY DEF Init, Exhaustive, CheckerInit
<1>2. /\ size \in Nat \ {0} /\ n_elements \in Nat \ {0}
      /\ num_finished = 0 /\ mismatches = 0 /\ crashes = 0 /\ fails = 0
      /\ counter = [w \in Workers |-> 0]
      /\ linearizable = [w \in Workers |-> 0] /\ violations = [w \in Workers |-> 0]
      /\ \A w \in Workers : at[w] = "test" /\ toRoot[w] = <<>>
      /\ tested = [h \in AllHistories(n_elements) |-> 0]
  <2>1. size \in Nat \ {0} /\ n_elements \in Nat \ {0}
    BY <1>1, ProgramsAssumption, LengthsAssumption DEF ExhaustiveInit
  <2>2. \A w \in Workers : w # 0 /\ w \in Processes
    BY <2>1, WorkersAreProcesses
  <2>3. fails = 0
    BY DEF Init, Exhaustive, CheckerInit
  <2>. QED
    BY <1>1, <2>1, <2>2, <2>3 DEF ExhaustiveInit
<1>3. NumbersOK
  BY <1>2, EmptyChannel DEF NumbersOK, CountsAreNumbers
<1>4. ASSUME NEW kind \in Kinds
      PROVE  Balanced(kind)
  <2>. DEFINE S == Shares(kind)
              T == Dues(kind)
              H == AllHistories(n_elements)
  <2>1. \A w \in Workers : S[w] = 0
    BY <1>2, CarriedByNone DEF Shares, Share, Own, Kinds, Gone
  <2>2. \A h \in H : T[h] = 0
    BY <1>2 DEF Dues, Due
  <2>3. IsFiniteSet(Workers) /\ IsFiniteSet(H)
    <3>1. size - 1 \in Int /\ 1 \in Int
      BY <1>2
    <3>2. IsFiniteSet(1 .. size - 1)
      BY <3>1, FS_Interval
    <3>. QED
      BY <1>2, <3>2, HistoriesAreFinite DEF Workers, AllHistories
  <2>4. Received(kind) = 0
    BY <1>2 DEF Received, Kinds
  <2>. HIDE DEF S, T, H
  <2>5. SumOver(S, Workers) = 0 /\ SumOver(T, H) = 0
    BY <2>1, <2>2, <2>3, SumZero
  <2>6. Received(kind) + SumOver(S, Workers) = SumOver(T, H)
    BY <2>4, <2>5
  <2>. QED
    BY <2>6 DEF S, T, H, Balanced
<1>. QED
  BY <1>3, <1>4 DEF Totals

\* At the end nothing is left to be told.
LEMMA TotalsAtEnd ==
  ASSUME Exhaustive, ProtocolHolds, Accounted, Totals, EveryHistoryOnce,
         n_elements \in Nat \ {0}, Workers # {}, Finished
  PROVE  LET Sum(f) == MapThenSumSet(LAMBDA w : f[w], Workers)
         IN  /\ num_finished = Cardinality(DOMAIN tested)
             /\ num_finished = Sum(linearizable) + Sum(violations) + mismatches + crashes
             /\ fails = (IF program = "exhaustive" THEN 0
                         ELSE Cardinality({h \in DOMAIN tested : IsFailure(h)}))
<1>. DEFINE H == AllHistories(n_elements)
<1>1. DOMAIN tested = H /\ \A h \in H : tested[h] = 1
  BY DEF Accounted, EveryHistoryOnce, Exhausting, Exhaustive
<1>2. IsFiniteSet(Workers) /\ IsFiniteSet(H)
  <2>1. size - 1 \in Int /\ 1 \in Int
    BY DEF ProtocolHolds, TesterTypeOK
  <2>2. IsFiniteSet(1 .. size - 1)
    BY <2>1, FS_Interval
  <2>. QED
    BY <2>2, HistoriesAreFinite DEF Workers, AllHistories
<1>. HIDE DEF H
<1>3. ASSUME NEW w \in Workers, NEW kind \in Kinds
      PROVE  Share(w, kind) = IF kind = "outcome" THEN linearizable[w] + violations[w] ELSE 0
  <2>1. at[w] = "finished" /\ at[0] = "finished"
    BY WorkersAreProcesses DEF Finished, ProtocolHolds, TesterTypeOK
  <2>2. thread_done[w] /\ Protocol(w)
    BY <2>1 DEF ProtocolHolds, TesterTypeOK
  <2>3. toRoot[w] = <<>>
    BY <2>2 DEF Protocol
  <2>4. linearizable[w] \in Int /\ violations[w] \in Int
    BY DEF Totals, NumbersOK
  <2>5. Carried(toRoot[w], kind) = 0
    BY <2>3, CarriedByNone
  <2>. QED
    BY <2>1, <2>4, <2>5 DEF Share, Own, Kinds, Gone
<1>4. \A kind \in Kinds :
        Received(kind) + SumOver(Shares(kind), Workers) = SumOver(Dues(kind), H)
  BY DEF Totals, Balanced, H
<1>5. /\ num_finished \in Int /\ mismatches \in Int /\ crashes \in Int /\ fails \in Int
      /\ Numbers(linearizable, Workers) /\ Numbers(violations, Workers)
  BY DEF Totals, NumbersOK, Numbers
<1>6. num_finished = Cardinality(H)
  <2>. DEFINE S == Shares("count")
              T == Dues("count")
  <2>1. \A w \in Workers : S[w] = 0
    BY <1>3 DEF Shares, Kinds
  <2>2. \A h \in H : T[h] = IF h \in H THEN 1 ELSE 0
    BY <1>1 DEF Dues, Due, H
  <2>3. num_finished + SumOver(S, Workers) = SumOver(T, H)
    BY <1>4 DEF Received, Kinds
  <2>. HIDE DEF S, T
  <2>4. SumOver(S, Workers) = 0 /\ SumOver(T, H) = Cardinality(H)
    <3>1. H \in SUBSET H
      OBVIOUS
    <3>. QED
      BY <1>2, <2>1, <2>2, <3>1, SumZero, SumCounts
  <2>. QED
    BY <1>5, <2>3, <2>4
<1>7. num_finished = SumOver(linearizable, Workers) + SumOver(violations, Workers)
                       + mismatches + crashes
  <2>. DEFINE S == Shares("outcome")
              T == Dues("outcome")
  <2>1. \A w \in Workers : S[w] = linearizable[w] + violations[w]
    BY <1>3 DEF Shares, Kinds
  <2>2. \A h \in H : T[h] = IF h \in H THEN 1 ELSE 0
    BY <1>1 DEF Dues, Due, H
  <2>3. mismatches + crashes + SumOver(S, Workers) = SumOver(T, H)
    BY <1>4 DEF Received, Kinds
  <2>. HIDE DEF S, T
  <2>4. SumOver(S, Workers) = SumOver(linearizable, Workers) + SumOver(violations, Workers)
    BY <1>2, <1>5, <2>1, SumAdd
  <2>5. SumOver(T, H) = Cardinality(H)
    <3>1. H \in SUBSET H
      OBVIOUS
    <3>. QED
      BY <1>2, <2>2, <3>1, SumCounts
  <2>6. SumOver(linearizable, Workers) \in Int /\ SumOver(violations, Workers) \in Int
    BY <1>2, <1>5, SumType
  <2>. QED
    BY <1>5, <1>6, <2>3, <2>4, <2>5, <2>6
<1>8. fails = Cardinality({h \in H : Failure(h)})
  <2>. DEFINE S == Shares("fail")
              T == Dues("fail")
              Y == {h \in H : Failure(h)}
  <2>1. \A w \in Workers : S[w] = 0
    BY <1>3 DEF Shares, Kinds
  <2>2. Y \in SUBSET H /\ \A h \in H : T[h] = IF h \in Y THEN 1 ELSE 0
    BY <1>1 DEF Dues, Due, H
  <2>3. fails + SumOver(S, Workers) = SumOver(T, H)
    BY <1>4 DEF Received, Kinds
  <2>. HIDE DEF S, T, Y
  <2>4. SumOver(S, Workers) = 0 /\ SumOver(T, H) = Cardinality(Y)
    BY <1>2, <2>1, <2>2, SumZero, SumCounts
  <2>5. fails = Cardinality(Y)
    BY <1>5, <2>3, <2>4
  <2>. QED
    BY <2>5 DEF Y
<1>9. fails = IF program = "exhaustive" THEN 0
              ELSE Cardinality({h \in DOMAIN tested : IsFailure(h)})
  <2>1. CASE program = "exhaustive"
    <3>1. {h \in H : Failure(h)} = {}
      BY <2>1 DEF Failure
    <3>. QED
      BY <1>8, <2>1, <3>1, FS_EmptySet
  <2>2. CASE program = "automata_checker"
    <3>1. {h \in H : Failure(h)} = {h \in DOMAIN tested : IsFailure(h)}
      BY <1>1, <2>2 DEF Failure
    <3>. QED
      BY <1>8, <2>2, <3>1
  <2>. QED
    BY <2>1, <2>2 DEF Exhaustive
<1>. QED
  BY <1>1, <1>6, <1>7, <1>9 DEF SumOver

\* The report of exhaustive and of the automata checker adds up, for any
\* number of processes, whatever the monitors answer and however often a
\* worker reports its count: the total is the number of histories, each has
\* one outcome, and the failures are those the automaton catches.
THEOREM ReportAddsUp == Spec => []TotalsAddUp
<1> DEFINE Programs == program \in {"exhaustive", "automata_checker", "random"}
           Parts == ProtocolHolds /\ Accounted /\ Totals /\ n_elements \in Nat \ {0}
           Inv == Programs /\ (Exhaustive => Parts)
<1>1. Init => Inv
  <2>1. Init => n_elements \in Lengths
    BY ProgramsAssumption DEF Init, CheckerInit, ExhaustiveInit, RandomInit
  <2>. QED
    BY <2>1, StartsByProtocol, StartsAccounted, StartsBalanced, ProgramsAssumption,
       LengthsAssumption DEF Init
<1>2. Inv /\ [Next]_testVars => Inv'
  <2>. SUFFICES ASSUME Inv, [Next]_testVars
                PROVE  Inv'
    OBVIOUS
  <2>1. program' = program
    BY DEF Next, testVars
  <2>2. ASSUME Exhaustive
        PROVE  Parts'
    <3>1. Parts
      BY <2>2
    <3>2. ProtocolHolds'
      BY <2>2, <3>1, ProtocolKept
    <3>3. Accounted'
      <4>1. Idles \/ LeaveLoop \/ Finish \/ \E w \in Workers : TesterStep(w)
        BY <2>2, StepOfTester
      <4>2. CASE Idles \/ LeaveLoop \/ Finish
        <5>1. UNCHANGED <<n_elements, size, gens, tested, left, toWorker>>
          BY <4>2 DEF Idles, LeaveLoop, Finish, rootVars, workerVars
        <5>. QED
          BY <5>1, <3>1, HeldByOthers, AccountsKept DEF NothingMoves
      <4>3. ASSUME NEW v \in Workers, TesterStep(v)
            PROVE  Accounted'
        BY <4>3, <3>1, HistoriesMove, AccountsKept
      <4>. QED
        BY <4>1, <4>2, <4>3
    <3>4. Silent \/ \E v \in Workers : AddsUp(v)
      BY <2>2, <3>1, StepOfTotals DEF Totals
    <3>5. CASE Silent
      <4>1. n_elements' = n_elements
        BY <3>5 DEF Silent
      <4>. QED
        BY <4>1, <2>1, <3>1, <3>2, <3>3, <3>5, SilenceKeepsTotals
    <3>6. ASSUME NEW v \in Workers, AddsUp(v)
          PROVE  Parts'
      <4>1. n_elements' = n_elements
        BY <3>6 DEF AddsUp
      <4>. QED
        BY <4>1, <3>1, <3>2, <3>3, <3>6, TotalsKept
    <3>. QED
      BY <3>4, <3>5, <3>6
  <2>3. Programs' /\ (Exhaustive' <=> Exhaustive)
    BY <2>1 DEF Exhaustive
  <2>. QED
    BY <2>2, <2>3
<1>3. Inv /\ EveryHistoryOnce => TotalsAddUp
  BY TotalsAtEnd DEF TotalsAddUp, Exhausting, Exhaustive
<1>. QED
  BY <1>1, <1>2, <1>3, EveryHistoryTestedOnce, PTL DEF Spec
=============================================================================
