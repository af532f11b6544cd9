------------------------- MODULE Verifier_proofs -------------------------
(***************************************************************************)
(* Lemmas about what the verifier computes, for any timestamps, lists,     *)
(* sets of values and histories: the constructor, complement() and         *)
(* operator* of Interval are exact; the histories that step() makes of a   *)
(* history can be ordered if and only if it can; a list of events has one  *)
(* set of operations; simplify() and preprocess() go through their steps,  *)
(* and preprocess() drops overlapping pairs.                               *)
(***************************************************************************)
EXTENDS CoverHistory, Simplify, Linearizability, InductionLemmas, SequenceTheorems

----------------------------------------------------------------------------
(* A fold from the left goes from the beginning of a list of length k to   *)
(* the one of length k + 1.                                                *)

\* A set of positions that is not empty has the maximum that Max chooses.
LEMMA HasMax ==
  ASSUME NEW n \in Nat, NEW T \in SUBSET (1 .. n), T # {}
  PROVE  Max(T) \in T /\ \A y \in T : Max(T) >= y
<1>. DEFINE U == {u \in 0 .. n : n - u \in T}
<1>1. U \subseteq Nat /\ U # {}
  <2>1. PICK x \in T : TRUE
    OBVIOUS
  <2>2. n - x \in 0 .. n /\ n - (n - x) = x
    OBVIOUS
  <2>3. n - x \in U
    BY <2>2
  <2>4. U \subseteq Nat
    OBVIOUS
  <2>. QED
    BY <2>3, <2>4, Zenon
<1>2. PICK m \in U : \A k \in U : m <= k
  BY <1>1, LeastNatural
<1>3. \A y \in T : n - m >= y
  <2>. TAKE y \in T
  <2>1. n - y \in 0 .. n /\ n - (n - y) = y
    OBVIOUS
  <2>2. m <= n - y
    BY <1>2, <2>1
  <2>. QED
    BY <2>2
<1>4. \E x \in T : \A y \in T : x >= y
  BY <1>2, <1>3
<1>. QED
  BY <1>4, Zenon DEF Max

\* The last of the first k positions, and what is left without it.
LEMMA Beginnings ==
  ASSUME NEW n \in Nat, NEW k \in 1 .. n
  PROVE  /\ 1 .. k \in SUBSET (1 .. n) /\ 1 .. k # {} /\ Max(1 .. k) = k
         /\ (1 .. k) \ {k} = 1 .. k - 1
<1>1. 1 .. k \in SUBSET (1 .. n) /\ k \in 1 .. k /\ (1 .. k) \ {k} = 1 .. k - 1
  OBVIOUS
<1>2. Max(1 .. k) \in 1 .. k /\ Max(1 .. k) >= k
  BY <1>1, HasMax
<1>. QED
  BY <1>1, <1>2

\* The states a fold goes through, given by the function on sets of positions
\* that defines it.
FoldsBy(F, n, D, base, g) ==
  /\ F \in [SUBSET (1 .. n) -> D]
  /\ F = [T \in SUBSET (1 .. n) |->
            IF T = {} THEN base ELSE g[<<Max(T), F[T \ {Max(T)}]>>]]

\* Such a function exists, for any step of the fold.
LEMMA FoldSteps ==
  ASSUME NEW n \in Nat, NEW D, NEW base \in D, NEW g \in [(1 .. n) \X D -> D]
  PROVE  \E F : FoldsBy(F, n, D, base, g)
<1>. DEFINE S == 1 .. n
            c == [T \in SUBSET S |-> Max(T)]
<1>1. IsFiniteSet(S)
  BY FS_Interval, 1 \in Int, n \in Int
<1>2. \A T \in SUBSET S : c[T] = Max(T)
  OBVIOUS
<1>3. \A T \in SUBSET S : T # {} => c[T] \in T
  BY <1>2, HasMax
<1>. HIDE DEF c
<1>4. PICK F : SolvesOnSubsets(F, S, D, base, c, g)
  BY <1>1, <1>3, RecursionOnSubsets
<1>5. F \in [SUBSET S -> D]
      /\ F = [T \in SUBSET S |-> IF T = {} THEN base ELSE g[<<c[T], F[T \ {c[T]}]>>]]
  BY <1>4 DEF SolvesOnSubsets
<1>6. F = [T \in SUBSET S |-> IF T = {} THEN base ELSE g[<<Max(T), F[T \ {Max(T)}]>>]]
  BY <1>2, <1>5, Zenon
<1>. QED
  BY <1>5, <1>6 DEF FoldsBy

\* The atoms that the constructor has merged after one atom, after two, ...
MergeSteps(s, f) ==
  /\ f \in [0 .. Len(s) -> Seq(AtomSet)] /\ f[0] = <<>> /\ Merged(s) = f[Len(s)]
  /\ \A k \in 1 .. Len(s) : f[k] = MergeNext(f[k - 1], s[k])

\* One turn of the constructor's loop leaves a list of atoms.
LEMMA MergeNextType ==
  ASSUME NEW m \in Seq(AtomSet), NEW a \in AtomSet
  PROVE  MergeNext(m, a) \in Seq(AtomSet)
<1>1. ASSUME m # <<>>
      PROVE  Front(m) \in Seq(AtomSet) /\ Last(m) \in AtomSet
  BY <1>1 DEF Front, Last
<1>2. ASSUME m # <<>>
      PROVE  Extend(Last(m), a) \in AtomSet
  BY <1>1, <1>2 DEF Extend, AtomSet
<1>. QED
  BY <1>1, <1>2 DEF MergeNext

\* The equation by which the fold in Merged chooses its function.
MergeEquation(F, s) ==
  F = [T \in SUBSET DOMAIN s |->
         IF T = {} THEN <<>> ELSE MergeNext(F[T \ {Max(T)}], s[Max(T)])]

\* Merged is that function at all positions.
LEMMA MergedIsChosen ==
  ASSUME NEW s
  PROVE  Merged(s) = (CHOOSE F : MergeEquation(F, s))[DOMAIN s]
BY Zenon DEF Merged, FoldLeft, MapThenFoldSet, MergeEquation

\* So the constructor's loop goes through MergeSteps, and ends in Merged.
LEMMA MergedBySteps ==
  ASSUME NEW s \in Seq(AtomSet)
  PROVE  \E f : MergeSteps(s, f)
<1>. DEFINE n == Len(s)
            D == Seq(AtomSet)
            g == [x \in (1 .. n) \X D |-> MergeNext(x[2], s[x[1]])]
<1>1. n \in Nat /\ DOMAIN s = 1 .. n /\ \A k \in 1 .. n : s[k] \in AtomSet
  OBVIOUS
<1>. HIDE DEF n
<1>2. g \in [(1 .. n) \X D -> D]
  BY <1>1, MergeNextType
<1>3. \A k \in 1 .. n, m \in D : g[<<k, m>>] = MergeNext(m, s[k])
  OBVIOUS
<1>4. <<>> \in D
  OBVIOUS
<1>. HIDE DEF g, D
<1>5. PICK F : FoldsBy(F, n, D, <<>>, g)
  BY <1>1, <1>2, <1>4, FoldSteps
<1>6. \A T \in SUBSET (1 .. n) : T # {} =>
        Max(T) \in 1 .. n /\ T \ {Max(T)} \in SUBSET (1 .. n) /\ F[T \ {Max(T)}] \in D
  BY <1>1, <1>5, HasMax DEF FoldsBy
<1>7. F = [T \in SUBSET (1 .. n) |->
             IF T = {} THEN <<>> ELSE MergeNext(F[T \ {Max(T)}], s[Max(T)])]
  BY <1>3, <1>5, <1>6 DEF FoldsBy
<1>8. \E G : MergeEquation(G, s)
  BY <1>1, <1>7 DEF MergeEquation
<1>. DEFINE G == CHOOSE H : MergeEquation(H, s)
            f == [k \in 0 .. n |-> G[1 .. k]]
<1>9. G = [T \in SUBSET (1 .. n) |->
             IF T = {} THEN <<>> ELSE MergeNext(G[T \ {Max(T)}], s[Max(T)])]
  BY <1>1, <1>8, Zenon DEF MergeEquation
<1>. HIDE DEF G
<1>10. f[0] = <<>>
  <2>1. 1 .. 0 = {} /\ {} \in SUBSET (1 .. n)
    OBVIOUS
  <2>2. G[{}] = <<>>
    BY <1>9, <2>1
  <2>. QED
    BY <1>1, <2>1, <2>2
<1>11. \A k \in 1 .. n : f[k] = MergeNext(f[k - 1], s[k])
  <2>. TAKE k \in 1 .. n
  <2>1. /\ 1 .. k \in SUBSET (1 .. n) /\ 1 .. k # {} /\ Max(1 .. k) = k
        /\ (1 .. k) \ {k} = 1 .. k - 1
    BY <1>1, Beginnings
  <2>2. G[1 .. k] = MergeNext(G[1 .. k - 1], s[k])
    BY <1>9, <2>1
  <2>. QED
    BY <1>1, <2>2
<1>12. Merged(s) = f[n]
  BY <1>1, MergedIsChosen DEF G
<1>. HIDE DEF f
<1>13. f \in [0 .. n -> D]
  <2>. DEFINE X == {k \in Nat : k <= n => f[k] \in D}
  <2>1. 0 \in X
    BY <1>1, <1>4, <1>10
  <2>2. ASSUME NEW k \in Nat, k \in X
        PROVE  k + 1 \in X
    <3>1. SUFFICES ASSUME k + 1 <= n PROVE f[k + 1] \in D
      OBVIOUS
    <3>2. k + 1 \in 1 .. n /\ (k + 1) - 1 = k /\ f[k] \in D
      BY <1>1, <2>2, <3>1
    <3>3. f[k + 1] = MergeNext(f[k], s[k + 1])
      BY <1>11, <3>2
    <3>. QED
      BY <1>1, <3>2, <3>3, MergeNextType DEF D
  <2>. HIDE DEF X
  <2>3. \A k \in Nat : k \in X
    BY <2>1, <2>2, NatSetInduction
  <2>4. \A k \in 0 .. n : f[k] \in D
    BY <2>3 DEF X
  <2>. QED
    BY <2>4 DEF f
<1>. QED
  BY <1>10, <1>11, <1>12, <1>13 DEF MergeSteps, n, D

\* The states of the two cursors of operator*.
Cursors == [p : Nat, q : Nat, out : Seq(AtomSet), failed : BOOLEAN]

CursorsStart == [p |-> 1, q |-> 1, out |-> <<>>, failed |-> FALSE]

CursorSteps(i, j, n, f) ==
  /\ f \in [0 .. n -> Cursors] /\ f[0] = CursorsStart /\ IntersectRun(i, j) = f[n]
  /\ \A k \in 1 .. n : f[k] = IntersectStep(i, j, f[k - 1])

\* The intersection of two atoms is an atom.
LEMMA IntersectIsAtom ==
  ASSUME NEW a \in AtomSet, NEW b \in AtomSet
  PROVE  Intersect(a, b) \in AtomSet
BY DEF Intersect, Atom, AtomSet

\* The cursors at positions p and q.
CursorsAt(p, q, out, failed) == [p |-> p, q |-> q, out |-> out, failed |-> failed]

\* Its fields are what it was given.
LEMMA CursorsAtType ==
  ASSUME NEW p \in Nat, NEW q \in Nat, NEW out \in Seq(AtomSet), NEW failed \in BOOLEAN
  PROVE  LET s == CursorsAt(p, q, out, failed)
         IN  s \in Cursors /\ s.p = p /\ s.q = q /\ s.out = out /\ s.failed = failed
BY DEF CursorsAt, Cursors

\* And changing one of them gives the cursors there.
LEMMA CursorsAtExcept ==
  ASSUME NEW p \in Nat, NEW q \in Nat, NEW out, NEW failed
  PROVE  LET s == CursorsAt(p, q, out, failed)
         IN  /\ [s EXCEPT !.p = @ + 1] = CursorsAt(p + 1, q, out, failed)
             /\ [s EXCEPT !.q = @ + 1] = CursorsAt(p, q + 1, out, failed)
             /\ \A w : [s EXCEPT !.failed = w] = CursorsAt(p, q, out, w)
             /\ \A o : [s EXCEPT !.out = o] = CursorsAt(p, q, o, failed)
<1>. DEFINE s == CursorsAt(p, q, out, failed)
<1>1. [s EXCEPT !.p = @ + 1] = CursorsAt(p + 1, q, out, failed)
  BY DEF CursorsAt
<1>2. [s EXCEPT !.q = @ + 1] = CursorsAt(p, q + 1, out, failed)
  BY DEF CursorsAt
<1>3. ASSUME NEW w
      PROVE  [s EXCEPT !.failed = w] = CursorsAt(p, q, out, w)
  BY DEF CursorsAt
<1>4. ASSUME NEW o
      PROVE  [s EXCEPT !.out = o] = CursorsAt(p, q, o, failed)
  BY DEF CursorsAt
<1>. QED
  BY <1>1, <1>2, <1>3, <1>4, Zenon

\* Neither cursor is at its end, nor was the last branch reached.
Walking(i, j, s) ==
  ~s.failed /\ s.p \in 1 .. Len(i) /\ s.q \in 1 .. Len(j)

\* The branches of the loop of operator*, each with the cursors it leaves.
LEMMA IntersectStepIs ==
  ASSUME NEW i \in Seq(AtomSet), NEW j \in Seq(AtomSet), NEW s \in Cursors,
         Walking(i, j, s)
  PROVE  LET a == i[s.p]
             b == j[s.q]
         IN  IntersectStep(i, j, s) =
               IF Overlaps(a, b)
               THEN IF a.ub >= b.ub
                    THEN CursorsAt(s.p, s.q + 1, Append(s.out, Intersect(a, b)), FALSE)
                    ELSE CursorsAt(s.p + 1, s.q, Append(s.out, Intersect(a, b)), FALSE)
               ELSE IF a.ub < b.lb THEN CursorsAt(s.p + 1, s.q, s.out, FALSE)
               ELSE IF b.ub < a.lb THEN CursorsAt(s.p, s.q + 1, s.out, FALSE)
               ELSE CursorsAt(s.p, s.q, s.out, TRUE)
<1>. DEFINE a == i[s.p]
            b == j[s.q]
            t == [s EXCEPT !.out = Append(s.out, Intersect(a, b))]
<1>1. IntersectStep(i, j, s) =
        IF Overlaps(a, b)
        THEN IF a.ub >= b.ub THEN [t EXCEPT !.q = @ + 1] ELSE [t EXCEPT !.p = @ + 1]
        ELSE IF a.ub < b.lb THEN [s EXCEPT !.p = @ + 1]
        ELSE IF b.ub < a.lb THEN [s EXCEPT !.q = @ + 1]
        ELSE [s EXCEPT !.failed = TRUE]
  <2>1. ~(s.failed \/ s.p > Len(i) \/ s.q > Len(j))
    BY DEF Walking
  <2>. QED
    BY <2>1, Zenon DEF IntersectStep
<1>. HIDE DEF a, b
<1>. PICK no : no = FALSE
  OBVIOUS
<1>6. PICK r : r = s.out
  OBVIOUS
<1>2. PICK p \in Nat, q \in Nat : s = CursorsAt(p, q, r, no) /\ p = s.p /\ q = s.q /\ r = s.out
  <2>1. s = CursorsAt(s.p, s.q, s.out, FALSE)
    BY DEF Cursors, CursorsAt, Walking
  <2>2. s.p \in Nat /\ s.q \in Nat
    BY DEF Cursors
  <2>. QED
    BY <1>6, <2>1, <2>2, Zenon
<1>. PICK o : o = Append(s.out, Intersect(a, b))
  OBVIOUS
<1>. DEFINE e == CursorsAt(p, q, r, no)
            d == CursorsAt(p, q, o, no)
<1>3. /\ [e EXCEPT !.p = @ + 1] = CursorsAt(p + 1, q, r, no)
      /\ [e EXCEPT !.q = @ + 1] = CursorsAt(p, q + 1, r, no)
      /\ \A w : [e EXCEPT !.failed = w] = CursorsAt(p, q, r, w)
      /\ \A w : [e EXCEPT !.out = w] = CursorsAt(p, q, w, no)
      /\ [d EXCEPT !.p = @ + 1] = CursorsAt(p + 1, q, o, no)
      /\ [d EXCEPT !.q = @ + 1] = CursorsAt(p, q + 1, o, no)
  BY CursorsAtExcept
<1>. HIDE DEF e, d
<1>4. /\ s = e /\ [s EXCEPT !.failed = TRUE] = CursorsAt(p, q, r, TRUE)
      /\ t = d
  <2>1. s = e
    BY <1>2 DEF e
  <2>2. [e EXCEPT !.failed = TRUE] = CursorsAt(p, q, r, TRUE)
    BY <1>3, Zenon
  <2>3. [e EXCEPT !.out = o] = d
    BY <1>3, Zenon DEF d
  <2>4. t = [e EXCEPT !.out = o]
    BY <2>1, Zenon DEF t
  <2>. QED
    BY <2>1, <2>2, <2>3, <2>4, Zenon
<1>. HIDE DEF t
<1>5. IntersectStep(i, j, s) =
        IF Overlaps(a, b)
        THEN IF a.ub >= b.ub THEN CursorsAt(p, q + 1, o, FALSE)
             ELSE CursorsAt(p + 1, q, o, FALSE)
        ELSE IF a.ub < b.lb THEN CursorsAt(p + 1, q, r, FALSE)
        ELSE IF b.ub < a.lb THEN CursorsAt(p, q + 1, r, FALSE)
        ELSE CursorsAt(p, q, r, TRUE)
  BY <1>1, <1>3, <1>4, Zenon
<1>. QED
  BY <1>2, <1>5, Zenon DEF a, b

\* A cursor at its end stops the loop.
LEMMA IntersectStepStops ==
  ASSUME NEW i, NEW j, NEW s \in Cursors, s.failed \/ s.p > Len(i) \/ s.q > Len(j)
  PROVE  IntersectStep(i, j, s) = s
BY DEF IntersectStep

\* One turn of the loop leaves cursors and a list of atoms.
LEMMA IntersectStepType ==
  ASSUME NEW i \in Seq(AtomSet), NEW j \in Seq(AtomSet), NEW s \in Cursors,
         s.p >= 1, s.q >= 1
  PROVE  /\ IntersectStep(i, j, s) \in Cursors
         /\ IntersectStep(i, j, s).p >= 1 /\ IntersectStep(i, j, s).q >= 1
<1>1. CASE s.failed \/ s.p > Len(i) \/ s.q > Len(j)
  BY <1>1, IntersectStepStops
<1>2. CASE ~(s.failed \/ s.p > Len(i) \/ s.q > Len(j))
  <2>. DEFINE a == i[s.p]
              b == j[s.q]
  <2>1. s.p \in Nat /\ s.q \in Nat /\ s.out \in Seq(AtomSet) /\ Walking(i, j, s)
    BY <1>2 DEF Cursors, Walking
  <2>2. a \in AtomSet /\ b \in AtomSet
    BY <2>1 DEF Walking
  <2>3. Append(s.out, Intersect(a, b)) \in Seq(AtomSet)
    BY <2>1, <2>2, IntersectIsAtom
  <2>. PICK o \in Seq(AtomSet) : o = Append(s.out, Intersect(a, b))
    BY <2>3
  <2>4. \E p \in {s.p, s.p + 1}, q \in {s.q, s.q + 1}, r \in {o, s.out}, w \in BOOLEAN :
          IntersectStep(i, j, s) = CursorsAt(p, q, r, w)
    BY <2>1, IntersectStepIs
  <2>. HIDE DEF a, b
  <2>5. PICK p \in {s.p, s.p + 1}, q \in {s.q, s.q + 1}, r \in {o, s.out}, w \in BOOLEAN :
          IntersectStep(i, j, s) = CursorsAt(p, q, r, w)
    BY <2>4
  <2>6. p \in Nat /\ q \in Nat /\ p >= 1 /\ q >= 1
    BY <2>1
  <2>7. r \in Seq(AtomSet)
    BY <2>1, Zenon
  <2>. QED
    BY <2>5, <2>6, <2>7, CursorsAtType
<1>. QED
  BY <1>1, <1>2

\* The equation by which the fold in IntersectRun chooses its function.
CursorEquation(F, i, j, P) ==
  F = [T \in SUBSET P |->
         IF T = {} THEN CursorsStart ELSE IntersectStep(i, j, F[T \ {Max(T)}])]

\* IntersectRun is that function at all positions.
LEMMA IntersectRunIsChosen ==
  ASSUME NEW i, NEW j
  PROVE  LET P == DOMAIN [x \in DOMAIN (i \o j) |-> x]
         IN  IntersectRun(i, j) = (CHOOSE F : CursorEquation(F, i, j, P))[P]
BY Zenon DEF IntersectRun, FoldLeftDomain, FoldLeft, MapThenFoldSet, CursorEquation, CursorsStart

\* So the loop of operator* goes through CursorSteps.
LEMMA IntersectBySteps ==
  ASSUME NEW i \in Seq(AtomSet), NEW j \in Seq(AtomSet)
  PROVE  \E f : CursorSteps(i, j, Len(i) + Len(j), f)
<1>. DEFINE n == Len(i) + Len(j)
            D == {s \in Cursors : s.p >= 1 /\ s.q >= 1}
            g == [x \in (1 .. n) \X D |-> IntersectStep(i, j, x[2])]
<1>1. n \in Nat /\ DOMAIN [x \in DOMAIN (i \o j) |-> x] = 1 .. n
  <2>1. i \o j \in Seq(AtomSet) /\ Len(i \o j) = n
    BY ConcatProperties
  <2>2. DOMAIN (i \o j) = 1 .. n
    BY <2>1, LenProperties
  <2>. QED
    BY <2>2
<1>. HIDE DEF n
<1>2. \A s \in D : IntersectStep(i, j, s) \in D
  BY IntersectStepType
<1>3. CursorsStart \in D
  BY DEF CursorsStart, Cursors
<1>. HIDE DEF D
<1>4. g \in [(1 .. n) \X D -> D] /\ \A k \in 1 .. n, s \in D : g[<<k, s>>] = IntersectStep(i, j, s)
  BY <1>2
<1>. HIDE DEF g
<1>5. PICK F : FoldsBy(F, n, D, CursorsStart, g)
  BY <1>1, <1>3, <1>4, FoldSteps
<1>6. \A T \in SUBSET (1 .. n) : T # {} =>
        Max(T) \in 1 .. n /\ T \ {Max(T)} \in SUBSET (1 .. n) /\ F[T \ {Max(T)}] \in D
  BY <1>1, <1>5, HasMax DEF FoldsBy
<1>7. F = [T \in SUBSET (1 .. n) |->
             IF T = {} THEN CursorsStart ELSE IntersectStep(i, j, F[T \ {Max(T)}])]
  BY <1>4, <1>5, <1>6 DEF FoldsBy
<1>8. \E G : CursorEquation(G, i, j, 1 .. n)
  BY <1>7 DEF CursorEquation
<1>. DEFINE G == CHOOSE H : CursorEquation(H, i, j, 1 .. n)
            f == [k \in 0 .. n |-> G[1 .. k]]
<1>9. G = [T \in SUBSET (1 .. n) |->
             IF T = {} THEN CursorsStart ELSE IntersectStep(i, j, G[T \ {Max(T)}])]
  BY <1>8, Zenon DEF CursorEquation
<1>10. IntersectRun(i, j) = G[1 .. n]
  BY <1>1, IntersectRunIsChosen, Zenon
<1>. HIDE DEF G
<1>11. f[0] = CursorsStart
  <2>1. 1 .. 0 = {} /\ {} \in SUBSET (1 .. n)
    OBVIOUS
  <2>2. G[{}] = CursorsStart
    BY <1>9, <2>1
  <2>. QED
    BY <1>1, <2>1, <2>2
<1>12. \A k \in 1 .. n : f[k] = IntersectStep(i, j, f[k - 1])
  <2>. TAKE k \in 1 .. n
  <2>1. /\ 1 .. k \in SUBSET (1 .. n) /\ 1 .. k # {} /\ Max(1 .. k) = k
        /\ (1 .. k) \ {k} = 1 .. k - 1
    BY <1>1, Beginnings
  <2>2. G[1 .. k] = IntersectStep(i, j, G[1 .. k - 1])
    BY <1>9, <2>1
  <2>. QED
    BY <1>1, <2>2
<1>13. IntersectRun(i, j) = f[n]
  BY <1>1, <1>10
<1>14. f = [k \in 0 .. n |-> f[k]]
  OBVIOUS
<1>. HIDE DEF f
<1>15. f \in [0 .. n -> Cursors]
  <2>. DEFINE X == {k \in Nat : k <= n => f[k] \in D}
  <2>1. 0 \in X
    BY <1>1, <1>3, <1>11
  <2>2. ASSUME NEW k \in Nat, k \in X
        PROVE  k + 1 \in X
    <3>1. SUFFICES ASSUME k + 1 <= n PROVE f[k + 1] \in D
      OBVIOUS
    <3>2. k + 1 \in 1 .. n /\ (k + 1) - 1 = k /\ f[k] \in D
      BY <1>1, <2>2, <3>1
    <3>3. f[k + 1] = IntersectStep(i, j, f[k])
      BY <1>12, <3>2
    <3>. QED
      BY <1>2, <3>2, <3>3
  <2>. HIDE DEF X
  <2>3. \A k \in Nat : k \in X
    BY <2>1, <2>2, NatSetInduction
  <2>4. \A k \in 0 .. n : f[k] \in D
    BY <2>3 DEF X
  <2>. QED
    BY <1>14, <2>4 DEF D
<1>. QED
  BY <1>11, <1>12, <1>13, <1>15 DEF CursorSteps, n

----------------------------------------------------------------------------
(* Merging closed atoms in order. *)

\* A closed atom has finite ends in order, both of them in it.
LEMMA ClosedAtomIs ==
  ASSUME NEW a \in ClosedAtoms
  PROVE  /\ a \in AtomSet /\ ~a.lo /\ ~a.uo /\ a.lb \in Nat /\ a.ub \in Nat
         /\ 0 < a.lb /\ a.lb <= a.ub /\ a.ub < POSINF
BY PosInfAssumption DEF ClosedAtoms, SolidAtoms, AtomSet, EmptyAtom, Timestamps, NEGINF

\* Two finite times in order are the ends of a closed atom.
LEMMA ClosedIsAtom ==
  ASSUME NEW l \in Nat, NEW u \in Nat, 0 < l, l <= u, u < POSINF
  PROVE  LET a == Closed(l, u)
         IN  a \in ClosedAtoms /\ a.lb = l /\ a.ub = u
<1>1. /\ Closed(l, u).lb = l /\ Closed(l, u).ub = u
      /\ Closed(l, u).lo = FALSE /\ Closed(l, u).uo = FALSE
  BY DEF Closed, Atom
<1>2. l \in Timestamps /\ u \in Timestamps
  BY PosInfAssumption DEF Timestamps, NEGINF
<1>3. Closed(l, u) \in AtomSet
  BY <1>2 DEF Closed, Atom, AtomSet
<1>4. ~EmptyAtom(Closed(l, u))
  BY <1>1 DEF EmptyAtom
<1>. QED
  BY <1>1, <1>3, <1>4 DEF ClosedAtoms, SolidAtoms, NEGINF

\* The instants of a closed atom are those from its first to its last.
LEMMA InClosedAtom ==
  ASSUME NEW a \in ClosedAtoms, NEW p \in Grid
  PROVE  InAtom(p, a) <=> 2 * a.lb <= p /\ p <= 2 * a.ub
<1>1. ~a.lo /\ ~a.uo /\ a.lb \in Nat /\ a.ub \in Nat /\ p \in Nat
  BY ClosedAtomIs, PosInfAssumption DEF Grid
<1>. QED
  BY <1>1 DEF InAtom

\* Two closed atoms in order overlap unless the first ends before the second.
LEMMA OverlapsClosed ==
  ASSUME NEW a \in ClosedAtoms, NEW b \in ClosedAtoms
  PROVE  Overlaps(a, b) <=> a.ub >= b.lb /\ a.lb <= b.ub
BY ClosedAtomIs DEF Overlaps

\* Extending a closed atom by one that begins no earlier keeps its beginning.
LEMMA ExtendClosed ==
  ASSUME NEW a \in ClosedAtoms, NEW b \in ClosedAtoms
  PROVE  LET e == Extend(a, b)
         IN  /\ e \in AtomSet /\ ~e.lo /\ ~e.uo /\ e.lb = a.lb
             /\ e.ub = IF a.ub > b.ub THEN a.ub ELSE b.ub
BY ClosedAtomIs DEF Extend, AtomSet

\* If they overlap it is a closed atom that holds what either holds.
LEMMA ExtendIsClosed ==
  ASSUME NEW a \in ClosedAtoms, NEW b \in ClosedAtoms, a.lb <= b.lb, b.lb <= a.ub
  PROVE  /\ Extend(a, b) \in ClosedAtoms /\ Extend(a, b).lb = a.lb
         /\ \A p \in Grid : InAtom(p, Extend(a, b)) <=> InAtom(p, a) \/ InAtom(p, b)
<1>. PICK e : e = Extend(a, b)
  OBVIOUS
<1>1. /\ e \in AtomSet /\ ~e.lo /\ ~e.uo /\ e.lb = a.lb
      /\ e.ub = IF a.ub > b.ub THEN a.ub ELSE b.ub
  BY ExtendClosed
<1>2. /\ a.lb \in Nat /\ a.ub \in Nat /\ 0 < a.lb /\ a.lb <= a.ub /\ a.ub < POSINF
      /\ b.lb \in Nat /\ b.ub \in Nat /\ 0 < b.lb /\ b.lb <= b.ub /\ b.ub < POSINF
  BY ClosedAtomIs
<1>3. e \in ClosedAtoms
  BY <1>1, <1>2, PosInfAssumption DEF ClosedAtoms, SolidAtoms, EmptyAtom, NEGINF
<1>4. ASSUME NEW p \in Grid
      PROVE  InAtom(p, e) <=> InAtom(p, a) \/ InAtom(p, b)
  <2>1. p \in Nat
    BY PosInfAssumption DEF Grid
  <2>2. /\ InAtom(p, e) <=> 2 * e.lb <= p /\ p <= 2 * e.ub
        /\ InAtom(p, a) <=> 2 * a.lb <= p /\ p <= 2 * a.ub
        /\ InAtom(p, b) <=> 2 * b.lb <= p /\ p <= 2 * b.ub
    BY <1>3, InClosedAtom
  <2>. QED
    BY <1>1, <1>2, <2>1, <2>2
<1>. QED
  BY <1>1, <1>3, <1>4

\* Some atom of the list holds the instant.
Holds(p, s) == \E k \in 1 .. Len(s) : InAtom(p, s[k])

\* Atom by atom with instants between.
Apart(s) == \A k, l \in 1 .. Len(s) : k < l => s[k].ub < s[l].lb

\* Closed atoms by their first instants, as cover() sorts them.
InOrder(s) ==
  s \in Seq(ClosedAtoms) /\ \A k, l \in 1 .. Len(s) : k <= l => s[k].lb <= s[l].lb

\* Points is the set of the instants that some atom holds.
LEMMA PointsAreHeld ==
  ASSUME NEW S, NEW s \in Seq(S)
  PROVE  Points(s) = {p \in Grid : Holds(p, s)}
<1>1. DOMAIN s = 1 .. Len(s)
  OBVIOUS
<1>. QED
  BY <1>1 DEF Points, Holds

\* What a list holds with one atom more.
LEMMA AppendedLast ==
  ASSUME NEW S, NEW m \in Seq(S), NEW a \in S, NEW n \in Nat, Len(m) = n
  PROVE  LET w == Append(m, a)
         IN  /\ w \in Seq(S) /\ Len(w) = n + 1 /\ w[n + 1] = a
             /\ \A k \in 1 .. n : w[k] = m[k]
BY AppendProperties

\* What a list holds with another last atom.
LEMMA ReplacedLast ==
  ASSUME NEW S, NEW m \in Seq(S), NEW a \in S, NEW n \in Nat, n > 0, Len(m) = n
  PROVE  LET w == Append(Front(m), a)
         IN  /\ w \in Seq(S) /\ Len(w) = n /\ w[n] = a
             /\ \A k \in 1 .. n - 1 : w[k] = m[k]
<1>. DEFINE f == SubSeq(m, 1, n - 1)
<1>1. 1 \in Int /\ n - 1 \in Int /\ \A k \in 1 .. n - 1 : m[k] \in S
  OBVIOUS
<1>2. /\ f \in Seq(S) /\ Len(f) = IF 1 <= n - 1 THEN (n - 1) - 1 + 1 ELSE 0
      /\ \A k \in 1 .. (n - 1) - 1 + 1 : f[k] = m[1 + k - 1]
  BY <1>1, SubSeqProperties
<1>. HIDE DEF f
<1>3. Len(f) = n - 1 /\ (n - 1) - 1 + 1 = n - 1
  BY <1>2
<1>4. \A k \in 1 .. n - 1 : f[k] = m[k]
  <2>. TAKE k \in 1 .. n - 1
  <2>1. 1 + k - 1 = k
    OBVIOUS
  <2>. QED
    BY <1>2, <1>3, <2>1
<1>5. /\ Append(f, a) \in Seq(S) /\ Len(Append(f, a)) = (n - 1) + 1
      /\ Append(f, a)[(n - 1) + 1] = a
      /\ \A k \in 1 .. n - 1 : Append(f, a)[k] = f[k]
  <2>1. n - 1 \in Nat
    OBVIOUS
  <2>. QED
    BY <1>2, <1>3, <2>1, AppendedLast
<1>6. (n - 1) + 1 = n /\ Front(m) = f
  BY DEF Front, f
<1>. QED
  BY <1>4, <1>5, <1>6

\* The atoms merged so far and the next one.
LEMMA MergeInOrder ==
  ASSUME NEW m \in Seq(ClosedAtoms), Apart(m), NEW a \in ClosedAtoms,
         m # <<>> => m[Len(m)].lb <= a.lb
  PROVE  LET w == MergeNext(m, a)
         IN  /\ w \in Seq(ClosedAtoms) /\ Apart(w) /\ w # <<>> /\ w[Len(w)].lb <= a.lb
             /\ \A p \in Grid : Holds(p, w) <=> Holds(p, m) \/ InAtom(p, a)
<1>. PICK n \in Nat : n = Len(m)
  OBVIOUS
<1>. PICK w : w = MergeNext(m, a)
  OBVIOUS
<1>0. ~EmptyAtom(a) /\ (m = <<>> <=> n = 0) /\ \A k \in 1 .. n : m[k] \in ClosedAtoms
  <2>1. ~EmptyAtom(a)
    BY DEF ClosedAtoms, SolidAtoms
  <2>. QED
    BY <2>1
<1>a. \A k, l \in 1 .. n : k < l => m[k].ub < m[l].lb
  BY DEF Apart
<1>1. CASE n > 0 /\ Overlaps(m[n], a)
  <2>. PICK e : e = Extend(m[n], a)
    OBVIOUS
  <2>1. n \in 1 .. n /\ m[n] \in ClosedAtoms /\ m[n].lb <= a.lb /\ a.lb <= m[n].ub
    <3>1. n \in 1 .. n /\ m[n] \in ClosedAtoms /\ m[n].lb <= a.lb
      BY <1>0, <1>1
    <3>2. a.lb \in Nat /\ m[n].ub \in Nat /\ m[n].ub >= a.lb
      BY <1>1, <3>1, OverlapsClosed, ClosedAtomIs
    <3>. QED
      BY <3>1, <3>2
  <2>2. /\ e \in ClosedAtoms /\ e.lb = m[n].lb
        /\ \A p \in Grid : InAtom(p, e) <=> InAtom(p, m[n]) \/ InAtom(p, a)
    BY <2>1, ExtendIsClosed
  <2>3. w = Append(Front(m), e)
    BY <1>0, <1>1 DEF MergeNext, Last
  <2>4. /\ w \in Seq(ClosedAtoms) /\ Len(w) = n /\ w[n] = e
        /\ \A k \in 1 .. n - 1 : w[k] = m[k]
    BY <1>1, <2>2, <2>3, ReplacedLast
  <2>5. Apart(w)
    <3>. SUFFICES ASSUME NEW k \in 1 .. n, NEW l \in 1 .. n, k < l
                  PROVE  w[k].ub < w[l].lb
      BY <2>4 DEF Apart
    <3>1. k \in 1 .. n - 1 /\ (l \in 1 .. n - 1 \/ l = n)
      OBVIOUS
    <3>. QED
      BY <1>a, <2>2, <2>4, <3>1
  <2>6. ASSUME NEW p \in Grid
        PROVE  Holds(p, w) <=> Holds(p, m) \/ InAtom(p, a)
    <3>1. \A k \in 1 .. n : k \in 1 .. n - 1 \/ k = n
      OBVIOUS
    <3>2. \A k \in 1 .. n - 1 : k \in 1 .. n
      OBVIOUS
    <3>3. Holds(p, w) <=> (\E k \in 1 .. n - 1 : InAtom(p, m[k])) \/ InAtom(p, e)
      BY <2>1, <2>4, <3>1, <3>2 DEF Holds
    <3>4. Holds(p, m) <=> (\E k \in 1 .. n - 1 : InAtom(p, m[k])) \/ InAtom(p, m[n])
      BY <2>1, <3>1, <3>2 DEF Holds
    <3>. QED
      BY <2>2, <3>3, <3>4
  <2>7. w # <<>> /\ w[Len(w)].lb <= a.lb
    BY <1>1, <2>1, <2>2, <2>4
  <2>. QED
    BY <2>4, <2>5, <2>6, <2>7
<1>2. CASE ~(n > 0 /\ Overlaps(m[n], a))
  <2>1. w = Append(m, a)
    BY <1>0, <1>2 DEF MergeNext, Last
  <2>2. /\ w \in Seq(ClosedAtoms) /\ Len(w) = n + 1 /\ w[n + 1] = a
        /\ \A k \in 1 .. n : w[k] = m[k]
    BY <2>1, AppendedLast
  <2>3. \A k \in 1 .. n : m[k].ub < a.lb
    <3>. SUFFICES ASSUME NEW k \in 1 .. n
                  PROVE  m[k].ub < a.lb
      OBVIOUS
    <3>1. n > 0 /\ n \in 1 .. n /\ m[n] \in ClosedAtoms /\ m[n].lb <= a.lb
      BY <1>0
    <3>2. /\ a.lb \in Nat /\ a.ub \in Nat /\ m[n].lb \in Nat /\ m[n].ub \in Nat
          /\ m[n].lb <= m[n].ub /\ a.lb <= a.ub
      BY <3>1, ClosedAtomIs
    <3>3. m[n].ub < a.lb
      <4>1. m[n].lb <= a.ub
        BY <3>1, <3>2
      <4>2. ~(m[n].ub >= a.lb)
        BY <1>2, <3>1, <4>1, OverlapsClosed
      <4>. QED
        BY <3>2, <4>2
    <3>4. CASE k = n
      BY <3>3, <3>4
    <3>5. CASE k # n
      <4>1. k < n
        BY <3>5
      <4>2. m[k].ub < m[n].lb /\ m[k].ub \in Nat
        BY <1>0, <1>a, <3>1, <4>1, ClosedAtomIs
      <4>. QED
        BY <3>1, <3>2, <4>2
    <3>. QED
      BY <3>4, <3>5
  <2>4. Apart(w)
    <3>. SUFFICES ASSUME NEW k \in 1 .. n + 1, NEW l \in 1 .. n + 1, k < l
                  PROVE  w[k].ub < w[l].lb
      BY <2>2 DEF Apart
    <3>1. k \in 1 .. n /\ (l \in 1 .. n \/ l = n + 1)
      OBVIOUS
    <3>. QED
      BY <1>a, <2>2, <2>3, <3>1
  <2>5. ASSUME NEW p \in Grid
        PROVE  Holds(p, w) <=> Holds(p, m) \/ InAtom(p, a)
    <3>1. \A k \in 1 .. n + 1 : k \in 1 .. n \/ k = n + 1
      OBVIOUS
    <3>2. n + 1 \in 1 .. n + 1 /\ \A k \in 1 .. n : k \in 1 .. n + 1
      OBVIOUS
    <3>. QED
      BY <2>2, <3>1, <3>2 DEF Holds
  <2>6. w # <<>> /\ w[Len(w)].lb <= a.lb
    <3>1. a.lb \in Nat
      BY ClosedAtomIs
    <3>. QED
      BY <2>2, <3>1
  <2>. QED
    BY <2>2, <2>4, <2>5, <2>6
<1>. QED
  BY <1>1, <1>2

\* What the constructor makes: nothing, or closed atoms apart.
NormalForm(i) == i = <<Nil>> \/ (i \in Seq(ClosedAtoms) /\ i # <<>> /\ Apart(i))

\* Nil holds nothing, and is told from every closed atom.
LEMMA NilIsEmpty ==
  /\ <<Nil>> \in Seq(AtomSet) /\ Len(<<Nil>>) = 1 /\ <<Nil>>[1] = Nil
  /\ Nil \in AtomSet /\ ~Nil.lo /\ ~Nil.uo /\ Nil.lb = POSINF /\ Nil.ub = 0
  /\ \A p \in Grid : ~InAtom(p, Nil) /\ ~Holds(p, <<Nil>>)
<1>1. Nil \in AtomSet /\ ~Nil.lo /\ ~Nil.uo /\ Nil.lb = POSINF /\ Nil.ub = 0
  BY PosInfAssumption DEF Nil, Closed, Atom, AtomSet, Timestamps, NEGINF
<1>2. \A p \in Grid : ~InAtom(p, Nil)
  BY <1>1, PosInfAssumption DEF InAtom, Grid
<1>3. <<Nil>> \in Seq(AtomSet) /\ Len(<<Nil>>) = 1 /\ <<Nil>>[1] = Nil
  BY <1>1
<1>4. \A p \in Grid : ~Holds(p, <<Nil>>)
  BY <1>2, <1>3 DEF Holds
<1>. QED
  BY <1>1, <1>2, <1>3, <1>4

\* A list of closed atoms is a list of atoms.
LEMMA ClosedAreAtoms ==
  ASSUME NEW s \in Seq(ClosedAtoms)
  PROVE  s \in Seq(AtomSet)
<1>1. ClosedAtoms \subseteq AtomSet
  BY DEF ClosedAtoms, SolidAtoms
<1>. QED
  BY <1>1, SeqMonotonic

\* The constructor makes the union of a sorted list, in normal form.
LEMMA MergedInOrder ==
  ASSUME NEW s, InOrder(s)
  PROVE  /\ NormalForm(MkInterval(s))
         /\ \A p \in Grid : Holds(p, MkInterval(s)) <=> Holds(p, s)
<1>1. s \in Seq(ClosedAtoms) /\ s \in Seq(AtomSet)
  BY ClosedAreAtoms DEF InOrder
<1>. PICK n \in Nat : n = Len(s)
  BY <1>1
<1>2. PICK f : MergeSteps(s, f)
  BY <1>1, MergedBySteps
<1>3. /\ f[0] = <<>> /\ Merged(s) = f[n] /\ \A k \in 1 .. n : f[k] = MergeNext(f[k - 1], s[k])
  BY <1>2 DEF MergeSteps
<1>4. (\A k \in 1 .. n : s[k] \in ClosedAtoms) /\ \A k, l \in 1 .. n : k <= l => s[k].lb <= s[l].lb
  BY <1>1 DEF InOrder
<1>. DEFINE Good(k) ==
              /\ f[k] \in Seq(ClosedAtoms) /\ Apart(f[k])
              /\ f[k] # <<>> => k > 0 /\ f[k][Len(f[k])].lb <= s[k].lb
              /\ \A p \in Grid : Holds(p, f[k]) <=> \E l \in 1 .. k : InAtom(p, s[l])
            X == {k \in Nat : k <= n => Good(k)}
<1>5. 0 \in X
  <2>1. <<>> \in Seq(ClosedAtoms) /\ Len(<<>>) = 0 /\ 1 .. 0 = {}
    OBVIOUS
  <2>2. Apart(<<>>) /\ \A p \in Grid : ~Holds(p, <<>>)
    BY <2>1 DEF Apart, Holds
  <2>3. Good(0)
    BY <1>3, <2>1, <2>2
  <2>. HIDE DEF Good
  <2>. QED
    BY <2>3
<1>6. ASSUME NEW k \in Nat, k \in X
      PROVE  k + 1 \in X
  <2>1. SUFFICES ASSUME k + 1 <= n PROVE Good(k + 1)
    BY SMT
  <2>2. k + 1 \in 1 .. n /\ (k + 1) - 1 = k /\ k <= n
    BY <2>1
  <2>3. Good(k)
    BY <1>6, <2>2
  <2>4. s[k + 1] \in ClosedAtoms /\ f[k + 1] = MergeNext(f[k], s[k + 1])
    BY <1>3, <1>4, <2>2
  <2>5. f[k] # <<>> => f[k][Len(f[k])].lb <= s[k + 1].lb
    <3>. SUFFICES ASSUME f[k] # <<>> PROVE f[k][Len(f[k])].lb <= s[k + 1].lb
      OBVIOUS
    <3>1. k \in 1 .. n /\ s[k].lb <= s[k + 1].lb /\ s[k] \in ClosedAtoms
      BY <1>4, <2>2, <2>3
    <3>2. s[k].lb \in Nat /\ s[k + 1].lb \in Nat
      BY <2>4, <3>1, ClosedAtomIs
    <3>3. f[k][Len(f[k])] \in ClosedAtoms
      BY <2>3
    <3>4. f[k][Len(f[k])].lb \in Nat
      BY <3>3, ClosedAtomIs
    <3>. QED
      BY <2>3, <3>1, <3>2, <3>4
  <2>6. /\ f[k + 1] \in Seq(ClosedAtoms) /\ Apart(f[k + 1]) /\ f[k + 1] # <<>>
        /\ f[k + 1][Len(f[k + 1])].lb <= s[k + 1].lb
        /\ \A p \in Grid : Holds(p, f[k + 1]) <=> Holds(p, f[k]) \/ InAtom(p, s[k + 1])
    BY <2>3, <2>4, <2>5, MergeInOrder
  <2>7. ASSUME NEW p \in Grid
        PROVE  Holds(p, f[k + 1]) <=> \E l \in 1 .. k + 1 : InAtom(p, s[l])
    <3>1. (\A l \in 1 .. k + 1 : l \in 1 .. k \/ l = k + 1) /\ k + 1 \in 1 .. k + 1
          /\ \A l \in 1 .. k : l \in 1 .. k + 1
      OBVIOUS
    <3>. QED
      BY <2>3, <2>6, <3>1
  <2>. QED
    BY <2>6, <2>7
<1>7. \A k \in Nat : k \in X
  <2>. HIDE DEF X
  <2>. QED
    BY <1>5, <1>6, NatSetInduction
<1>8. Good(n)
  BY <1>7
<1>9. \A p \in Grid : Holds(p, f[n]) <=> Holds(p, s)
  BY <1>8 DEF Holds
<1>10. CASE f[n] = <<>>
  <2>1. Len(<<>>) = 0 /\ 1 .. 0 = {}
    OBVIOUS
  <2>2. \A p \in Grid : ~Holds(p, <<>>)
    BY <2>1 DEF Holds
  <2>3. MkInterval(s) = <<Nil>>
    BY <1>3, <1>10 DEF MkInterval
  <2>. QED
    BY <1>9, <1>10, <2>2, <2>3, NilIsEmpty DEF NormalForm
<1>11. CASE f[n] # <<>>
  <2>1. MkInterval(s) = f[n]
    BY <1>3, <1>11 DEF MkInterval
  <2>. QED
    BY <1>8, <1>9, <1>11, <2>1 DEF NormalForm
<1>. QED
  BY <1>10, <1>11

\* What the normal form says of each atom and each pair.
LEMMA NormalFormIs ==
  ASSUME NEW i, NormalForm(i)
  PROVE  /\ i \in Seq(AtomSet) /\ Len(i) \in Nat \ {0}
         /\ \A k \in 1 .. Len(i) : i[k] \in ClosedAtoms \/ i[k] = Nil
         /\ \A k, l \in 1 .. Len(i) : k < l =>
              i[k] \in ClosedAtoms /\ i[l] \in ClosedAtoms /\ i[k].ub < i[l].lb
<1>1. CASE i = <<Nil>>
  <2>1. i \in Seq(AtomSet) /\ Len(i) = 1 /\ i[1] = Nil
    BY <1>1, NilIsEmpty
  <2>2. \A k \in 1 .. 1 : k = 1
    OBVIOUS
  <2>3. ~(1 < 1) /\ 1 \in Nat \ {0}
    OBVIOUS
  <2>. QED
    BY <2>1, <2>2, <2>3, Zenon
<1>2. CASE i \in Seq(ClosedAtoms) /\ i # <<>> /\ Apart(i)
  <2>1. i \in Seq(AtomSet)
    BY <1>2, ClosedAreAtoms
  <2>. QED
    BY <1>2, <2>1 DEF Apart
<1>. QED
  BY <1>1, <1>2 DEF NormalForm

----------------------------------------------------------------------------
(* The complement. *)

\* The gap before the k-th atom, or after the last.
GapAt(i, k) ==
  LET n == Len(i)
  IN  Atom(IF k = 1 THEN TRUE ELSE ~i[k - 1].uo,
           IF k = 1 THEN NEGINF ELSE i[k - 1].ub,
           IF k > n THEN POSINF ELSE i[k].lb,
           IF k > n THEN TRUE ELSE ~i[k].lo)

\* The list of all gaps, which complement() hands to the constructor.
Gaps(i) == [k \in 1 .. Len(i) + 1 |-> GapAt(i, k)]

\* complement() is the constructor's result on the gaps.
LEMMA ComplementIs ==
  ASSUME NEW i
  PROVE  Complement(i) = MkInterval(Gaps(i))
BY Zenon DEF Complement, Gaps, GapAt

\* The ends of the gap before the k-th atom.
GapFrom(i, k) == IF k = 1 THEN 0 ELSE i[k - 1].ub
GapTo(i, k) == IF k = Len(i) + 1 THEN POSINF ELSE i[k].lb

\* A gap is open at both ends and not empty.
LEMMA GapIs ==
  ASSUME NEW i \in Seq(ClosedAtoms), Apart(i), NEW k \in 1 .. Len(i) + 1
  PROVE  LET g == GapAt(i, k)
         IN  /\ g \in AtomSet /\ g.lo /\ g.uo
             /\ g.lb = GapFrom(i, k) /\ g.ub = GapTo(i, k)
             /\ g.lb \in Nat /\ g.ub \in Nat /\ g.lb < g.ub
<1>. PICK n \in Nat : n = Len(i)
  OBVIOUS
<1>1. \A l \in 1 .. n : /\ i[l].lb \in Nat /\ i[l].ub \in Nat /\ i[l].lo = FALSE /\ i[l].uo = FALSE
                        /\ 0 < i[l].lb /\ i[l].lb <= i[l].ub /\ i[l].ub < POSINF
  <2>. TAKE l \in 1 .. n
  <2>1. i[l] \in ClosedAtoms
    OBVIOUS
  <2>. QED
    BY <2>1, ClosedAtomIs
<1>2. /\ k = 1 \/ k - 1 \in 1 .. n
      /\ k = n + 1 \/ k \in 1 .. n
      /\ k > n <=> k = n + 1
  OBVIOUS
<1>3. GapAt(i, k) = Atom(TRUE, GapFrom(i, k), GapTo(i, k), TRUE)
  BY <1>1, <1>2, Zenon DEF GapAt, GapFrom, GapTo, NEGINF
<1>4. /\ GapFrom(i, k) \in Nat /\ GapTo(i, k) \in Nat /\ GapTo(i, k) <= POSINF
      /\ GapFrom(i, k) < GapTo(i, k)
  <2>1. CASE k = 1 /\ k = n + 1
    BY <2>1, PosInfAssumption DEF GapFrom, GapTo
  <2>2. CASE k = 1 /\ k \in 1 .. n
    BY <1>1, <2>2, PosInfAssumption DEF GapFrom, GapTo
  <2>3. CASE k - 1 \in 1 .. n /\ k = n + 1
    BY <1>1, <2>3, PosInfAssumption DEF GapFrom, GapTo
  <2>4. CASE k - 1 \in 1 .. n /\ k \in 1 .. n
    <3>1. i[k - 1].ub < i[k].lb
      BY <2>4 DEF Apart
    <3>. QED
      BY <1>1, <2>4, <3>1, PosInfAssumption DEF GapFrom, GapTo
  <2>. QED
    BY <1>2, <2>1, <2>2, <2>3, <2>4
<1>. HIDE DEF GapFrom, GapTo
<1>5. GapFrom(i, k) \in Timestamps /\ GapTo(i, k) \in Timestamps
  BY <1>4, PosInfAssumption DEF Timestamps, NEGINF
<1>. QED
  BY <1>3, <1>4, <1>5 DEF Atom, AtomSet

\* The gaps are the constructor's result as they are: none is empty and no two
\* overlap.
LEMMA GapsStayApart ==
  ASSUME NEW i \in Seq(ClosedAtoms), Apart(i)
  PROVE  Gaps(i) \in Seq(AtomSet) /\ Merged(Gaps(i)) = Gaps(i)
<1>. PICK n \in Nat : n = Len(i)
  OBVIOUS
<1>. DEFINE G == Gaps(i)
<1>1. \A k \in 1 .. n + 1 : GapAt(i, k) \in AtomSet
  BY GapIs
<1>2. /\ G \in Seq(AtomSet) /\ Len(G) = n + 1
      /\ \A k \in 1 .. n + 1 : G[k] = GapAt(i, k)
  BY <1>1 DEF Gaps
<1>. HIDE DEF G
<1>3. PICK f : MergeSteps(G, f)
  BY <1>2, MergedBySteps
<1>4. /\ f[0] = <<>> /\ Merged(G) = f[n + 1]
      /\ \A k \in 1 .. n + 1 : f[k] = MergeNext(f[k - 1], G[k])
  BY <1>2, <1>3 DEF MergeSteps
<1>. DEFINE Good(k) == f[k] \in Seq(AtomSet) /\ Len(f[k]) = k /\ \A l \in 1 .. k : f[k][l] = G[l]
            X == {k \in Nat : k <= n + 1 => Good(k)}
<1>5. 0 \in X
  <2>1. <<>> \in Seq(AtomSet) /\ Len(<<>>) = 0 /\ 1 .. 0 = {}
    OBVIOUS
  <2>2. Good(0)
    BY <1>4, <2>1
  <2>. HIDE DEF Good
  <2>. QED
    BY <2>2
<1>6. ASSUME NEW k \in Nat, k \in X
      PROVE  k + 1 \in X
  <2>1. SUFFICES ASSUME k + 1 <= n + 1 PROVE Good(k + 1)
    BY SMT
  <2>2. k + 1 \in 1 .. n + 1 /\ (k + 1) - 1 = k /\ k <= n + 1
    BY <2>1
  <2>3. Good(k)
    BY <1>6, <2>2
  <2>4. f[k + 1] = MergeNext(f[k], G[k + 1])
    BY <1>4, <2>2
  <2>. PICK a : a = G[k + 1]
    OBVIOUS
  <2>5. /\ a \in AtomSet /\ a.lo /\ a.uo /\ a.lb = GapFrom(i, k + 1)
        /\ a.lb \in Nat /\ a.ub \in Nat /\ a.lb < a.ub
    BY <1>2, <2>2, GapIs
  <2>6. ~EmptyAtom(a)
    BY <2>5 DEF EmptyAtom
  <2>7. f[k] # <<>> => ~Overlaps(f[k][Len(f[k])], a)
    <3>. SUFFICES ASSUME f[k] # <<>> PROVE ~Overlaps(f[k][Len(f[k])], a)
      OBVIOUS
    <3>1. k \in 1 .. n /\ k \in 1 .. n + 1 /\ k \in 1 .. k /\ k # n + 1 /\ k + 1 # 1
      BY <2>2, <2>3
    <3>. PICK b : b = f[k][Len(f[k])]
      OBVIOUS
    <3>2. b = GapAt(i, k)
      BY <1>2, <2>3, <3>1
    <3>3. b.lo /\ b.uo /\ b.ub = GapTo(i, k) /\ b.ub \in Nat /\ b.lb \in Nat /\ b.lb < b.ub
      BY <3>1, <3>2, GapIs
    <3>4. b.ub = i[k].lb /\ a.lb = i[k].ub
      BY <2>2, <2>5, <3>1, <3>3 DEF GapFrom, GapTo
    <3>5. i[k] \in ClosedAtoms
      BY <3>1
    <3>6. b.ub <= a.lb
      BY <3>4, <3>5, ClosedAtomIs
    <3>. QED
      BY <2>5, <3>3, <3>6 DEF Overlaps
  <2>8. f[k + 1] = Append(f[k], a)
    BY <2>4, <2>6, <2>7 DEF MergeNext, Last
  <2>9. /\ f[k + 1] \in Seq(AtomSet) /\ Len(f[k + 1]) = k + 1 /\ f[k + 1][k + 1] = a
        /\ \A l \in 1 .. k : f[k + 1][l] = f[k][l]
    BY <2>3, <2>5, <2>8, AppendedLast
  <2>10. ASSUME NEW l \in 1 .. k + 1
         PROVE  f[k + 1][l] = G[l]
    <3>1. l \in 1 .. k \/ l = k + 1
      OBVIOUS
    <3>. QED
      BY <2>3, <2>9, <3>1
  <2>. QED
    BY <2>9, <2>10
<1>7. \A k \in Nat : k \in X
  <2>. HIDE DEF X
  <2>. QED
    BY <1>5, <1>6, NatSetInduction
<1>8. n + 1 \in Nat /\ Good(n + 1)
  BY <1>7
<1>9. f[n + 1] = G
  BY <1>2, <1>8, SeqEqual
<1>. QED
  BY <1>2, <1>4, <1>9 DEF G

\* An instant is in one of the gaps exactly if it is in none of the atoms.
LEMMA GapsAreTheRest ==
  ASSUME NEW i \in Seq(ClosedAtoms), Apart(i), NEW p \in Grid
  PROVE  (\E k \in 1 .. Len(i) + 1 : InAtom(p, GapAt(i, k))) <=> ~Holds(p, i)
<1>. PICK n \in Nat : n = Len(i)
  OBVIOUS
<1>0. p \in Nat /\ 0 < p /\ p < 2 * POSINF /\ POSINF \in Nat
  BY PosInfAssumption DEF Grid
<1>1. \A l \in 1 .. n : /\ i[l].lb \in Nat /\ i[l].ub \in Nat /\ i[l].lb <= i[l].ub
                        /\ InAtom(p, i[l]) <=> 2 * i[l].lb <= p /\ p <= 2 * i[l].ub
  <2>. TAKE l \in 1 .. n
  <2>1. i[l] \in ClosedAtoms
    OBVIOUS
  <2>. QED
    BY <2>1, ClosedAtomIs, InClosedAtom
<1>2. \A k, l \in 1 .. n : k < l => i[k].ub < i[l].lb
  BY DEF Apart
<1>3. ASSUME NEW k \in 1 .. n + 1
      PROVE  InAtom(p, GapAt(i, k)) <=> 2 * GapFrom(i, k) < p /\ p < 2 * GapTo(i, k)
  <2>1. /\ GapAt(i, k).lo /\ GapAt(i, k).uo
        /\ GapAt(i, k).lb = GapFrom(i, k) /\ GapAt(i, k).ub = GapTo(i, k)
        /\ GapAt(i, k).lb \in Nat /\ GapAt(i, k).ub \in Nat
    BY GapIs
  <2>. QED
    BY <1>0, <2>1 DEF InAtom
<1>4. ASSUME NEW k \in 1 .. n + 1, InAtom(p, GapAt(i, k)), NEW l \in 1 .. n, InAtom(p, i[l])
      PROVE  FALSE
  <2>1. /\ 2 * GapFrom(i, k) < p /\ p < 2 * GapTo(i, k)
        /\ 2 * i[l].lb <= p /\ p <= 2 * i[l].ub
    BY <1>1, <1>3, <1>4
  <2>2. CASE l < k
    <3>1. k - 1 \in 1 .. n /\ k # 1 /\ (l = k - 1 \/ l < k - 1)
      BY <2>2
    <3>2. GapFrom(i, k) = i[k - 1].ub
      BY <3>1 DEF GapFrom
    <3>3. i[l].ub <= i[k - 1].ub
      <4>1. CASE l = k - 1
        BY <1>1, <3>1, <4>1
      <4>2. CASE l < k - 1
        <5>. PICK m \in 1 .. n : m = k - 1
          BY <3>1
        <5>1. i[l].ub < i[m].lb
          BY <1>2, <4>2
        <5>2. i[m].lb \in Nat /\ i[m].ub \in Nat /\ i[m].lb <= i[m].ub /\ i[l].ub \in Nat
          BY <1>1
        <5>. QED
          BY <5>1, <5>2
      <4>. QED
        BY <3>1, <4>1, <4>2
    <3>. QED
      BY <1>0, <1>1, <2>1, <3>1, <3>2, <3>3
  <2>3. CASE ~(l < k)
    <3>1. k \in 1 .. n /\ k # n + 1 /\ (k = l \/ k < l)
      BY <2>3
    <3>2. GapTo(i, k) = i[k].lb
      BY <3>1 DEF GapTo
    <3>3. i[k].lb <= i[l].lb
      <4>1. CASE k = l
        BY <1>1, <3>1, <4>1
      <4>2. CASE k < l
        BY <1>1, <1>2, <3>1, <4>2
      <4>. QED
        BY <3>1, <4>1, <4>2
    <3>. QED
      BY <1>0, <1>1, <2>1, <3>1, <3>2, <3>3
  <2>. QED
    BY <2>2, <2>3
<1>5. ASSUME ~Holds(p, i)
      PROVE  \E k \in 1 .. n + 1 : InAtom(p, GapAt(i, k))
  <2>. DEFINE T == {k \in 1 .. n + 1 : p < 2 * GapTo(i, k)}
  <2>1. n + 1 \in T /\ T \subseteq Nat
    <3>1. GapTo(i, n + 1) = POSINF /\ n + 1 \in 1 .. n + 1
      BY DEF GapTo
    <3>. QED
      BY <1>0, <3>1
  <2>2. PICK k \in T : \A l \in T : k <= l
    BY <2>1, LeastNatural
  <2>3. 2 * GapFrom(i, k) < p
    <3>1. CASE k = 1
      BY <1>0, <3>1 DEF GapFrom
    <3>2. CASE k # 1
      <4>1. k - 1 \in 1 .. n /\ k - 1 \in 1 .. n + 1 /\ k - 1 # n + 1 /\ ~(k <= k - 1)
        BY <3>2
      <4>2. GapFrom(i, k) = i[k - 1].ub /\ GapTo(i, k - 1) = i[k - 1].lb
        BY <3>2, <4>1 DEF GapFrom, GapTo
      <4>3. ~(p < 2 * i[k - 1].lb)
        BY <2>2, <4>1, <4>2
      <4>4. ~InAtom(p, i[k - 1])
        BY <1>5, <4>1 DEF Holds
      <4>5. i[k - 1].lb \in Nat /\ i[k - 1].ub \in Nat
            /\ (InAtom(p, i[k - 1]) <=> 2 * i[k - 1].lb <= p /\ p <= 2 * i[k - 1].ub)
        BY <1>1, <4>1
      <4>. QED
        BY <1>0, <4>2, <4>3, <4>4, <4>5
    <3>. QED
      BY <3>1, <3>2
  <2>4. k \in 1 .. n + 1 /\ p < 2 * GapTo(i, k)
    BY <2>2
  <2>. QED
    BY <1>3, <2>3, <2>4
<1>. QED
  BY <1>4, <1>5 DEF Holds

\* Around nothing there is one gap, twice: it is merged with itself.
LEMMA ComplementOfNil ==
  ASSUME NEW p \in Grid
  PROVE  /\ Holds(p, Complement(<<Nil>>))
         /\ Complement(<<Nil>>) = <<Atom(TRUE, 0, POSINF, TRUE)>>
<1>. DEFINE all == Atom(TRUE, 0, POSINF, TRUE)
            G == Gaps(<<Nil>>)
<1>1. all \in AtomSet /\ all.lb = 0 /\ all.ub = POSINF /\ all.lo /\ all.uo
      /\ ~EmptyAtom(all) /\ Overlaps(all, all) /\ Extend(all, all) = all
  <2>1. all \in AtomSet /\ all.lb = 0 /\ all.ub = POSINF /\ all.lo = TRUE /\ all.uo = TRUE
    BY PosInfAssumption DEF Atom, AtomSet, Timestamps, NEGINF
  <2>. HIDE DEF all
  <2>2. ~EmptyAtom(all) /\ Overlaps(all, all)
    BY <2>1, PosInfAssumption DEF EmptyAtom, Overlaps
  <2>. PICK e : e = Extend(all, all)
    OBVIOUS
  <2>3. e \in AtomSet /\ e.lb = all.lb /\ e.ub = all.ub /\ e.lo /\ e.uo
    BY <2>1, PosInfAssumption DEF Extend, AtomSet
  <2>4. e = all
    BY <2>1, <2>3 DEF AtomSet
  <2>. QED
    BY <2>1, <2>2, <2>4
<1>2. G \in Seq(AtomSet) /\ Len(G) = 2 /\ G[1] = all /\ G[2] = all
  <2>1. GapAt(<<Nil>>, 1) = all /\ GapAt(<<Nil>>, 2) = all
    <3>1. /\ Len(<<Nil>>) = 1 /\ <<Nil>>[1] = Nil /\ Nil.lb = POSINF /\ Nil.ub = 0
          /\ ~(1 > 1) /\ 2 > 1 /\ 2 # 1 /\ 2 - 1 = 1
      BY NilIsEmpty
    <3>2. Nil.lo = FALSE /\ Nil.uo = FALSE
      BY DEF Nil, Closed, Atom
    <3>. QED
      BY <3>1, <3>2, Zenon DEF GapAt, NEGINF
  <2>2. G = [k \in 1 .. 2 |-> GapAt(<<Nil>>, k)]
    BY NilIsEmpty DEF Gaps
  <2>. HIDE DEF G, all
  <2>3. \A k \in 1 .. 2 : GapAt(<<Nil>>, k) = all
    BY <2>1
  <2>4. G = [k \in 1 .. 2 |-> all]
    BY <2>2, <2>3
  <2>. QED
    BY <1>1, <2>4
<1>. HIDE DEF G, all
<1>3. PICK f : MergeSteps(G, f)
  BY <1>2, MergedBySteps
<1>4. f[0] = <<>> /\ f[1] = MergeNext(f[0], all) /\ f[2] = MergeNext(f[1], all) /\ Merged(G) = f[2]
  <2>1. /\ f[0] = <<>> /\ Merged(G) = f[2]
        /\ \A k \in 1 .. 2 : f[k] = MergeNext(f[k - 1], G[k])
    BY <1>2, <1>3 DEF MergeSteps
  <2>2. 1 \in 1 .. 2 /\ 2 \in 1 .. 2 /\ 1 - 1 = 0 /\ 2 - 1 = 1
    OBVIOUS
  <2>. QED
    BY <1>2, <2>1, <2>2
<1>5. f[1] = <<all>>
  BY <1>1, <1>4 DEF MergeNext
<1>6. f[2] = <<all>>
  <2>1. <<all>> # <<>> /\ Last(<<all>>) = all /\ Front(<<all>>) = <<>>
    BY DEF Last, Front
  <2>2. f[2] = Append(<<>>, all)
    BY <1>1, <1>4, <1>5, <2>1 DEF MergeNext
  <2>. QED
    BY <2>2
<1>7. Complement(<<Nil>>) = <<all>>
  <2>1. <<all>> # <<>>
    OBVIOUS
  <2>. QED
    BY <1>4, <1>6, <2>1, ComplementIs DEF MkInterval, G
<1>8. InAtom(p, all)
  BY <1>1, PosInfAssumption DEF InAtom, Grid
<1>9. 1 \in 1 .. Len(<<all>>) /\ <<all>>[1] = all
  OBVIOUS
<1>. QED
  BY <1>7, <1>8, <1>9 DEF Holds, all

\* complement() of a normal form holds what this does not hold.
LEMMA ComplementIsTheRest ==
  ASSUME NEW i, NormalForm(i), NEW p \in Grid
  PROVE  Holds(p, Complement(i)) <=> ~Holds(p, i)
<1>1. CASE i = <<Nil>>
  BY <1>1, NilIsEmpty, ComplementOfNil
<1>2. CASE i \in Seq(ClosedAtoms) /\ i # <<>> /\ Apart(i)
  <2>1. Gaps(i) \in Seq(AtomSet) /\ Merged(Gaps(i)) = Gaps(i)
    BY <1>2, GapsStayApart
  <2>2. /\ Len(Gaps(i)) = Len(i) + 1
        /\ \A k \in 1 .. Len(i) + 1 : Gaps(i)[k] = GapAt(i, k)
    BY <1>2 DEF Gaps
  <2>3. Gaps(i) # <<>>
    BY <1>2, <2>2
  <2>4. Complement(i) = Gaps(i)
    BY <2>1, <2>3, ComplementIs DEF MkInterval
  <2>5. Holds(p, Gaps(i)) <=> \E k \in 1 .. Len(i) + 1 : InAtom(p, GapAt(i, k))
    BY <2>2 DEF Holds
  <2>. QED
    BY <1>2, <2>4, <2>5, GapsAreTheRest
<1>. QED
  BY <1>1, <1>2 DEF NormalForm

----------------------------------------------------------------------------
(* The intersection: two cursors at two lists in normal form. *)

\* An atom from the k-th on holds the instant.
HoldsFrom(p, i, k) == \E l \in k .. Len(i) : InAtom(p, i[l])

\* An atom of a normal form holds what lies between its two ends, which for Nil
\* is nothing.
LEMMA NormalAtomIs ==
  ASSUME NEW i, NormalForm(i), NEW k \in 1 .. Len(i)
  PROVE  /\ i[k].lb \in Nat /\ i[k].ub \in Nat /\ ~i[k].lo /\ ~i[k].uo
         /\ 0 < i[k].lb /\ (i[k] = Nil => i[k].ub = 0 /\ i[k].lb = POSINF)
         /\ i[k].ub < POSINF
         /\ \A p \in Grid : InAtom(p, i[k]) <=> 2 * i[k].lb <= p /\ p <= 2 * i[k].ub
<1>1. CASE i[k] \in ClosedAtoms
  <2>1. i[k] # Nil
    BY <1>1, ClosedAtomIs, NilIsEmpty
  <2>. QED
    BY <1>1, <2>1, ClosedAtomIs, InClosedAtom
<1>2. CASE i[k] = Nil
  <2>1. \A p \in Grid : ~InAtom(p, Nil) /\ ~(2 * POSINF <= p)
    BY NilIsEmpty, PosInfAssumption DEF Grid
  <2>. QED
    BY <1>2, <2>1, NilIsEmpty, PosInfAssumption
<1>. QED
  BY <1>1, <1>2, NormalFormIs

\* What is ahead of a cursor lies behind the atom at the cursor.
LEMMA AheadOfCursor ==
  ASSUME NEW i, NormalForm(i), NEW k \in 1 .. Len(i), NEW p \in Grid
  PROVE  /\ HoldsFrom(p, i, k) <=> InAtom(p, i[k]) \/ HoldsFrom(p, i, k + 1)
         /\ HoldsFrom(p, i, k + 1) => 2 * i[k].ub < p /\ 2 * i[k].lb <= p
<1>1. Len(i) \in Nat
  BY NormalFormIs
<1>2. HoldsFrom(p, i, k) <=> InAtom(p, i[k]) \/ HoldsFrom(p, i, k + 1)
  <2>1. k \in k .. Len(i) /\ (\A l \in k .. Len(i) : l = k \/ l \in k + 1 .. Len(i))
        /\ \A l \in k + 1 .. Len(i) : l \in k .. Len(i)
    BY <1>1
  <2>. QED
    BY <2>1 DEF HoldsFrom
<1>3. ASSUME HoldsFrom(p, i, k + 1)
      PROVE  2 * i[k].ub < p /\ 2 * i[k].lb <= p
  <2>1. PICK l \in k + 1 .. Len(i) : InAtom(p, i[l])
    BY <1>3 DEF HoldsFrom
  <2>2. l \in 1 .. Len(i) /\ k < l
    BY <1>1
  <2>3. i[k] \in ClosedAtoms /\ i[l] \in ClosedAtoms /\ i[k].ub < i[l].lb
    BY <2>2, NormalFormIs
  <2>4. /\ i[k].lb \in Nat /\ i[k].ub \in Nat /\ i[k].lb <= i[k].ub
        /\ i[l].lb \in Nat /\ 2 * i[l].lb <= p /\ p \in Nat
    BY <2>1, <2>3, ClosedAtomIs, InClosedAtom, PosInfAssumption DEF Grid
  <2>. QED
    BY <2>3, <2>4
<1>. QED
  BY <1>2, <1>3

\* Of two closed atoms that overlap, what both hold.
LEMMA IntersectClosed ==
  ASSUME NEW a \in ClosedAtoms, NEW b \in ClosedAtoms, Overlaps(a, b)
  PROVE  LET c == Intersect(a, b)
         IN  /\ c \in ClosedAtoms
             /\ c.lb = IF a.lb < b.lb THEN b.lb ELSE a.lb
             /\ \A p \in Grid : InAtom(p, c) <=> InAtom(p, a) /\ InAtom(p, b)
<1>. DEFINE l == IF a.lb < b.lb THEN b.lb ELSE a.lb
            u == IF a.ub < b.ub THEN a.ub ELSE b.ub
<1>1. /\ a.lo = FALSE /\ a.uo = FALSE /\ a.lb \in Nat /\ a.ub \in Nat
      /\ 0 < a.lb /\ a.lb <= a.ub /\ a.ub < POSINF
      /\ b.lo = FALSE /\ b.uo = FALSE /\ b.lb \in Nat /\ b.ub \in Nat
      /\ 0 < b.lb /\ b.lb <= b.ub /\ b.ub < POSINF
  BY ClosedAtomIs
<1>2. a.ub >= b.lb /\ a.lb <= b.ub
  BY OverlapsClosed
<1>3. /\ l \in Nat /\ u \in Nat /\ 0 < l /\ l <= u /\ u < POSINF
      /\ a.lb = b.lb => l = a.lb
      /\ a.ub = b.ub => u = a.ub
  BY <1>1, <1>2, PosInfAssumption
<1>4. Intersect(a, b) = Closed(l, u)
  <2>. DEFINE low == IF a.lb = b.lb THEN <<a.lb, a.lo \/ b.lo>>
                     ELSE IF a.lb < b.lb THEN <<b.lb, b.lo>> ELSE <<a.lb, a.lo>>
              high == IF a.ub = b.ub THEN <<a.ub, a.uo \/ b.uo>>
                      ELSE IF a.ub < b.ub THEN <<a.ub, a.uo>> ELSE <<b.ub, b.uo>>
  <2>1. (a.lo \/ b.lo) = FALSE /\ (a.uo \/ b.uo) = FALSE
    BY <1>1
  <2>2. low = <<l, FALSE>>
    BY <1>1, <1>3, <2>1, Zenon
  <2>3. high = <<u, FALSE>>
    BY <1>1, <1>3, <2>1, Zenon
  <2>4. Intersect(a, b) = Atom(low[2], low[1], high[1], high[2])
    BY Zenon DEF Intersect
  <2>. HIDE DEF low, high, l, u
  <2>5. low[1] = l /\ low[2] = FALSE /\ high[1] = u /\ high[2] = FALSE
    BY <2>2, <2>3
  <2>. QED
    BY <2>4, <2>5, Zenon DEF Closed
<1>. HIDE DEF l, u
<1>5. Closed(l, u) \in ClosedAtoms /\ Closed(l, u).lb = l /\ Closed(l, u).ub = u
  BY <1>3, ClosedIsAtom
<1>6. ASSUME NEW p \in Grid
      PROVE  InAtom(p, Closed(l, u)) <=> InAtom(p, a) /\ InAtom(p, b)
  <2>1. /\ InAtom(p, Closed(l, u)) <=> 2 * l <= p /\ p <= 2 * u
        /\ InAtom(p, a) <=> 2 * a.lb <= p /\ p <= 2 * a.ub
        /\ InAtom(p, b) <=> 2 * b.lb <= p /\ p <= 2 * b.ub
        /\ p \in Nat
    BY <1>5, InClosedAtom, PosInfAssumption DEF Grid
  <2>. QED
    BY <1>1, <2>1 DEF l, u
<1>. QED
  BY <1>4, <1>5, <1>6 DEF l

\* What was collected begins no later than where the cursors are.
Behind(i, j, p, q, out) ==
  p \in 1 .. Len(i) /\ q \in 1 .. Len(j) =>
    \A x \in 1 .. Len(out) : out[x].lb <= i[p].lb \/ out[x].lb <= j[q].lb

\* What was collected and what is ahead of both cursors is the intersection.
Accounts(i, j, p, q, out) ==
  \A z \in Grid :
    Holds(z, out) \/ (HoldsFrom(z, i, p) /\ HoldsFrom(z, j, q)) <=> Holds(z, i) /\ Holds(z, j)

Collects(i, j, p, q, out) ==
  InOrder(out) /\ Behind(i, j, p, q, out) /\ Accounts(i, j, p, q, out)

\* Two atoms of normal forms that overlap are both closed, none is Nil.
LEMMA BothAreClosed ==
  ASSUME NEW i, NormalForm(i), NEW j, NormalForm(j),
         NEW p \in 1 .. Len(i), NEW q \in 1 .. Len(j), Overlaps(i[p], j[q])
  PROVE  i[p] \in ClosedAtoms /\ j[q] \in ClosedAtoms
<1>1. i[p].ub >= j[q].lb /\ i[p].lb <= j[q].ub
  BY DEF Overlaps
<1>2. /\ i[p].lb \in Nat /\ i[p].ub \in Nat /\ 0 < i[p].lb
      /\ i[p] = Nil => i[p].ub = 0
      /\ j[q].lb \in Nat /\ j[q].ub \in Nat /\ 0 < j[q].lb
      /\ j[q] = Nil => j[q].ub = 0
  BY NormalAtomIs
<1>3. i[p] # Nil /\ j[q] # Nil
  BY <1>1, <1>2
<1>. QED
  BY <1>3, NormalFormIs

\* The intersection of two atoms joins what was collected.
LEMMA CollectOne ==
  ASSUME NEW i, NormalForm(i), NEW j, NormalForm(j),
         NEW p \in 1 .. Len(i), NEW q \in 1 .. Len(j), NEW out,
         InOrder(out), Behind(i, j, p, q, out), Overlaps(i[p], j[q])
  PROVE  LET o == Append(out, Intersect(i[p], j[q]))
         IN  /\ InOrder(o) /\ Behind(i, j, p, q, o)
             /\ \A z \in Grid : Holds(z, o) <=>
                  Holds(z, out) \/ (InAtom(z, i[p]) /\ InAtom(z, j[q]))
<1>. PICK c : c = Intersect(i[p], j[q])
  OBVIOUS
<1>1. /\ c \in ClosedAtoms /\ c.lb = IF i[p].lb < j[q].lb THEN j[q].lb ELSE i[p].lb
      /\ \A z \in Grid : InAtom(z, c) <=> InAtom(z, i[p]) /\ InAtom(z, j[q])
  BY BothAreClosed, IntersectClosed
<1>. PICK n \in Nat : n = Len(out)
  BY DEF InOrder
<1>. PICK o : o = Append(out, c)
  OBVIOUS
<1>2. /\ o \in Seq(ClosedAtoms) /\ Len(o) = n + 1 /\ o[n + 1] = c
      /\ \A x \in 1 .. n : o[x] = out[x]
  BY <1>1, AppendedLast DEF InOrder
<1>3. i[p].lb \in Nat /\ j[q].lb \in Nat
  BY NormalAtomIs
<1>4. ASSUME NEW x \in 1 .. n
      PROVE  /\ out[x].lb \in Nat /\ out[x].lb <= c.lb
             /\ out[x].lb <= i[p].lb \/ out[x].lb <= j[q].lb
  <2>1. out[x].lb <= i[p].lb \/ out[x].lb <= j[q].lb
    BY DEF Behind
  <2>2. out[x] \in ClosedAtoms
    BY DEF InOrder
  <2>3. out[x].lb \in Nat
    BY <2>2, ClosedAtomIs
  <2>. QED
    BY <1>1, <1>3, <2>1, <2>3
<1>5. \A x \in 1 .. n + 1 : x \in 1 .. n \/ x = n + 1
  OBVIOUS
<1>6. InOrder(o)
  <2>. SUFFICES ASSUME NEW x \in 1 .. n + 1, NEW y \in 1 .. n + 1, x <= y
                PROVE  o[x].lb <= o[y].lb
    BY <1>2 DEF InOrder
  <2>1. CASE y \in 1 .. n
    <3>1. x \in 1 .. n
      BY <2>1
    <3>2. out[x].lb <= out[y].lb
      BY <2>1, <3>1 DEF InOrder
    <3>. QED
      BY <1>2, <2>1, <3>1, <3>2
  <2>2. CASE x \in 1 .. n /\ y = n + 1
    BY <1>2, <1>4, <2>2
  <2>3. CASE x = n + 1 /\ y = n + 1
    BY <1>1, <1>2, <1>3, <2>3
  <2>. QED
    BY <1>5, <2>1, <2>2, <2>3
<1>7. Behind(i, j, p, q, o)
  <2>1. c.lb <= i[p].lb \/ c.lb <= j[q].lb
    BY <1>1, <1>3
  <2>. QED
    BY <1>2, <1>4, <1>5, <2>1 DEF Behind
<1>8. ASSUME NEW z \in Grid
      PROVE  Holds(z, o) <=> Holds(z, out) \/ (InAtom(z, i[p]) /\ InAtom(z, j[q]))
  <2>1. n + 1 \in 1 .. n + 1 /\ \A x \in 1 .. n : x \in 1 .. n + 1
    OBVIOUS
  <2>2. Holds(z, o) <=> (\E x \in 1 .. n : InAtom(z, out[x])) \/ InAtom(z, c)
    BY <1>2, <1>5, <2>1 DEF Holds
  <2>. QED
    BY <1>1, <2>2 DEF Holds
<1>. QED
  BY <1>6, <1>7, <1>8

\* A cursor that moves on is at an atom that begins later.
LEMMA BehindMoves ==
  ASSUME NEW i, NormalForm(i), NEW j, NormalForm(j),
         NEW p \in 1 .. Len(i), NEW q \in 1 .. Len(j), NEW out, InOrder(out),
         Behind(i, j, p, q, out)
  PROVE  Behind(i, j, p + 1, q, out) /\ Behind(i, j, p, q + 1, out)
<1>1. \A x \in 1 .. Len(out) : /\ out[x].lb \in Nat
                               /\ out[x].lb <= i[p].lb \/ out[x].lb <= j[q].lb
  <2>. TAKE x \in 1 .. Len(out)
  <2>1. out[x] \in ClosedAtoms
    BY DEF InOrder
  <2>. QED
    BY <2>1, ClosedAtomIs DEF Behind
<1>2. i[p].lb \in Nat /\ j[q].lb \in Nat
  BY NormalAtomIs
<1>3. ASSUME p + 1 \in 1 .. Len(i)
      PROVE  i[p + 1].lb \in Nat /\ i[p].lb <= i[p + 1].lb
  <2>1. p < p + 1
    OBVIOUS
  <2>2. i[p] \in ClosedAtoms /\ i[p + 1] \in ClosedAtoms /\ i[p].ub < i[p + 1].lb
    BY <1>3, <2>1, NormalFormIs
  <2>3. i[p].lb \in Nat /\ i[p].ub \in Nat /\ i[p].lb <= i[p].ub /\ i[p + 1].lb \in Nat
    BY <2>2, ClosedAtomIs
  <2>. QED
    BY <2>2, <2>3
<1>4. ASSUME q + 1 \in 1 .. Len(j)
      PROVE  j[q + 1].lb \in Nat /\ j[q].lb <= j[q + 1].lb
  <2>1. q < q + 1
    OBVIOUS
  <2>2. j[q] \in ClosedAtoms /\ j[q + 1] \in ClosedAtoms /\ j[q].ub < j[q + 1].lb
    BY <1>4, <2>1, NormalFormIs
  <2>3. j[q].lb \in Nat /\ j[q].ub \in Nat /\ j[q].lb <= j[q].ub /\ j[q + 1].lb \in Nat
    BY <2>2, ClosedAtomIs
  <2>. QED
    BY <2>2, <2>3
<1>5. Behind(i, j, p + 1, q, out)
  <2>. SUFFICES ASSUME p + 1 \in 1 .. Len(i), NEW x \in 1 .. Len(out)
                PROVE  out[x].lb <= i[p + 1].lb \/ out[x].lb <= j[q].lb
    BY DEF Behind
  <2>. QED
    BY <1>1, <1>2, <1>3
<1>6. Behind(i, j, p, q + 1, out)
  <2>. SUFFICES ASSUME q + 1 \in 1 .. Len(j), NEW x \in 1 .. Len(out)
                PROVE  out[x].lb <= i[p].lb \/ out[x].lb <= j[q + 1].lb
    BY DEF Behind
  <2>. QED
    BY <1>1, <1>2, <1>4
<1>. QED
  BY <1>5, <1>6

\* Which atom is left behind, and that nothing of the intersection is lost.
LEMMA LeaveBehind ==
  ASSUME NEW i, NormalForm(i), NEW j, NormalForm(j),
         NEW p \in 1 .. Len(i), NEW q \in 1 .. Len(j), NEW z \in Grid
  PROVE  LET a == i[p]
             b == j[q]
             both == HoldsFrom(z, i, p) /\ HoldsFrom(z, j, q)
             here == InAtom(z, a) /\ InAtom(z, b)
             first == HoldsFrom(z, i, p + 1) /\ HoldsFrom(z, j, q)
             second == HoldsFrom(z, i, p) /\ HoldsFrom(z, j, q + 1)
         IN  /\ a.ub >= b.ub => (both <=> here \/ second)
             /\ a.ub < b.ub => (both <=> here \/ first)
             /\ a.ub < b.lb => (both <=> first)
             /\ b.ub < a.lb => (both <=> second)
<1>. DEFINE a == i[p]
            b == j[q]
<1>1. /\ a.lb \in Nat /\ a.ub \in Nat /\ b.lb \in Nat /\ b.ub \in Nat /\ z \in Nat
      /\ InAtom(z, a) <=> 2 * a.lb <= z /\ z <= 2 * a.ub
      /\ InAtom(z, b) <=> 2 * b.lb <= z /\ z <= 2 * b.ub
  <2>1. z \in Nat
    BY PosInfAssumption DEF Grid
  <2>. QED
    BY <2>1, NormalAtomIs
<1>2. /\ HoldsFrom(z, i, p) <=> InAtom(z, a) \/ HoldsFrom(z, i, p + 1)
      /\ HoldsFrom(z, i, p + 1) => 2 * a.ub < z /\ 2 * a.lb <= z
      /\ HoldsFrom(z, j, q) <=> InAtom(z, b) \/ HoldsFrom(z, j, q + 1)
      /\ HoldsFrom(z, j, q + 1) => 2 * b.ub < z /\ 2 * b.lb <= z
  BY AheadOfCursor
<1>. HIDE DEF a, b
<1>3. a.ub >= b.ub => ~(HoldsFrom(z, i, p + 1) /\ InAtom(z, b))
  BY <1>1, <1>2
<1>4. a.ub < b.ub => ~(InAtom(z, a) /\ HoldsFrom(z, j, q + 1))
  BY <1>1, <1>2
<1>5. a.ub < b.lb => ~(InAtom(z, a) /\ HoldsFrom(z, j, q))
  BY <1>1, <1>2
<1>6. b.ub < a.lb => ~(HoldsFrom(z, i, p) /\ InAtom(z, b))
  BY <1>1, <1>2
<1>. QED
  BY <1>2, <1>3, <1>4, <1>5, <1>6 DEF a, b

\* A turn of the loop moves one cursor and keeps the account.
LEMMA CursorMoves ==
  ASSUME NEW i, NormalForm(i), NEW j, NormalForm(j), NEW s \in Cursors,
         Walking(i, j, s), Collects(i, j, s.p, s.q, s.out)
  PROVE  LET t == IntersectStep(i, j, s)
         IN  /\ ~t.failed /\ Collects(i, j, t.p, t.q, t.out)
             /\ (t.p = s.p + 1 /\ t.q = s.q) \/ (t.p = s.p /\ t.q = s.q + 1)
<1>0. i \in Seq(AtomSet) /\ j \in Seq(AtomSet)
  BY NormalFormIs
<1>. PICK out : out = s.out
  OBVIOUS
<1>. PICK p \in 1 .. Len(i), q \in 1 .. Len(j) : p = s.p /\ q = s.q /\ out = s.out
  BY DEF Walking
<1>. PICK a, b : a = i[p] /\ b = j[q]
  OBVIOUS
<1>. PICK o : o = Append(out, Intersect(a, b))
  OBVIOUS
<1>. PICK t : t = IntersectStep(i, j, s)
  OBVIOUS
<1>1. t = IF Overlaps(a, b)
          THEN IF a.ub >= b.ub THEN CursorsAt(p, q + 1, o, FALSE)
               ELSE CursorsAt(p + 1, q, o, FALSE)
          ELSE IF a.ub < b.lb THEN CursorsAt(p + 1, q, out, FALSE)
          ELSE IF b.ub < a.lb THEN CursorsAt(p, q + 1, out, FALSE)
          ELSE CursorsAt(p, q, out, TRUE)
  BY <1>0, IntersectStepIs
<1>2. /\ a.lb \in Nat /\ a.ub \in Nat /\ b.lb \in Nat /\ b.ub \in Nat
      /\ ~a.lo /\ ~a.uo /\ ~b.lo /\ ~b.uo
  BY NormalAtomIs
<1>3. InOrder(out) /\ Behind(i, j, p, q, out) /\ Accounts(i, j, p, q, out)
  BY DEF Collects
<1>4. p + 1 \in Nat /\ q + 1 \in Nat /\ p \in Nat /\ q \in Nat /\ out \in Seq(AtomSet)
  BY <1>3, ClosedAreAtoms DEF InOrder
<1>5. CASE Overlaps(a, b)
  <2>1. /\ InOrder(o) /\ Behind(i, j, p, q, o)
        /\ \A z \in Grid : Holds(z, o) <=> Holds(z, out) \/ (InAtom(z, a) /\ InAtom(z, b))
    BY <1>3, <1>5, CollectOne
  <2>2. Behind(i, j, p + 1, q, o) /\ Behind(i, j, p, q + 1, o)
    BY <2>1, BehindMoves
  <2>3. CASE a.ub >= b.ub
    <3>1. t = CursorsAt(p, q + 1, o, FALSE)
      BY <1>1, <1>5, <2>3
    <3>2. t.p = p /\ t.q = q + 1 /\ t.out = o /\ ~t.failed
      BY <3>1 DEF CursorsAt
    <3>3. Accounts(i, j, p, q + 1, o)
      BY <1>3, <2>1, <2>3, LeaveBehind DEF Accounts
    <3>. QED
      BY <2>1, <2>2, <3>2, <3>3 DEF Collects
  <2>4. CASE a.ub < b.ub
    <3>0. ~(a.ub >= b.ub)
      BY <1>2, <2>4
    <3>1. t = CursorsAt(p + 1, q, o, FALSE)
      BY <1>1, <1>5, <3>0, Zenon
    <3>2. t.p = p + 1 /\ t.q = q /\ t.out = o /\ ~t.failed
      BY <3>1 DEF CursorsAt
    <3>3. Accounts(i, j, p + 1, q, o)
      BY <1>3, <2>1, <2>4, LeaveBehind DEF Accounts
    <3>. QED
      BY <2>1, <2>2, <3>2, <3>3 DEF Collects
  <2>. QED
    BY <1>2, <2>3, <2>4
<1>6. CASE ~Overlaps(a, b)
  <2>1. a.ub < b.lb \/ b.ub < a.lb
    BY <1>2, <1>6 DEF Overlaps
  <2>2. Behind(i, j, p + 1, q, out) /\ Behind(i, j, p, q + 1, out)
    BY <1>3, BehindMoves
  <2>3. CASE a.ub < b.lb
    <3>1. t = CursorsAt(p + 1, q, out, FALSE)
      BY <1>1, <1>6, <2>3
    <3>2. t.p = p + 1 /\ t.q = q /\ t.out = out /\ ~t.failed
      BY <3>1 DEF CursorsAt
    <3>3. Accounts(i, j, p + 1, q, out)
      BY <1>3, <2>3, LeaveBehind DEF Accounts
    <3>. QED
      BY <1>3, <2>2, <3>2, <3>3 DEF Collects
  <2>4. CASE ~(a.ub < b.lb)
    <3>0. b.ub < a.lb
      BY <2>1, <2>4
    <3>1. t = CursorsAt(p, q + 1, out, FALSE)
      BY <1>1, <1>6, <2>4, <3>0
    <3>2. t.p = p /\ t.q = q + 1 /\ t.out = out /\ ~t.failed
      BY <3>1 DEF CursorsAt
    <3>3. Accounts(i, j, p, q + 1, out)
      BY <1>3, <3>0, LeaveBehind DEF Accounts
    <3>. QED
      BY <1>3, <2>2, <3>2, <3>3 DEF Collects
  <2>. QED
    BY <2>3, <2>4
<1>. QED
  BY <1>5, <1>6

\* operator* of two normal forms holds what both hold.
LEMMA IntersectIsBoth ==
  ASSUME NEW i, NormalForm(i), NEW j, NormalForm(j)
  PROVE  /\ ~IntersectAsserts(i, j)
         /\ \A z \in Grid : Holds(z, IntersectIntervals(i, j)) <=> Holds(z, i) /\ Holds(z, j)
<1>. PICK m \in Nat, n \in Nat : m = Len(i) /\ n = Len(j) /\ m > 0 /\ n > 0
  BY NormalFormIs
<1>0. i \in Seq(AtomSet) /\ j \in Seq(AtomSet)
  BY NormalFormIs
<1>1. PICK f : CursorSteps(i, j, m + n, f)
  BY <1>0, IntersectBySteps
<1>2. /\ f \in [0 .. m + n -> Cursors] /\ f[0] = CursorsStart /\ IntersectRun(i, j) = f[m + n]
      /\ \A k \in 1 .. m + n : f[k] = IntersectStep(i, j, f[k - 1])
  BY <1>1 DEF CursorSteps
<1>. DEFINE Good(k) ==
              /\ ~f[k].failed /\ f[k].p \in 1 .. m + 1 /\ f[k].q \in 1 .. n + 1
              /\ Collects(i, j, f[k].p, f[k].q, f[k].out)
              /\ f[k].p + f[k].q = k + 2 \/ f[k].p > m \/ f[k].q > n
            X == {k \in Nat : k <= m + n => Good(k)}
<1>3. 0 \in X
  <2>1. f[0].p = 1 /\ f[0].q = 1 /\ f[0].out = <<>> /\ ~f[0].failed
    BY <1>2 DEF CursorsStart
  <2>2. <<>> \in Seq(ClosedAtoms) /\ Len(<<>>) = 0 /\ 1 .. 0 = {}
    OBVIOUS
  <2>3. InOrder(<<>>) /\ Behind(i, j, 1, 1, <<>>)
    BY <2>2 DEF InOrder, Behind
  <2>4. Accounts(i, j, 1, 1, <<>>)
    BY <2>2 DEF Accounts, Holds, HoldsFrom
  <2>5. 1 \in 1 .. m + 1 /\ 1 \in 1 .. n + 1 /\ 1 + 1 = 0 + 2
    OBVIOUS
  <2>6. Good(0)
    BY <2>1, <2>3, <2>4, <2>5 DEF Collects
  <2>. HIDE DEF Good
  <2>. QED
    BY <2>6
<1>4. ASSUME NEW k \in Nat, k \in X
      PROVE  k + 1 \in X
  <2>1. SUFFICES ASSUME k + 1 <= m + n PROVE Good(k + 1)
    BY SMT
  <2>2. k + 1 \in 1 .. m + n /\ (k + 1) - 1 = k /\ k <= m + n /\ k \in 0 .. m + n
    BY <2>1
  <2>3. Good(k) /\ f[k] \in Cursors
    BY <1>2, <1>4, <2>2
  <2>. PICK s \in Cursors : s = f[k]
    BY <2>3
  <2>. PICK t : t = f[k + 1]
    OBVIOUS
  <2>4. t = IntersectStep(i, j, s)
    BY <1>2, <2>2
  <2>5. /\ ~s.failed /\ s.p \in 1 .. m + 1 /\ s.q \in 1 .. n + 1
        /\ Collects(i, j, s.p, s.q, s.out)
        /\ s.p + s.q = k + 2 \/ s.p > m \/ s.q > n
    BY <2>3
  <2>. HIDE DEF Good, X
  <2>6. /\ ~t.failed /\ t.p \in 1 .. m + 1 /\ t.q \in 1 .. n + 1
        /\ Collects(i, j, t.p, t.q, t.out)
        /\ t.p + t.q = (k + 1) + 2 \/ t.p > m \/ t.q > n
    <3>1. CASE s.p > m \/ s.q > n
      <4>1. t = s
        BY <2>4, <3>1, IntersectStepStops
      <4>. QED
        BY <2>5, <3>1, <4>1
    <3>2. CASE ~(s.p > m \/ s.q > n)
      <4>1. s.p \in 1 .. m /\ s.q \in 1 .. n /\ s.p + s.q = k + 2
        BY <2>5, <3>2
      <4>2. Walking(i, j, s)
        BY <2>5, <4>1 DEF Walking
      <4>3. /\ ~t.failed /\ Collects(i, j, t.p, t.q, t.out)
            /\ (t.p = s.p + 1 /\ t.q = s.q) \/ (t.p = s.p /\ t.q = s.q + 1)
        BY <2>4, <2>5, <4>2, CursorMoves
      <4>. PICK p \in 1 .. m, q \in 1 .. n : p = s.p /\ q = s.q
        BY <4>1
      <4>4. t.p \in 1 .. m + 1 /\ t.q \in 1 .. n + 1 /\ t.p + t.q = (k + 1) + 2
        <5>1. p + q = k + 2
          BY <4>1
        <5>2. /\ p \in 1 .. m + 1 /\ p + 1 \in 1 .. m + 1 /\ q \in 1 .. n + 1 /\ q + 1 \in 1 .. n + 1
              /\ (p + 1) + q = (k + 1) + 2 /\ p + (q + 1) = (k + 1) + 2
          BY ONLY <5>1, p \in 1 .. m, q \in 1 .. n, m \in Nat, n \in Nat, k \in Nat
        <5>3. (t.p = p + 1 /\ t.q = q) \/ (t.p = p /\ t.q = q + 1)
          BY <4>3
        <5>. QED
          BY <5>2, <5>3, Zenon
      <4>. QED
        BY <4>3, <4>4
    <3>. QED
      BY <3>1, <3>2
  <2>. QED
    BY <2>6 DEF Good
<1>5. \A k \in Nat : k \in X
  <2>. HIDE DEF X
  <2>. QED
    BY <1>3, <1>4, NatSetInduction
<1>. PICK r : r = f[m + n]
  OBVIOUS
<1>6. /\ ~r.failed /\ r.p \in 1 .. m + 1 /\ r.q \in 1 .. n + 1
      /\ Collects(i, j, r.p, r.q, r.out)
      /\ r.p + r.q = (m + n) + 2 \/ r.p > m \/ r.q > n
  <2>1. m + n \in Nat /\ m + n <= m + n
    OBVIOUS
  <2>. QED
    BY <1>5, <2>1
<1>. HIDE DEF Good, X
<1>7. r.p .. m = {} \/ r.q .. n = {}
  BY <1>6
<1>8. InOrder(r.out) /\ \A z \in Grid : Holds(z, r.out) <=> Holds(z, i) /\ Holds(z, j)
  BY <1>6, <1>7 DEF Collects, Accounts, HoldsFrom
<1>9. IntersectIntervals(i, j) = MkInterval(r.out) /\ ~IntersectAsserts(i, j)
  BY <1>2, <1>6 DEF IntersectIntervals, IntersectAsserts
<1>. QED
  BY <1>8, <1>9, MergedInOrder


\* The constructor's result is a list of atoms.
LEMMA MadeOfAtoms ==
  ASSUME NEW s \in Seq(AtomSet)
  PROVE  MkInterval(s) \in Seq(AtomSet)
<1>1. PICK f : MergeSteps(s, f)
  BY MergedBySteps
<1>2. Len(s) \in 0 .. Len(s)
  OBVIOUS
<1>3. Merged(s) \in Seq(AtomSet)
  BY <1>1, <1>2 DEF MergeSteps
<1>. QED
  BY <1>3, NilIsEmpty DEF MkInterval

\* And so is that of operator*.
LEMMA IntersectRunType ==
  ASSUME NEW i \in Seq(AtomSet), NEW j \in Seq(AtomSet)
  PROVE  IntersectRun(i, j).out \in Seq(AtomSet)
<1>1. PICK f : CursorSteps(i, j, Len(i) + Len(j), f)
  BY IntersectBySteps
<1>2. Len(i) + Len(j) \in 0 .. Len(i) + Len(j)
  OBVIOUS
<1>3. IntersectRun(i, j) \in Cursors
  BY <1>1, <1>2 DEF CursorSteps
<1>. QED
  BY <1>3 DEF Cursors

\* And so are the gaps of any list.
LEMMA GapsAreAtoms ==
  ASSUME NEW i, NormalForm(i)
  PROVE  Gaps(i) \in Seq(AtomSet)
<1>1. ASSUME NEW k \in 1 .. Len(i) + 1
      PROVE  GapAt(i, k) \in AtomSet
  <2>. PICK n \in Nat : n = Len(i)
    BY NormalFormIs
  <2>. PICK lo \in BOOLEAN, lb \in Timestamps, ub \in Timestamps, uo \in BOOLEAN :
         GapAt(i, k) = Atom(lo, lb, ub, uo)
    <3>1. \A l \in 1 .. n : i[l].lb \in Timestamps /\ i[l].ub \in Timestamps
      <4>. TAKE l \in 1 .. n
      <4>1. i[l] \in AtomSet
        BY NormalFormIs
      <4>. QED
        BY <4>1 DEF AtomSet
    <3>2. NEGINF \in Timestamps /\ POSINF \in Timestamps
      BY PosInfAssumption DEF Timestamps, NEGINF
    <3>3. (k = 1 \/ k - 1 \in 1 .. n) /\ (k > n \/ k \in 1 .. n)
      OBVIOUS
    <3>. DEFINE lo == IF k = 1 THEN TRUE ELSE ~i[k - 1].uo
                lb == IF k = 1 THEN NEGINF ELSE i[k - 1].ub
                ub == IF k > n THEN POSINF ELSE i[k].lb
                uo == IF k > n THEN TRUE ELSE ~i[k].lo
    <3>4. lb \in Timestamps /\ ub \in Timestamps
      BY <3>1, <3>2, <3>3
    <3>5. lo \in BOOLEAN /\ uo \in BOOLEAN
      BY Zenon
    <3>6. GapAt(i, k) = Atom(lo, lb, ub, uo)
      BY Zenon DEF GapAt
    <3>. HIDE DEF lo, lb, ub, uo
    <3>. QED
      BY <3>4, <3>5, <3>6
  <2>. QED
    BY DEF Atom, AtomSet
<1>2. Len(i) + 1 \in Nat
  BY NormalFormIs
<1>. QED
  BY <1>1, <1>2 DEF Gaps

----------------------------------------------------------------------------
(* Linearizability, unfolded. *)

\* What holds of a set if it holds whenever it holds with any element less.
LEMMA RemovalInduction ==
  ASSUME NEW S, IsFiniteSet(S), NEW X,
         \A T \in SUBSET S : (\A o \in T : T \ {o} \in X) => T \in X
  PROVE  \A T \in SUBSET S : T \in X
<1>. DEFINE Y == {n \in Nat : \A T \in SUBSET S : Cardinality(T) = n => T \in X}
<1>1. \A T \in SUBSET S : IsFiniteSet(T) /\ Cardinality(T) \in Nat
  BY FS_Subset, FS_CardinalityType
<1>2. 0 \in Y
  <2>. SUFFICES ASSUME NEW T \in SUBSET S, Cardinality(T) = 0 PROVE T \in X
    OBVIOUS
  <2>1. T = {}
    BY <1>1, FS_EmptySet
  <2>. QED
    BY <2>1
<1>3. ASSUME NEW n \in Nat, n \in Y
      PROVE  n + 1 \in Y
  <2>. SUFFICES ASSUME NEW T \in SUBSET S, Cardinality(T) = n + 1 PROVE T \in X
    OBVIOUS
  <2>1. ASSUME NEW o \in T PROVE T \ {o} \in X
    <3>1. Cardinality(T \ {o}) = n
      BY <1>1, FS_RemoveElement
    <3>. QED
      BY <1>3, <3>1
  <2>. QED
    BY <2>1
<1>. HIDE DEF Y
<1>4. \A n \in Nat : n \in Y
  BY <1>2, <1>3, NatSetInduction
<1>. QED
  BY <1>1, <1>4 DEF Y

\* A linearization from stack s on: what is left of the operations and what
\* the stack is after each of them.
IsOrder(n, left, stack, ops, s) ==
  /\ n \in Nat /\ left[0] = ops /\ stack[0] = s /\ left[n] = {}
  /\ \A k \in 1 .. n :
       \E o \in NextOnStack(left[k - 1], stack[k - 1]) :
         left[k] = left[k - 1] \ {o} /\ stack[k] = StackAfter(stack[k - 1], o)

Orders(ops, s) == \E n, left, stack : IsOrder(n, left, stack, ops, s)

\* Nothing is left, or an operation comes next.
LEMMA OrdersIs ==
  ASSUME NEW ops, NEW s
  PROVE  Orders(ops, s) <=>
           ops = {} \/ \E o \in NextOnStack(ops, s) : Orders(ops \ {o}, StackAfter(s, o))
<1>1. ASSUME Orders(ops, s), ops # {}
      PROVE  \E o \in NextOnStack(ops, s) : Orders(ops \ {o}, StackAfter(s, o))
  <2>. PICK n, left, stack : IsOrder(n, left, stack, ops, s)
    BY <1>1 DEF Orders
  <2>1. n \in Nat /\ n # 0
    BY <1>1 DEF IsOrder
  <2>. PICK o \in NextOnStack(ops, s) : left[1] = ops \ {o} /\ stack[1] = StackAfter(s, o)
    <3>1. 1 \in 1 .. n /\ 1 - 1 = 0
      BY <2>1
    <3>. QED
      BY <3>1 DEF IsOrder
  <2>. DEFINE l == [k \in Nat |-> left[k + 1]]
              t == [k \in Nat |-> stack[k + 1]]
  <2>2. n - 1 \in Nat /\ (n - 1) + 1 = n
    BY <2>1
  <2>3. \A k \in 1 .. n - 1 : l[k] = left[k + 1] /\ l[k - 1] = left[k]
                              /\ t[k] = stack[k + 1] /\ t[k - 1] = stack[k]
                              /\ k + 1 \in 1 .. n /\ (k + 1) - 1 = k
    BY <2>1
  <2>4. l[0] = left[1] /\ t[0] = stack[1] /\ l[n - 1] = left[n]
    BY <2>2
  <2>. HIDE DEF l, t
  <2>5. IsOrder(n - 1, l, t, ops \ {o}, StackAfter(s, o))
    <3>1. ASSUME NEW k \in 1 .. n - 1
          PROVE  \E p \in NextOnStack(l[k - 1], t[k - 1]) :
                   l[k] = l[k - 1] \ {p} /\ t[k] = StackAfter(t[k - 1], p)
      <4>. PICK j : j = k + 1
        OBVIOUS
      <4>1. \E p \in NextOnStack(left[j - 1], stack[j - 1]) :
              left[j] = left[j - 1] \ {p} /\ stack[j] = StackAfter(stack[j - 1], p)
        BY <2>3 DEF IsOrder
      <4>. QED
        BY <2>3, <4>1
    <3>. QED
      BY <2>2, <2>4, <3>1 DEF IsOrder
  <2>. QED
    BY <2>5 DEF Orders
<1>2. ASSUME ops = {}
      PROVE  Orders(ops, s)
  <2>. DEFINE l == [k \in {0} |-> ops]
              t == [k \in {0} |-> s]
  <2>1. IsOrder(0, l, t, ops, s)
    BY <1>2 DEF IsOrder
  <2>. QED
    BY <2>1 DEF Orders
<1>3. ASSUME NEW o \in NextOnStack(ops, s), Orders(ops \ {o}, StackAfter(s, o))
      PROVE  Orders(ops, s)
  <2>. PICK n, left, stack : IsOrder(n, left, stack, ops \ {o}, StackAfter(s, o))
    BY <1>3 DEF Orders
  <2>. DEFINE l == [k \in Nat |-> IF k = 0 THEN ops ELSE left[k - 1]]
              t == [k \in Nat |-> IF k = 0 THEN s ELSE stack[k - 1]]
  <2>1. n \in Nat /\ n + 1 \in Nat
    BY DEF IsOrder
  <2>2. l[0] = ops /\ t[0] = s /\ l[n + 1] = {}
    BY <2>1 DEF IsOrder
  <2>3. ASSUME NEW k \in 1 .. n + 1
        PROVE  \E p \in NextOnStack(l[k - 1], t[k - 1]) :
                 l[k] = l[k - 1] \ {p} /\ t[k] = StackAfter(t[k - 1], p)
    <3>1. l[k] = left[k - 1] /\ t[k] = stack[k - 1]
      BY <2>1
    <3>2. CASE k = 1
      <4>1. k - 1 = 0 /\ l[k] = ops \ {o} /\ t[k] = StackAfter(s, o)
        BY <3>1, <3>2 DEF IsOrder
      <4>. QED
        BY <2>2, <4>1
    <3>3. CASE k # 1
      <4>. PICK j : j = k - 1
        OBVIOUS
      <4>1. j \in 1 .. n /\ l[j] = left[j - 1] /\ t[j] = stack[j - 1]
        BY <2>1, <3>3
      <4>. HIDE DEF l, t
      <4>2. \E p \in NextOnStack(left[j - 1], stack[j - 1]) :
              left[j] = left[j - 1] \ {p} /\ stack[j] = StackAfter(stack[j - 1], p)
        BY <4>1 DEF IsOrder
      <4>. QED
        BY <3>1, <4>1, <4>2
    <3>. QED
      BY <3>2, <3>3
  <2>. HIDE DEF l, t
  <2>4. IsOrder(n + 1, l, t, ops, s)
    BY <2>1, <2>2, <2>3 DEF IsOrder
  <2>. QED
    BY <2>4 DEF Orders
<1>. QED
  BY <1>1, <1>2, <1>3

\* The function that LinearizableStack is defined by.
OrderEquation(F, ops) ==
  F = [s \in (SUBSET ops) \X Seq(ValuesIn(ops)) |->
         s[1] = {} \/ \E o \in NextOnStack(s[1], s[2]) : F[<<s[1] \ {o}, StackAfter(s[2], o)>>]]

LEMMA LinearizableIsChosen ==
  ASSUME NEW ops
  PROVE  LinearizableStack(ops) = (CHOOSE F : OrderEquation(F, ops))[<<ops, << >> >>]
BY Zenon DEF LinearizableStack, OrderEquation

\* An operation leaves a stack.
LEMMA StackAfterType ==
  ASSUME NEW V, NEW s \in Seq(V), NEW ops, ValuesIn(ops) \subseteq V, NEW o \in NextOnStack(ops, s)
  PROVE  o \in ops /\ StackAfter(s, o) \in Seq(V)
<1>1. o \in ops /\ o.val \in V
  BY DEF NextOnStack, MayBeFirst, ValuesIn
<1>2. o.type # "push" /\ o.val # NoVal => s # <<>>
  BY DEF NextOnStack
<1>3. <<o.val>> \o s \in Seq(V)
  BY <1>1
<1>. QED
  BY <1>1, <1>2, <1>3 DEF StackAfter

\* LinearizableStack looks for an order from the empty stack on.
LEMMA LinearizableIs ==
  ASSUME NEW ops, IsFiniteSet(ops)
  PROVE  LinearizableStack(ops) <=> Orders(ops, << >>)
<1>. DEFINE V == ValuesIn(ops)
            D == (SUBSET ops) \X Seq(V)
<1>1. ASSUME NEW T \in SUBSET ops, NEW s \in Seq(V), NEW o \in NextOnStack(T, s)
      PROVE  o \in T /\ T \ {o} \in SUBSET ops /\ StackAfter(s, o) \in Seq(V)
             /\ <<T \ {o}, StackAfter(s, o)>> \in D
  <2>1. ValuesIn(T) \subseteq V
    BY DEF ValuesIn
  <2>. QED
    BY <2>1, StackAfterType
<1>2. \E F : OrderEquation(F, ops)
  <2>. DEFINE F == [p \in D |-> Orders(p[1], p[2])]
  <2>1. ASSUME NEW p \in D
        PROVE  F[p] = (p[1] = {} \/ \E o \in NextOnStack(p[1], p[2]) :
                                      F[<<p[1] \ {o}, StackAfter(p[2], o)>>])
    <3>1. p[1] \in SUBSET ops /\ p[2] \in Seq(V)
      OBVIOUS
    <3>2. \A o \in NextOnStack(p[1], p[2]) :
            F[<<p[1] \ {o}, StackAfter(p[2], o)>>] = Orders(p[1] \ {o}, StackAfter(p[2], o))
      BY <1>1, <3>1
    <3>3. F[p] = Orders(p[1], p[2])
      OBVIOUS
    <3>. HIDE DEF F
    <3>4. (\E o \in NextOnStack(p[1], p[2]) : F[<<p[1] \ {o}, StackAfter(p[2], o)>>])
          <=> \E o \in NextOnStack(p[1], p[2]) : Orders(p[1] \ {o}, StackAfter(p[2], o))
      BY <3>2
    <3>5. Orders(p[1], p[2]) \in BOOLEAN
      BY DEF Orders
    <3>. QED
      BY <3>3, <3>4, <3>5, OrdersIs, Zenon
  <2>2. F = [p \in D |-> F[p]]
    OBVIOUS
  <2>. HIDE DEF F
  <2>. DEFINE G(p) == p[1] = {} \/ \E o \in NextOnStack(p[1], p[2]) :
                                     F[<<p[1] \ {o}, StackAfter(p[2], o)>>]
  <2>3. \A p \in D : F[p] = G(p)
    BY <2>1
  <2>. HIDE DEF G
  <2>4. F = [p \in D |-> G(p)]
    BY <2>2, <2>3, Zenon
  <2>5. OrderEquation(F, ops)
    BY <2>4, Zenon DEF OrderEquation, G
  <2>. QED
    BY <2>5
<1>. DEFINE G == CHOOSE F : OrderEquation(F, ops)
<1>3. OrderEquation(G, ops)
  BY <1>2
<1>. HIDE DEF G
<1>4. ASSUME NEW T \in SUBSET ops, NEW s \in Seq(V)
      PROVE  G[<<T, s>>] <=> (T = {} \/ \E o \in NextOnStack(T, s) :
                                          G[<<T \ {o}, StackAfter(s, o)>>])
  <2>. PICK p : p = <<T, s>>
    OBVIOUS
  <2>1. p \in D /\ p[1] = T /\ p[2] = s
    OBVIOUS
  <2>2. G[p] = (p[1] = {} \/ \E o \in NextOnStack(p[1], p[2]) :
                               G[<<p[1] \ {o}, StackAfter(p[2], o)>>])
    BY <1>3, <2>1, Zenon DEF OrderEquation
  <2>. QED
    BY <2>1, <2>2, Zenon
<1>. DEFINE X == {T \in SUBSET ops : \A s \in Seq(V) : G[<<T, s>>] <=> Orders(T, s)}
<1>5. ASSUME NEW T \in SUBSET ops, \A o \in T : T \ {o} \in X
      PROVE  T \in X
  <2>. SUFFICES ASSUME NEW s \in Seq(V) PROVE G[<<T, s>>] <=> Orders(T, s)
    OBVIOUS
  <2>1. \A o \in NextOnStack(T, s) :
          G[<<T \ {o}, StackAfter(s, o)>>] <=> Orders(T \ {o}, StackAfter(s, o))
    BY <1>1, <1>5
  <2>. QED
    BY <1>4, <2>1, OrdersIs
<1>. HIDE DEF X
<1>6. \A T \in SUBSET ops : T \in X
  BY <1>5, RemovalInduction
<1>7. ops \in SUBSET ops /\ <<>> \in Seq(V)
  OBVIOUS
<1>8. G[<<ops, << >> >>] <=> Orders(ops, << >>)
  BY <1>6, <1>7 DEF X
<1>9. LinearizableStack(ops) = G[<<ops, << >> >>]
  BY LinearizableIsChosen DEF G
<1>. QED
  BY <1>8, <1>9

----------------------------------------------------------------------------
(* Histories put together. *)

\* What a stack says of an operation: it can be made on s.
Fits(o, s) ==
  \/ o.type = "push"
  \/ o.type = "pop" /\ o.val # NoVal /\ s # <<>> /\ Head(s) = o.val
  \/ o.type = "pop" /\ o.val = NoVal /\ s = <<>>

\* No operation of B has ended when one of A is called.
NoneBefore(B, A) == \A b \in B, a \in A : b.ret >= a.call

EmptyPop(o) == o.type = "pop" /\ o.val = NoVal

Pops(o, v) == o.type = "pop" /\ o.val = v /\ v # NoVal

IsOn(v, s) == \E k \in 1 .. Len(s) : s[k] = v

\* After the operations of A nothing of s is left, nor of what A pushes.
EmptiesItself(A, s) ==
  /\ \A k \in 1 .. Len(s) : \E p \in A : Pops(p, s[k])
  /\ \A k, l \in 1 .. Len(s) : s[k] = s[l] => k = l
  /\ \A o \in A : o.type = "push" => ~IsOn(o.val, s) /\ \E p \in A : Pops(p, o.val)
  /\ \A o, q \in A : o.type = "push" /\ q.type = "push" /\ o.val = q.val => o = q

\* An operation that fits and that no other precedes may come first.
LEMMA OrderFirst ==
  ASSUME NEW T, NEW s, NEW o \in T, Fits(o, s), NoneBefore(T, {o}),
         Orders(T \ {o}, StackAfter(s, o))
  PROVE  Orders(T, s)
<1>1. o \in NextOnStack(T, s)
  BY DEF NextOnStack, MayBeFirst, Fits, NoneBefore
<1>. QED
  BY <1>1, OrdersIs

\* Some operation comes first.
LEMMA OrderNext ==
  ASSUME NEW T, NEW s, Orders(T, s), T # {}
  PROVE  \E o \in T : Fits(o, s) /\ NoneBefore(T, {o}) /\ Orders(T \ {o}, StackAfter(s, o))
<1>1. PICK o \in NextOnStack(T, s) : Orders(T \ {o}, StackAfter(s, o))
  BY OrdersIs
<1>2. o \in T /\ Fits(o, s) /\ NoneBefore(T, {o})
  BY DEF NextOnStack, MayBeFirst, Fits, NoneBefore
<1>. QED
  BY <1>1, <1>2

LEMMA NothingToOrder ==
  ASSUME NEW s
  PROVE  Orders({}, s)
BY OrdersIs

\* What fits on a stack fits with more below it, and leaves that alone.
LEMMA FitsBelow ==
  ASSUME NEW V, NEW s \in Seq(V), NEW f \in Seq(V), NEW o, o.val \in V, Fits(o, s),
         EmptyPop(o) => f = << >>
  PROVE  /\ Fits(o, s \o f) /\ StackAfter(s, o) \in Seq(V)
         /\ StackAfter(s \o f, o) = StackAfter(s, o) \o f
<1>1. CASE o.type = "push"
  <2>1. <<o.val>> \in Seq(V)
    OBVIOUS
  <2>2. <<o.val>> \o (s \o f) = (<<o.val>> \o s) \o f
    BY <2>1
  <2>. QED
    BY <1>1, <2>1, <2>2 DEF Fits, StackAfter
<1>2. CASE o.type = "pop" /\ o.val # NoVal /\ s # <<>> /\ Head(s) = o.val
  <2>1. s \o f # <<>> /\ Head(s \o f) = Head(s) /\ Tail(s \o f) = Tail(s) \o f /\ Tail(s) \in Seq(V)
    BY <1>2
  <2>2. o.type # "push"
    BY <1>2
  <2>. QED
    BY <1>2, <2>1, <2>2 DEF Fits, StackAfter
<1>3. CASE o.type = "pop" /\ o.val = NoVal /\ s = <<>>
  <2>1. f = <<>> /\ s \o f = s /\ o.type # "push"
    BY <1>3 DEF EmptyPop
  <2>. QED
    BY <1>3, <2>1 DEF Fits, StackAfter
<1>. QED
  BY <1>1, <1>2, <1>3 DEF Fits

\* Operations without an empty pop can be made on top of anything.
LEMMA Below ==
  ASSUME NEW V, NEW B, IsFiniteSet(B), ValuesIn(B) \subseteq V,
         \A o \in B : ~EmptyPop(o), NEW s \in Seq(V), NEW f \in Seq(V), Orders(B, s)
  PROVE  Orders(B, s \o f)
<1>. DEFINE X == {T \in SUBSET B : \A t \in Seq(V) : Orders(T, t) => Orders(T, t \o f)}
<1>1. ASSUME NEW T \in SUBSET B, \A o \in T : T \ {o} \in X
      PROVE  T \in X
  <2>. SUFFICES ASSUME NEW t \in Seq(V), Orders(T, t) PROVE Orders(T, t \o f)
    OBVIOUS
  <2>1. CASE T = {}
    BY <2>1, NothingToOrder
  <2>2. CASE T # {}
    <3>. PICK o \in T : Fits(o, t) /\ NoneBefore(T, {o}) /\ Orders(T \ {o}, StackAfter(t, o))
      BY <2>2, OrderNext
    <3>1. o.val \in V
      BY DEF ValuesIn
    <3>2. Fits(o, t \o f) /\ StackAfter(t, o) \in Seq(V)
          /\ StackAfter(t \o f, o) = StackAfter(t, o) \o f
      BY <3>1, FitsBelow
    <3>3. Orders(T \ {o}, StackAfter(t \o f, o))
      BY <1>1, <3>2
    <3>. QED
      BY <3>2, <3>3, OrderFirst
  <2>. QED
    BY <2>1, <2>2
<1>. HIDE DEF X
<1>2. \A T \in SUBSET B : T \in X
  BY <1>1, RemovalInduction
<1>3. B \in X
  BY <1>2
<1>. QED
  BY <1>3 DEF X

\* One history and then, whatever it leaves on the stack, another.
LEMMA OnTop ==
  ASSUME NEW V, NEW A, IsFiniteSet(A), ValuesIn(A) \subseteq V,
         NEW B, IsFiniteSet(B), ValuesIn(B) \subseteq V, A \cap B = {},
         \A o \in B : ~EmptyPop(o), NoneBefore(B, A), Orders(B, << >>),
         NEW s \in Seq(V), Orders(A, s)
  PROVE  Orders(A \cup B, s)
<1>. DEFINE X == {T \in SUBSET A : \A t \in Seq(V) : Orders(T, t) => Orders(T \cup B, t)}
<1>1. ASSUME NEW T \in SUBSET A, \A o \in T : T \ {o} \in X
      PROVE  T \in X
  <2>. SUFFICES ASSUME NEW t \in Seq(V), Orders(T, t) PROVE Orders(T \cup B, t)
    OBVIOUS
  <2>1. CASE T = {}
    <3>1. <<>> \in Seq(V) /\ <<>> \o t = t /\ T \cup B = B
      BY <2>1
    <3>2. Orders(B, << >> \o t)
      BY <3>1, Below
    <3>. QED
      BY <3>1, <3>2
  <2>2. CASE T # {}
    <3>. PICK o \in T : Fits(o, t) /\ NoneBefore(T, {o}) /\ Orders(T \ {o}, StackAfter(t, o))
      BY <2>2, OrderNext
    <3>1. StackAfter(t, o) \in Seq(V)
      <4>1. o.val \in V /\ <<>> \in Seq(V)
        BY DEF ValuesIn
      <4>. QED
        BY <4>1, FitsBelow
    <3>2. Orders((T \ {o}) \cup B, StackAfter(t, o))
      BY <1>1, <3>1
    <3>3. (T \ {o}) \cup B = (T \cup B) \ {o} /\ NoneBefore(T \cup B, {o})
      BY DEF NoneBefore
    <3>. QED
      BY <3>2, <3>3, OrderFirst
  <2>. QED
    BY <2>1, <2>2
<1>. HIDE DEF X
<1>2. \A T \in SUBSET A : T \in X
  BY <1>1, RemovalInduction
<1>3. A \in X
  BY <1>2
<1>. QED
  BY <1>3 DEF X

\* One operation later, what is left still empties the stack.
LEMMA StillEmpties ==
  ASSUME NEW V, NEW T, NEW s \in Seq(V), EmptiesItself(T, s),
         NEW o \in T, o.val \in V, Fits(o, s)
  PROVE  EmptiesItself(T \ {o}, StackAfter(s, o))
<1>. PICK t : t = StackAfter(s, o)
  OBVIOUS
<1>0. \A p, v : Pops(p, v) => p.type = "pop" /\ p.val = v
  BY DEF Pops
<1>1. CASE o.type = "push"
  <2>1. t = <<o.val>> \o s
    BY <1>1 DEF StackAfter
  <2>2. Len(t) = Len(s) + 1 /\ t[1] = o.val /\ \A k \in 1 .. Len(s) + 1 : k # 1 => k - 1 \in 1 .. Len(s) /\ t[k] = s[k - 1]
    BY <2>1
  <2>3. ~IsOn(o.val, s)
    BY <1>1 DEF EmptiesItself
  <2>4. \A k \in 1 .. Len(t) : \E p \in T \ {o} : Pops(p, t[k])
    <3>. TAKE k \in 1 .. Len(t)
    <3>1. \E p \in T : Pops(p, t[k])
      BY <1>1, <2>2 DEF EmptiesItself
    <3>. QED
      BY <1>0, <1>1, <3>1
  <2>5. ASSUME NEW k \in 1 .. Len(t), NEW l \in 1 .. Len(t), t[k] = t[l]
        PROVE  k = l
    <3>1. CASE k = 1 /\ l # 1
      BY <2>2, <2>3, <2>5, <3>1 DEF IsOn
    <3>2. CASE k # 1 /\ l = 1
      BY <2>2, <2>3, <2>5, <3>2 DEF IsOn
    <3>3. CASE k # 1 /\ l # 1
      <4>1. k - 1 = l - 1
        BY <2>2, <2>5, <3>3 DEF EmptiesItself
      <4>. QED
        BY <4>1
    <3>. QED
      BY <3>1, <3>2, <3>3
  <2>6. ASSUME NEW q \in T \ {o}, q.type = "push"
        PROVE  ~IsOn(q.val, t) /\ \E p \in T \ {o} : Pops(p, q.val)
    <3>1. ~IsOn(q.val, s) /\ q.val # o.val /\ \E p \in T : Pops(p, q.val)
      BY <1>1, <2>6 DEF EmptiesItself
    <3>2. ~IsOn(q.val, t)
      BY <2>2, <3>1 DEF IsOn
    <3>. QED
      BY <1>0, <1>1, <3>1, <3>2
  <2>. QED
    BY <2>4, <2>5, <2>6 DEF EmptiesItself
<1>2. CASE o.type = "pop" /\ o.val # NoVal /\ s # <<>> /\ Head(s) = o.val
  <2>1. t = Tail(s) /\ o.type # "push"
    BY <1>2 DEF StackAfter
  <2>2. Len(t) = Len(s) - 1 /\ s[1] = o.val /\ 1 \in 1 .. Len(s)
        /\ \A k \in 1 .. Len(t) : k + 1 \in 1 .. Len(s) /\ t[k] = s[k + 1] /\ k + 1 # 1
    BY <1>2, <2>1
  <2>3. \A k \in 1 .. Len(t) : t[k] # o.val
    BY <2>2 DEF EmptiesItself
  <2>4. \A k \in 1 .. Len(t) : \E p \in T \ {o} : Pops(p, t[k])
    <3>. TAKE k \in 1 .. Len(t)
    <3>1. \E p \in T : Pops(p, t[k])
      BY <2>2 DEF EmptiesItself
    <3>. QED
      BY <1>0, <2>3, <3>1
  <2>5. ASSUME NEW k \in 1 .. Len(t), NEW l \in 1 .. Len(t), t[k] = t[l]
        PROVE  k = l
    <3>1. k + 1 = l + 1
      BY <2>2, <2>5 DEF EmptiesItself
    <3>. QED
      BY <3>1
  <2>6. ASSUME NEW q \in T \ {o}, q.type = "push"
        PROVE  ~IsOn(q.val, t) /\ \E p \in T \ {o} : Pops(p, q.val)
    <3>1. ~IsOn(q.val, s) /\ \E p \in T : Pops(p, q.val)
      BY <2>6 DEF EmptiesItself
    <3>2. ~IsOn(q.val, t) /\ q.val # o.val
      BY <2>2, <3>1 DEF IsOn
    <3>. QED
      BY <1>0, <3>1, <3>2
  <2>. QED
    BY <2>1, <2>4, <2>5, <2>6 DEF EmptiesItself
<1>3. CASE o.type = "pop" /\ o.val = NoVal /\ s = <<>>
  <2>1. t = s /\ \A p, v : Pops(p, v) => p # o
    BY <1>3 DEF StackAfter, Pops
  <2>. QED
    BY <1>3, <2>1 DEF EmptiesItself
<1>. QED
  BY <1>1, <1>2, <1>3 DEF Fits

\* One history and then, on the stack that it found below its own, another.
LEMMA OneAfterAnother ==
  ASSUME NEW V, NEW A, IsFiniteSet(A), ValuesIn(A) \subseteq V,
         NEW B, A \cap B = {}, NoneBefore(B, A),
         NEW f \in Seq(V), Orders(B, f), \A o \in A : EmptyPop(o) => f = << >>,
         NEW s \in Seq(V), EmptiesItself(A, s), Orders(A, s)
  PROVE  Orders(A \cup B, s \o f)
<1>. DEFINE X == {T \in SUBSET A : \A t \in Seq(V) :
                    EmptiesItself(T, t) /\ Orders(T, t) => Orders(T \cup B, t \o f)}
<1>1. ASSUME NEW T \in SUBSET A, \A o \in T : T \ {o} \in X
      PROVE  T \in X
  <2>. SUFFICES ASSUME NEW t \in Seq(V), EmptiesItself(T, t), Orders(T, t)
                PROVE  Orders(T \cup B, t \o f)
    OBVIOUS
  <2>1. CASE T = {}
    <3>1. Len(t) = 0
      BY <2>1 DEF EmptiesItself
    <3>2. t = <<>> /\ t \o f = f /\ T \cup B = B
      BY <2>1, <3>1
    <3>. QED
      BY <3>2
  <2>2. CASE T # {}
    <3>. PICK o \in T : Fits(o, t) /\ NoneBefore(T, {o}) /\ Orders(T \ {o}, StackAfter(t, o))
      BY <2>2, OrderNext
    <3>1. o.val \in V /\ (EmptyPop(o) => f = <<>>)
      BY DEF ValuesIn
    <3>2. Fits(o, t \o f) /\ StackAfter(t, o) \in Seq(V)
          /\ StackAfter(t \o f, o) = StackAfter(t, o) \o f
      BY <3>1, FitsBelow
    <3>3. EmptiesItself(T \ {o}, StackAfter(t, o))
      BY <3>1, StillEmpties
    <3>4. Orders((T \ {o}) \cup B, StackAfter(t \o f, o))
      BY <1>1, <3>2, <3>3
    <3>5. (T \ {o}) \cup B = (T \cup B) \ {o} /\ NoneBefore(T \cup B, {o})
      BY DEF NoneBefore
    <3>. QED
      BY <3>2, <3>4, <3>5, OrderFirst
  <2>. QED
    BY <2>1, <2>2
<1>. HIDE DEF X
<1>2. \A T \in SUBSET A : T \in X
  BY <1>1, RemovalInduction
<1>3. A \in X
  BY <1>2
<1>. QED
  BY <1>3 DEF X

\* A value whose push may come first and whose pop may come last goes around a
\* history that leaves nothing on the stack.
LEMMA Wrap ==
  ASSUME NEW B, IsFiniteSet(B), \A o \in B : ~EmptyPop(o), NEW u, NEW w, u \notin B, w \notin B,
         u.type = "push", Pops(w, u.val), w.ret >= w.call,
         NoneBefore(B \cup {u, w}, {u}), NoneBefore({w}, B),
         EmptiesItself(B, << >>), Orders(B, << >>)
  PROVE  Orders(B \cup {u, w}, << >>)
<1>. DEFINE V == ValuesIn(B \cup {u})
<1>0. w.type = "pop" /\ w.val = u.val /\ u.val # NoVal /\ u # w
  BY DEF Pops
<1>1. <<u.val>> \in Seq(V) /\ <<>> \in Seq(V) /\ <<>> \o <<u.val>> = <<u.val>> /\ ValuesIn(B) \subseteq V
  <2>1. u.val \in V /\ ValuesIn(B) \subseteq V
    BY DEF ValuesIn
  <2>. HIDE DEF V
  <2>. QED
    BY <2>1
<1>2. Orders({w}, <<u.val>>)
  <2>1. Fits(w, <<u.val>>)
    BY <1>0 DEF Fits
  <2>2. NoneBefore({w}, {w}) /\ {w} \ {w} = {}
    BY DEF NoneBefore
  <2>. QED
    BY <2>1, <2>2, NothingToOrder, OrderFirst
<1>3. Orders(B \cup {w}, <<u.val>>)
  <2>1. B \cap {w} = {}
    OBVIOUS
  <2>2. Orders(B \cup {w}, << >> \o <<u.val>>)
    BY <1>1, <1>2, <2>1, OneAfterAnother
  <2>. QED
    BY <1>1, <2>2
<1>4. Fits(u, << >>) /\ StackAfter(<< >>, u) = <<u.val>>
  BY DEF Fits, StackAfter
<1>5. (B \cup {u, w}) \ {u} = B \cup {w}
  BY <1>0
<1>. QED
  BY <1>3, <1>4, <1>5, OrderFirst

\* A value whose push may come first and that is not removed goes below.
LEMMA WrapNotRemoved ==
  ASSUME NEW B, IsFiniteSet(B), \A o \in B : ~EmptyPop(o), NEW u, u \notin B,
         u.type = "push", NoneBefore(B \cup {u}, {u}), Orders(B, << >>)
  PROVE  Orders(B \cup {u}, << >>)
<1>. DEFINE V == ValuesIn(B \cup {u})
<1>1. <<u.val>> \in Seq(V) /\ <<>> \in Seq(V) /\ <<>> \o <<u.val>> = <<u.val>> /\ ValuesIn(B) \subseteq V
  <2>1. u.val \in V /\ ValuesIn(B) \subseteq V
    BY DEF ValuesIn
  <2>. HIDE DEF V
  <2>. QED
    BY <2>1
<1>2. Orders(B, << >> \o <<u.val>>)
  BY <1>1, Below
<1>3. Fits(u, << >>) /\ StackAfter(<< >>, u) = <<u.val>>
  BY DEF Fits, StackAfter
<1>4. (B \cup {u}) \ {u} = B
  OBVIOUS
<1>. QED
  BY <1>1, <1>2, <1>3, <1>4, OrderFirst

----------------------------------------------------------------------------
(* Pairs of operations that overlap, and other names for the values. *)

\* A push and a pop of its value at once.
OverlappingPair(p, q) ==
  /\ p.type = "push" /\ Pops(q, p.val)
  /\ p.ret >= q.call /\ q.ret >= p.call

Timed(T) == \A o \in T : o.call \in Nat /\ o.ret \in Nat /\ o.call <= o.ret

\* Such a pair can be made in one instant, whatever is on the stack.
LEMMA InsertPair ==
  ASSUME NEW V, NEW T, IsFiniteSet(T), ValuesIn(T) \subseteq V, Timed(T),
         NEW p, NEW q, p \notin T, q \notin T, p.val \in V, Timed({p, q}), OverlappingPair(p, q),
         NEW s \in Seq(V), Orders(T, s)
  PROVE  Orders(T \cup {p, q}, s)
<1>0. /\ p.type = "push" /\ q.type = "pop" /\ q.val = p.val /\ p.val # NoVal /\ p # q
      /\ p.call \in Nat /\ p.ret \in Nat /\ q.call \in Nat /\ q.ret \in Nat
      /\ p.call <= p.ret /\ q.call <= q.ret /\ p.ret >= q.call /\ q.ret >= p.call
  BY DEF OverlappingPair, Pops, Timed
<1>. DEFINE X == {A \in SUBSET T : \A t \in Seq(V) : Orders(A, t) => Orders(A \cup {p, q}, t)}
<1>1. ASSUME NEW A \in SUBSET T, \A o \in A : A \ {o} \in X
      PROVE  A \in X
  <2>. SUFFICES ASSUME NEW t \in Seq(V), Orders(A, t) PROVE Orders(A \cup {p, q}, t)
    OBVIOUS
  <2>1. CASE NoneBefore(A, {p}) /\ NoneBefore(A, {q})
    <3>1. <<p.val>> \o t # <<>> /\ Head(<<p.val>> \o t) = q.val /\ Tail(<<p.val>> \o t) = t
      BY <1>0
    <3>2. Fits(p, t) /\ StackAfter(t, p) = <<p.val>> \o t
      BY <1>0 DEF Fits, StackAfter
    <3>3. Fits(q, <<p.val>> \o t) /\ StackAfter(<<p.val>> \o t, q) = t
      BY <1>0, <3>1 DEF Fits, StackAfter
    <3>4. Orders(A \cup {q}, <<p.val>> \o t)
      <4>1. (A \cup {q}) \ {q} = A /\ NoneBefore(A \cup {q}, {q})
        BY <1>0, <2>1 DEF NoneBefore
      <4>. QED
        BY <3>3, <4>1, OrderFirst
    <3>5. (A \cup {p, q}) \ {p} = A \cup {q} /\ NoneBefore(A \cup {p, q}, {p})
      BY <1>0, <2>1 DEF NoneBefore
    <3>. QED
      BY <3>2, <3>4, <3>5, OrderFirst
  <2>2. CASE \E a \in A : ~(a.ret >= p.call) \/ ~(a.ret >= q.call)
    <3>. PICK a \in A : ~(a.ret >= p.call) \/ ~(a.ret >= q.call)
      BY <2>2
    <3>. PICK o \in A : Fits(o, t) /\ NoneBefore(A, {o}) /\ Orders(A \ {o}, StackAfter(t, o))
      BY OrderNext
    <3>1. p.ret >= o.call /\ q.ret >= o.call
      <4>1. a.ret \in Nat /\ o.call \in Nat
        BY DEF Timed
      <4>2. a.ret >= o.call
        BY DEF NoneBefore
      <4>. QED
        BY <1>0, <4>1, <4>2
    <3>2. StackAfter(t, o) \in Seq(V)
      <4>1. o.val \in V /\ <<>> \in Seq(V)
        BY DEF ValuesIn
      <4>. QED
        BY <4>1, FitsBelow
    <3>3. Orders((A \ {o}) \cup {p, q}, StackAfter(t, o))
      BY <1>1, <3>2
    <3>4. (A \ {o}) \cup {p, q} = (A \cup {p, q}) \ {o} /\ NoneBefore(A \cup {p, q}, {o})
      BY <3>1 DEF NoneBefore
    <3>. QED
      BY <3>3, <3>4, OrderFirst
  <2>. QED
    BY <2>1, <2>2 DEF NoneBefore
<1>. HIDE DEF X
<1>2. \A A \in SUBSET T : A \in X
  BY <1>1, RemovalInduction
<1>3. T \in X
  BY <1>2
<1>. QED
  BY <1>3 DEF X

\* The operations on d in T are such a pair.
IsPairIn(T, d) ==
  \E p, q \in T : OverlappingPair(p, q) /\ {o \in T : o.val = d} = {p, q}

\* A history can be ordered if it can be without pairs that overlap.
LEMMA DropPairs ==
  ASSUME NEW T, IsFiniteSet(T), Timed(T), NEW D, IsFiniteSet(D),
         \A d \in D : IsPairIn(T, d), Orders({o \in T : o.val \notin D}, << >>)
  PROVE  Orders(T, << >>)
<1>. DEFINE V == ValuesIn(T)
            Rest(E) == {o \in T : o.val \notin E}
            X == {E \in SUBSET D : Orders(Rest(E), << >>) => Orders(T, << >>)}
<1>1. ASSUME NEW E \in SUBSET D, \A d \in E : E \ {d} \in X
      PROVE  E \in X
  <2>. SUFFICES ASSUME Orders(Rest(E), << >>) PROVE Orders(T, << >>)
    OBVIOUS
  <2>1. CASE E = {}
    <3>1. Rest(E) = T
      BY <2>1
    <3>. QED
      BY <3>1
  <2>2. CASE E # {}
    <3>. PICK d \in E : TRUE
      BY <2>2
    <3>. PICK p \in T, q \in T : OverlappingPair(p, q) /\ {o \in T : o.val = d} = {p, q}
      BY DEF IsPairIn
    <3>1. Rest(E \ {d}) = Rest(E) \cup {p, q} /\ p \notin Rest(E) /\ q \notin Rest(E)
      OBVIOUS
    <3>2. IsFiniteSet(Rest(E)) /\ Timed(Rest(E)) /\ Timed({p, q})
      BY FS_Subset DEF Timed
    <3>3. ValuesIn(Rest(E)) \subseteq V /\ p.val \in V
      BY DEF ValuesIn
    <3>. HIDE DEF Rest, V
    <3>4. << >> \in Seq(V)
      OBVIOUS
    <3>5. Orders(Rest(E) \cup {p, q}, << >>)
      BY <3>1, <3>2, <3>3, <3>4, InsertPair
    <3>. QED
      BY <1>1, <3>1, <3>5
  <2>. QED
    BY <2>1, <2>2
<1>2. Rest(D) = {o \in T : o.val \notin D}
  OBVIOUS
<1>. HIDE DEF X, Rest
<1>3. \A E \in SUBSET D : E \in X
  BY <1>1, RemovalInduction
<1>4. D \in X
  BY <1>3
<1>. QED
  BY <1>2, <1>4 DEF X

\* Two histories operation by operation: the same but for the names of values.
SameButNames(K, f, g) ==
  /\ \A k \in K : /\ f[k].type = g[k].type /\ f[k].call = g[k].call /\ f[k].ret = g[k].ret
                  /\ f[k].val = NoVal <=> g[k].val = NoVal
  /\ \A j, k \in K : /\ f[j].val = f[k].val <=> g[j].val = g[k].val
                     /\ f[j] = f[k] \/ g[j] = g[k] => j = k

\* Stacks position by position.
StacksAlike(K, f, g, s, t) ==
  /\ Len(s) = Len(t)
  /\ \A i \in 1 .. Len(s) : \E k \in K : s[i] = f[k].val /\ t[i] = g[k].val

\* An operation fits on one if the other fits on the other.
LEMMA FitsAlike ==
  ASSUME NEW K, NEW f, NEW g, SameButNames(K, f, g), NEW V, NEW s \in Seq(V), NEW t \in Seq(V),
         StacksAlike(K, f, g, s, t), NEW k \in K, Fits(g[k], t), f[k].val \in V, g[k].val \in V
  PROVE  /\ Fits(f[k], s) /\ StacksAlike(K, f, g, StackAfter(s, f[k]), StackAfter(t, g[k]))
         /\ StackAfter(s, f[k]) \in Seq(V) /\ StackAfter(t, g[k]) \in Seq(V)
<1>0. /\ f[k].type = g[k].type /\ (f[k].val = NoVal <=> g[k].val = NoVal)
      /\ \A j \in K : f[j].val = f[k].val <=> g[j].val = g[k].val
  BY DEF SameButNames
<1>1. Fits(f[k], s)
  <2>1. CASE g[k].type = "push"
    BY <1>0, <2>1 DEF Fits
  <2>2. CASE g[k].type = "pop" /\ g[k].val # NoVal /\ t # <<>> /\ Head(t) = g[k].val
    <3>1. 1 \in 1 .. Len(s) /\ s # <<>> /\ Head(s) = s[1] /\ Head(t) = t[1]
      BY <2>2 DEF StacksAlike
    <3>2. s[1] = f[k].val
      BY <1>0, <2>2, <3>1 DEF StacksAlike
    <3>. QED
      BY <1>0, <2>2, <3>1, <3>2 DEF Fits
  <2>3. CASE g[k].type = "pop" /\ g[k].val = NoVal /\ t = <<>>
    <3>1. s = <<>>
      BY <2>3 DEF StacksAlike
    <3>. QED
      BY <1>0, <2>3, <3>1 DEF Fits
  <2>. QED
    BY <2>1, <2>2, <2>3 DEF Fits
<1>2. StackAfter(s, f[k]) \in Seq(V) /\ StackAfter(t, g[k]) \in Seq(V)
  <2>1. << >> \in Seq(V)
    OBVIOUS
  <2>. QED
    BY <1>1, <2>1, FitsBelow
<1>3. StacksAlike(K, f, g, StackAfter(s, f[k]), StackAfter(t, g[k]))
  <2>1. CASE g[k].type = "push"
    <3>1. StackAfter(s, f[k]) = <<f[k].val>> \o s /\ StackAfter(t, g[k]) = <<g[k].val>> \o t
      BY <1>0, <2>1 DEF StackAfter
    <3>2. Len(<<f[k].val>> \o s) = Len(s) + 1 /\ Len(<<g[k].val>> \o t) = Len(t) + 1
      OBVIOUS
    <3>3. ASSUME NEW i \in 1 .. Len(s) + 1
          PROVE  \E j \in K : (<<f[k].val>> \o s)[i] = f[j].val /\ (<<g[k].val>> \o t)[i] = g[j].val
      <4>1. CASE i = 1
        <5>1. (<<f[k].val>> \o s)[i] = f[k].val /\ (<<g[k].val>> \o t)[i] = g[k].val
          BY <4>1
        <5>. QED
          BY <5>1
      <4>2. CASE i # 1
        <5>1. i - 1 \in 1 .. Len(s) /\ Len(s) = Len(t)
          BY <4>2 DEF StacksAlike
        <5>2. (<<f[k].val>> \o s)[i] = s[i - 1] /\ (<<g[k].val>> \o t)[i] = t[i - 1]
          BY <4>2, <5>1
        <5>. QED
          BY <5>1, <5>2 DEF StacksAlike
      <4>. QED
        BY <4>1, <4>2
    <3>. QED
      BY <3>1, <3>2, <3>3 DEF StacksAlike
  <2>2. CASE g[k].type = "pop" /\ g[k].val # NoVal /\ t # <<>>
    <3>1. Len(s) = Len(t) /\ s # <<>> /\ f[k].type # "push" /\ g[k].type # "push" /\ f[k].val # NoVal
      BY <1>0, <2>2 DEF StacksAlike
    <3>2. StackAfter(s, f[k]) = Tail(s) /\ StackAfter(t, g[k]) = Tail(t)
      BY <2>2, <3>1 DEF StackAfter
    <3>3. Len(Tail(s)) = Len(s) - 1 /\ Len(Tail(t)) = Len(s) - 1
          /\ \A i \in 1 .. Len(s) - 1 : Tail(s)[i] = s[i + 1] /\ Tail(t)[i] = t[i + 1] /\ i + 1 \in 1 .. Len(s)
      BY <2>2, <3>1
    <3>. QED
      BY <3>2, <3>3 DEF StacksAlike
  <2>3. CASE g[k].type = "pop" /\ g[k].val = NoVal
    BY <1>0, <2>3 DEF StackAfter
  <2>. QED
    BY <2>1, <2>2, <2>3 DEF Fits
<1>. QED
  BY <1>1, <1>2, <1>3

\* A history can be ordered if it can with other names for its values.
LEMMA Renaming ==
  ASSUME NEW K, IsFiniteSet(K), NEW f, NEW g, SameButNames(K, f, g),
         Orders({g[k] : k \in K}, << >>)
  PROVE  Orders({f[k] : k \in K}, << >>)
<1>. DEFINE V == {f[k].val : k \in K} \cup {g[k].val : k \in K}
            X == {J \in SUBSET K : \A s, t \in Seq(V) :
                    StacksAlike(K, f, g, s, t) /\ Orders({g[k] : k \in J}, t)
                      => Orders({f[k] : k \in J}, s)}
<1>0. \A k \in K : f[k].val \in V /\ g[k].val \in V
  OBVIOUS
<1>. HIDE DEF V
<1>1. ASSUME NEW J \in SUBSET K, \A k \in J : J \ {k} \in X
      PROVE  J \in X
  <2>. SUFFICES ASSUME NEW s \in Seq(V), NEW t \in Seq(V), StacksAlike(K, f, g, s, t),
                       Orders({g[k] : k \in J}, t)
                PROVE  Orders({f[k] : k \in J}, s)
    OBVIOUS
  <2>1. CASE J = {}
    <3>1. {f[k] : k \in J} = {}
      BY <2>1
    <3>. QED
      BY <3>1, NothingToOrder
  <2>2. CASE J # {}
    <3>1. {g[k] : k \in J} # {}
      BY <2>2
    <3>. PICK k \in J : Fits(g[k], t) /\ NoneBefore({g[j] : j \in J}, {g[k]})
                        /\ Orders({g[j] : j \in J} \ {g[k]}, StackAfter(t, g[k]))
      BY <3>1, OrderNext
    <3>2. {g[j] : j \in J} \ {g[k]} = {g[j] : j \in J \ {k}}
          /\ {f[j] : j \in J} \ {f[k]} = {f[j] : j \in J \ {k}}
      BY DEF SameButNames
    <3>3. /\ Fits(f[k], s) /\ StacksAlike(K, f, g, StackAfter(s, f[k]), StackAfter(t, g[k]))
          /\ StackAfter(s, f[k]) \in Seq(V) /\ StackAfter(t, g[k]) \in Seq(V)
      BY <1>0, FitsAlike
    <3>4. NoneBefore({f[j] : j \in J}, {f[k]})
      BY DEF NoneBefore, SameButNames
    <3>5. Orders({f[j] : j \in J} \ {f[k]}, StackAfter(s, f[k]))
      BY <1>1, <3>2, <3>3
    <3>6. f[k] \in {f[j] : j \in J}
      OBVIOUS
    <3>. QED
      BY <3>3, <3>4, <3>5, <3>6, OrderFirst
  <2>. QED
    BY <2>1, <2>2
<1>. HIDE DEF X
<1>2. \A J \in SUBSET K : J \in X
  BY <1>1, RemovalInduction
<1>3. K \in X /\ <<>> \in Seq(V) /\ StacksAlike(K, f, g, << >>, << >>)
  BY <1>2 DEF StacksAlike
<1>. QED
  BY <1>3 DEF X

----------------------------------------------------------------------------
(* The values of a history and their operations. *)

LEMMA FiniteImage ==
  ASSUME NEW S, IsFiniteSet(S), NEW f
  PROVE  IsFiniteSet({f[x] : x \in S})
<1>. DEFINE g == [x \in S |-> f[x]]
            T == {f[x] : x \in S}
<1>1. g \in Surjection(S, T)
  BY DEF Surjection
<1>. QED
  BY <1>1, FS_Surjection

\* A value whose intervals are closed, in order, and of times that occur.
ValueOK(v) ==
  /\ v.val # NoVal
  /\ v.add.lb \in Nat /\ v.add.ub \in Nat /\ v.rmv.lb \in Nat /\ v.rmv.ub \in Nat
  /\ 0 < v.add.lb /\ v.add.lb < v.add.ub /\ v.add.ub < v.rmv.lb /\ v.rmv.lb < v.rmv.ub
  /\ v.rmv # End => v.rmv.ub < POSINF - 2

\* Every value occurs once and every push has an end of its own.
ValuesOK(vs) ==
  /\ IsFiniteSet(vs)
  /\ \A v \in vs : ValueOK(v)
  /\ \A v, w \in vs : v.val = w.val \/ v.add.ub = w.add.ub => v = w

EmptyOK(e) ==
  /\ e.lb \in Nat /\ e.ub \in Nat /\ e.lb < e.ub /\ e.ub < POSINF - 2
  /\ e.lo = FALSE /\ e.uo = FALSE

\* The empty pops are in the order of their returns.
EmptiesOK(es) ==
  /\ Len(es) \in Nat /\ DOMAIN es = 1 .. Len(es)
  /\ \A k \in DOMAIN es : EmptyOK(es[k])
  /\ \A j, k \in DOMAIN es : j < k => es[j].ub < es[k].ub

HistoryOK(h) == ValuesOK(h.values) /\ EmptiesOK(h.empties)

PushOf(v) == [type |-> "push", val |-> v.val, call |-> v.add.lb, ret |-> v.add.ub]
PopOf(v) == [type |-> "pop", val |-> v.val, call |-> v.rmv.lb, ret |-> v.rmv.ub]
EmptyPopOf(e) == [type |-> "pop", val |-> NoVal, call |-> e.lb, ret |-> e.ub]

OpsOf(vs) == {PushOf(v) : v \in vs} \cup {PopOf(v) : v \in {w \in vs : w.rmv # End}}

\* The interval of a value that is never removed.
LEMMA EndIs ==
  /\ End.lb = POSINF - 2 /\ End.ub = POSINF /\ End.lo = FALSE /\ End.uo = FALSE
  /\ POSINF \in Nat /\ POSINF - 2 \in Nat /\ POSINF - 2 > 0
BY PosInfAssumption DEF End, Closed, Atom

LEMMA RemovedBefore ==
  ASSUME NEW v, ValueOK(v)
  PROVE  v.rmv.lb <= POSINF - 2 /\ (v.rmv.lb < POSINF - 2 <=> v.rmv # End)
BY EndIs DEF ValueOK

LEMMA OpsAre ==
  ASSUME NEW vs, NEW o \in OpsOf(vs)
  PROVE  \/ \E v \in vs : o = PushOf(v) /\ o.type = "push" /\ o.val = v.val
                          /\ o.call = v.add.lb /\ o.ret = v.add.ub
         \/ \E v \in vs : o = PopOf(v) /\ o.type = "pop" /\ o.val = v.val /\ v.rmv # End
                          /\ o.call = v.rmv.lb /\ o.ret = v.rmv.ub
BY DEF OpsOf, PushOf, PopOf

LEMMA OpsOfUnion ==
  ASSUME NEW A, NEW B
  PROVE  OpsOf(A \cup B) = OpsOf(A) \cup OpsOf(B)
BY DEF OpsOf

LEMMA OpsOfNone == OpsOf({}) = {}
BY DEF OpsOf

LEMMA PartOK ==
  ASSUME NEW vs, ValuesOK(vs), NEW ws \in SUBSET vs
  PROVE  ValuesOK(ws)
<1>1. IsFiniteSet(ws)
  BY FS_Subset DEF ValuesOK
<1>. QED
  BY <1>1 DEF ValuesOK

\* The operations are finitely many, timed, and none is an empty pop.
LEMMA OpsOfOK ==
  ASSUME NEW vs, ValuesOK(vs)
  PROVE  /\ IsFiniteSet(OpsOf(vs)) /\ Timed(OpsOf(vs))
         /\ \A o \in OpsOf(vs) : ~EmptyPop(o)
<1>1. IsFiniteSet(OpsOf(vs))
  <2>. DEFINE f == [v \in vs |-> PushOf(v)]
              g == [v \in vs |-> PopOf(v)]
              R == {w \in vs : w.rmv # End}
  <2>1. IsFiniteSet(vs) /\ IsFiniteSet(R)
    BY FS_Subset DEF ValuesOK
  <2>2. {f[v] : v \in vs} = {PushOf(v) : v \in vs} /\ {g[v] : v \in R} = {PopOf(v) : v \in R}
    OBVIOUS
  <2>. HIDE DEF f, g, R
  <2>3. IsFiniteSet({f[v] : v \in vs}) /\ IsFiniteSet({g[v] : v \in R})
    BY <2>1, FiniteImage
  <2>. QED
    BY <2>2, <2>3, FS_Union DEF OpsOf, R
<1>2. ASSUME NEW o \in OpsOf(vs)
      PROVE  o.call \in Nat /\ o.ret \in Nat /\ o.call <= o.ret /\ ~EmptyPop(o)
  <2>1. CASE \E v \in vs : o.type = "push" /\ o.call = v.add.lb /\ o.ret = v.add.ub
    BY <2>1 DEF ValuesOK, ValueOK, EmptyPop
  <2>2. CASE \E v \in vs : o.val = v.val /\ o.call = v.rmv.lb /\ o.ret = v.rmv.ub
    BY <2>2 DEF ValuesOK, ValueOK, EmptyPop
  <2>. QED
    BY <2>1, <2>2, OpsAre
<1>. QED
  BY <1>1, <1>2 DEF Timed

\* If every value is removed, nothing is left on the stack.
LEMMA OpsEmptyThemselves ==
  ASSUME NEW vs, ValuesOK(vs), \A v \in vs : v.rmv # End
  PROVE  EmptiesItself(OpsOf(vs), << >>)
<1>1. ASSUME NEW o \in OpsOf(vs), o.type = "push"
      PROVE  \E v \in vs : o = PushOf(v) /\ o.val = v.val
  BY <1>1, OpsAre
<1>2. ASSUME NEW v \in vs
      PROVE  PopOf(v) \in OpsOf(vs) /\ Pops(PopOf(v), v.val)
  BY DEF OpsOf, PopOf, Pops, ValuesOK, ValueOK
<1>3. \A v : ~IsOn(v, << >>)
  BY DEF IsOn
<1>4. ASSUME NEW o \in OpsOf(vs), NEW q \in OpsOf(vs), o.type = "push", q.type = "push", o.val = q.val
      PROVE  o = q
  BY <1>1, <1>4 DEF ValuesOK
<1>5. Len(<< >>) = 0
  OBVIOUS
<1>. QED
  BY <1>1, <1>2, <1>3, <1>4, <1>5 DEF EmptiesItself

\* Different values have different operations.
LEMMA OpsApart ==
  ASSUME NEW A, NEW B, \A a \in A, b \in B : a.val # b.val
  PROVE  OpsOf(A) \cap OpsOf(B) = {}
<1>1. \A o \in OpsOf(A) : \E a \in A : o.val = a.val
  BY OpsAre
<1>2. \A o \in OpsOf(B) : \E a \in B : o.val = a.val
  BY OpsAre
<1>. QED
  BY <1>1, <1>2

\* Values that are all removed from x on, or never, end no operation before x.
LEMMA OpsFrom ==
  ASSUME NEW B, ValuesOK(B), NEW x \in Nat, \A v \in B : v.add.ub >= x, NEW o \in OpsOf(B)
  PROVE  o.ret >= x
BY OpsAre DEF ValuesOK, ValueOK

\* Values whose removals are called by x have all their calls by x.
LEMMA OpsUpto ==
  ASSUME NEW A, ValuesOK(A), NEW x \in Nat, \A v \in A : v.rmv.lb <= x, NEW o \in OpsOf(A)
  PROVE  o.call <= x
BY OpsAre DEF ValuesOK, ValueOK

----------------------------------------------------------------------------
(* Pruning. *)

LEMMA CoverOfIs ==
  ASSUME NEW v
  PROVE  CoverOf(v).lb = v.add.ub /\ CoverOf(v).ub = v.rmv.lb
         /\ CoverOf(v) = Closed(v.add.ub, v.rmv.lb)
BY DEF CoverOf, Closed, Atom

\* A minmax value goes around any others.
LEMMA AddMinmax ==
  ASSUME NEW vs, ValuesOK(vs), NEW d \in Minmax(vs), NEW B \in SUBSET vs, d \notin B,
         Orders(OpsOf(B), << >>)
  PROVE  Orders(OpsOf(B \cup {d}), << >>)
<1>1. ValueOK(d) /\ d \in vs
  BY DEF Minmax, ValuesOK
<1>2. \A w \in vs : w.add.ub >= d.add.lb /\ w.rmv.lb <= d.rmv.ub
  BY CoverOfIs DEF Minmax
<1>3. ValuesOK(B) /\ ValuesOK({d}) /\ ValuesOK(vs)
  BY <1>1, PartOK
<1>4. /\ IsFiniteSet(OpsOf(B)) /\ \A o \in OpsOf(B) : ~EmptyPop(o)
  BY <1>3, OpsOfOK
<1>5. OpsOf(B) \cap OpsOf({d}) = {}
  BY <1>1, OpsApart DEF ValuesOK
<1>6. OpsOf(B \cup {d}) = OpsOf(B) \cup OpsOf({d})
  BY OpsOfUnion
<1>. DEFINE u == PushOf(d)
            w == PopOf(d)
<1>7. /\ u.type = "push" /\ u.val = d.val /\ u.call = d.add.lb /\ u.ret = d.add.ub
      /\ w.type = "pop" /\ w.val = d.val /\ w.call = d.rmv.lb /\ w.ret = d.rmv.ub
  BY DEF PushOf, PopOf
<1>8. OpsOf({d}) = IF d.rmv = End THEN {u} ELSE {u, w}
  BY DEF OpsOf
<1>9. \A o \in OpsOf(B) : o.ret >= d.add.lb
  BY <1>1, <1>2, <1>3, OpsFrom DEF ValueOK
<1>. HIDE DEF u, w
<1>10. u \notin OpsOf(B) /\ u.ret >= u.call /\ NoneBefore(OpsOf(B) \cup {u}, {u})
  BY <1>1, <1>5, <1>7, <1>8, <1>9 DEF NoneBefore, ValueOK
<1>11. CASE d.rmv = End
  <2>1. Orders(OpsOf(B) \cup {u}, << >>)
    BY <1>4, <1>7, <1>10, WrapNotRemoved
  <2>. QED
    BY <1>6, <1>8, <1>11, <2>1
<1>12. CASE d.rmv # End
  <2>1. w \notin OpsOf(B) /\ w.ret >= w.call /\ Pops(w, u.val)
        /\ NoneBefore(OpsOf(B) \cup {u, w}, {u})
    <3>1. w \in OpsOf({d}) /\ w \notin OpsOf(B)
      BY <1>5, <1>8, <1>12
    <3>2. w.ret >= w.call /\ w.ret >= u.call
      BY <1>1, <1>7 DEF ValueOK
    <3>3. Pops(w, u.val)
      BY <1>1, <1>7 DEF ValueOK, Pops
    <3>4. NoneBefore(OpsOf(B) \cup {u, w}, {u})
      BY <1>10, <3>2 DEF NoneBefore
    <3>. QED
      BY <3>1, <3>2, <3>3, <3>4
  <2>2. \A v \in B : v.rmv # End /\ v.rmv.lb <= d.rmv.ub
    <3>. TAKE v \in B
    <3>1. ValueOK(v) /\ v.rmv.lb <= d.rmv.ub /\ d.rmv.ub < POSINF - 2 /\ d.rmv.ub \in Nat
      BY <1>1, <1>2, <1>12 DEF ValuesOK, ValueOK
    <3>2. v.rmv.lb < POSINF - 2
      BY <3>1, EndIs DEF ValueOK
    <3>. QED
      BY <3>1, <3>2, RemovedBefore
  <2>3. EmptiesItself(OpsOf(B), << >>)
    BY <1>3, <2>2, OpsEmptyThemselves
  <2>4. NoneBefore({w}, OpsOf(B))
    <3>1. \A o \in OpsOf(B) : o.call <= d.rmv.ub
      BY <1>1, <1>3, <2>2, OpsUpto DEF ValueOK
    <3>2. \A o \in OpsOf(B) : o.call \in Nat
      BY <1>3, OpsOfOK DEF Timed
    <3>. QED
      BY <1>1, <1>7, <3>1, <3>2 DEF NoneBefore, ValueOK
  <2>5. Orders(OpsOf(B) \cup {u, w}, << >>)
    BY <1>4, <1>7, <1>10, <2>1, <2>3, <2>4, Wrap
  <2>. QED
    BY <1>6, <1>8, <1>12, <2>5
<1>. QED
  BY <1>11, <1>12

\* One round of minmax_prune.
LEMMA PruneOnce ==
  ASSUME NEW vs, ValuesOK(vs), Orders(OpsOf(vs \ Minmax(vs)), << >>)
  PROVE  Orders(OpsOf(vs), << >>)
<1>. DEFINE M == Minmax(vs)
            X == {E \in SUBSET M : Orders(OpsOf((vs \ M) \cup E), << >>)}
<1>0. IsFiniteSet(M) /\ M \subseteq vs
  BY FS_Subset DEF ValuesOK, Minmax
<1>1. ASSUME NEW E \in SUBSET M, \A d \in E : E \ {d} \in X
      PROVE  E \in X
  <2>. SUFFICES Orders(OpsOf((vs \ M) \cup E), << >>)
    OBVIOUS
  <2>1. CASE E = {}
    BY <2>1
  <2>2. CASE E # {}
    <3>. PICK d \in E : TRUE
      BY <2>2
    <3>. DEFINE B == (vs \ M) \cup (E \ {d})
    <3>1. Orders(OpsOf(B), << >>)
      BY <1>1
    <3>2. B \in SUBSET vs /\ d \notin B /\ d \in M /\ B \cup {d} = (vs \ M) \cup E
      BY <1>0
    <3>. HIDE DEF B
    <3>3. Orders(OpsOf(B \cup {d}), << >>)
      BY <3>1, <3>2, AddMinmax
    <3>. QED
      BY <3>2, <3>3
  <2>. QED
    BY <2>1, <2>2
<1>. HIDE DEF X
<1>2. \A E \in SUBSET M : E \in X
  BY <1>0, <1>1, RemovalInduction
<1>3. M \in X
  BY <1>2
<1>4. (vs \ M) \cup M = vs
  BY <1>0
<1>. QED
  BY <1>3, <1>4 DEF X

\* The rounds of minmax_prune.
PruneRounds(vs, n, r) ==
  /\ r[0] = vs /\ MinmaxPrune(vs) = r[n]
  /\ \A k \in 1 .. n : r[k] = r[k - 1] \ Minmax(r[k - 1])

PruneEquation(r, vs) ==
  r = [k \in 0 .. Cardinality(vs) |->
         IF k = 0 THEN vs ELSE r[k - 1] \ Minmax(r[k - 1])]

LEMMA PruneIsChosen ==
  ASSUME NEW vs
  PROVE  MinmaxPrune(vs) = (CHOOSE r : PruneEquation(r, vs))[Cardinality(vs)]
BY Zenon DEF MinmaxPrune, PruneEquation

LEMMA PruneByRounds ==
  ASSUME NEW vs, IsFiniteSet(vs)
  PROVE  \E n \in Nat : n = Cardinality(vs) /\ \E r : PruneRounds(vs, n, r)
<1>. PICK n \in Nat : n = Cardinality(vs)
  BY FS_CardinalityType
<1>. DEFINE D == SUBSET vs
            g == [x \in (0 .. n) \X D |-> x[2] \ Minmax(x[2])]
<1>1. g \in [(0 .. n) \X D -> D]
  OBVIOUS
<1>2. \A k \in 0 .. n, w \in D : g[<<k, w>>] = w \ Minmax(w)
  OBVIOUS
<1>3. vs \in D
  OBVIOUS
<1>. HIDE DEF g, D
<1>4. PICK r : SolvesOnInterval(r, 0, n, D, vs, g)
  BY <1>1, <1>3, RecursionOnInterval, 0 \in Int, n \in Int
<1>5. r \in [0 .. n -> D] /\ r = [k \in 0 .. n |-> IF k = 0 THEN vs ELSE g[<<k, r[k - 1]>>]]
  BY <1>4 DEF SolvesOnInterval
<1>. DEFINE G(k) == IF k = 0 THEN vs ELSE g[<<k, r[k - 1]>>]
            H(k) == IF k = 0 THEN vs ELSE r[k - 1] \ Minmax(r[k - 1])
<1>6. \A k \in 0 .. n : G(k) = H(k)
  <2>. TAKE k \in 0 .. n
  <2>1. CASE k = 0
    BY <2>1
  <2>2. CASE k # 0
    <3>1. k - 1 \in 0 .. n
      BY <2>2
    <3>2. r[k - 1] \in D
      BY <1>5, <3>1
    <3>. QED
      BY <1>2, <2>2, <3>2
  <2>. QED
    BY <2>1, <2>2
<1>7. r = [k \in 0 .. n |-> G(k)]
  BY <1>5, Zenon
<1>8. r = [k \in 0 .. n |-> H(k)]
  <2>. HIDE DEF G, H
  <2>. QED
    BY <1>6, <1>7
<1>9. \E q : PruneEquation(q, vs)
  <2>1. PruneEquation(r, vs)
    BY <1>8 DEF PruneEquation
  <2>. QED
    BY <2>1
<1>. DEFINE q == CHOOSE x : PruneEquation(x, vs)
<1>10. PruneEquation(q, vs) /\ MinmaxPrune(vs) = q[n]
  BY <1>9, PruneIsChosen
<1>. HIDE DEF q
<1>11. q = [k \in 0 .. n |-> IF k = 0 THEN vs ELSE q[k - 1] \ Minmax(q[k - 1])]
  BY <1>10 DEF PruneEquation
<1>12. q[0] = vs /\ \A k \in 1 .. n : q[k] = q[k - 1] \ Minmax(q[k - 1])
  <2>1. \A k \in 0 .. n : q[k] = IF k = 0 THEN vs ELSE q[k - 1] \ Minmax(q[k - 1])
    BY <1>11, Zenon
  <2>2. 0 \in 0 .. n /\ \A k \in 1 .. n : k \in 0 .. n /\ k # 0
    OBVIOUS
  <2>. QED
    BY <2>1, <2>2, Zenon
<1>13. PruneRounds(vs, n, q)
  BY <1>10, <1>12 DEF PruneRounds
<1>. QED
  BY <1>13

\* What minmax_prune leaves can be ordered only if the whole can.
LEMMA PruneIsSound ==
  ASSUME NEW vs, ValuesOK(vs)
  PROVE  /\ MinmaxPrune(vs) \subseteq vs
         /\ Orders(OpsOf(MinmaxPrune(vs)), << >>) => Orders(OpsOf(vs), << >>)
<1>. PICK n \in Nat : n = Cardinality(vs) /\ \E r : PruneRounds(vs, n, r)
  BY PruneByRounds DEF ValuesOK
<1>. PICK r : PruneRounds(vs, n, r)
  OBVIOUS
<1>. DEFINE X == {k \in Nat : k <= n =>
                    /\ r[k] \subseteq vs
                    /\ Orders(OpsOf(r[k]), << >>) => Orders(OpsOf(vs), << >>)}
<1>1. 0 \in X
  BY DEF PruneRounds
<1>2. ASSUME NEW k \in Nat, k \in X
      PROVE  k + 1 \in X
  <2>. SUFFICES ASSUME k + 1 <= n
                PROVE  /\ r[k + 1] \subseteq vs
                       /\ Orders(OpsOf(r[k + 1]), << >>) => Orders(OpsOf(vs), << >>)
    OBVIOUS
  <2>1. k + 1 \in 1 .. n /\ (k + 1) - 1 = k /\ k <= n
    OBVIOUS
  <2>2. r[k + 1] = r[k] \ Minmax(r[k])
    BY <2>1 DEF PruneRounds
  <2>3. r[k] \subseteq vs /\ (Orders(OpsOf(r[k]), << >>) => Orders(OpsOf(vs), << >>))
    BY <1>2, <2>1
  <2>4. ValuesOK(r[k])
    BY <2>3, PartOK
  <2>. QED
    BY <2>2, <2>3, <2>4, PruneOnce
<1>. HIDE DEF X
<1>3. \A k \in Nat : k \in X
  BY <1>1, <1>2, NatSetInduction
<1>4. n \in X /\ MinmaxPrune(vs) = r[n]
  BY <1>3 DEF PruneRounds
<1>. QED
  BY <1>4 DEF X

----------------------------------------------------------------------------
(* The cover and its gaps. *)

\* Nth counts the values in the order of the set.
LEMMA NthCounts ==
  ASSUME NEW vs, ValuesOK(vs), NEW n \in Nat, n = Cardinality(vs)
  PROVE  /\ \A k \in 1 .. n : Nth(vs, k) \in vs
         /\ \A v \in vs : \E k \in 1 .. n : v = Nth(vs, k)
         /\ \A k, l \in 1 .. n : k <= l => Nth(vs, k).add.ub <= Nth(vs, l).add.ub
<1>. DEFINE f == [v \in vs |-> Cardinality(Earlier(vs, v))]
<1>1. /\ IsFiniteSet(vs) /\ \A v \in vs : v.add.ub \in Nat
      /\ \A v, w \in vs : v.add.ub = w.add.ub => v = w
  BY DEF ValuesOK, ValueOK
<1>2. ASSUME NEW v \in vs
      PROVE  IsFiniteSet(Earlier(vs, v)) /\ f[v] \in Nat /\ f[v] = Cardinality(Earlier(vs, v))
  <2>1. Earlier(vs, v) \in SUBSET vs
    BY DEF Earlier
  <2>. QED
    BY <1>1, <2>1, FS_Subset, FS_CardinalityType
<1>3. ASSUME NEW v \in vs
      PROVE  f[v] \in 0 .. n - 1
  <2>1. Earlier(vs, v) \in SUBSET (vs \ {v})
    BY <1>1 DEF Earlier
  <2>2. IsFiniteSet(vs \ {v}) /\ Cardinality(vs \ {v}) = n - 1
    BY <1>1, FS_RemoveElement
  <2>3. Cardinality(Earlier(vs, v)) <= n - 1
    BY <2>1, <2>2, FS_Subset
  <2>. QED
    BY <1>2, <2>3
<1>4. ASSUME NEW v \in vs, NEW w \in vs, v.add.ub < w.add.ub
      PROVE  f[v] < f[w]
  <2>1. Earlier(vs, v) \in SUBSET (Earlier(vs, w) \ {v}) /\ v \in Earlier(vs, w)
    BY <1>1, <1>4 DEF Earlier
  <2>2. IsFiniteSet(Earlier(vs, w) \ {v}) /\ Cardinality(Earlier(vs, w) \ {v}) = f[w] - 1
    BY <1>2, <2>1, FS_RemoveElement
  <2>3. Cardinality(Earlier(vs, v)) <= f[w] - 1
    BY <2>1, <2>2, FS_Subset
  <2>4. f[v] \in Nat /\ f[w] \in Nat /\ f[v] <= f[w] - 1
    BY <1>2, <2>3
  <2>. QED
    BY <2>4
<1>5. \A v, w \in vs : f[v] = f[w] => v = w
  <2>. SUFFICES ASSUME NEW v \in vs, NEW w \in vs, f[v] = f[w] PROVE v.add.ub = w.add.ub
    BY <1>1
  <2>1. f[v] \in Nat /\ f[w] \in Nat
    BY <1>2
  <2>2. ~(v.add.ub < w.add.ub) /\ ~(w.add.ub < v.add.ub)
    BY <1>4, <2>1
  <2>. QED
    BY <1>1, <2>2
<1>6. f \in [vs -> 0 .. n - 1]
  BY <1>3
<1>. HIDE DEF f
<1>7. f \in Injection(vs, 0 .. n - 1)
  BY <1>5, <1>6 DEF Injection, IsInjective
<1>8. IsFiniteSet(0 .. n - 1) /\ Cardinality(0 .. n - 1) = n
  BY FS_Interval, 0 \in Int, n - 1 \in Int
<1>9. f \in Surjection(vs, 0 .. n - 1)
  BY <1>7, <1>8, FS_Injection
<1>10. ASSUME NEW k \in 1 .. n
       PROVE  Nth(vs, k) \in vs /\ f[Nth(vs, k)] = k - 1
  <2>1. k - 1 \in 0 .. n - 1
    OBVIOUS
  <2>2. PICK v \in vs : f[v] = k - 1
    BY <1>9, <2>1 DEF Surjection
  <2>3. \E w \in vs : Cardinality(Earlier(vs, w)) = k - 1
    BY <1>2, <2>2
  <2>4. Nth(vs, k) \in vs /\ Cardinality(Earlier(vs, Nth(vs, k))) = k - 1
    BY <2>3 DEF Nth
  <2>. QED
    BY <1>2, <2>4
<1>11. ASSUME NEW v \in vs
       PROVE  \E k \in 1 .. n : v = Nth(vs, k)
  <2>1. f[v] + 1 \in 1 .. n /\ (f[v] + 1) - 1 = f[v]
    BY <1>3
  <2>2. v = Nth(vs, f[v] + 1)
    BY <1>5, <1>10, <2>1
  <2>. QED
    BY <2>1, <2>2
<1>12. ASSUME NEW k \in 1 .. n, NEW l \in 1 .. n, k <= l
       PROVE  Nth(vs, k).add.ub <= Nth(vs, l).add.ub
  <2>1. ~(Nth(vs, l).add.ub < Nth(vs, k).add.ub)
    <3>1. ~(l - 1 < k - 1)
      BY <1>12
    <3>. QED
      BY <1>4, <1>10, <3>1
  <2>. QED
    BY <1>1, <1>10, <2>1
<1>. QED
  BY <1>10, <1>11, <1>12

\* The cover is in normal form and holds the instants between the push and the
\* pop of a value.
LEMMA CoverIs ==
  ASSUME NEW vs, ValuesOK(vs)
  PROVE  /\ NormalForm(Cover(vs))
         /\ \A p \in Grid : Holds(p, Cover(vs)) <=>
              \E v \in vs : 2 * v.add.ub <= p /\ p <= 2 * v.rmv.lb
<1>. PICK n \in Nat : n = Cardinality(vs)
  BY FS_CardinalityType DEF ValuesOK
<1>. DEFINE s == [k \in 1 .. n |-> CoverOf(Nth(vs, k))]
<1>1. ASSUME NEW v \in vs
      PROVE  CoverOf(v) \in ClosedAtoms /\ CoverOf(v).lb = v.add.ub /\ CoverOf(v).ub = v.rmv.lb
  <2>1. ValueOK(v)
    BY DEF ValuesOK
  <2>2. v.add.ub \in Nat /\ v.rmv.lb \in Nat /\ 0 < v.add.ub /\ v.add.ub <= v.rmv.lb /\ v.rmv.lb < POSINF
    BY <2>1, RemovedBefore, PosInfAssumption DEF ValueOK
  <2>3. Closed(v.add.ub, v.rmv.lb) \in ClosedAtoms
    BY <2>2, ClosedIsAtom
  <2>. QED
    BY <2>3, CoverOfIs
<1>2. /\ \A k \in 1 .. n : Nth(vs, k) \in vs
      /\ \A v \in vs : \E k \in 1 .. n : v = Nth(vs, k)
      /\ \A k, l \in 1 .. n : k <= l => Nth(vs, k).add.ub <= Nth(vs, l).add.ub
  BY NthCounts
<1>3. s \in Seq(ClosedAtoms) /\ Len(s) = n /\ \A k \in 1 .. n : s[k] = CoverOf(Nth(vs, k))
  BY <1>1, <1>2
<1>4. Cover(vs) = MkInterval(s)
  BY DEF Cover
<1>. HIDE DEF s
<1>5. InOrder(s)
  BY <1>1, <1>2, <1>3 DEF InOrder
<1>6. ASSUME NEW p \in Grid
      PROVE  Holds(p, s) <=> \E v \in vs : 2 * v.add.ub <= p /\ p <= 2 * v.rmv.lb
  <2>1. \A v \in vs : InAtom(p, CoverOf(v)) <=> 2 * v.add.ub <= p /\ p <= 2 * v.rmv.lb
    BY <1>1, InClosedAtom
  <2>2. Holds(p, s) <=> \E v \in vs : InAtom(p, CoverOf(v))
    BY <1>2, <1>3 DEF Holds
  <2>. QED
    BY <2>1, <2>2
<1>. QED
  BY <1>4, <1>5, <1>6, MergedInOrder

\* A gap: no value has its push ended by its beginning and its pop called
\* after its end, so its begin and end divide the values.
IsGap(vs, g) ==
  /\ g \in AtomSet /\ g.lo /\ g.uo /\ g.lb \in Nat /\ g.ub \in Nat /\ g.lb < g.ub
  /\ \A v \in vs : v.rmv.lb <= g.lb \/ v.add.ub >= g.ub

\* An instant in both of two intervals that are not one after the other.
LEMMA InstantInBoth ==
  ASSUME NEW a \in Nat, NEW b \in Nat, NEW x \in Nat, NEW y \in Nat, NEW m \in Nat,
         0 < a, a < b, x < y, x < b, a < y, y <= m
  PROVE  \E p \in Nat : 1 <= p /\ p < 2 * m /\ 2 * a <= p /\ p <= 2 * b /\ 2 * x < p /\ p < 2 * y
<1>1. CASE a > x
  <2>1. 2 * a \in Nat /\ 1 <= 2 * a /\ 2 * a < 2 * m /\ 2 * a <= 2 * b /\ 2 * x < 2 * a /\ 2 * a < 2 * y
    BY <1>1
  <2>. QED
    BY <2>1
<1>2. CASE a <= x
  <2>1. LET p == 2 * x + 1
        IN  /\ p \in Nat /\ 1 <= p /\ p < 2 * m /\ 2 * a <= p /\ p <= 2 * b /\ 2 * x < p /\ p < 2 * y
    BY <1>2
  <2>. QED
    BY <2>1
<1>. QED
  BY <1>1, <1>2

\* complement() of the cover of some values gives the gaps, no two of which
\* overlap.
LEMMA GapsOfCover ==
  ASSUME NEW vs, ValuesOK(vs), vs # {}
  PROVE  LET c == Cover(vs)
             G == Complement(c)
         IN  /\ Len(c) \in Nat \ {0} /\ Len(G) = Len(c) + 1 /\ DOMAIN G = 1 .. Len(c) + 1
             /\ \A k \in DOMAIN G : IsGap(vs, G[k])
             /\ \A k, l \in DOMAIN G : k # l => ~Overlaps(G[k], G[l])
             /\ Len(c) # 1 => 2 \in DOMAIN G /\ G[2].lb = c[1].ub /\ G[2].ub = c[2].lb
<1>. DEFINE c == Cover(vs)
            G == Complement(c)
<1>1. NormalForm(c) /\ \A p \in Grid : Holds(p, c) <=> \E v \in vs : 2 * v.add.ub <= p /\ p <= 2 * v.rmv.lb
  BY CoverIs
<1>2. \A v \in vs : /\ v.add.ub \in Nat /\ v.rmv.lb \in Nat /\ 0 < v.add.ub /\ v.add.ub < v.rmv.lb
                    /\ v.rmv.lb < POSINF
  BY RemovedBefore, PosInfAssumption DEF ValuesOK, ValueOK
<1>3. c # <<Nil>>
  <2>. PICK v \in vs : TRUE
    OBVIOUS
  <2>1. 2 * v.add.ub \in Grid /\ 2 * v.add.ub <= 2 * v.rmv.lb
    BY <1>2, PosInfAssumption DEF Grid
  <2>2. Holds(2 * v.add.ub, c)
    BY <1>1, <1>2, <2>1
  <2>. QED
    BY <2>1, <2>2, NilIsEmpty
<1>. HIDE DEF c
<1>4. c \in Seq(ClosedAtoms) /\ c # <<>> /\ Apart(c)
  BY <1>1, <1>3 DEF NormalForm
<1>. PICK n \in Nat : n = Len(c)
  BY <1>4
<1>5. n # 0
  BY <1>4
<1>6. G = Gaps(c) /\ Len(G) = n + 1 /\ DOMAIN G = 1 .. n + 1
      /\ \A k \in 1 .. n + 1 : G[k] = GapAt(c, k)
  <2>1. Gaps(c) \in Seq(AtomSet) /\ Merged(Gaps(c)) = Gaps(c)
    BY <1>4, GapsStayApart
  <2>2. /\ Len(Gaps(c)) = n + 1 /\ DOMAIN Gaps(c) = 1 .. n + 1
        /\ \A k \in 1 .. n + 1 : Gaps(c)[k] = GapAt(c, k)
    BY DEF Gaps
  <2>3. Gaps(c) # <<>>
    BY <2>2
  <2>4. Complement(c) = Gaps(c)
    BY <2>1, <2>3, ComplementIs DEF MkInterval
  <2>. QED
    BY <2>2, <2>4
<1>. HIDE DEF G
<1>7. ASSUME NEW k \in 1 .. n + 1
      PROVE  /\ G[k] \in AtomSet /\ G[k].lo /\ G[k].uo /\ G[k].lb = GapFrom(c, k) /\ G[k].ub = GapTo(c, k)
             /\ G[k].lb \in Nat /\ G[k].ub \in Nat /\ G[k].lb < G[k].ub
  BY <1>4, <1>6, GapIs
<1>8. ASSUME NEW k \in 1 .. n + 1, NEW v \in vs, ~(v.rmv.lb <= G[k].lb), ~(v.add.ub >= G[k].ub)
      PROVE  FALSE
  <2>1. G[k].ub <= POSINF /\ POSINF \in Nat
    BY <1>7, PosInfAssumption DEF AtomSet, Timestamps, NEGINF
  <2>2. /\ G[k].lb \in Nat /\ G[k].ub \in Nat /\ v.add.ub \in Nat /\ v.rmv.lb \in Nat
        /\ 0 < v.add.ub /\ v.add.ub < v.rmv.lb /\ G[k].lb < G[k].ub
        /\ G[k].lb < v.rmv.lb /\ v.add.ub < G[k].ub
    BY <1>2, <1>7, <1>8
  <2>. PICK p \in Nat : /\ 1 <= p /\ p < 2 * POSINF /\ 2 * v.add.ub <= p /\ p <= 2 * v.rmv.lb
                        /\ 2 * G[k].lb < p /\ p < 2 * G[k].ub
    BY <2>1, <2>2, InstantInBoth
  <2>3. p \in Grid
    BY <2>1 DEF Grid
  <2>4. InAtom(p, G[k])
    BY <1>7 DEF InAtom
  <2>5. ~Holds(p, c)
    BY <1>4, <1>6, <2>3, <2>4, GapsAreTheRest
  <2>. QED
    BY <1>1, <2>3, <2>5
<1>9. \A k \in 1 .. n + 1 : IsGap(vs, G[k])
  BY <1>2, <1>7, <1>8 DEF IsGap
<1>10. ASSUME NEW k \in 1 .. n + 1, NEW l \in 1 .. n + 1, k < l
       PROVE  ~Overlaps(G[k], G[l]) /\ ~Overlaps(G[l], G[k])
  <2>1. k \in 1 .. n /\ l - 1 \in 1 .. n /\ k <= l - 1
    BY <1>10
  <2>2. G[k].ub = c[k].lb /\ G[l].lb = c[l - 1].ub
    BY <1>7, <2>1 DEF GapFrom, GapTo
  <2>3. c[k].lb \in Nat /\ c[l - 1].ub \in Nat /\ c[k].ub \in Nat /\ c[l - 1].lb \in Nat
        /\ c[k].lb <= c[k].ub /\ c[l - 1].lb <= c[l - 1].ub
    <3>1. c[k] \in ClosedAtoms /\ c[l - 1] \in ClosedAtoms
      BY <1>4, <2>1
    <3>. QED
      BY <3>1, ClosedAtomIs
  <2>4. c[k].lb <= c[l - 1].ub
    <3>1. CASE k = l - 1
      BY <2>3, <3>1
    <3>2. CASE k < l - 1
      <4>1. c[k].ub < c[l - 1].lb
        BY <1>4, <2>1, <3>2 DEF Apart
      <4>. QED
        BY <2>3, <4>1
    <3>. QED
      BY <2>1, <3>1, <3>2
  <2>5. G[k].ub <= G[l].lb /\ G[k].lb < G[k].ub /\ G[l].lb < G[l].ub
        /\ G[k].lb \in Nat /\ G[k].ub \in Nat /\ G[l].lb \in Nat /\ G[l].ub \in Nat
        /\ G[k].lo /\ G[k].uo /\ G[l].lo /\ G[l].uo
    BY <1>7, <2>2, <2>4
  <2>. QED
    BY <2>5 DEF Overlaps
<1>11. ASSUME n # 1
       PROVE  2 \in 1 .. n + 1 /\ G[2].lb = c[1].ub /\ G[2].ub = c[2].lb
  <2>1. 2 \in 1 .. n + 1 /\ 2 # n + 1 /\ 2 # 1 /\ 2 - 1 = 1
    BY <1>5, <1>11
  <2>. QED
    BY <1>7, <2>1 DEF GapFrom, GapTo
<1>12. \A k, l \in 1 .. n + 1 : k # l => ~Overlaps(G[k], G[l])
  <2>. TAKE k, l \in 1 .. n + 1
  <2>1. k # l => k < l \/ l < k
    OBVIOUS
  <2>. QED
    BY <1>10, <2>1
<1>13. n \in Nat \ {0}
  BY <1>5
<1>. QED
  BY <1>6, <1>9, <1>11, <1>12, <1>13 DEF c, G

----------------------------------------------------------------------------
(* Splitting at the gaps. *)

\* A function G on sets of positions that solves the equation of a fold, and
\* the states of that fold.
SolvesFold(G, n, D, base, g) ==
  \A T \in SUBSET (1 .. n) :
    /\ T = {} => G[T] = base
    /\ T # {} /\ G[T \ {Max(T)}] \in D => G[T] = g[<<Max(T), G[T \ {Max(T)}]>>]

FoldStates(f, G, n, D, base, g) ==
  /\ f \in [0 .. n -> D] /\ f[0] = base /\ f[n] = G[1 .. n]
  /\ \A k \in 1 .. n : f[k] = g[<<k, f[k - 1]>>]

LEMMA FoldGoesOn ==
  ASSUME NEW n \in Nat, NEW D, NEW base \in D, NEW g \in [(1 .. n) \X D -> D], NEW G,
         SolvesFold(G, n, D, base, g)
  PROVE  \E f : FoldStates(f, G, n, D, base, g)
<1>0. \A T \in SUBSET (1 .. n) :
        /\ T = {} => G[T] = base
        /\ T # {} /\ G[T \ {Max(T)}] \in D => G[T] = g[<<Max(T), G[T \ {Max(T)}]>>]
  BY DEF SolvesFold
<1>. DEFINE f == [k \in 0 .. n |-> G[1 .. k]]
            X == {k \in Nat : k <= n => G[1 .. k] \in D}
<1>1. G[1 .. 0] = base
  <2>1. 1 .. 0 = {} /\ {} \in SUBSET (1 .. n)
    OBVIOUS
  <2>. QED
    BY <1>0, <2>1
<1>2. ASSUME NEW k \in 1 .. n, G[1 .. k - 1] \in D
      PROVE  G[1 .. k] = g[<<k, G[1 .. k - 1]>>] /\ G[1 .. k] \in D
  <2>1. /\ 1 .. k \in SUBSET (1 .. n) /\ 1 .. k # {} /\ Max(1 .. k) = k
        /\ (1 .. k) \ {k} = 1 .. k - 1
    BY Beginnings
  <2>2. G[1 .. k] = g[<<k, G[1 .. k - 1]>>]
    BY <1>0, <1>2, <2>1
  <2>. QED
    BY <1>2, <2>2
<1>3. 0 \in X
  BY <1>1
<1>4. ASSUME NEW k \in Nat, k \in X
      PROVE  k + 1 \in X
  <2>. SUFFICES ASSUME k + 1 <= n PROVE G[1 .. k + 1] \in D
    OBVIOUS
  <2>1. k + 1 \in 1 .. n /\ (k + 1) - 1 = k /\ G[1 .. k] \in D
    BY <1>4
  <2>. QED
    BY <1>2, <2>1
<1>. HIDE DEF X
<1>5. \A k \in Nat : k \in X
  BY <1>3, <1>4, NatSetInduction
<1>6. \A k \in 0 .. n : G[1 .. k] \in D
  BY <1>5 DEF X
<1>7. f \in [0 .. n -> D] /\ f[0] = base /\ f[n] = G[1 .. n]
  BY <1>1, <1>6
<1>8. \A k \in 1 .. n : f[k] = g[<<k, f[k - 1]>>]
  <2>. TAKE k \in 1 .. n
  <2>1. k - 1 \in 0 .. n /\ k \in 0 .. n
    OBVIOUS
  <2>. QED
    BY <1>2, <1>6, <2>1
<1>9. FoldStates(f, G, n, D, base, g)
  BY <1>7, <1>8 DEF FoldStates
<1>. QED
  BY <1>9

\* The values that can be over before one of the first k gaps, and those for
\* which the k-th is the first such gap.
Covered(vs, o, k) == {v \in vs : \E i \in 1 .. k : Before(v, o[i])}
Newly(vs, o, k) ==
  {v \in vs : Before(v, o[k]) /\ \A i \in 1 .. k - 1 : ~Before(v, o[i])}

\* A list without its last element, and with two more.
LEMMA FrontAndLast ==
  ASSUME NEW P, NEW q \in Seq(P), q # << >>
  PROVE  /\ Front(q) \in Seq(P) /\ Len(Front(q)) = Len(q) - 1 /\ Last(q) \in P
         /\ Last(q) = q[Len(q)] /\ \A k \in 1 .. Len(q) - 1 : Front(q)[k] = q[k]
<1>. PICK n \in Nat : n = Len(q) - 1
  BY EmptySeq
<1>1. /\ SubSeq(q, 1, n) \in Seq(P) /\ Len(SubSeq(q, 1, n)) = n
      /\ \A k \in 1 .. n : SubSeq(q, 1, n)[k] = q[k]
  OBVIOUS
<1>2. Last(q) = q[Len(q)] /\ Last(q) \in P
  BY DEF Last
<1>. QED
  BY <1>1, <1>2 DEF Front

LEMMA TwoMore ==
  ASSUME NEW P, NEW q \in Seq(P), NEW a \in P, NEW b \in P
  PROVE  LET w == q \o <<a, b>>
         IN  /\ w \in Seq(P) /\ Len(w) = Len(q) + 2
             /\ w[Len(q) + 1] = a /\ w[Len(q) + 2] = b
             /\ \A k \in 1 .. Len(q) : w[k] = q[k]
<1>1. <<a, b>> \in Seq(P) /\ Len(<<a, b>>) = 2 /\ <<a, b>>[1] = a /\ <<a, b>>[2] = b
  OBVIOUS
<1>. PICK t \in Seq(P) : t = <<a, b>>
  BY <1>1
<1>2. /\ q \o t \in Seq(P) /\ Len(q \o t) = Len(q) + 2
      /\ (q \o t)[Len(q) + 1] = t[1] /\ (q \o t)[Len(q) + 2] = t[2]
      /\ \A k \in 1 .. Len(q) : (q \o t)[k] = q[k]
  BY <1>1
<1>. QED
  BY <1>1, <1>2

SegmentEquation(F, h, gaps) ==
  F = [T \in SUBSET DOMAIN gaps |->
         IF T = {} THEN <<h>>
         ELSE Front(F[T \ {Max(T)}]) \o Split(Last(F[T \ {Max(T)}]).values, gaps[Max(T)])]

LEMMA SegmentizeIsChosen ==
  ASSUME NEW h, NEW gaps
  PROVE  Segmentize(h, gaps) = (CHOOSE F : SegmentEquation(F, h, gaps))[DOMAIN gaps]
BY Zenon DEF Segmentize, FoldLeft, MapThenFoldSet, SegmentEquation

SegmentSteps(h, gaps, n, f) ==
  /\ f[0] = <<h>> /\ Segmentize(h, gaps) = f[n]
  /\ \A k \in 1 .. n : f[k] = Front(f[k - 1]) \o Split(Last(f[k - 1]).values, gaps[k])

LEMMA SegmentizeBySteps ==
  ASSUME NEW vs, NEW es, NEW S, NEW gaps \in Seq(S)
  PROVE  \E f : SegmentSteps(History(vs, es), gaps, Len(gaps), f)
<1>. DEFINE h == History(vs, es)
            P == [values : SUBSET vs, empties : {es, << >>}]
            D == {q \in Seq(P) : q # << >>}
            Turn(q, i) == Front(q) \o Split(Last(q).values, i)
<1>. PICK n \in Nat : n = Len(gaps)
  OBVIOUS
<1>0. DOMAIN gaps = 1 .. n
  OBVIOUS
<1>1. <<h>> \in D
  BY DEF History
<1>2. ASSUME NEW q \in D, NEW i
      PROVE  Turn(q, i) \in D
  <2>1. Front(q) \in Seq(P) /\ Last(q) \in P
    <3>. HIDE DEF P
    <3>. QED
      BY FrontAndLast
  <2>2. PICK w \in SUBSET vs : w = Last(q).values
    BY <2>1
  <2>. PICK a \in P, b \in P : Split(w, i) = <<a, b>>
    BY DEF Split, History
  <2>. HIDE DEF P
  <2>4. Front(q) \o <<a, b>> \in Seq(P) /\ Len(Front(q) \o <<a, b>>) = Len(Front(q)) + 2
    BY <2>1, TwoMore
  <2>5. Front(q) \o <<a, b>> # << >>
    BY <2>1, <2>4
  <2>. QED
    BY <2>2, <2>4, <2>5
<1>. DEFINE g == [x \in (1 .. n) \X D |-> Turn(x[2], gaps[x[1]])]
<1>3. g \in [(1 .. n) \X D -> D]
  <2>. HIDE DEF D, Turn
  <2>. QED
    BY <1>2
<1>4. \A k \in 1 .. n, q \in D : g[<<k, q>>] = Turn(q, gaps[k])
  <2>. HIDE DEF D, Turn
  <2>. QED
    OBVIOUS
<1>. HIDE DEF g, D, h
<1>5. PICK F : FoldsBy(F, n, D, <<h>>, g)
  BY <1>1, <1>3, FoldSteps
<1>6. \A T \in SUBSET (1 .. n) : T # {} =>
        Max(T) \in 1 .. n /\ T \ {Max(T)} \in SUBSET (1 .. n) /\ F[T \ {Max(T)}] \in D
  BY <1>5, HasMax DEF FoldsBy
<1>7. F = [T \in SUBSET (1 .. n) |->
             IF T = {} THEN <<h>> ELSE Turn(F[T \ {Max(T)}], gaps[Max(T)])]
  <2>. HIDE DEF Turn
  <2>. QED
    BY <1>4, <1>5, <1>6 DEF FoldsBy
<1>8. \E G : SegmentEquation(G, h, gaps)
  BY <1>0, <1>7, Zenon DEF SegmentEquation
<1>. DEFINE G == CHOOSE H : SegmentEquation(H, h, gaps)
<1>9. G = [T \in SUBSET (1 .. n) |->
             IF T = {} THEN <<h>> ELSE Turn(G[T \ {Max(T)}], gaps[Max(T)])]
  BY <1>0, <1>8, Zenon DEF SegmentEquation
<1>10. Segmentize(h, gaps) = G[1 .. n]
  BY <1>0, SegmentizeIsChosen
<1>. HIDE DEF G, Turn
<1>11. SolvesFold(G, n, D, <<h>>, g)
  <2>1. ASSUME NEW T \in SUBSET (1 .. n), T # {}, G[T \ {Max(T)}] \in D
        PROVE  G[T] = g[<<Max(T), G[T \ {Max(T)}]>>]
    <3>1. G[T] = Turn(G[T \ {Max(T)}], gaps[Max(T)])
      BY <1>9, <2>1
    <3>. QED
      BY <1>4, <1>6, <2>1, <3>1
  <2>2. G[{}] = <<h>>
    <3>1. {} \in SUBSET (1 .. n)
      OBVIOUS
    <3>. QED
      BY <1>9, <3>1
  <2>. QED
    BY <2>1, <2>2 DEF SolvesFold
<1>. PICK f : FoldStates(f, G, n, D, <<h>>, g)
  BY <1>1, <1>3, <1>11, FoldGoesOn
<1>12. /\ f \in [0 .. n -> D] /\ f[0] = <<h>> /\ f[n] = G[1 .. n]
       /\ \A k \in 1 .. n : f[k] = g[<<k, f[k - 1]>>]
  BY DEF FoldStates
<1>13. \A k \in 1 .. n : f[k] = Turn(f[k - 1], gaps[k])
  <2>. TAKE k \in 1 .. n
  <2>1. k - 1 \in 0 .. n
    OBVIOUS
  <2>. QED
    BY <1>4, <1>12, <2>1
<1>14. SegmentSteps(h, gaps, n, f)
  BY <1>10, <1>12, <1>13 DEF SegmentSteps, Turn
<1>. QED
  BY <1>14 DEF h

\* The parts before each of n gaps and the part behind them.
AreSegments(segs, vs, es, gaps, n) ==
  /\ segs \in Seq([values : SUBSET vs, empties : {es, << >>}]) /\ Len(segs) = n + 1
  /\ \A k \in 1 .. n : segs[k] = History(Newly(vs, gaps, k), << >>)
  /\ segs[n + 1] = History(vs \ Covered(vs, gaps, n), << >>)

\* What segmentize() makes of the values.
LEMMA SegmentsAre ==
  ASSUME NEW vs, NEW es, NEW S, NEW gaps \in Seq(S), NEW n \in Nat, n = Len(gaps), n # 0
  PROVE  AreSegments(Segmentize(History(vs, es), gaps), vs, es, gaps, n)
<1>. DEFINE h == History(vs, es)
            P == [values : SUBSET vs, empties : {es, << >>}]
<1>. PICK f : SegmentSteps(h, gaps, n, f)
  BY SegmentizeBySteps
<1>0. /\ f[0] = <<h>> /\ Segmentize(h, gaps) = f[n]
      /\ \A k \in 1 .. n : f[k] = Front(f[k - 1]) \o Split(Last(f[k - 1]).values, gaps[k])
  BY DEF SegmentSteps
<1>00. /\ h \in P /\ h.values = vs
       /\ \A w \in SUBSET vs : History(w, << >>) \in P /\ History(w, << >>).values = w
  BY DEF History
<1>. HIDE DEF P, h
<1>. DEFINE Good(k) == /\ f[k] \in Seq(P) /\ Len(f[k]) = k + 1
                       /\ \A j \in 1 .. k : f[k][j] = History(Newly(vs, gaps, j), << >>)
                       /\ f[k][k + 1].values = vs \ Covered(vs, gaps, k)
                       /\ k # 0 => f[k][k + 1] = History(vs \ Covered(vs, gaps, k), << >>)
            X == {k \in Nat : k <= n => Good(k)}
<1>1. 0 \in X
  <2>1. /\ <<h>> \in Seq(P) /\ Len(<<h>>) = 0 + 1 /\ <<h>>[0 + 1] = h /\ 1 .. 0 = {}
    BY <1>00
  <2>2. Covered(vs, gaps, 0) = {}
    BY DEF Covered
  <2>. QED
    BY <1>0, <1>00, <2>1, <2>2
<1>2. ASSUME NEW k \in Nat, k \in X
      PROVE  k + 1 \in X
  <2>. SUFFICES ASSUME k + 1 <= n PROVE Good(k + 1)
    OBVIOUS
  <2>1. Good(k) /\ k + 1 \in 1 .. n /\ (k + 1) - 1 = k
    BY <1>2
  <2>. DEFINE w == vs \ Covered(vs, gaps, k)
              m == Front(f[k])
  <2>2. Last(f[k]).values = w
    BY <2>1 DEF Last
  <2>3. f[k + 1] = m \o Split(w, gaps[k + 1])
    BY <1>0, <2>1, <2>2
  <2>4. /\ m \in Seq(P) /\ Len(m) = k /\ \A j \in 1 .. k : m[j] = f[k][j]
    <3>1. f[k] \in Seq(P) /\ Len(f[k]) = k + 1
      BY <2>1
    <3>2. f[k] # << >> /\ Len(f[k]) - 1 = k
      BY <3>1
    <3>. QED
      BY <3>1, <3>2, FrontAndLast
  <2>5. Split(w, gaps[k + 1]) = <<History(Newly(vs, gaps, k + 1), << >>),
                                  History(vs \ Covered(vs, gaps, k + 1), << >>)>>
    <3>1. {v \in w : Before(v, gaps[k + 1])} = Newly(vs, gaps, k + 1)
      BY <2>1 DEF Newly, Covered
    <3>2. w \ Newly(vs, gaps, k + 1) = vs \ Covered(vs, gaps, k + 1)
      <4>1. \A i \in Nat : i \in 1 .. k + 1 <=> i \in 1 .. k \/ i = k + 1
        OBVIOUS
      <4>2. \A v \in w : v \in Newly(vs, gaps, k + 1) <=> Before(v, gaps[k + 1])
        BY <3>1
      <4>. QED
        BY <4>1, <4>2 DEF Covered
    <3>. QED
      BY <3>1, <3>2 DEF Split
  <2>6. Newly(vs, gaps, k + 1) \in SUBSET vs /\ vs \ Covered(vs, gaps, k + 1) \in SUBSET vs
    BY DEF Newly
  <2>. DEFINE a == History(Newly(vs, gaps, k + 1), << >>)
              b == History(vs \ Covered(vs, gaps, k + 1), << >>)
  <2>7. a \in P /\ b \in P /\ b.values = vs \ Covered(vs, gaps, k + 1)
    BY <1>00, <2>6
  <2>. HIDE DEF w, m, a, b
  <2>8. f[k + 1] = m \o <<a, b>>
    BY <2>3, <2>5 DEF a, b
  <2>9. /\ f[k + 1] \in Seq(P) /\ Len(f[k + 1]) = (k + 1) + 1
        /\ \A j \in 1 .. k : f[k + 1][j] = m[j]
        /\ f[k + 1][k + 1] = a /\ f[k + 1][(k + 1) + 1] = b
    <3>1. /\ m \o <<a, b>> \in Seq(P) /\ Len(m \o <<a, b>>) = Len(m) + 2
          /\ (m \o <<a, b>>)[Len(m) + 1] = a /\ (m \o <<a, b>>)[Len(m) + 2] = b
          /\ \A j \in 1 .. Len(m) : (m \o <<a, b>>)[j] = m[j]
      BY <2>4, <2>7, TwoMore
    <3>2. Len(m) = k /\ k + 2 = (k + 1) + 1
      BY <2>4
    <3>. QED
      BY <2>8, <3>1, <3>2
  <2>10. \A j \in 1 .. k + 1 : f[k + 1][j] = History(Newly(vs, gaps, j), << >>)
    <3>. TAKE j \in 1 .. k + 1
    <3>1. j \in 1 .. k \/ j = k + 1
      OBVIOUS
    <3>. QED
      BY <2>1, <2>4, <2>9, <3>1 DEF a
  <2>. QED
    BY <2>7, <2>9, <2>10 DEF b
<1>. HIDE DEF X
<1>3. \A k \in Nat : k \in X
  BY <1>1, <1>2, NatSetInduction
<1>4. Good(n)
  <2>1. n \in X /\ n <= n
    BY <1>3
  <2>. HIDE DEF Good
  <2>. QED
    BY <2>1 DEF X
<1>. QED
  BY <1>0, <1>4 DEF h, P, AreSegments

LEMMA OfOtherType ==
  ASSUME NEW P, NEW q \in Seq(P), NEW Q, \A k \in 1 .. Len(q) : q[k] \in Q
  PROVE  q \in Seq(Q)
<1>. PICK n \in Nat : n = Len(q)
  OBVIOUS
<1>1. q = [k \in 1 .. n |-> q[k]]
  OBVIOUS
<1>. DEFINE r == [k \in 1 .. n |-> q[k]]
<1>2. r \in Seq(Q)
  OBVIOUS
<1>. HIDE DEF r
<1>3. r = q
  BY <1>1 DEF r
<1>. QED
  BY <1>2, <1>3

----------------------------------------------------------------------------
(* Empty pops in the gaps. *)

\* One history after another that leaves nothing on the stack.
LEMMA OneThenOther ==
  ASSUME NEW A, IsFiniteSet(A), NEW B, A \cap B = {}, NoneBefore(B, A),
         EmptiesItself(A, << >>), Orders(A, << >>), Orders(B, << >>)
  PROVE  Orders(A \cup B, << >>)
<1>. PICK V : V = ValuesIn(A)
  OBVIOUS
<1>1. << >> \in Seq(V) /\ << >> \o << >> = << >>
  OBVIOUS
<1>2. Orders(A \cup B, << >> \o << >>)
  BY <1>1, OneAfterAnother
<1>. QED
  BY <1>1, <1>2

LEMMA EmptiesWithPops ==
  ASSUME NEW A, NEW s, EmptiesItself(A, s), NEW E, \A e \in E : e.type # "push"
  PROVE  EmptiesItself(A \cup E, s)
BY DEF EmptiesItself

\* The values on the two sides of a gap.
LEMMA SidesOfGap ==
  ASSUME NEW vs, ValuesOK(vs), NEW g, IsGap(vs, g), NEW v \in vs
  PROVE  /\ Before(v, g) <=> v.rmv.lb <= g.lb
         /\ ~Before(v, g) => v.add.ub >= g.ub
<1>1. /\ v.add.ub \in Nat /\ v.rmv.lb \in Nat /\ g.lb \in Nat /\ g.ub \in Nat /\ g.lb < g.ub
      /\ v.rmv.lb <= g.lb \/ v.add.ub >= g.ub
  BY DEF ValuesOK, ValueOK, IsGap
<1>. QED
  BY <1>1 DEF Before

\* Every empty pop has a gap that it overlaps.
InGaps(vs, es, o) ==
  \A k \in DOMAIN es : IsGap(vs, o[k]) /\ o[k].lb <= es[k].ub /\ es[k].lb <= o[k].ub

EmptyPops(es, k) == {EmptyPopOf(es[i]) : i \in 1 .. k}

\* The operations covered by the first k gaps and the empty pops in them.
Upto(vs, es, o, k) == OpsOf(Covered(vs, o, k)) \cup EmptyPops(es, k)

LEMMA EmptyPopsAre ==
  ASSUME NEW es, EmptiesOK(es), NEW k \in 0 .. Len(es)
  PROVE  /\ IsFiniteSet(EmptyPops(es, k))
         /\ \A e \in EmptyPops(es, k) : e.type = "pop" /\ EmptyPop(e)
         /\ \A e \in EmptyPops(es, k) : \E i \in 1 .. k : e.call = es[i].lb /\ e.ret = es[i].ub
<1>. DEFINE f == [i \in 1 .. k |-> EmptyPopOf(es[i])]
<1>1. IsFiniteSet(1 .. k)
  BY FS_Interval, 1 \in Int, k \in Int
<1>2. IsFiniteSet({f[i] : i \in 1 .. k})
  <2>. HIDE DEF f
  <2>. QED
    BY <1>1, FiniteImage
<1>3. {f[i] : i \in 1 .. k} = EmptyPops(es, k)
  BY DEF EmptyPops
<1>4. \A e \in EmptyPops(es, k) : e.type = "pop" /\ EmptyPop(e)
  BY DEF EmptyPops, EmptyPopOf, EmptyPop
<1>5. \A e \in EmptyPops(es, k) : \E i \in 1 .. k : e.call = es[i].lb /\ e.ret = es[i].ub
  BY DEF EmptyPops, EmptyPopOf
<1>. QED
  BY <1>2, <1>3, <1>4, <1>5

LEMMA UptoIs ==
  ASSUME NEW vs, ValuesOK(vs), NEW es, EmptiesOK(es), NEW o, InGaps(vs, es, o),
         NEW k \in 0 .. Len(es)
  PROVE  /\ IsFiniteSet(Upto(vs, es, o, k)) /\ EmptiesItself(Upto(vs, es, o, k), << >>)
         /\ \A p \in Upto(vs, es, o, k) :
              \E i \in 1 .. k : p.call \in Nat /\ p.call <= o[i].ub /\ p.call <= es[i].ub
<1>. DEFINE C == Covered(vs, o, k)
<1>0. \A i \in 1 .. k : i \in DOMAIN es
  BY DEF EmptiesOK
<1>1. ValuesOK(C)
  BY PartOK DEF Covered
<1>2. ASSUME NEW v \in C
      PROVE  v.rmv # End /\ ValueOK(v) /\ \E i \in 1 .. k : v.rmv.lb <= o[i].lb
  <2>. PICK i \in 1 .. k : v \in vs /\ Before(v, o[i])
    BY DEF Covered
  <2>1. ValueOK(v) /\ IsGap(vs, o[i]) /\ o[i].lb <= es[i].ub /\ EmptyOK(es[i])
    BY <1>0 DEF ValuesOK, InGaps, EmptiesOK
  <2>2. v.rmv.lb <= o[i].lb
    BY <2>1, SidesOfGap
  <2>3. v.rmv.lb < POSINF - 2
    BY <2>1, <2>2, EndIs DEF ValueOK, IsGap, EmptyOK
  <2>. QED
    BY <2>1, <2>2, <2>3, RemovedBefore
<1>3. EmptiesItself(OpsOf(C), << >>) /\ IsFiniteSet(OpsOf(C)) /\ Timed(OpsOf(C))
  BY <1>1, <1>2, OpsEmptyThemselves, OpsOfOK
<1>4. /\ IsFiniteSet(EmptyPops(es, k)) /\ \A e \in EmptyPops(es, k) : e.type = "pop"
      /\ \A e \in EmptyPops(es, k) : \E i \in 1 .. k : e.call = es[i].lb /\ e.ret = es[i].ub
  BY EmptyPopsAre
<1>5. EmptiesItself(Upto(vs, es, o, k), << >>)
  BY <1>3, <1>4, EmptiesWithPops DEF Upto
<1>6. IsFiniteSet(Upto(vs, es, o, k))
  BY <1>3, <1>4, FS_Union DEF Upto
<1>7. ASSUME NEW i \in 1 .. k
      PROVE  /\ o[i].lb \in Nat /\ o[i].ub \in Nat /\ o[i].lb < o[i].ub /\ o[i].lb <= es[i].ub
             /\ es[i].lb <= o[i].ub /\ es[i].lb \in Nat /\ es[i].ub \in Nat /\ es[i].lb < es[i].ub
  BY <1>0 DEF InGaps, IsGap, EmptiesOK, EmptyOK
<1>8. ASSUME NEW p \in OpsOf(C)
      PROVE  \E i \in 1 .. k : p.call \in Nat /\ p.call <= o[i].ub /\ p.call <= es[i].ub
  <2>. PICK v \in C : p.call = v.add.lb \/ p.call = v.rmv.lb
    BY OpsAre
  <2>. PICK i \in 1 .. k : v.rmv.lb <= o[i].lb
    BY <1>2
  <2>1. ValueOK(v)
    BY <1>2
  <2>2. p.call \in Nat /\ p.call <= o[i].ub /\ p.call <= es[i].ub
    BY <1>7, <2>1 DEF ValueOK
  <2>. QED
    BY <2>2
<1>9. ASSUME NEW p \in EmptyPops(es, k)
      PROVE  \E i \in 1 .. k : p.call \in Nat /\ p.call <= o[i].ub /\ p.call <= es[i].ub
  <2>. PICK i \in 1 .. k : p.call = es[i].lb
    BY <1>4
  <2>1. p.call \in Nat /\ p.call <= o[i].ub /\ p.call <= es[i].ub
    BY <1>7
  <2>. QED
    BY <2>1
<1>. QED
  BY <1>5, <1>6, <1>8, <1>9 DEF Upto

\* Values that are behind the first k gaps come after all that is in them.
LEMMA BehindGaps ==
  ASSUME NEW vs, ValuesOK(vs), NEW es, EmptiesOK(es), NEW o, InGaps(vs, es, o),
         NEW k \in 0 .. Len(es), NEW w \in SUBSET vs,
         \A v \in w : \A i \in 1 .. k : ~Before(v, o[i])
  PROVE  /\ NoneBefore(OpsOf(w), Upto(vs, es, o, k))
         /\ Upto(vs, es, o, k) \cap OpsOf(w) = {}
<1>0. \A i \in 1 .. k : i \in DOMAIN es
  BY DEF EmptiesOK
<1>1. ValuesOK(w)
  BY PartOK
<1>2. ASSUME NEW p \in OpsOf(w), NEW q \in Upto(vs, es, o, k)
      PROVE  p.ret >= q.call
  <2>. PICK i \in 1 .. k : q.call \in Nat /\ q.call <= o[i].ub
    BY UptoIs
  <2>1. IsGap(vs, o[i]) /\ o[i].ub \in Nat
    BY <1>0 DEF InGaps, IsGap
  <2>2. \A v \in w : v.add.ub >= o[i].ub
    BY <2>1, SidesOfGap
  <2>3. p.ret >= o[i].ub
    BY <1>1, <2>1, <2>2, OpsFrom
  <2>4. p.ret \in Nat
    BY <1>1, OpsOfOK DEF Timed
  <2>. QED
    BY <2>1, <2>3, <2>4
<1>3. OpsOf(Covered(vs, o, k)) \cap OpsOf(w) = {}
  <2>1. ASSUME NEW a \in Covered(vs, o, k), NEW b \in w
        PROVE  a.val # b.val
    <3>1. a \in vs /\ b \in vs /\ a # b
      BY DEF Covered
    <3>. QED
      BY <3>1 DEF ValuesOK
  <2>. QED
    BY <2>1, OpsApart
<1>4. EmptyPops(es, k) \cap OpsOf(w) = {}
  BY <1>1, EmptyPopsAre, OpsOfOK
<1>. QED
  BY <1>2, <1>3, <1>4 DEF NoneBefore, Upto

\* With an empty pop in each of the gaps the history can be ordered, if the
\* values between them can.
LEMMA EmptiesPlaced ==
  ASSUME NEW vs, ValuesOK(vs), NEW es, EmptiesOK(es), NEW o, InGaps(vs, es, o),
         NEW n \in Nat, n = Len(es),
         \A k \in 1 .. n : Orders(OpsOf(Newly(vs, o, k)), << >>),
         Orders(OpsOf(vs \ Covered(vs, o, n)), << >>)
  PROVE  Orders(OpsOf(vs) \cup {EmptyPopOf(es[k]) : k \in DOMAIN es}, << >>)
<1>. DEFINE A(k) == Upto(vs, es, o, k)
            X == {k \in Nat : k <= n => Orders(A(k), << >>)}
<1>0. DOMAIN es = 1 .. n
  BY DEF EmptiesOK
<1>1. 0 \in X
  <2>1. 1 .. 0 = {}
    OBVIOUS
  <2>2. A(0) = {}
    BY <2>1, OpsOfNone DEF Upto, Covered, EmptyPops
  <2>. QED
    BY <2>2, NothingToOrder
<1>2. ASSUME NEW k \in Nat, k \in X
      PROVE  k + 1 \in X
  <2>. SUFFICES ASSUME k + 1 <= n PROVE Orders(A(k + 1), << >>)
    OBVIOUS
  <2>1. Orders(A(k), << >>) /\ k \in 0 .. n /\ k + 1 \in 0 .. n /\ k + 1 \in 1 .. n
        /\ (k + 1) - 1 = k /\ (\A i \in 1 .. k + 1 : i \in 1 .. k \/ i = k + 1)
        /\ \A i \in 1 .. k : i \in 1 .. k + 1
    BY <1>2
  <2>. DEFINE N == Newly(vs, o, k + 1)
              B == OpsOf(N)
              e == EmptyPopOf(es[k + 1])
  <2>2. N \in SUBSET vs /\ \A v \in N : \A i \in 1 .. k : ~Before(v, o[i])
    BY <2>1 DEF Newly
  <2>3. NoneBefore(B, A(k)) /\ A(k) \cap B = {}
    BY <2>1, <2>2, BehindGaps
  <2>4. IsFiniteSet(A(k)) /\ EmptiesItself(A(k), << >>)
    BY <2>1, UptoIs
  <2>5. Orders(B, << >>)
    BY <2>1
  <2>6. Orders(A(k) \cup B, << >>)
    BY <2>1, <2>3, <2>4, <2>5, OneThenOther
  <2>7. Covered(vs, o, k + 1) = Covered(vs, o, k) \cup N
    BY <2>1 DEF Covered, Newly
  <2>8. EmptyPops(es, k + 1) = EmptyPops(es, k) \cup {e}
    BY <2>1 DEF EmptyPops
  <2>9. A(k + 1) = (A(k) \cup B) \cup {e}
    <3>1. OpsOf(Covered(vs, o, k + 1)) = OpsOf(Covered(vs, o, k)) \cup B
      BY <2>7, OpsOfUnion
    <3>. QED
      BY <2>8, <3>1 DEF Upto
  <2>10. e.type = "pop" /\ e.val = NoVal /\ e.call = es[k + 1].lb /\ e.ret = es[k + 1].ub
         /\ EmptyPop(e)
    BY DEF EmptyPopOf, EmptyPop
  <2>11. es[k + 1].lb \in Nat /\ es[k + 1].ub \in Nat /\ es[k + 1].lb < es[k + 1].ub
         /\ \A i \in 1 .. k : es[i].ub \in Nat /\ es[i].ub < es[k + 1].ub
    <3>1. EmptyOK(es[k + 1]) /\ \A i \in 1 .. k : EmptyOK(es[i]) /\ es[i].ub < es[k + 1].ub
      BY <1>0, <2>1 DEF EmptiesOK
    <3>. QED
      BY <3>1 DEF EmptyOK
  <2>12. e \notin EmptyPops(es, k)
    <3>1. \A p \in EmptyPops(es, k) : \E i \in 1 .. k : p.ret = es[i].ub
      BY <2>1, EmptyPopsAre
    <3>2. \A i \in 1 .. k : es[i].ub # e.ret
      BY <2>10, <2>11
    <3>. QED
      BY <3>1, <3>2
  <2>13. e \notin OpsOf(Covered(vs, o, k)) /\ e \notin B
    <3>1. ValuesOK(Covered(vs, o, k)) /\ ValuesOK(N)
      BY <2>2, PartOK DEF Covered
    <3>. QED
      BY <2>10, <3>1, OpsOfOK
  <2>14. Orders({e}, << >>)
    <3>1. Fits(e, << >>) /\ NoneBefore({e}, {e}) /\ {e} \ {e} = {}
      BY <2>10, <2>11 DEF Fits, NoneBefore
    <3>. QED
      BY <3>1, NothingToOrder, OrderFirst
  <2>. DEFINE D == A(k) \cup B
  <2>15. D \subseteq A(k + 1) /\ D \cap {e} = {}
    BY <2>9, <2>12, <2>13 DEF Upto
  <2>16. NoneBefore({e}, D)
    <3>1. ASSUME NEW p \in D
          PROVE  e.ret >= p.call
      <4>1. p \in A(k + 1)
        BY <2>15
      <4>. PICK i \in 1 .. k + 1 : p.call \in Nat /\ p.call <= es[i].ub
        BY <2>1, <4>1, UptoIs
      <4>. QED
        BY <2>1, <2>10, <2>11
    <3>. QED
      BY <3>1 DEF NoneBefore
  <2>17. IsFiniteSet(D) /\ EmptiesItself(D, << >>)
    <3>1. IsFiniteSet(A(k + 1)) /\ EmptiesItself(A(k + 1), << >>)
      BY <2>1, UptoIs
    <3>2. IsFiniteSet(D)
      BY <2>15, <3>1, FS_Subset
    <3>3. A(k + 1) = D \cup {e} /\ \A p, v : Pops(p, v) => p # e
      BY <2>9, <2>10 DEF Pops
    <3>. HIDE DEF D, e
    <3>4. EmptiesItself(D, << >>)
      BY <3>1, <3>3 DEF EmptiesItself
    <3>. QED
      BY <3>2, <3>4
  <2>. HIDE DEF A, D, e, B
  <2>18. Orders(D \cup {e}, << >>)
    BY <2>6, <2>14, <2>15, <2>16, <2>17, OneThenOther DEF D
  <2>. QED
    BY <2>9, <2>18 DEF D
<1>3. Orders(A(n), << >>)
  <2>1. \A k \in Nat : k \in X
    <3>. HIDE DEF X
    <3>. QED
      BY <1>1, <1>2, NatSetInduction
  <2>. HIDE DEF A
  <2>. QED
    BY <2>1
<1>. DEFINE w == vs \ Covered(vs, o, n)
<1>4. w \in SUBSET vs /\ n \in 0 .. Len(es) /\ \A v \in w : \A i \in 1 .. n : ~Before(v, o[i])
  BY DEF Covered
<1>5. NoneBefore(OpsOf(w), A(n)) /\ A(n) \cap OpsOf(w) = {}
  BY <1>4, BehindGaps
<1>6. IsFiniteSet(A(n)) /\ EmptiesItself(A(n), << >>)
  BY <1>4, UptoIs
<1>7. Orders(A(n) \cup OpsOf(w), << >>)
  BY <1>3, <1>5, <1>6, OneThenOther
<1>8. A(n) \cup OpsOf(w) = OpsOf(vs) \cup {EmptyPopOf(es[k]) : k \in DOMAIN es}
  <2>1. Covered(vs, o, n) \cup w = vs
    BY DEF Covered
  <2>2. OpsOf(Covered(vs, o, n)) \cup OpsOf(w) = OpsOf(vs)
    BY <2>1, OpsOfUnion
  <2>3. {EmptyPopOf(es[k]) : k \in DOMAIN es} = EmptyPops(es, n)
    BY <1>0 DEF EmptyPops
  <2>. QED
    BY <2>2, <2>3 DEF Upto
<1>. QED
  BY <1>7, <1>8

----------------------------------------------------------------------------
(* step(). *)

\* The first match is one of the gaps and overlaps the empty pop.
LEMMA FirstMatchIs ==
  ASSUME NEW S, NEW gaps \in Seq(S), NEW e
  PROVE  /\ \/ FirstMatch(gaps, e) = Nil
            \/ \E k \in DOMAIN gaps : FirstMatch(gaps, e) = gaps[k] /\ Overlaps(gaps[k], e)
         /\ (\E k \in DOMAIN gaps : Overlaps(gaps[k], e))
              => \E k \in DOMAIN gaps : FirstMatch(gaps, e) = gaps[k]
<1>. DEFINE I == {i \in 1 .. Len(gaps) : Overlaps(gaps[i], e)}
            m == IF I # {} THEN Min(I) ELSE 0
<1>1. FirstMatch(gaps, e) = IF m = 0 THEN Nil ELSE gaps[m]
  BY Zenon DEF FirstMatch, SelectInSeq
<1>2. CASE I # {}
  <2>1. I \in SUBSET Nat
    OBVIOUS
  <2>2. \E x \in I : \A y \in I : x <= y
    BY <1>2, <2>1, LeastNatural
  <2>3. Min(I) \in I
    BY <2>2 DEF Min
  <2>4. m = Min(I) /\ m # 0
    BY <1>2, <2>3
  <2>5. m \in DOMAIN gaps /\ Overlaps(gaps[m], e)
    BY <2>3, <2>4
  <2>. HIDE DEF m
  <2>. QED
    BY <1>1, <2>4, <2>5
<1>3. CASE I = {}
  BY <1>1, <1>3
<1>. QED
  BY <1>2, <1>3

LEMMA NilIsEmptyAtom == EmptyAtom(Nil)
BY NilIsEmpty, PosInfAssumption DEF EmptyAtom

\* Merging gaps that are equal or apart drops repetitions only.
LEMMA MergeGaps ==
  ASSUME NEW vs, NEW o \in Seq(AtomSet), NEW n \in Nat, n = Len(o), n # 0,
         \A k \in 1 .. n : ~EmptyAtom(o[k]),
         \A j, k \in 1 .. n : o[j] = o[k] \/ ~Overlaps(o[j], o[k])
  PROVE  LET m == MkInterval(o)
         IN  /\ Covered(vs, o, n) = Covered(vs, m, Len(m))
             /\ \A k \in 1 .. n : \/ Newly(vs, o, k) = {}
                                  \/ \E j \in 1 .. Len(m) : Newly(vs, o, k) = Newly(vs, m, j)
<1>. PICK f : MergeSteps(o, f)
  BY MergedBySteps
<1>0. /\ f \in [0 .. n -> Seq(AtomSet)] /\ f[0] = << >> /\ Merged(o) = f[n]
      /\ \A k \in 1 .. n : f[k] = MergeNext(f[k - 1], o[k])
  BY DEF MergeSteps
<1>. DEFINE Same(i, q) == \/ Newly(vs, o, i) = {}
                          \/ \E j \in 1 .. Len(q) : Newly(vs, o, i) = Newly(vs, q, j)
            Good(k) == /\ Covered(vs, o, k) = Covered(vs, f[k], Len(f[k]))
                       /\ \A i \in 1 .. k : Same(i, f[k])
                       /\ k # 0 => f[k] # << >> /\ f[k][Len(f[k])] = o[k]
            X == {k \in Nat : k <= n => Good(k)}
<1>1. Good(0)
  <2>1. 1 .. 0 = {} /\ Len(<< >>) = 0
    OBVIOUS
  <2>. QED
    BY <1>0, <2>1 DEF Covered
<1>2. ASSUME NEW k \in Nat, k + 1 <= n, Good(k)
      PROVE  Good(k + 1)
  <2>1. k + 1 \in 1 .. n /\ (k + 1) - 1 = k /\ k \in 0 .. n /\ k + 1 # 0
        /\ \A i \in 1 .. k + 1 : i \in 1 .. k \/ i = k + 1
    BY <1>2
  <2>. PICK m \in Seq(AtomSet), a \in AtomSet : m = f[k] /\ a = o[k + 1]
    BY <1>0, <2>1
  <2>2. f[k + 1] = MergeNext(m, a) /\ ~EmptyAtom(a)
    BY <1>0, <2>1
  <2>3. Newly(vs, o, k + 1) = {v \in vs : Before(v, a)} \ Covered(vs, m, Len(m))
    <3>1. Newly(vs, o, k + 1) = {v \in vs : Before(v, a)} \ Covered(vs, o, k)
      BY <2>1 DEF Newly, Covered
    <3>. QED
      BY <1>2, <3>1
  <2>4. Covered(vs, o, k + 1) = Covered(vs, m, Len(m)) \cup {v \in vs : Before(v, a)}
    <3>1. Covered(vs, o, k + 1) = Covered(vs, o, k) \cup {v \in vs : Before(v, a)}
      <4>1. \A i \in Nat : i \in 1 .. k + 1 <=> i \in 1 .. k \/ i = k + 1
        OBVIOUS
      <4>. QED
        BY <4>1 DEF Covered
    <3>. QED
      BY <1>2, <3>1
  <2>5. CASE m # << >> /\ Overlaps(m[Len(m)], a)
    <3>1. m[Len(m)] = a
      <4>1. k # 0
        BY <1>0, <2>5
      <4>2. m[Len(m)] = o[k] /\ k \in 1 .. n
        BY <1>2, <2>1, <4>1
      <4>. QED
        BY <2>1, <2>5, <4>2
    <3>2. Extend(a, a) = a
      <4>. PICK x : x = Extend(a, a)
        OBVIOUS
      <4>1. /\ x \in AtomSet /\ x.lo = a.lo /\ x.lb = a.lb /\ x.ub = a.ub /\ x.uo = a.uo
        <5>1. ~(a.ub > a.ub) /\ a.uo \in BOOLEAN
          BY PosInfAssumption DEF AtomSet, Timestamps, NEGINF
        <5>2. x = [a EXCEPT !.ub = a.ub, !.uo = a.uo /\ (a.ub = a.ub => a.uo)]
          BY <5>1 DEF Extend
        <5>. QED
          BY <5>1, <5>2 DEF AtomSet
      <4>. QED
        BY <4>1 DEF AtomSet
    <3>3. f[k + 1] = m
      <4>1. Last(m) = a /\ m \in Seq(AtomSet)
        BY <3>1 DEF Last
      <4>2. f[k + 1] = Append(Front(m), a)
        BY <2>2, <2>5, <3>1, <3>2, <4>1 DEF MergeNext
      <4>. PICK l \in Nat : l = Len(m) /\ l > 0
        BY <2>5, EmptySeq
      <4>3. /\ Append(Front(m), a) \in Seq(AtomSet) /\ Len(Append(Front(m), a)) = l
            /\ Append(Front(m), a)[l] = a
            /\ \A i \in 1 .. l - 1 : Append(Front(m), a)[i] = m[i]
        BY ReplacedLast
      <4>. PICK w \in Seq(AtomSet) : w = Append(Front(m), a)
        BY <4>3
      <4>4. Len(w) = Len(m) /\ \A i \in 1 .. Len(w) : w[i] = m[i]
        <5>1. \A i \in 1 .. l : i \in 1 .. l - 1 \/ i = l
          OBVIOUS
        <5>. QED
          BY <3>1, <4>3, <5>1
      <4>5. w = m
        BY <4>4, SeqEqual
      <4>. QED
        BY <4>2, <4>5
    <3>4. \A v \in vs : Before(v, a) => v \in Covered(vs, m, Len(m))
      <4>1. Len(m) \in 1 .. Len(m)
        BY <2>5, EmptySeq
      <4>. QED
        BY <3>1, <4>1 DEF Covered
    <3>5. Newly(vs, o, k + 1) = {} /\ Covered(vs, o, k + 1) = Covered(vs, m, Len(m))
      BY <2>3, <2>4, <3>4 DEF Covered
    <3>6. \A i \in 1 .. k + 1 : Same(i, m)
      BY <1>2, <2>1, <3>5
    <3>. HIDE DEF Same
    <3>. QED
      BY <2>5, <3>1, <3>3, <3>5, <3>6
  <2>6. CASE ~(m # << >> /\ Overlaps(m[Len(m)], a))
    <3>. PICK l \in Nat : l = Len(m)
      OBVIOUS
    <3>1. f[k + 1] = Append(m, a)
      BY <2>2, <2>6 DEF MergeNext, Last
    <3>. PICK w : w = Append(m, a)
      OBVIOUS
    <3>2. w \in Seq(AtomSet) /\ Len(w) = l + 1 /\ w[l + 1] = a /\ \A i \in 1 .. l : w[i] = m[i]
      BY AppendedLast
    <3>3. \A i \in Nat : i \in 1 .. l + 1 <=> i \in 1 .. l \/ i = l + 1
      OBVIOUS
    <3>4. Covered(vs, w, l + 1) = Covered(vs, m, l) \cup {v \in vs : Before(v, a)}
      BY <3>2, <3>3 DEF Covered
    <3>5. Newly(vs, w, l + 1) = {v \in vs : Before(v, a)} \ Covered(vs, m, l)
      <4>1. (l + 1) - 1 = l
        OBVIOUS
      <4>. QED
        BY <3>2, <4>1 DEF Newly, Covered
    <3>6. \A j \in 1 .. l : Newly(vs, w, j) = Newly(vs, m, j)
      <4>. TAKE j \in 1 .. l
      <4>1. w[j] = m[j] /\ \A i \in 1 .. j - 1 : w[i] = m[i]
        BY <3>2
      <4>. QED
        BY <4>1 DEF Newly
    <3>7. \A i \in 1 .. k + 1 : Same(i, w)
      <4>. TAKE i \in 1 .. k + 1
      <4>1. CASE i \in 1 .. k
        <5>1. Same(i, m)
          BY <1>2, <4>1
        <5>2. \A j \in 1 .. l : j \in 1 .. Len(w)
          BY <3>2
        <5>. QED
          BY <3>6, <5>1, <5>2
      <4>2. CASE i = k + 1
        <5>1. Newly(vs, o, k + 1) = Newly(vs, w, l + 1)
          BY <2>3, <3>5
        <5>2. l + 1 \in 1 .. Len(w)
          BY <3>2
        <5>. QED
          BY <4>2, <5>1, <5>2
      <4>. QED
        BY <2>1, <4>1, <4>2
    <3>8. Covered(vs, o, k + 1) = Covered(vs, w, Len(w))
      BY <2>4, <3>2, <3>4
    <3>9. w # << >> /\ w[Len(w)] = o[k + 1]
      BY <3>2
    <3>. HIDE DEF Same
    <3>. QED
      BY <3>1, <3>7, <3>8, <3>9
  <2>. QED
    BY <2>5, <2>6
<1>3. Good(n)
  <2>. HIDE DEF Good
  <2>1. 0 \in X /\ \A k \in Nat : k \in X => k + 1 \in X
    BY <1>1, <1>2
  <2>. HIDE DEF X
  <2>2. \A k \in Nat : k \in X
    BY <2>1, NatSetInduction
  <2>3. n \in X /\ n <= n
    BY <2>2
  <2>. QED
    BY <2>3 DEF X
<1>4. MkInterval(o) = f[n]
  BY <1>0, <1>3 DEF MkInterval
<1>. QED
  BY <1>3, <1>4

\* The histories that step() may leave of values, and what makes them right:
\* no value is in two of them, and the whole can be ordered if they can.
PartsOf(vs) == [values : SUBSET vs, empties : {<< >>}]

RightParts(vs, es, parts) ==
  /\ parts \in Seq(PartsOf(vs))
  /\ \A j, k \in DOMAIN parts : j # k => parts[j].values \cap parts[k].values = {}
  /\ (\A k \in DOMAIN parts : Orders(OpsOf(parts[k].values), << >>))
       => Orders(OpsOf(vs) \cup {EmptyPopOf(es[k]) : k \in DOMAIN es}, << >>)

LEMMA HistoryIs ==
  ASSUME NEW vs, NEW es
  PROVE  History(vs, es).values = vs /\ History(vs, es).empties = es
BY DEF History

LEMMA LinResIs ==
  ASSUME NEW parts
  PROVE  /\ LinRes(parts).violation = FALSE /\ LinRes(parts).remaining = parts
         /\ LinViolation.violation = TRUE
BY DEF LinRes, LinViolation

LEMMA PartIs ==
  ASSUME NEW vs, NEW w \in SUBSET vs
  PROVE  History(w, << >>) \in PartsOf(vs) /\ History(w, << >>).values = w
BY DEF History, PartsOf

LEMMA NoEmpties ==
  ASSUME NEW T
  PROVE  T \cup {EmptyPopOf(<< >>[k]) : k \in DOMAIN << >>} = T
<1>1. DOMAIN << >> = {}
  OBVIOUS
<1>. QED
  BY <1>1

\* A part on its own, and two parts.
LEMMA OnePart ==
  ASSUME NEW vs, NEW w \in SUBSET vs, Orders(OpsOf(w), << >>) => Orders(OpsOf(vs), << >>)
  PROVE  RightParts(vs, << >>, <<History(w, << >>)>>)
<1>. PICK P : P = PartsOf(vs)
  OBVIOUS
<1>. PICK a \in P : a = History(w, << >>) /\ a.values = w
  BY PartIs
<1>1. <<a>> \in Seq(P) /\ DOMAIN <<a>> = {1} /\ <<a>>[1] = a
  OBVIOUS
<1>. QED
  BY <1>1, NoEmpties DEF RightParts

LEMMA TwoParts ==
  ASSUME NEW vs, NEW w \in SUBSET vs,
         Orders(OpsOf(w), << >>) /\ Orders(OpsOf(vs \ w), << >>) => Orders(OpsOf(vs), << >>)
  PROVE  RightParts(vs, << >>, <<History(w, << >>), History(vs \ w, << >>)>>)
<1>. PICK P : P = PartsOf(vs)
  OBVIOUS
<1>. PICK a \in P : a = History(w, << >>) /\ a.values = w
  BY PartIs
<1>. PICK b \in P : b = History(vs \ w, << >>) /\ b.values = vs \ w
  BY PartIs
<1>1. <<a, b>> \in Seq(P) /\ DOMAIN <<a, b>> = {1, 2} /\ <<a, b>>[1] = a /\ <<a, b>>[2] = b
  OBVIOUS
<1>2. w \cap (vs \ w) = {} /\ (vs \ w) \cap w = {}
  OBVIOUS
<1>. QED
  BY <1>1, <1>2, NoEmpties DEF RightParts

\* Splitting at a gap.
LEMMA SplitAtGap ==
  ASSUME NEW vs, ValuesOK(vs), NEW g, IsGap(vs, g)
  PROVE  RightParts(vs, << >>, Split(vs, g))
<1>. DEFINE L == {v \in vs : Before(v, g)}
            R == vs \ L
<1>1. ValuesOK(L) /\ ValuesOK(R) /\ L \in SUBSET vs
  BY PartOK
<1>2. g.lb \in Nat /\ g.ub \in Nat /\ g.lb < g.ub
  BY DEF IsGap
<1>3. \A v \in L : v.rmv.lb <= g.lb
  BY SidesOfGap
<1>4. \A v \in R : v.add.ub >= g.ub
  BY SidesOfGap
<1>5. Split(vs, g) = <<History(L, << >>), History(R, << >>)>>
  BY DEF Split
<1>6. OpsOf(vs) = OpsOf(L) \cup OpsOf(R)
  <2>1. L \cup R = vs
    OBVIOUS
  <2>. QED
    BY <2>1, OpsOfUnion
<1>7. \A a \in L, b \in R : a.val # b.val
  BY DEF ValuesOK
<1>. HIDE DEF L, R
<1>8. OpsOf(L) \cap OpsOf(R) = {}
  BY <1>7, OpsApart
<1>9. NoneBefore(OpsOf(R), OpsOf(L))
  <2>1. \A o \in OpsOf(R) : o.ret \in Nat /\ o.ret >= g.ub
    BY <1>1, <1>2, <1>4, OpsFrom, OpsOfOK DEF Timed
  <2>2. \A o \in OpsOf(L) : o.call \in Nat /\ o.call <= g.lb
    BY <1>1, <1>2, <1>3, OpsUpto, OpsOfOK DEF Timed
  <2>. QED
    BY <1>2, <2>1, <2>2 DEF NoneBefore
<1>10. ASSUME Orders(OpsOf(L), << >>), Orders(OpsOf(R), << >>)
       PROVE  Orders(OpsOf(vs), << >>)
  <2>. PICK V : V = ValuesIn(OpsOf(vs))
    OBVIOUS
  <2>1. ValuesIn(OpsOf(L)) \subseteq V /\ ValuesIn(OpsOf(R)) \subseteq V
    BY <1>6 DEF ValuesIn
  <2>2. << >> \in Seq(V)
    OBVIOUS
  <2>3. IsFiniteSet(OpsOf(L)) /\ IsFiniteSet(OpsOf(R)) /\ \A o \in OpsOf(R) : ~EmptyPop(o)
    BY <1>1, OpsOfOK
  <2>4. Orders(OpsOf(L) \cup OpsOf(R), << >>)
    BY <1>8, <1>9, <1>10, <2>1, <2>2, <2>3, OnTop
  <2>. QED
    BY <1>6, <2>4
<1>. QED
  BY <1>1, <1>5, <1>10, TwoParts DEF R

\* A round without empty pops.
LEMMA StepPushPopIsRight ==
  ASSUME NEW vs, ValuesOK(vs), vs # {}, NEW lr, lr = StepPushPop(History(vs, << >>)), ~lr.violation
  PROVE  RightParts(vs, << >>, lr.remaining)
<1>. DEFINE pruned == MinmaxPrune(vs)
            c == Cover(vs)
            G == Complement(c)
<1>1. lr = IF pruned # vs THEN LinRes(<<History(pruned, << >>)>>)
           ELSE IF IsAtomic(c) THEN LinViolation ELSE LinRes(Split(vs, G[2]))
  BY HistoryIs DEF StepPushPop
<1>2. CASE pruned # vs
  <2>1. lr.remaining = <<History(pruned, << >>)>>
    BY <1>1, <1>2, LinResIs
  <2>. QED
    BY <2>1, PruneIsSound, OnePart
<1>3. CASE ~(pruned # vs) /\ ~IsAtomic(c)
  <2>1. lr.remaining = Split(vs, G[2])
    BY <1>1, <1>3, LinResIs
  <2>2. IsGap(vs, G[2])
    BY <1>3, GapsOfCover DEF IsAtomic
  <2>. QED
    BY <2>1, <2>2, SplitAtGap
<1>4. ~(~(pruned # vs) /\ IsAtomic(c))
  BY <1>1, LinResIs
<1>. QED
  BY <1>2, <1>3, <1>4

\* A round with empty pops.
LEMMA StepPopEmptyIsRight ==
  ASSUME NEW vs, ValuesOK(vs), NEW es, EmptiesOK(es), es # << >>,
         NEW lr, lr = StepPopEmpty(History(vs, es)), ~lr.violation
  PROVE  RightParts(vs, es, lr.remaining)
<1>. DEFINE G == Complement(Cover(vs))
            o == [k \in DOMAIN es |-> FirstMatch(G, es[k])]
            M == MkInterval(o)
            segs == Segmentize(History(vs, es), M)
<1>. PICK n \in Nat : n = Len(es)
  BY DEF EmptiesOK
<1>0. DOMAIN es = 1 .. n /\ \A k \in 1 .. n : EmptyOK(es[k])
  BY DEF EmptiesOK
<1>1. (\A k \in 1 .. n : ~EmptyAtom(o[k])) /\ lr.remaining = segs
  <2>1. lr = IF \E k \in DOMAIN o : EmptyAtom(o[k]) THEN LinViolation ELSE LinRes(segs)
    BY HistoryIs DEF StepPopEmpty
  <2>. HIDE DEF o, segs
  <2>2. ~\E k \in DOMAIN o : EmptyAtom(o[k])
    BY <2>1, LinResIs
  <2>3. DOMAIN o = 1 .. n
    BY <1>0 DEF o
  <2>. QED
    BY <2>1, <2>2, <2>3, LinResIs
<1>2. G \in Seq(AtomSet)
  <2>1. NormalForm(Cover(vs))
    BY CoverIs
  <2>. QED
    BY <2>1, GapsAreAtoms, ComplementIs, MadeOfAtoms
<1>3. ASSUME NEW k \in 1 .. n
      PROVE  \E j \in DOMAIN G : o[k] = G[j] /\ Overlaps(G[j], es[k])
  <2>1. o[k] = FirstMatch(G, es[k])
    BY <1>0
  <2>2. o[k] # Nil
    BY <1>1, NilIsEmptyAtom
  <2>. HIDE DEF o, G
  <2>. QED
    BY <1>2, <2>1, <2>2, FirstMatchIs
<1>4. o \in Seq(AtomSet) /\ Len(o) = n
  <2>1. \A k \in 1 .. n : o[k] \in AtomSet
    BY <1>2, <1>3
  <2>2. DOMAIN o = 1 .. n /\ o = [k \in 1 .. n |-> o[k]]
    BY <1>0
  <2>. HIDE DEF o
  <2>. QED
    BY <2>1, <2>2
<1>5. n # 0
  <2>. SUFFICES ASSUME n = 0 PROVE es = << >>
    OBVIOUS
  <2>1. DOMAIN es = {} /\ DOMAIN o = {}
    BY <1>0
  <2>. QED
    BY <2>1
<1>. HIDE DEF G, o
<1>. PICK m \in Nat \ {0} : m = Len(M) /\ M \in Seq(AtomSet)
  <2>1. M \in Seq(AtomSet)
    BY <1>4, MadeOfAtoms
  <2>2. M # << >>
    BY DEF MkInterval
  <2>. HIDE DEF M
  <2>. QED
    BY <2>1, <2>2, EmptySeq
<1>. HIDE DEF M
<1>6. /\ segs \in Seq([values : SUBSET vs, empties : {es, << >>}]) /\ Len(segs) = m + 1
      /\ \A k \in 1 .. m : segs[k] = History(Newly(vs, M, k), << >>)
      /\ segs[m + 1] = History(vs \ Covered(vs, M, m), << >>)
  <2>1. AreSegments(segs, vs, es, M, m)
    BY SegmentsAre
  <2>. HIDE DEF segs
  <2>. QED
    BY <2>1 DEF AreSegments
<1>. HIDE DEF segs
<1>. DEFINE W(k) == IF k = m + 1 THEN vs \ Covered(vs, M, m) ELSE Newly(vs, M, k)
<1>7. \A k \in 1 .. m + 1 : W(k) \in SUBSET vs /\ segs[k] \in PartsOf(vs) /\ segs[k].values = W(k)
  <2>. TAKE k \in 1 .. m + 1
  <2>1. k \in 1 .. m \/ k = m + 1
    OBVIOUS
  <2>2. W(k) \in SUBSET vs /\ segs[k] = History(W(k), << >>)
    BY <1>6, <2>1 DEF Newly
  <2>. HIDE DEF W
  <2>. QED
    BY <2>2, PartIs
<1>8. segs \in Seq(PartsOf(vs)) /\ DOMAIN segs = 1 .. m + 1
  BY <1>6, <1>7, OfOtherType
<1>9. \A j, k \in 1 .. m + 1 : j # k => W(j) \cap W(k) = {}
  <2>. SUFFICES ASSUME NEW j \in 1 .. m + 1, NEW k \in 1 .. m + 1, j # k, NEW v, v \in W(j), v \in W(k)
                PROVE  FALSE
    OBVIOUS
  <2>1. CASE j = m + 1 \/ k = m + 1
    BY <2>1 DEF Newly, Covered
  <2>2. CASE j # m + 1 /\ k # m + 1
    BY <2>2 DEF Newly
  <2>. QED
    BY <2>1, <2>2
<1>10. ASSUME \A k \in 1 .. m + 1 : Orders(OpsOf(W(k)), << >>)
       PROVE  Orders(OpsOf(vs) \cup {EmptyPopOf(es[k]) : k \in DOMAIN es}, << >>)
  <2>1. CASE vs = {}
    <3>. DEFINE g == Atom(TRUE, 0, POSINF, TRUE)
                p == [k \in DOMAIN es |-> g]
    <3>0. g \in AtomSet /\ g.lo /\ g.uo /\ g.lb = 0 /\ g.ub = POSINF
      BY EndIs DEF Atom, AtomSet, Timestamps, NEGINF
    <3>. HIDE DEF g
    <3>1. IsGap(vs, g) /\ g.lb = 0 /\ g.ub = POSINF
      BY <2>1, <3>0, EndIs DEF IsGap
    <3>2. \A k \in DOMAIN es : p[k] = g
      OBVIOUS
    <3>3. InGaps(vs, es, p)
      BY <1>0, <3>1, <3>2, EndIs DEF InGaps, EmptyOK
    <3>. HIDE DEF p
    <3>4. \A k \in 1 .. n : Newly(vs, p, k) = {}
      BY <2>1 DEF Newly
    <3>5. vs \ Covered(vs, p, n) = {}
      BY <2>1
    <3>6. Orders(OpsOf({}), << >>)
      BY OpsOfNone, NothingToOrder
    <3>. QED
      BY <3>3, <3>4, <3>5, <3>6, EmptiesPlaced
  <2>2. CASE vs # {}
    <3>1. /\ \A k \in DOMAIN G : IsGap(vs, G[k])
          /\ \A k, l \in DOMAIN G : k # l => ~Overlaps(G[k], G[l])
      BY <2>2, GapsOfCover DEF G
    <3>2. \A k \in 1 .. n : IsGap(vs, o[k]) /\ Overlaps(o[k], es[k])
      BY <1>3, <3>1
    <3>3. \A j, k \in 1 .. n : o[j] = o[k] \/ ~Overlaps(o[j], o[k])
      <4>. TAKE j, k \in 1 .. n
      <4>1. PICK a \in DOMAIN G : o[j] = G[a]
        BY <1>3
      <4>2. PICK b \in DOMAIN G : o[k] = G[b]
        BY <1>3
      <4>. QED
        BY <3>1, <4>1, <4>2
    <3>4. InGaps(vs, es, o)
      <4>. SUFFICES ASSUME NEW k \in 1 .. n
                    PROVE  IsGap(vs, o[k]) /\ o[k].lb <= es[k].ub /\ es[k].lb <= o[k].ub
        BY <1>0 DEF InGaps
      <4>. QED
        BY <1>0, <3>2 DEF Overlaps, EmptyOK, IsGap
    <3>5. /\ Covered(vs, o, n) = Covered(vs, M, m)
          /\ \A k \in 1 .. n : \/ Newly(vs, o, k) = {}
                               \/ \E j \in 1 .. m : Newly(vs, o, k) = Newly(vs, M, j)
      BY <1>1, <1>4, <1>5, <3>3, MergeGaps DEF M
    <3>6. \A k \in 1 .. n : Orders(OpsOf(Newly(vs, o, k)), << >>)
      <4>. TAKE k \in 1 .. n
      <4>1. CASE Newly(vs, o, k) = {}
        BY <4>1, OpsOfNone, NothingToOrder
      <4>2. CASE \E j \in 1 .. m : Newly(vs, o, k) = Newly(vs, M, j)
        <5>. PICK j \in 1 .. m : Newly(vs, o, k) = Newly(vs, M, j)
          BY <4>2
        <5>1. j \in 1 .. m + 1 /\ W(j) = Newly(vs, M, j)
          OBVIOUS
        <5>. QED
          BY <1>10, <5>1
      <4>. QED
        BY <3>5, <4>1, <4>2
    <3>7. Orders(OpsOf(vs \ Covered(vs, o, n)), << >>)
      <4>1. m + 1 \in 1 .. m + 1 /\ W(m + 1) = vs \ Covered(vs, o, n)
        BY <3>5
      <4>. QED
        BY <1>10, <4>1
    <3>. QED
      BY <3>4, <3>6, <3>7, EmptiesPlaced
  <2>. QED
    BY <2>1, <2>2
<1>. HIDE DEF W
<1>. QED
  BY <1>1, <1>7, <1>8, <1>9, <1>10 DEF RightParts

LEMMA Joined ==
  ASSUME NEW P, NEW r \in Seq(P), NEW f \in Seq(P), NEW m, m = Len(r), NEW n, n = Len(f)
  PROVE  /\ r \o f \in Seq(P) /\ m \in Nat /\ n \in Nat
         /\ DOMAIN r = 1 .. m /\ DOMAIN f = 1 .. n /\ DOMAIN (r \o f) = 1 .. m + n
         /\ \A k \in 1 .. m : (r \o f)[k] = r[k]
         /\ \A k \in 1 .. n : (r \o f)[m + k] = f[k]
OBVIOUS

LEMMA EitherHalf ==
  ASSUME NEW m \in Nat, NEW n \in Nat, NEW k \in 1 .. m + n
  PROVE  k \in 1 .. m \/ \E i \in 1 .. n : k = m + i
<1>. SUFFICES ASSUME k \notin 1 .. m PROVE k - m \in 1 .. n /\ k = m + (k - m)
  OBVIOUS
<1>. QED
  OBVIOUS

LEMMA OfOne ==
  ASSUME NEW P, NEW a \in P
  PROVE  <<a>> \in Seq(P)
OBVIOUS

\* step() is right.
LEMMA StepIsRight ==
  ASSUME NEW vs, ValuesOK(vs), NEW es, EmptiesOK(es),
         NEW lr, lr = Step(History(vs, es)), ~lr.violation
  PROVE  /\ RightParts(vs, es, lr.remaining)
         /\ es = << >> => lr.remaining \in Seq(PartsOf(MinmaxPrune(vs)))
<1>1. lr = CASE LastOp(History(vs, es)) = "Epsilon"  -> LinRes(<< >>)
             [] LastOp(History(vs, es)) = "PopEmpty" -> StepPopEmpty(History(vs, es))
             [] LastOp(History(vs, es)) = "PushPop"  -> StepPushPop(History(vs, es))
  BY Zenon DEF Step
<1>2. LastOp(History(vs, es)) =
        IF es # << >> THEN "PopEmpty" ELSE IF vs # {} THEN "PushPop" ELSE "Epsilon"
  BY HistoryIs DEF LastOp
<1>3. CASE es # << >>
  <2>1. lr = StepPopEmpty(History(vs, es))
    BY <1>1, <1>2, <1>3
  <2>. QED
    BY <1>3, <2>1, StepPopEmptyIsRight
<1>4. CASE es = << >> /\ vs # {}
  <2>1. lr = StepPushPop(History(vs, << >>))
    BY <1>1, <1>2, <1>4
  <2>2. RightParts(vs, << >>, lr.remaining)
    BY <1>4, <2>1, StepPushPopIsRight
  <2>3. CASE MinmaxPrune(vs) # vs
    <3>0. lr = IF MinmaxPrune(vs) # vs THEN LinRes(<<History(MinmaxPrune(vs), << >>)>>)
               ELSE IF IsAtomic(Cover(vs)) THEN LinViolation
               ELSE LinRes(Split(vs, Complement(Cover(vs))[2]))
      BY <2>1, HistoryIs DEF StepPushPop
    <3>1. lr.remaining = <<History(MinmaxPrune(vs), << >>)>>
      BY <2>3, <3>0, LinResIs
    <3>2. History(MinmaxPrune(vs), << >>) \in PartsOf(MinmaxPrune(vs))
      BY PartIs
    <3>. QED
      BY <1>4, <2>2, <3>1, <3>2, OfOne
  <2>4. CASE MinmaxPrune(vs) = vs
    BY <1>4, <2>2, <2>4 DEF RightParts
  <2>. QED
    BY <2>3, <2>4
<1>5. CASE es = << >> /\ vs = {}
  <2>1. lr.remaining = << >>
    BY <1>1, <1>2, <1>5, LinResIs
  <2>2. Orders(OpsOf(vs) \cup {EmptyPopOf(es[k]) : k \in DOMAIN es}, << >>)
    <3>1. OpsOf(vs) = {} /\ DOMAIN es = {}
      BY <1>5, OpsOfNone
    <3>2. OpsOf(vs) \cup {EmptyPopOf(es[k]) : k \in DOMAIN es} = {}
      BY <3>1
    <3>. QED
      BY <3>2, NothingToOrder
  <2>. QED
    BY <2>1, <2>2 DEF RightParts
<1>. QED
  BY <1>3, <1>4, <1>5

\* A worklist for some operations, of parts of some values.
Worklist(parts, vs, ops) ==
  /\ parts \in Seq(PartsOf(vs))
  /\ \A j, k \in DOMAIN parts : j # k => parts[j].values \cap parts[k].values = {}
  /\ (\A k \in DOMAIN parts : Orders(OpsOf(parts[k].values), << >>)) => Orders(ops, << >>)

\* One iteration of do_linearization.
LEMMA WorklistGoesOn ==
  ASSUME NEW vs, ValuesOK(vs), NEW ops, NEW parts, Worklist(parts, vs, ops), parts # << >>,
         NEW lr, lr = Step(Last(parts)), ~lr.violation
  PROVE  Worklist(lr.remaining \o Front(parts), vs, ops)
<1>. PICK P : P = PartsOf(vs)
  OBVIOUS
<1>0. parts \in Seq(P)
  BY DEF Worklist
<1>. PICK f : f = Front(parts)
  OBVIOUS
<1>. PICK n \in Nat \ {0} : n = Len(parts)
  BY <1>0, EmptySeq
<1>1. f \in Seq(P) /\ Len(f) = n - 1 /\ \A k \in 1 .. n - 1 : f[k] = parts[k]
  BY <1>0, FrontAndLast
<1>2. Last(parts) \in P /\ Last(parts) = parts[n]
  BY <1>0, FrontAndLast
<1>. PICK w \in SUBSET vs : Last(parts) = History(w, << >>) /\ parts[n].values = w
  BY <1>2 DEF PartsOf, History
<1>. PICK r : r = lr.remaining
  OBVIOUS
<1>3. RightParts(w, << >>, r)
  <2>1. ValuesOK(w)
    BY PartOK
  <2>2. EmptiesOK(<< >>)
    BY DEF EmptiesOK
  <2>. QED
    BY <2>1, <2>2, StepIsRight
<1>. PICK m \in Nat : m = Len(r) /\ r \in Seq(P) /\ \A k \in 1 .. m : r[k].values \in SUBSET w
  <2>1. r \in Seq(PartsOf(w))
    BY <1>3 DEF RightParts
  <2>2. \A a \in PartsOf(w) : a \in P /\ a.values \in SUBSET w
    BY DEF PartsOf
  <2>. PICK Q : Q = PartsOf(w)
    OBVIOUS
  <2>3. \A k \in 1 .. Len(r) : r[k] \in Q
    BY <2>1
  <2>4. r \in Seq(P)
    BY <2>1, <2>2, <2>3, OfOtherType
  <2>. QED
    BY <2>2, <2>3, <2>4
<1>. PICK q : q = r \o f
  OBVIOUS
<1>. PICK l \in Nat : l = n - 1
  OBVIOUS
<1>4. /\ q \in Seq(P) /\ DOMAIN r = 1 .. m /\ DOMAIN q = 1 .. m + l
      /\ \A k \in 1 .. m : q[k] = r[k]
      /\ \A k \in 1 .. l : q[m + k] = parts[k]
  <2>1. l = Len(f) /\ \A k \in 1 .. l : f[k] = parts[k]
    BY <1>1
  <2>2. /\ r \o f \in Seq(P) /\ DOMAIN r = 1 .. m /\ DOMAIN (r \o f) = 1 .. m + l
        /\ \A k \in 1 .. m : (r \o f)[k] = r[k]
        /\ \A k \in 1 .. l : (r \o f)[m + k] = f[k]
    <3>1. r \in Seq(P) /\ f \in Seq(P) /\ m = Len(r)
      BY <1>1
    <3>. QED
      BY ONLY <2>1, <3>1, Joined
  <2>. QED
    BY ONLY <2>1, <2>2, q = r \o f
<1>5. \A k \in 1 .. m + l : k \in 1 .. m \/ \E i \in 1 .. l : k = m + i
  <2>1. m \in Nat /\ l \in Nat
    OBVIOUS
  <2>. QED
    BY ONLY <2>1, EitherHalf
<1>6. DOMAIN parts = 1 .. n /\ \A k \in 1 .. n : k = n \/ k \in 1 .. l
  BY <1>0
<1>7. \A k \in 1 .. l : parts[k].values \cap w = {}
  <2>. TAKE k \in 1 .. l
  <2>1. k \in DOMAIN parts /\ n \in DOMAIN parts /\ k # n
    BY <1>6
  <2>. QED
    BY <2>1 DEF Worklist
<1>8. \A j, k \in DOMAIN q : j # k => q[j].values \cap q[k].values = {}
  <2>. TAKE j, k \in DOMAIN q
  <2>0. /\ j \in 1 .. m \/ \E i \in 1 .. l : j = m + i
        /\ k \in 1 .. m \/ \E i \in 1 .. l : k = m + i
    BY ONLY <1>4, <1>5, j \in DOMAIN q, k \in DOMAIN q
  <2>1. CASE j \in 1 .. m /\ k \in 1 .. m
    BY <1>3, <1>4, <1>6, <2>1 DEF RightParts
  <2>5. \A a \in 1 .. m, i \in 1 .. l : q[a].values \cap q[m + i].values = {}
    <3>. TAKE a \in 1 .. m, i \in 1 .. l
    <3>1. q[a] = r[a] /\ q[m + i] = parts[i] /\ r[a].values \in SUBSET w
      BY <1>4
    <3>2. parts[i].values \cap w = {}
      BY <1>7
    <3>. QED
      BY ONLY <3>1, <3>2
  <2>2. CASE j \in 1 .. m /\ \E i \in 1 .. l : k = m + i
    BY ONLY <2>2, <2>5
  <2>3. CASE k \in 1 .. m /\ \E i \in 1 .. l : j = m + i
    BY ONLY <2>3, <2>5
  <2>4. CASE (\E i \in 1 .. l : j = m + i) /\ (\E i \in 1 .. l : k = m + i)
    <3>. PICK a \in 1 .. l : j = m + a
      BY <2>4
    <3>. PICK b \in 1 .. l : k = m + b
      BY <2>4
    <3>0. a \in DOMAIN parts /\ b \in DOMAIN parts /\ (j # k => a # b)
      BY ONLY <1>6, j = m + a, k = m + b, a \in 1 .. l, b \in 1 .. l, l = n - 1,
              n \in Nat \ {0}
    <3>1. j # k => parts[a].values \cap parts[b].values = {}
      BY <3>0 DEF Worklist
    <3>. QED
      BY <1>4, <3>1
  <2>. QED
    BY Zenon, <2>0, <2>1, <2>2, <2>3, <2>4
<1>9. ASSUME \A k \in DOMAIN q : Orders(OpsOf(q[k].values), << >>)
      PROVE  Orders(ops, << >>)
  <2>1. \A k \in DOMAIN r : Orders(OpsOf(r[k].values), << >>)
    <3>. TAKE k \in DOMAIN r
    <3>1. k \in DOMAIN q /\ q[k] = r[k]
      BY <1>4, <1>6
    <3>. QED
      BY <1>9, <3>1
  <2>2. Orders(OpsOf(w), << >>)
    BY <1>3, <2>1, NoEmpties DEF RightParts
  <2>3. \A k \in DOMAIN parts : Orders(OpsOf(parts[k].values), << >>)
    <3>. TAKE k \in DOMAIN parts
    <3>1. CASE k = n
      BY <2>2, <3>1
    <3>2. CASE k \in 1 .. l
      <4>1. m + k \in DOMAIN q /\ q[m + k] = parts[k]
        <5>1. m + k \in 1 .. m + l
          BY ONLY <3>2, m \in Nat, l \in Nat
        <5>. QED
          BY <1>4, <3>2, <5>1
      <4>. QED
        BY <1>9, <4>1
    <3>. QED
      BY <1>6, <3>1, <3>2
  <2>. QED
    BY <2>3 DEF Worklist
<1>10. Worklist(q, vs, ops)
  BY <1>4, <1>8, <1>9 DEF Worklist
<1>. QED
  BY <1>10

----------------------------------------------------------------------------
(* Histories taken apart: what can be ordered can be without some values. *)

\* t is what is left of the stack s without the values D, r that of its last k.
IsThinned(s, t, D, V, r) ==
  /\ r[0] = <<>> /\ r[Len(s)] = t
  /\ \A k \in 0 .. Len(s) : r[k] \in Seq(V)
  /\ \A k \in 1 .. Len(s) :
       r[k] = IF s[Len(s) + 1 - k] \in D THEN r[k - 1] ELSE <<s[Len(s) + 1 - k]>> \o r[k - 1]

Thin(s, t, D, V) == \E r : IsThinned(s, t, D, V, r)

LEMMA ThinNone ==
  ASSUME NEW D, NEW V
  PROVE  Thin(<< >>, << >>, D, V)
<1>1. IsThinned(<< >>, << >>, D, V, [k \in {0} |-> << >>])
  BY DEF IsThinned
<1>. QED
  BY <1>1 DEF Thin

LEMMA Pushed ==
  ASSUME NEW V, NEW s \in Seq(V), NEW v \in V
  PROVE  /\ <<v>> \o s \in Seq(V) /\ Len(<<v>> \o s) = Len(s) + 1
         /\ (<<v>> \o s)[1] = v /\ \A i \in 1 .. Len(s) : (<<v>> \o s)[i + 1] = s[i]
         /\ Head(<<v>> \o s) = v /\ Tail(<<v>> \o s) = s /\ <<v>> \o s # << >>
<1>1. <<v>> \in Seq(V) /\ Len(<<v>>) = 1
  OBVIOUS
<1>2. <<v>> \o s \in Seq(V) /\ Len(<<v>> \o s) = Len(s) + 1 /\ (<<v>> \o s)[1] = v
  BY <1>1
<1>3. \A i \in 1 .. Len(s) : (<<v>> \o s)[i + 1] = s[i]
  BY <1>1
<1>4. Tail(<<v>> \o s) = s
  <2>. DEFINE q == <<v>> \o s
  <2>1. Tail(q) \in Seq(V) /\ Len(Tail(q)) = Len(s) /\ \A i \in 1 .. Len(s) : Tail(q)[i] = s[i]
    BY <1>2, <1>3
  <2>. QED
    BY <2>1
<1>. QED
  BY <1>2, <1>3, <1>4

\* A value is put on both stacks, or it is one of D.
LEMMA ThinPush ==
  ASSUME NEW D, NEW V, NEW s \in Seq(V), NEW t \in Seq(V), Thin(s, t, D, V), NEW v \in V
  PROVE  /\ v \in D => Thin(<<v>> \o s, t, D, V)
         /\ v \notin D => Thin(<<v>> \o s, <<v>> \o t, D, V)
<1>1. PICK r : IsThinned(s, t, D, V, r)
  BY DEF Thin
<1>. DEFINE n == Len(s)
            q == <<v>> \o s
            u == IF v \in D THEN t ELSE <<v>> \o t
            x == [k \in 0 .. n + 1 |-> IF k = n + 1 THEN u ELSE r[k]]
<1>2. n \in Nat /\ Len(q) = n + 1 /\ q[1] = v /\ \A i \in 1 .. n : q[i + 1] = s[i]
  BY Pushed
<1>3. u \in Seq(V)
  BY Pushed
<1>4. x[0] = << >> /\ x[n + 1] = u
  BY <1>1, <1>2 DEF IsThinned
<1>5. \A k \in 0 .. n + 1 : x[k] \in Seq(V)
  BY <1>1, <1>2, <1>3 DEF IsThinned
<1>6. \A k \in 1 .. n + 1 :
        x[k] = IF q[n + 2 - k] \in D THEN x[k - 1] ELSE <<q[n + 2 - k]>> \o x[k - 1]
  <2>. TAKE k \in 1 .. n + 1
  <2>1. CASE k = n + 1
    <3>1. n + 2 - k = 1 /\ x[k] = u /\ x[k - 1] = r[n]
      BY <1>2, <2>1
    <3>2. r[n] = t
      BY <1>1 DEF IsThinned
    <3>. QED
      BY <1>2, <3>1, <3>2
  <2>2. CASE k \in 1 .. n
    <3>1. x[k] = r[k] /\ x[k - 1] = r[k - 1]
      BY <1>2, <2>2
    <3>2. n + 1 - k \in 1 .. n /\ n + 2 - k = (n + 1 - k) + 1
      BY <1>2, <2>2
    <3>3. q[n + 2 - k] = s[n + 1 - k]
      BY <1>2, <3>2
    <3>4. r[k] = IF s[n + 1 - k] \in D THEN r[k - 1] ELSE <<s[n + 1 - k]>> \o r[k - 1]
      BY <1>1, <2>2 DEF IsThinned
    <3>. HIDE DEF x, q
    <3>. QED
      BY <3>1, <3>3, <3>4
  <2>. QED
    BY <1>2, <2>1, <2>2
<1>7. IsThinned(q, u, D, V, x)
  <2>. HIDE DEF x, q, u
  <2>1. n + 2 = Len(q) + 1 /\ n + 1 = Len(q)
    BY <1>2
  <2>. QED
    BY <1>4, <1>5, <1>6, <2>1 DEF IsThinned
<1>. QED
  BY <1>7 DEF Thin

\* The first value is taken from both stacks, or it is one of D.
LEMMA ThinPop ==
  ASSUME NEW D, NEW V, NEW s \in Seq(V), NEW t \in Seq(V), Thin(s, t, D, V), s # << >>
  PROVE  /\ Head(s) \in D => Thin(Tail(s), t, D, V)
         /\ Head(s) \notin D => t # << >> /\ Head(t) = Head(s) /\ Thin(Tail(s), Tail(t), D, V)
<1>1. PICK r : IsThinned(s, t, D, V, r)
  BY DEF Thin
<1>. DEFINE n == Len(s)
            q == Tail(s)
<1>2. n \in Nat /\ n # 0 /\ Len(q) = n - 1 /\ \A i \in 1 .. n - 1 : q[i] = s[i + 1]
  OBVIOUS
<1>3. Head(s) = s[1] /\ s[1] \in V /\ n + 1 - n = 1 /\ n \in 1 .. n /\ n - 1 \in 0 .. n
  BY <1>2
<1>4. t = IF Head(s) \in D THEN r[n - 1] ELSE <<Head(s)>> \o r[n - 1]
  BY <1>1, <1>3 DEF IsThinned
<1>5. r[n - 1] \in Seq(V)
  BY <1>1, <1>3 DEF IsThinned
<1>6. IsThinned(q, r[n - 1], D, V, r)
  <2>1. \A k \in 1 .. n - 1 :
          r[k] = IF q[n - k] \in D THEN r[k - 1] ELSE <<q[n - k]>> \o r[k - 1]
    <3>. TAKE k \in 1 .. n - 1
    <3>1. n - k \in 1 .. n - 1 /\ n + 1 - k = (n - k) + 1 /\ k \in 1 .. n
      BY <1>2
    <3>2. q[n - k] = s[n + 1 - k]
      BY <1>2, <3>1
    <3>. QED
      BY <1>1, <3>1, <3>2 DEF IsThinned
  <2>2. \A k \in 1 .. n - 1 : (n - 1) + 1 - k = n - k
    BY <1>2
  <2>3. \A k \in 0 .. n - 1 : k \in 0 .. n
    BY <1>2
  <2>. HIDE DEF q, n
  <2>. QED
    BY <1>1, <1>2, <2>1, <2>2, <2>3 DEF IsThinned, n
<1>7. Thin(q, r[n - 1], D, V)
  BY <1>6 DEF Thin
<1>8. CASE Head(s) \in D
  BY <1>4, <1>7, <1>8
<1>9. CASE Head(s) \notin D
  <2>. DEFINE x == r[n - 1]
  <2>1. t = <<Head(s)>> \o x /\ x \in Seq(V) /\ Head(s) \in V
    BY <1>3, <1>4, <1>5, <1>9
  <2>. HIDE DEF x
  <2>2. t # << >> /\ Head(t) = Head(s) /\ Tail(t) = x
    BY <2>1, Pushed
  <2>. QED
    BY <1>7, <1>9, <2>2 DEF x
<1>. QED
  BY <1>8, <1>9

WithoutValues(T, D) == {o \in T : o.val \notin D}

\* What can be ordered from a stack on can be without the values D, from what
\* is left of the stack without them.
LEMMA OrderWithout ==
  ASSUME NEW V, NEW T, IsFiniteSet(T), ValuesIn(T) \subseteq V, NEW D, Orders(T, << >>)
  PROVE  Orders(WithoutValues(T, D), << >>)
<1>. DEFINE Rest(U) == {o \in U : o.val \notin D}
            X == {U \in SUBSET T : \A s \in Seq(V), t \in Seq(V) :
                    Thin(s, t, D, V) /\ Orders(U, s) => Orders(Rest(U), t)}
<1>1. ASSUME NEW U \in SUBSET T, \A o \in U : U \ {o} \in X
      PROVE  U \in X
  <2>. SUFFICES ASSUME NEW s \in Seq(V), NEW t \in Seq(V), Thin(s, t, D, V), Orders(U, s)
                PROVE  Orders(Rest(U), t)
    OBVIOUS
  <2>1. CASE U = {}
    <3>1. Rest(U) = {}
      BY <2>1
    <3>. QED
      BY <3>1, NothingToOrder
  <2>2. CASE U # {}
    <3>1. PICK o \in U : Fits(o, s) /\ NoneBefore(U, {o}) /\ Orders(U \ {o}, StackAfter(s, o))
      BY <2>2, OrderNext
    <3>2. o.val \in V
      BY DEF ValuesIn
    <3>. DEFINE w == StackAfter(s, o)
                x == IF o.val \in D THEN t ELSE StackAfter(t, o)
    <3>3. w \in Seq(V) /\ x \in Seq(V) /\ Thin(w, x, D, V) /\ (o.val \notin D => Fits(o, t))
      <4>1. CASE o.type = "push"
        <5>1. w = <<o.val>> \o s /\ x = IF o.val \in D THEN t ELSE <<o.val>> \o t
          BY <4>1 DEF StackAfter
        <5>2. Fits(o, t)
          BY <4>1 DEF Fits
        <5>. HIDE DEF w, x
        <5>. QED
          BY <3>2, <5>1, <5>2, Pushed, ThinPush
      <4>2. CASE o.type = "pop" /\ o.val # NoVal
        <5>1. s # << >> /\ Head(s) = o.val /\ w = Tail(s) /\ w \in Seq(V)
          BY <3>1, <4>2 DEF StackAfter, Fits
        <5>2. x = IF o.val \in D THEN t ELSE Tail(t)
          BY <4>2 DEF StackAfter
        <5>. HIDE DEF w, x
        <5>3. /\ o.val \in D => Thin(w, t, D, V)
              /\ o.val \notin D => t # << >> /\ Head(t) = o.val /\ Thin(w, Tail(t), D, V)
          BY <5>1, ThinPop
        <5>4. t # << >> => Tail(t) \in Seq(V)
          OBVIOUS
        <5>5. o.val \notin D => Fits(o, t)
          BY <4>2, <5>3 DEF Fits
        <5>. QED
          BY <5>1, <5>2, <5>3, <5>4, <5>5
      <4>3. CASE o.type = "pop" /\ o.val = NoVal
        <5>1. s = << >> /\ w = s /\ x = t
          BY <3>1, <4>3 DEF StackAfter, Fits
        <5>2. PICK r : IsThinned(s, t, D, V, r)
          BY DEF Thin
        <5>3. t = << >>
          BY <5>1, <5>2 DEF IsThinned
        <5>. QED
          BY <4>3, <5>1, <5>3 DEF Fits
      <4>. QED
        BY <3>1, <4>1, <4>2, <4>3 DEF Fits
    <3>4. Orders(Rest(U \ {o}), x)
      <4>1. U \ {o} \in X
        BY <1>1
      <4>. HIDE DEF w, x, Rest
      <4>. QED
        BY <3>1, <3>3, <4>1 DEF w
    <3>5. CASE o.val \in D
      <4>1. Rest(U \ {o}) = Rest(U)
        BY <3>5
      <4>. HIDE DEF Rest
      <4>. QED
        BY <3>4, <3>5, <4>1
    <3>6. CASE o.val \notin D
      <4>1. Rest(U \ {o}) = Rest(U) \ {o} /\ o \in Rest(U) /\ Rest(U) \subseteq U
        BY <3>6
      <4>2. NoneBefore(Rest(U), {o})
        BY <3>1, <4>1 DEF NoneBefore
      <4>. HIDE DEF Rest
      <4>. QED
        BY <3>3, <3>4, <3>6, <4>1, <4>2, OrderFirst
    <3>. QED
      BY <3>5, <3>6
  <2>. QED
    BY <2>1, <2>2
<1>. HIDE DEF X
<1>2. T \in X
  <2>1. \A U \in SUBSET T : U \in X
    BY <1>1, RemovalInduction
  <2>. QED
    BY <2>1
<1>3. << >> \in Seq(V) /\ Thin(<< >>, << >>, D, V)
  BY ThinNone
<1>. QED
  BY <1>2, <1>3 DEF X, WithoutValues

\* The operations A of T come before x, when the stack is s and what lies below
\* it: all of s is popped and all that A pushes.
IsBefore(A, T, s, x) ==
  /\ A \subseteq T \ {x}
  /\ NoneBefore({x}, A) /\ NoneBefore(T \ A, A \cup {x})
  /\ \A k \in 1 .. Len(s) : \E p \in A : Pops(p, s[k])
  /\ \A o \in A : o.type = "push" => \E p \in A : Pops(p, o.val)

\* What comes before o comes before x, with o.
LEMMA BeforeThat ==
  ASSUME NEW V, NEW U, NEW s \in Seq(V), NEW o \in U, NEW x \in U, o # x, o.val \in V,
         Fits(o, s), NoneBefore(U, {o}), NEW A, IsBefore(A, U \ {o}, StackAfter(s, o), x)
  PROVE  IsBefore(A \cup {o}, U, s, x)
<1>. DEFINE w == StackAfter(s, o)
            B == A \cup {o}
<1>1. B \subseteq U \ {x}
  BY DEF IsBefore
<1>2. NoneBefore({x}, B)
  BY DEF IsBefore, NoneBefore
<1>3. NoneBefore(U \ B, B \cup {x})
  BY DEF IsBefore, NoneBefore
<1>4. \A k \in 1 .. Len(w) : \E p \in A : Pops(p, w[k])
  BY DEF IsBefore
<1>5. \A q \in A : q.type = "push" => \E p \in A : Pops(p, q.val)
  BY DEF IsBefore
<1>6. CASE o.type = "push"
  <2>1. w = <<o.val>> \o s
    BY <1>6 DEF StackAfter
  <2>. HIDE DEF w
  <2>2. /\ Len(w) = Len(s) + 1 /\ w[1] = o.val /\ \A k \in 1 .. Len(s) : w[k + 1] = s[k]
    BY <2>1, Pushed
  <2>3. \A k \in 1 .. Len(s) : k + 1 \in 1 .. Len(w)
    BY <2>2
  <2>4. 1 \in 1 .. Len(w)
    BY <2>2
  <2>5. \A k \in 1 .. Len(s) : \E p \in B : Pops(p, s[k])
    BY <1>4, <2>2, <2>3
  <2>6. \E p \in B : Pops(p, o.val)
    BY <1>4, <2>2, <2>4
  <2>. QED
    BY <1>1, <1>2, <1>3, <1>5, <2>5, <2>6 DEF IsBefore
<1>7. CASE o.type = "pop" /\ o.val # NoVal
  <2>1. s # << >> /\ Head(s) = o.val /\ w = Tail(s)
    BY <1>7 DEF StackAfter, Fits
  <2>. HIDE DEF w
  <2>2. Len(w) = Len(s) - 1 /\ s[1] = o.val /\ \A k \in 1 .. Len(s) - 1 : w[k] = s[k + 1]
    BY <2>1
  <2>3. \A k \in 1 .. Len(s) : k = 1 \/ (k - 1 \in 1 .. Len(w) /\ w[k - 1] = s[k])
    <3>. TAKE k \in 1 .. Len(s)
    <3>. SUFFICES ASSUME k # 1 PROVE k - 1 \in 1 .. Len(w) /\ w[k - 1] = s[k]
      OBVIOUS
    <3>1. k - 1 \in 1 .. Len(s) - 1 /\ (k - 1) + 1 = k
      OBVIOUS
    <3>. QED
      BY <2>2, <3>1
  <2>4. Pops(o, s[1])
    BY <1>7, <2>2 DEF Pops
  <2>5. \A k \in 1 .. Len(s) : \E p \in B : Pops(p, s[k])
    BY <1>4, <2>3, <2>4
  <2>. QED
    BY <1>1, <1>2, <1>3, <1>5, <1>7, <2>5 DEF IsBefore
<1>8. CASE o.type = "pop" /\ o.val = NoVal
  <2>1. w = s
    BY <1>8 DEF StackAfter
  <2>. QED
    BY <1>1, <1>2, <1>3, <1>4, <1>5, <1>8, <2>1 DEF IsBefore
<1>. QED
  BY <1>6, <1>7, <1>8 DEF Fits

\* When the stack is down to the value that x pops, or to nothing if x finds it
\* empty, all that was pushed above has been popped.
LEMMA UntilBottom ==
  ASSUME NEW V, NEW T, IsFiniteSet(T), ValuesIn(T) \subseteq V, NEW x \in T, x.type = "pop",
         \A o \in T : o.type = "push" => o.val # x.val, \A o \in T : Pops(o, x.val) => o = x,
         NEW f \in Seq(V), f = IF x.val = NoVal THEN << >> ELSE <<x.val>>, Orders(T, f)
  PROVE  \E A : IsBefore(A, T, << >>, x)
<1>. DEFINE X == {U \in SUBSET T : x \in U => \A s \in Seq(V) :
                    ~IsOn(x.val, s) /\ Orders(U, s \o f) => \E A : IsBefore(A, U, s, x)}
<1>1. ASSUME NEW U \in SUBSET T, \A o \in U : U \ {o} \in X
      PROVE  U \in X
  <2>. SUFFICES ASSUME x \in U, NEW s \in Seq(V), ~IsOn(x.val, s), Orders(U, s \o f)
                PROVE  \E A : IsBefore(A, U, s, x)
    OBVIOUS
  <2>1. PICK o \in U : Fits(o, s \o f) /\ NoneBefore(U, {o}) /\ Orders(U \ {o}, StackAfter(s \o f, o))
    BY OrderNext
  <2>2. /\ s = << >> => s \o f = f
        /\ s # << >> => s \o f # << >> /\ Head(s \o f) = s[1] /\ Head(s) = s[1] /\ 1 \in 1 .. Len(s)
    <3>1. CASE s = << >>
      BY <3>1
    <3>2. CASE s # << >>
      <4>1. Len(s) \in Nat /\ Len(s) > 0 /\ Len(f) \in Nat
        BY <3>2
      <4>2. Len(s \o f) = Len(s) + Len(f) /\ (s \o f)[1] = s[1]
        BY <4>1
      <4>. QED
        BY <3>2, <4>1, <4>2
    <3>. QED
      BY <3>1, <3>2
  <2>3. f # << >> => x.val # NoVal /\ Head(f) = x.val
    OBVIOUS
  <2>4. CASE o = x
    <3>1. s = << >>
      BY <2>1, <2>2, <2>4 DEF Fits, IsOn
    <3>2. IsBefore({}, U, s, x)
      BY <2>1, <2>4, <3>1 DEF IsBefore, NoneBefore
    <3>. QED
      BY <3>2
  <2>5. CASE o # x
    <3>1. ~Pops(o, x.val) /\ o.val \in V
      BY <2>5 DEF ValuesIn
    <3>2. Fits(o, s) /\ (EmptyPop(o) => f = << >>)
      <4>1. CASE o.type = "push"
        BY <4>1 DEF Fits, EmptyPop
      <4>2. CASE o.type = "pop" /\ o.val # NoVal
        <5>1. s \o f # << >> /\ Head(s \o f) = o.val
          BY <2>1, <4>2 DEF Fits
        <5>2. s # << >>
          BY <2>2, <2>3, <3>1, <4>2, <5>1 DEF Pops
        <5>. QED
          BY <2>2, <4>2, <5>1, <5>2 DEF Fits, EmptyPop
      <4>3. CASE o.type = "pop" /\ o.val = NoVal
        <5>1. s \o f = << >>
          BY <2>1, <4>3 DEF Fits
        <5>2. s = << >>
          BY <2>2, <5>1
        <5>3. f = << >>
          BY <2>2, <5>1, <5>2
        <5>. QED
          BY <4>3, <5>2, <5>3 DEF Fits, EmptyPop
      <4>. QED
        BY <2>1, <4>1, <4>2, <4>3 DEF Fits
    <3>. DEFINE w == StackAfter(s, o)
    <3>3. w \in Seq(V) /\ StackAfter(s \o f, o) = w \o f
      BY ONLY <3>1, <3>2, s \in Seq(V), f \in Seq(V), FitsBelow
    <3>4. ~IsOn(x.val, w)
      <4>1. CASE o.type = "push"
        <5>1. w = <<o.val>> \o s /\ o.val # x.val
          BY <4>1 DEF StackAfter
        <5>. HIDE DEF w
        <5>2. Len(w) = Len(s) + 1 /\ w[1] = o.val /\ \A k \in 1 .. Len(s) : w[k + 1] = s[k]
          BY <3>1, <5>1, Pushed
        <5>3. \A k \in 1 .. Len(w) : k = 1 \/ (k - 1 \in 1 .. Len(s) /\ w[k] = s[k - 1])
          <6>. TAKE k \in 1 .. Len(w)
          <6>. SUFFICES ASSUME k # 1 PROVE k - 1 \in 1 .. Len(s) /\ w[k] = s[k - 1]
            OBVIOUS
          <6>1. k - 1 \in 1 .. Len(s) /\ (k - 1) + 1 = k
            BY <5>2
          <6>. QED
            BY <5>2, <6>1
        <5>. QED
          BY <5>1, <5>2, <5>3 DEF IsOn
      <4>2. CASE o.type = "pop" /\ o.val # NoVal
        <5>1. s # << >> /\ w = Tail(s)
          BY <3>2, <4>2 DEF StackAfter, Fits
        <5>2. \A k \in 1 .. Len(w) : k + 1 \in 1 .. Len(s) /\ w[k] = s[k + 1]
          BY <5>1
        <5>. QED
          BY <5>2 DEF IsOn
      <4>3. CASE o.type = "pop" /\ o.val = NoVal
        BY <4>3 DEF StackAfter
      <4>. QED
        BY <3>2, <4>1, <4>2, <4>3 DEF Fits
    <3>5. U \ {o} \in X /\ x \in U \ {o}
      BY <1>1, <2>5
    <3>. HIDE DEF w
    <3>6. PICK A : IsBefore(A, U \ {o}, w, x)
      BY <2>1, <3>3, <3>4, <3>5
    <3>7. IsBefore(A \cup {o}, U, s, x)
      BY <2>1, <2>5, <3>1, <3>2, <3>6, BeforeThat DEF w
    <3>. QED
      BY <3>7
  <2>. QED
    BY <2>4, <2>5
<1>. HIDE DEF X
<1>2. T \in X
  <2>1. \A U \in SUBSET T : U \in X
    BY <1>1, RemovalInduction
  <2>. QED
    BY <2>1
<1>3. << >> \in Seq(V) /\ << >> \o f = f /\ ~IsOn(x.val, << >>)
  BY DEF IsOn
<1>. QED
  BY <1>2, <1>3 DEF X

----------------------------------------------------------------------------
(* step() answers that there is a violation only if there is one. *)

\* No call has the time of a return.
TimesApart(T) == \A o, p \in T : o.call # p.ret

\* The values of W are all removed before the pushes of the others end.
Divides(W, vs) == \A v \in W, w \in vs \ W : v.rmv.lb < w.add.ub

\* x is a or the call of a removal in W, whichever is last.
IsLastOf(x, W, a) ==
  /\ x \in Nat /\ a <= x
  /\ x = a \/ \E v \in W : x = v.rmv.lb
  /\ \A v \in W : v.rmv.lb <= x

LEMMA LastInstant ==
  ASSUME NEW W, IsFiniteSet(W), \A v \in W : v.rmv.lb \in Nat, NEW a \in Nat
  PROVE  \E x : IsLastOf(x, W, a)
<1>. DEFINE X == {U \in SUBSET W : \E x : IsLastOf(x, U, a)}
<1>1. {} \in X
  BY DEF IsLastOf
<1>2. ASSUME NEW U \in SUBSET W, NEW v \in W \ U, U \in X
      PROVE  U \cup {v} \in X
  <2>1. PICK x : IsLastOf(x, U, a)
    BY <1>2
  <2>. DEFINE y == IF v.rmv.lb <= x THEN x ELSE v.rmv.lb
  <2>2. v.rmv.lb \in Nat
    OBVIOUS
  <2>3. IsLastOf(y, U \cup {v}, a)
    BY <2>1, <2>2 DEF IsLastOf
  <2>. QED
    BY <2>3
<1>. HIDE DEF X
<1>3. W \in X
  BY <1>1, <1>2, FiniteSetInduction
<1>. QED
  BY <1>3 DEF X

\* At the division there is an instant that the cover does not hold.
LEMMA InstantBetween ==
  ASSUME NEW vs, ValuesOK(vs), NEW W \in SUBSET vs, Divides(W, vs),
         NEW a \in Nat, \A w \in vs \ W : a < w.add.ub
  PROVE  \E x : /\ IsLastOf(x, W, a)
                /\ \A v \in vs : ~(2 * v.add.ub <= 2 * x + 1 /\ 2 * x + 1 <= 2 * v.rmv.lb)
<1>1. IsFiniteSet(W) /\ \A v \in vs : v.rmv.lb \in Nat /\ v.add.ub \in Nat
  BY FS_Subset DEF ValuesOK, ValueOK
<1>2. PICK x : IsLastOf(x, W, a)
  BY <1>1, LastInstant
<1>3. ASSUME NEW v \in vs
      PROVE  ~(2 * v.add.ub <= 2 * x + 1 /\ 2 * x + 1 <= 2 * v.rmv.lb)
  <2>1. CASE v \in W
    BY <1>1, <1>2, <2>1 DEF IsLastOf
  <2>2. CASE v \notin W
    <3>1. x < v.add.ub
      BY <1>2, <2>2 DEF IsLastOf, Divides
    <3>. QED
      BY <1>1, <1>2, <3>1 DEF IsLastOf
  <2>. QED
    BY <2>1, <2>2
<1>. QED
  BY <1>2, <1>3

\* If all of W comes before x and x before the rest, W divides the values, and
\* at that time x can be.
LEMMA BeforeDivides ==
  ASSUME NEW vs, ValuesOK(vs), NEW T, \A o \in T : EmptyPop(o) \/ o \in OpsOf(vs), NEW x \in T,
         NEW A, IsBefore(A, T, << >>, x)
  PROVE  LET W == {v \in vs : PushOf(v) \in A}
         IN  /\ \A v \in W : v.rmv # End /\ PopOf(v) \in A /\ x.ret >= v.rmv.lb
             /\ \A w \in vs \ W : PushOf(w) \in T =>
                  /\ w.add.ub >= x.call
                  /\ \A v \in W : w.add.ub >= v.rmv.lb
<1>. DEFINE W == {v \in vs : PushOf(v) \in A}
<1>1. ASSUME NEW v \in W
      PROVE  v.rmv # End /\ PopOf(v) \in A /\ x.ret >= v.rmv.lb
  <2>1. PushOf(v) \in A /\ PushOf(v).type = "push" /\ PushOf(v).val = v.val
    BY DEF PushOf
  <2>2. PICK p \in A : Pops(p, v.val)
    BY <2>1 DEF IsBefore
  <2>3. p \in OpsOf(vs)
    BY <2>2 DEF IsBefore, Pops, EmptyPop
  <2>4. PICK w \in vs : p = PopOf(w) /\ p.val = w.val /\ w.rmv # End /\ p.call = w.rmv.lb
    BY <2>2, <2>3, OpsAre DEF Pops
  <2>5. w = v
    BY <2>2, <2>4 DEF Pops, ValuesOK
  <2>6. x.ret >= p.call
    BY DEF IsBefore, NoneBefore
  <2>. QED
    BY <2>4, <2>5, <2>6
<1>2. ASSUME NEW w \in vs \ W, PushOf(w) \in T
      PROVE  w.add.ub >= x.call /\ \A v \in W : w.add.ub >= v.rmv.lb
  <2>1. PushOf(w) \in T \ A /\ PushOf(w).ret = w.add.ub
    BY <1>2 DEF PushOf
  <2>2. \A y \in A \cup {x} : w.add.ub >= y.call
    BY <2>1 DEF IsBefore, NoneBefore
  <2>3. \A v \in W : PopOf(v) \in A /\ PopOf(v).call = v.rmv.lb
    BY <1>1 DEF PopOf
  <2>. QED
    BY <2>2, <2>3
<1>. QED
  BY <1>1, <1>2

\* If minmax_prune removes nothing there is nothing to remove.
LEMMA NotPruned ==
  ASSUME NEW vs, ValuesOK(vs), vs # {}, MinmaxPrune(vs) = vs
  PROVE  Minmax(vs) = {}
<1>1. IsFiniteSet(vs)
  BY DEF ValuesOK
<1>. PICK n \in Nat : n = Cardinality(vs) /\ \E r : PruneRounds(vs, n, r)
  BY <1>1, PruneByRounds
<1>. PICK r : PruneRounds(vs, n, r)
  OBVIOUS
<1>2. n # 0
  BY <1>1, FS_EmptySet
<1>3. 1 \in 1 .. n /\ 1 - 1 = 0 /\ r[0] = vs
  <2>1. 1 \in 1 .. n
    BY <1>2
  <2>2. r[0] = vs
    BY Zenon DEF PruneRounds
  <2>3. 1 - 1 = 0
    OBVIOUS
  <2>. QED
    BY <2>1, <2>2, <2>3
<1>4. r[1] = vs \ Minmax(vs)
  <2>1. r[1] = r[1 - 1] \ Minmax(r[1 - 1])
    BY <1>3 DEF PruneRounds
  <2>. QED
    BY <1>3, <2>1
<1>. DEFINE X == {k \in Nat : k + 1 <= n => r[k + 1] \subseteq r[1]}
<1>5. 0 \in X
  OBVIOUS
<1>6. ASSUME NEW k \in Nat, k \in X
      PROVE  k + 1 \in X
  <2>. SUFFICES ASSUME (k + 1) + 1 <= n PROVE r[(k + 1) + 1] \subseteq r[1]
    OBVIOUS
  <2>1. (k + 1) + 1 \in 1 .. n /\ ((k + 1) + 1) - 1 = k + 1 /\ k + 1 <= n
    OBVIOUS
  <2>2. r[(k + 1) + 1] \subseteq r[k + 1]
    BY <2>1 DEF PruneRounds
  <2>3. r[k + 1] \subseteq r[1]
    BY <1>6, <2>1
  <2>. QED
    BY <2>2, <2>3
<1>. HIDE DEF X
<1>7. \A k \in Nat : k \in X
  BY <1>5, <1>6, NatSetInduction
<1>8. n - 1 \in X /\ (n - 1) + 1 = n
  BY <1>2, <1>7
<1>9. r[n] \subseteq r[1] /\ r[n] = vs
  BY <1>8 DEF X, PruneRounds
<1>10. Minmax(vs) \subseteq vs
  BY DEF Minmax
<1>. QED
  BY <1>4, <1>9, <1>10

LEMMA PushPopOf ==
  ASSUME NEW v
  PROVE  /\ PushOf(v).type = "push" /\ PushOf(v).val = v.val
         /\ PushOf(v).call = v.add.lb /\ PushOf(v).ret = v.add.ub
         /\ PopOf(v).type = "pop" /\ PopOf(v).val = v.val
         /\ PopOf(v).call = v.rmv.lb /\ PopOf(v).ret = v.rmv.ub
BY DEF PushOf, PopOf

\* A cover in one piece holds all instants between two that it holds.
LEMMA OnePiece ==
  ASSUME NEW vs, ValuesOK(vs), Len(Cover(vs)) = 1, NEW v \in vs, NEW w \in vs, NEW x \in Nat,
         v.rmv.lb <= x, x < w.add.ub
  PROVE  \E u \in vs : 2 * u.add.ub <= 2 * x + 1 /\ 2 * x + 1 <= 2 * u.rmv.lb
<1>. DEFINE c == Cover(vs)
            H(p) == \E u \in vs : 2 * u.add.ub <= p /\ p <= 2 * u.rmv.lb
<1>1. NormalForm(c) /\ \A p \in Grid : Holds(p, c) <=> H(p)
  BY CoverIs
<1>2. 1 \in 1 .. Len(c) /\ \A k \in 1 .. Len(c) : k = 1
  OBVIOUS
<1>3. \A u \in vs : /\ u.add.ub \in Nat /\ u.rmv.lb \in Nat /\ 0 < u.add.ub /\ u.add.ub < u.rmv.lb
                    /\ u.rmv.lb < POSINF
  BY RemovedBefore, PosInfAssumption DEF ValuesOK, ValueOK
<1>4. 2 * v.rmv.lb \in Grid /\ 2 * x + 1 \in Grid /\ 2 * w.add.ub \in Grid
  BY <1>3, PosInfAssumption DEF Grid
<1>. HIDE DEF c
<1>5. \A p \in Grid : Holds(p, c) <=> InAtom(p, c[1])
  BY <1>2 DEF Holds
<1>6. /\ c[1].lb \in Nat /\ c[1].ub \in Nat
      /\ \A p \in Grid : InAtom(p, c[1]) <=> 2 * c[1].lb <= p /\ p <= 2 * c[1].ub
  BY <1>1, <1>2, NormalAtomIs
<1>7. H(2 * v.rmv.lb) /\ H(2 * w.add.ub)
  BY <1>3
<1>. HIDE DEF H
<1>8. InAtom(2 * v.rmv.lb, c[1]) /\ InAtom(2 * w.add.ub, c[1])
  BY <1>1, <1>4, <1>5, <1>7
<1>9. 2 * c[1].lb <= 2 * v.rmv.lb /\ 2 * w.add.ub <= 2 * c[1].ub
  BY <1>4, <1>6, <1>8
<1>10. 2 * c[1].lb <= 2 * x + 1 /\ 2 * x + 1 <= 2 * c[1].ub
  BY <1>3, <1>6, <1>9
<1>11. H(2 * x + 1)
  BY <1>1, <1>4, <1>5, <1>6, <1>10
<1>. QED
  BY <1>11 DEF H

\* If no value is minmax, the history goes through a point where the stack is
\* empty, and there the cover has a gap.
LEMMA CoverInPieces ==
  ASSUME NEW vs, ValuesOK(vs), vs # {}, TimesApart(OpsOf(vs)), Orders(OpsOf(vs), << >>),
         Minmax(vs) = {}
  PROVE  Len(Cover(vs)) # 1
<1>. DEFINE T == OpsOf(vs)
<1>1. /\ IsFiniteSet(T) /\ \A o \in T : ~EmptyPop(o)
      /\ \A v \in vs : PushOf(v) \in T /\ (v.rmv # End => PopOf(v) \in T)
  BY OpsOfOK DEF OpsOf
<1>2. T # {}
  BY <1>1
<1>3. \A v \in vs : ValueOK(v)
  BY DEF ValuesOK
<1>. HIDE DEF T
<1>4. PICK u \in T : Fits(u, << >>) /\ NoneBefore(T, {u}) /\ Orders(T \ {u}, StackAfter(<< >>, u))
  BY <1>2, OrderNext DEF T
<1>5. u.type = "push"
  BY <1>1, <1>4 DEF Fits, EmptyPop
<1>6. PICK v \in vs : u = PushOf(v)
  BY <1>5, OpsAre DEF T
<1>7. \A w \in vs : CoverOf(w).lb >= v.add.lb
  <2>. TAKE w \in vs
  <2>1. PushOf(w) \in T /\ PushOf(w).ret = w.add.ub /\ u.call = v.add.lb
    BY <1>1, <1>6, PushPopOf
  <2>. QED
    BY <1>4, <2>1, CoverOfIs DEF NoneBefore
<1>8. PICK w \in vs : ~(w.rmv.lb <= v.rmv.ub)
  BY <1>7, CoverOfIs DEF Minmax
<1>9. v.rmv # End
  <2>1. w.rmv.lb <= POSINF - 2 /\ w.rmv.lb \in Nat
    BY <1>3, RemovedBefore DEF ValueOK
  <2>. QED
    BY <1>8, <2>1, EndIs
<1>. DEFINE x == PopOf(v)
            U == T \ {u}
            V == ValuesIn(T)
            f == <<v.val>>
<1>10. x \in U /\ x.type = "pop" /\ x.val = v.val /\ x.val # NoVal
  BY <1>1, <1>3, <1>5, <1>9, PushPopOf DEF ValueOK
<1>11. ASSUME NEW o \in U
       PROVE  /\ o.type = "push" => o.val # x.val
              /\ Pops(o, x.val) => o = x
  <2>1. CASE \E t \in vs : o = PushOf(t) /\ o.type = "push" /\ o.val = t.val
    BY <1>6, <1>10, <2>1 DEF ValuesOK, Pops
  <2>2. CASE \E t \in vs : o = PopOf(t) /\ o.type = "pop" /\ o.val = t.val
    <3>. PICK t \in vs : o = PopOf(t) /\ o.type = "pop" /\ o.val = t.val
      BY <2>2
    <3>1. o.val = v.val => t = v
      BY DEF ValuesOK
    <3>2. o.type # "push"
      OBVIOUS
    <3>. QED
      BY <1>10, <3>1, <3>2 DEF Pops
  <2>. QED
    BY <2>1, <2>2, OpsAre DEF T
<1>12. StackAfter(<< >>, u) = f
  <2>1. u.val = v.val
    BY <1>6, PushPopOf
  <2>2. f \in Seq({v.val}) /\ f \o << >> = f
    BY ConcatEmptySeq
  <2>. QED
    BY <1>5, <2>1, <2>2 DEF StackAfter
<1>13. IsFiniteSet(U) /\ ValuesIn(U) \subseteq V /\ f \in Seq(V)
  <2>1. v.val \in V
    BY <1>6, PushPopOf DEF ValuesIn
  <2>. QED
    BY <1>1, <2>1, FS_Subset DEF ValuesIn
<1>14. f = IF x.val = NoVal THEN << >> ELSE <<x.val>>
  BY <1>10
<1>15. PICK A : IsBefore(A, U, << >>, x)
  <2>. HIDE DEF x, U, V, f
  <2>1. Orders(U, f)
    BY <1>4, <1>12 DEF U
  <2>2. \A o \in U : (o.type = "push" => o.val # x.val) /\ (Pops(o, x.val) => o = x)
    BY <1>11
  <2>. QED
    BY <1>10, <1>13, <1>14, <2>1, <2>2, UntilBottom
<1>. DEFINE W0 == {t \in vs : PushOf(t) \in A}
            W == W0 \cup {v}
<1>16. /\ \A t \in W0 : t.rmv # End /\ PopOf(t) \in A /\ x.ret >= t.rmv.lb
       /\ \A t \in vs \ W0 : PushOf(t) \in U =>
            t.add.ub >= x.call /\ \A s \in W0 : t.add.ub >= s.rmv.lb
  <2>1. \A o \in U : EmptyPop(o) \/ o \in OpsOf(vs)
    BY DEF T
  <2>. HIDE DEF x, U
  <2>. QED
    BY <1>10, <1>15, <2>1, BeforeDivides
<1>17. x.ret = v.rmv.ub /\ x.call = v.rmv.lb
  BY PushPopOf
<1>18. ASSUME NEW s \in W, NEW t \in vs \ W
       PROVE  s.rmv.lb < t.add.ub /\ v.rmv.lb < t.add.ub
  <2>1. PushOf(t) # u
    <3>1. t.val # v.val
      BY <1>18 DEF ValuesOK
    <3>. QED
      BY <1>6, <3>1, PushPopOf
  <2>2. PushOf(t) \in U
    BY <1>1, <2>1
  <2>3. t.add.ub >= v.rmv.lb /\ t.add.ub >= s.rmv.lb
    BY <1>16, <1>17, <2>2
  <2>4. s.rmv # End /\ PopOf(s) \in T /\ PopOf(v) \in T /\ PushOf(t) \in T
    BY <1>1, <1>9, <1>16
  <2>5. PopOf(s).call # PushOf(t).ret /\ PopOf(v).call # PushOf(t).ret
    BY <2>4 DEF TimesApart, T
  <2>6. s.rmv.lb # t.add.ub /\ v.rmv.lb # t.add.ub
    BY <2>5, PushPopOf
  <2>7. s.rmv.lb \in Nat /\ v.rmv.lb \in Nat /\ t.add.ub \in Nat
    BY <1>3 DEF ValueOK
  <2>. QED
    BY <2>3, <2>6, <2>7
<1>19. w \notin W
  <2>1. CASE w = v
    BY <1>3, <1>8, <2>1 DEF ValueOK
  <2>2. CASE w \in W0
    <3>1. v.rmv.ub >= w.rmv.lb
      BY <1>16, <1>17, <2>2
    <3>2. v.rmv.ub \in Nat /\ w.rmv.lb \in Nat
      BY <1>3 DEF ValueOK
    <3>. QED
      BY <1>8, <3>1, <3>2
  <2>. QED
    BY <2>1, <2>2
<1>20. W \in SUBSET vs /\ v \in W
  OBVIOUS
<1>. HIDE DEF x, U, V, f, W0, W
<1>21. v.rmv.lb \in Nat /\ \A t \in vs \ W : v.rmv.lb < t.add.ub
  BY <1>3, <1>18, <1>20 DEF ValueOK
<1>22. Divides(W, vs)
  BY <1>18 DEF Divides
<1>23. PICK y : /\ IsLastOf(y, W, v.rmv.lb)
                /\ \A t \in vs : ~(2 * t.add.ub <= 2 * y + 1 /\ 2 * y + 1 <= 2 * t.rmv.lb)
  BY <1>20, <1>21, <1>22, InstantBetween
<1>24. y \in Nat /\ v.rmv.lb <= y /\ y < w.add.ub
  BY <1>18, <1>19, <1>20, <1>23 DEF IsLastOf
<1>. QED
  BY <1>23, <1>24, OnePiece

\* At an empty pop all values that were pushed have been popped, so that it
\* overlaps a gap of the cover.
LEMMA GapForEmpty ==
  ASSUME NEW vs, ValuesOK(vs), NEW E, IsFiniteSet(E), \A o \in E : EmptyPop(o),
         TimesApart(OpsOf(vs) \cup E), Orders(OpsOf(vs) \cup E, << >>),
         NEW e, EmptyOK(e), EmptyPopOf(e) \in E
  PROVE  \E x \in Nat : /\ e.lb <= x /\ x < e.ub
                        /\ \A v \in vs : ~(2 * v.add.ub <= 2 * x + 1 /\ 2 * x + 1 <= 2 * v.rmv.lb)
<1>. DEFINE T == OpsOf(vs) \cup E
            x == EmptyPopOf(e)
            V == ValuesIn(T)
<1>1. IsFiniteSet(T) /\ ValuesIn(T) \subseteq V /\ x \in T /\ \A v \in vs : PushOf(v) \in T
  <2>1. IsFiniteSet(OpsOf(vs))
    BY OpsOfOK
  <2>2. IsFiniteSet(T)
    BY <2>1, FS_Union
  <2>3. \A v \in vs : PushOf(v) \in T
    BY DEF OpsOf
  <2>. QED
    BY <2>2, <2>3
<1>2. x.type = "pop" /\ x.val = NoVal /\ x.call = e.lb /\ x.ret = e.ub
  BY DEF EmptyPopOf
<1>3. \A v \in vs : ValueOK(v)
  BY DEF ValuesOK
<1>4. \A o \in T : (o.type = "push" => o.val # x.val) /\ (Pops(o, x.val) => o = x)
  <2>. TAKE o \in T
  <2>1. ~Pops(o, x.val)
    BY <1>2 DEF Pops
  <2>2. CASE o \in OpsOf(vs)
    <3>1. o.val # NoVal
      BY <1>3, <2>2, OpsAre DEF ValueOK
    <3>. QED
      BY <1>2, <2>1, <3>1
  <2>3. CASE o \in E
    <3>1. o.type # "push"
      BY <2>3 DEF EmptyPop
    <3>. QED
      BY <2>1, <3>1
  <2>. QED
    BY <2>2, <2>3
<1>5. << >> \in Seq(V) /\ << >> = IF x.val = NoVal THEN << >> ELSE <<x.val>>
  BY <1>2
<1>6. \A o \in T : EmptyPop(o) \/ o \in OpsOf(vs)
  OBVIOUS
<1>7. Orders(T, << >>) /\ TimesApart(T)
  OBVIOUS
<1>. HIDE DEF x, V, T
<1>8. PICK A : IsBefore(A, T, << >>, x)
  BY <1>1, <1>2, <1>4, <1>5, <1>7, UntilBottom
<1>. DEFINE W == {v \in vs : PushOf(v) \in A}
<1>9. /\ \A v \in W : v.rmv # End /\ PopOf(v) \in A /\ x.ret >= v.rmv.lb
      /\ \A w \in vs \ W : PushOf(w) \in T =>
           w.add.ub >= x.call /\ \A v \in W : w.add.ub >= v.rmv.lb
  BY <1>1, <1>6, <1>8, BeforeDivides
<1>10. A \subseteq T
  BY <1>8 DEF IsBefore
<1>. HIDE DEF W
<1>11. W \in SUBSET vs
  BY DEF W
<1>12. e.lb \in Nat /\ e.ub \in Nat /\ e.lb < e.ub
  BY DEF EmptyOK
<1>13. ASSUME NEW v \in W
       PROVE  v.rmv.lb < e.ub
  <2>1. PopOf(v) \in T /\ x \in T
    BY <1>1, <1>9, <1>10
  <2>2. PopOf(v).call # x.ret
    BY <1>7, <2>1 DEF TimesApart
  <2>3. v.rmv.lb # e.ub /\ e.ub >= v.rmv.lb
    BY <1>2, <1>9, <2>2, PushPopOf
  <2>4. v.rmv.lb \in Nat
    BY <1>3, <1>11 DEF ValueOK
  <2>. QED
    BY <1>12, <2>3, <2>4
<1>14. ASSUME NEW w \in vs \ W
       PROVE  e.lb < w.add.ub /\ \A v \in W : v.rmv.lb < w.add.ub
  <2>1. PushOf(w) \in T /\ x \in T /\ \A v \in W : PopOf(v) \in T
    BY <1>1, <1>9, <1>10
  <2>2. x.call # PushOf(w).ret /\ \A v \in W : PopOf(v).call # PushOf(w).ret
    BY <1>7, <2>1 DEF TimesApart
  <2>3. e.lb # w.add.ub /\ \A v \in W : v.rmv.lb # w.add.ub
    BY <1>2, <2>2, PushPopOf
  <2>4. w.add.ub >= e.lb /\ \A v \in W : w.add.ub >= v.rmv.lb
    BY <1>2, <1>9, <2>1
  <2>5. w.add.ub \in Nat /\ \A v \in W : v.rmv.lb \in Nat
    BY <1>3, <1>11 DEF ValueOK
  <2>. QED
    BY <1>12, <2>3, <2>4, <2>5
<1>15. Divides(W, vs)
  BY <1>14 DEF Divides
<1>16. PICK y : /\ IsLastOf(y, W, e.lb)
                /\ \A v \in vs : ~(2 * v.add.ub <= 2 * y + 1 /\ 2 * y + 1 <= 2 * v.rmv.lb)
  BY <1>11, <1>12, <1>14, <1>15, InstantBetween
<1>17. y \in Nat /\ e.lb <= y /\ y < e.ub
  BY <1>12, <1>13, <1>16 DEF IsLastOf
<1>. QED
  BY <1>16, <1>17

\* An atom that holds an instant within e overlaps e.
LEMMA HoldsWithin ==
  ASSUME NEW g \in AtomSet, NEW e, EmptyOK(e), NEW x \in Nat, e.lb <= x, x < e.ub,
         InAtom(2 * x + 1, g)
  PROVE  Overlaps(g, e)
<1>1. g.lb \in Nat /\ g.ub \in Nat
  BY PosInfAssumption DEF AtomSet, Timestamps, NEGINF
<1>2. 2 * g.lb <= 2 * x + 1 /\ 2 * x + 1 <= 2 * g.ub
  BY <1>1 DEF InAtom
<1>. QED
  BY <1>1, <1>2 DEF Overlaps, EmptyOK

\* The gaps of a cover are not empty.
LEMMA GapsAreSolid ==
  ASSUME NEW vs, ValuesOK(vs)
  PROVE  LET G == Complement(Cover(vs))
         IN  G \in Seq(AtomSet) /\ \A k \in DOMAIN G : ~EmptyAtom(G[k])
<1>. DEFINE c == Cover(vs)
            G == Complement(c)
<1>1. NormalForm(c) /\ \A p \in Grid : Holds(p, c) <=> \E v \in vs : 2 * v.add.ub <= p /\ p <= 2 * v.rmv.lb
  BY CoverIs
<1>2. G \in Seq(AtomSet)
  BY <1>1, GapsAreAtoms, ComplementIs, MadeOfAtoms
<1>3. CASE vs = {}
  <2>1. 1 \in Grid
    BY PosInfAssumption DEF Grid
  <2>2. c = <<Nil>>
    <3>. SUFFICES ASSUME c # <<Nil>> PROVE FALSE
      OBVIOUS
    <3>1. c \in Seq(ClosedAtoms) /\ c # << >>
      BY <1>1 DEF NormalForm
    <3>. HIDE DEF c
    <3>2. 1 \in 1 .. Len(c) /\ c[1] \in ClosedAtoms
      BY <3>1
    <3>3. /\ c[1].lb \in Nat /\ c[1].ub \in Nat /\ c[1].lb <= c[1].ub /\ 0 < c[1].lb
          /\ c[1].ub < POSINF
      BY <3>2, ClosedAtomIs
    <3>4. 2 * c[1].lb \in Grid
      BY <3>3, PosInfAssumption DEF Grid
    <3>5. InAtom(2 * c[1].lb, c[1])
      BY <3>2, <3>3, <3>4, InClosedAtom
    <3>6. Holds(2 * c[1].lb, c)
      BY <3>2, <3>5 DEF Holds
    <3>. QED
      BY <1>1, <1>3, <3>4, <3>6
  <2>. DEFINE g == Atom(TRUE, 0, POSINF, TRUE)
  <2>3. G = <<g>>
    BY <2>1, <2>2, ComplementOfNil
  <2>4. ~EmptyAtom(g)
    BY PosInfAssumption DEF Atom, EmptyAtom
  <2>. HIDE DEF g, G
  <2>5. DOMAIN G = {1} /\ G[1] = g
    BY <2>3
  <2>. QED
    BY <1>2, <2>4, <2>5 DEF G
<1>4. CASE vs # {}
  <2>1. \A k \in DOMAIN G : IsGap(vs, G[k])
    BY <1>4, GapsOfCover
  <2>. HIDE DEF G
  <2>2. \A k \in DOMAIN G : ~EmptyAtom(G[k])
    BY <2>1 DEF IsGap, EmptyAtom
  <2>. QED
    BY <1>2, <2>2 DEF G
<1>. QED
  BY <1>3, <1>4

\* step() finds no violation in a history that can be ordered.
LEMMA StepIsComplete ==
  ASSUME NEW vs, ValuesOK(vs), NEW es, EmptiesOK(es),
         TimesApart(OpsOf(vs) \cup {EmptyPopOf(es[k]) : k \in DOMAIN es}),
         Orders(OpsOf(vs) \cup {EmptyPopOf(es[k]) : k \in DOMAIN es}, << >>)
  PROVE  ~Step(History(vs, es)).violation
<1>. DEFINE h == History(vs, es)
            E == {EmptyPopOf(es[k]) : k \in DOMAIN es}
            G == Complement(Cover(vs))
<1>1. h.values = vs /\ h.empties = es
  BY HistoryIs
<1>2. CASE es # << >>
  <2>. DEFINE o == [k \in DOMAIN es |-> FirstMatch(G, es[k])]
  <2>1. Step(h) = IF \E k \in DOMAIN o : EmptyAtom(o[k]) THEN LinViolation
                  ELSE LinRes(Segmentize(h, MkInterval(o)))
    <3>1. LastOp(h) = "PopEmpty"
      BY <1>1, <1>2 DEF LastOp
    <3>2. Step(h) = StepPopEmpty(h)
      BY <3>1 DEF Step
    <3>. HIDE DEF h
    <3>. QED
      BY <1>1, <3>2 DEF StepPopEmpty
  <2>2. ASSUME NEW k \in DOMAIN es
        PROVE  ~EmptyAtom(FirstMatch(G, es[k]))
    <3>1. IsFiniteSet(E) /\ \A p \in E : EmptyPop(p)
      <4>. PICK n \in Nat : n = Len(es)
        BY DEF EmptiesOK
      <4>1. n \in 0 .. Len(es) /\ DOMAIN es = 1 .. n
        BY DEF EmptiesOK
      <4>2. E = EmptyPops(es, n)
        BY <4>1 DEF EmptyPops
      <4>. HIDE DEF E
      <4>. QED
        BY <4>1, <4>2, EmptyPopsAre
    <3>2. EmptyOK(es[k]) /\ EmptyPopOf(es[k]) \in E
      BY DEF EmptiesOK
    <3>. PICK e : e = es[k]
      OBVIOUS
    <3>. HIDE DEF E
    <3>3. PICK x \in Nat :
            /\ e.lb <= x /\ x < e.ub
            /\ \A v \in vs : ~(2 * v.add.ub <= 2 * x + 1 /\ 2 * x + 1 <= 2 * v.rmv.lb)
      BY <3>1, <3>2, GapForEmpty DEF E
    <3>4. 2 * x + 1 \in Grid
      BY <3>2, <3>3, PosInfAssumption DEF Grid, EmptyOK
    <3>5. Holds(2 * x + 1, G)
      BY <3>3, <3>4, CoverIs, ComplementIsTheRest
    <3>6. G \in Seq(AtomSet) /\ \A j \in DOMAIN G : ~EmptyAtom(G[j])
      BY GapsAreSolid
    <3>. HIDE DEF G
    <3>7. PICK j \in DOMAIN G : InAtom(2 * x + 1, G[j])
      BY <3>5, <3>6 DEF Holds
    <3>8. Overlaps(G[j], e)
      BY <3>2, <3>3, <3>6, <3>7, HoldsWithin
    <3>9. \E i \in DOMAIN G : FirstMatch(G, e) = G[i]
      BY <3>6, <3>8, FirstMatchIs
    <3>. QED
      BY <3>6, <3>9
  <2>3. \A k \in DOMAIN o : ~EmptyAtom(o[k])
    BY <2>2
  <2>. HIDE DEF o
  <2>. QED
    BY <2>1, <2>3, LinResIs
<1>3. CASE es = << >> /\ vs = {}
  <2>1. LastOp(h) = "Epsilon"
    BY <1>1, <1>3 DEF LastOp
  <2>2. Step(h) = LinRes(<< >>)
    BY <2>1 DEF Step
  <2>. QED
    BY <2>2, LinResIs
<1>4. CASE es = << >> /\ vs # {}
  <2>1. LastOp(h) = "PushPop"
    BY <1>1, <1>4 DEF LastOp
  <2>2. Step(h) = StepPushPop(h)
    BY <2>1 DEF Step
  <2>. DEFINE pruned == MinmaxPrune(vs)
              c == Cover(vs)
  <2>3. Step(h) = IF pruned # vs THEN LinRes(<<History(pruned, << >>)>>)
                  ELSE IF IsAtomic(c) THEN LinViolation ELSE LinRes(Split(vs, Complement(c)[2]))
    BY <1>1, <2>2 DEF StepPushPop
  <2>4. OpsOf(vs) \cup E = OpsOf(vs)
    BY <1>4, NoEmpties
  <2>5. pruned = vs => ~IsAtomic(c)
    <3>. SUFFICES ASSUME pruned = vs PROVE ~IsAtomic(c)
      OBVIOUS
    <3>1. Minmax(vs) = {}
      BY <1>4, NotPruned
    <3>2. Orders(OpsOf(vs), << >>) /\ TimesApart(OpsOf(vs))
      BY <2>4
    <3>. QED
      BY <1>4, <3>1, <3>2, CoverInPieces DEF IsAtomic
  <2>. HIDE DEF pruned, c
  <2>. QED
    BY <2>3, <2>5, LinResIs
<1>. QED
  BY <1>2, <1>3, <1>4

\* The parts that step() leaves can be ordered if the whole can.
LEMMA PartCanBeOrdered ==
  ASSUME NEW vs, ValuesOK(vs), NEW E, IsFiniteSet(E), \A o \in E : EmptyPop(o),
         Orders(OpsOf(vs) \cup E, << >>), NEW w \in SUBSET vs
  PROVE  Orders(OpsOf(w), << >>)
<1>. DEFINE T == OpsOf(vs) \cup E
            D == ValuesIn(OpsOf(vs \ w)) \cup {NoVal}
            V == ValuesIn(T)
<1>1. IsFiniteSet(T) /\ ValuesIn(T) \subseteq V
  <2>1. IsFiniteSet(OpsOf(vs))
    BY OpsOfOK
  <2>. QED
    BY <2>1, FS_Union
<1>2. OpsOf(vs) = OpsOf(w) \cup OpsOf(vs \ w)
  <2>1. w \cup (vs \ w) = vs
    OBVIOUS
  <2>. QED
    BY <2>1, OpsOfUnion
<1>3. \A o \in OpsOf(w) : o.val \notin D
  <2>. TAKE o \in OpsOf(w)
  <2>1. PICK v \in w : o.val = v.val
    BY OpsAre
  <2>2. v.val # NoVal
    BY DEF ValuesOK, ValueOK
  <2>3. ASSUME NEW p \in OpsOf(vs \ w) PROVE p.val # v.val
    <3>1. PICK u \in vs \ w : p.val = u.val
      BY OpsAre
    <3>. QED
      BY <3>1 DEF ValuesOK
  <2>. QED
    BY <2>1, <2>2, <2>3 DEF ValuesIn
<1>4. \A o \in OpsOf(vs \ w) \cup E : o.val \in D
  BY DEF ValuesIn, EmptyPop
<1>5. WithoutValues(T, D) = OpsOf(w)
  BY <1>2, <1>3, <1>4 DEF WithoutValues
<1>. HIDE DEF T, D, V
<1>6. Orders(T, << >>)
  BY DEF T
<1>. QED
  BY <1>1, <1>5, <1>6, OrderWithout

\* A removal of a value on the stack s, or one whose push it does not precede,
\* and the only one of its value.
HasPush(T, s, x) ==
  /\ IsOn(x.val, s) \/ \E p \in T : p.type = "push" /\ p.val = x.val /\ x.ret >= p.call
  /\ \A y \in T : Pops(y, x.val) => y = x

\* The values on s and those that T pushes are all different.
AllDifferent(T, s) ==
  /\ \A k, l \in 1 .. Len(s) : s[k] = s[l] => k = l
  /\ \A o \in T : o.type = "push" => ~IsOn(o.val, s)
  /\ \A o, q \in T : o.type = "push" /\ q.type = "push" /\ o.val = q.val => o = q

\* One operation later, with the stack t, the values are still different, and
\* what the next removals need was there before.
DifferentAfter(T, s, o, t) ==
  /\ AllDifferent(T \ {o}, t)
  /\ \A v : IsOn(v, t) => IsOn(v, s) \/ (o.type = "push" /\ v = o.val)
  /\ o.type = "pop" /\ o.val # NoVal => IsOn(o.val, s) /\ ~IsOn(o.val, t)

LEMMA DifferentNext ==
  ASSUME NEW V, NEW T, NEW s \in Seq(V), NEW o \in T, o.val \in V,
         AllDifferent(T, s), Fits(o, s)
  PROVE  StackAfter(s, o) \in Seq(V) /\ DifferentAfter(T, s, o, StackAfter(s, o))
<1>. PICK t : t = StackAfter(s, o)
  OBVIOUS
<1>. SUFFICES t \in Seq(V) /\ DifferentAfter(T, s, o, t)
  OBVIOUS
<1>1. CASE o.type = "push"
  <2>1. t = <<o.val>> \o s
    BY <1>1 DEF StackAfter
  <2>2. /\ t \in Seq(V) /\ Len(t) = Len(s) + 1 /\ t[1] = o.val /\ Len(s) \in Nat
        /\ \A k \in 1 .. Len(s) + 1 : k # 1 => k - 1 \in 1 .. Len(s) /\ t[k] = s[k - 1]
    BY <2>1
  <2>3. ~IsOn(o.val, s)
    BY <1>1 DEF AllDifferent
  <2>4. \A v : IsOn(v, t) => IsOn(v, s) \/ v = o.val
    BY <2>2 DEF IsOn
  <2>5. ASSUME NEW k \in 1 .. Len(t), NEW l \in 1 .. Len(t), t[k] = t[l]
        PROVE  k = l
    <3>1. CASE k = 1 /\ l # 1
      BY <2>2, <2>3, <2>5, <3>1 DEF IsOn
    <3>2. CASE k # 1 /\ l = 1
      BY <2>2, <2>3, <2>5, <3>2 DEF IsOn
    <3>3. CASE k # 1 /\ l # 1
      <4>1. k - 1 = l - 1
        BY <2>2, <2>5, <3>3 DEF AllDifferent
      <4>. QED
        BY <4>1
    <3>. QED
      BY <3>1, <3>2, <3>3
  <2>6. ASSUME NEW q \in T \ {o}, q.type = "push"
        PROVE  ~IsOn(q.val, t)
    <3>1. ~IsOn(q.val, s) /\ q.val # o.val
      BY <1>1, <2>6 DEF AllDifferent
    <3>. QED
      BY <2>4, <3>1
  <2>7. AllDifferent(T \ {o}, t)
    BY <2>5, <2>6 DEF AllDifferent
  <2>. QED
    BY <1>1, <2>2, <2>4, <2>7 DEF DifferentAfter
<1>2. CASE o.type = "pop" /\ o.val # NoVal /\ s # <<>> /\ Head(s) = o.val
  <2>1. t = Tail(s) /\ o.type # "push"
    BY <1>2 DEF StackAfter
  <2>2. t \in Seq(V) /\ Len(t) = Len(s) - 1 /\ s[1] = o.val /\ 1 \in 1 .. Len(s)
        /\ \A k \in 1 .. Len(t) : k + 1 \in 1 .. Len(s) /\ t[k] = s[k + 1] /\ k + 1 # 1
    BY <1>2, <2>1
  <2>3. \A k \in 1 .. Len(t) : t[k] # o.val
    BY <2>2 DEF AllDifferent
  <2>4. ASSUME NEW k \in 1 .. Len(t), NEW l \in 1 .. Len(t), t[k] = t[l]
        PROVE  k = l
    <3>1. k + 1 = l + 1
      BY <2>2, <2>4 DEF AllDifferent
    <3>. QED
      BY <3>1
  <2>5. \A v : IsOn(v, t) => IsOn(v, s)
    BY <2>2 DEF IsOn
  <2>6. AllDifferent(T \ {o}, t)
    BY <2>4, <2>5 DEF AllDifferent
  <2>7. IsOn(o.val, s) /\ ~IsOn(o.val, t)
    BY <2>2, <2>3 DEF IsOn
  <2>. QED
    BY <2>1, <2>2, <2>5, <2>6, <2>7 DEF DifferentAfter
<1>3. CASE o.type = "pop" /\ o.val = NoVal /\ s = <<>>
  <2>1. t = s
    BY <1>3 DEF StackAfter
  <2>2. AllDifferent(T \ {o}, t)
    BY <2>1 DEF AllDifferent
  <2>. QED
    BY <1>3, <2>1, <2>2 DEF DifferentAfter
<1>. QED
  BY <1>1, <1>2, <1>3 DEF Fits

\* In a history that can be ordered every removal has a push that it does not
\* precede, and no value is removed twice.
LEMMA PopsHavePushes ==
  ASSUME NEW V, NEW T, IsFiniteSet(T), ValuesIn(T) \subseteq V,
         \A o, q \in T : o.type = "push" /\ q.type = "push" /\ o.val = q.val => o = q,
         Orders(T, << >>)
  PROVE  \A x \in T : x.type = "pop" /\ x.val # NoVal => HasPush(T, << >>, x)
<1>. DEFINE X == {U \in SUBSET T : \A s \in Seq(V) : AllDifferent(U, s) /\ Orders(U, s) =>
                    \A x \in U : x.type = "pop" /\ x.val # NoVal => HasPush(U, s, x)}
<1>1. ASSUME NEW U \in SUBSET T, \A o \in U : U \ {o} \in X
      PROVE  U \in X
  <2>. SUFFICES ASSUME NEW s \in Seq(V), AllDifferent(U, s), Orders(U, s),
                       NEW x \in U, x.type = "pop", x.val # NoVal
                PROVE  HasPush(U, s, x)
    OBVIOUS
  <2>1. PICK o \in U : Fits(o, s) /\ NoneBefore(U, {o}) /\ Orders(U \ {o}, StackAfter(s, o))
    BY OrderNext
  <2>2. o.val \in V
    BY DEF ValuesIn
  <2>3. PICK t : t = StackAfter(s, o)
    OBVIOUS
  <2>4. /\ t \in Seq(V) /\ AllDifferent(U \ {o}, t)
        /\ \A v : IsOn(v, t) => IsOn(v, s) \/ (o.type = "push" /\ v = o.val)
        /\ o.type = "pop" /\ o.val # NoVal => IsOn(o.val, s) /\ ~IsOn(o.val, t)
    BY <2>1, <2>2, <2>3, DifferentNext DEF DifferentAfter
  <2>5. \A y \in U \ {o} : y.type = "pop" /\ y.val # NoVal => HasPush(U \ {o}, t, y)
    BY <1>1, <2>1, <2>3, <2>4
  <2>. HIDE DEF X
  <2>6. \A y \in U \ {o} : o.type = "pop" /\ o.val # NoVal => ~Pops(y, o.val)
    <3>. SUFFICES ASSUME NEW y \in U \ {o}, o.type = "pop", o.val # NoVal, Pops(y, o.val)
                  PROVE  FALSE
      OBVIOUS
    <3>1. HasPush(U \ {o}, t, y) /\ y.val = o.val
      BY <2>5 DEF Pops
    <3>2. \A q \in U \ {o} : q.type = "push" => q.val # o.val
      BY <2>4 DEF AllDifferent
    <3>. QED
      BY <2>4, <3>1, <3>2 DEF HasPush
  <2>7. CASE x = o
    BY <2>4, <2>6, <2>7 DEF HasPush
  <2>8. CASE x # o
    <3>1. HasPush(U \ {o}, t, x)
      BY <2>5, <2>8
    <3>2. IsOn(x.val, t) => IsOn(x.val, s) \/ \E p \in U : p.type = "push" /\ p.val = x.val /\ x.ret >= p.call
      BY <2>1, <2>4 DEF NoneBefore
    <3>3. Pops(o, x.val) => FALSE
      BY <2>6, <2>8 DEF Pops
    <3>. QED
      BY <3>1, <3>2, <3>3 DEF HasPush
  <2>. QED
    BY <2>7, <2>8
<1>. HIDE DEF X
<1>2. T \in X
  <2>1. \A U \in SUBSET T : U \in X
    BY <1>1, RemovalInduction
  <2>. QED
    BY <2>1
<1>3. << >> \in Seq(V) /\ AllDifferent(T, << >>)
  BY DEF AllDifferent, IsOn
<1>. QED
  BY <1>2, <1>3 DEF X

----------------------------------------------------------------------------
(* The events given to the monitor. *)

\* Times leave room for End, a push carries a value and a return none.
EventOK(e) ==
  /\ e.type \in {"push", "pop", "return"}
  /\ e.ts \in Nat /\ 0 < e.ts /\ e.ts < POSINF - 2
  /\ e.type = "push" => e.val # NoVal
  /\ e.type = "return" => e.val = NoVal

\* Every event has a time of its own, every push a value of its own.
EventsOK(E) ==
  /\ IsFiniteSet(E) /\ \A e \in E : EventOK(e)
  /\ \A d, e \in E : d.ts = e.ts => d = e
  /\ \A d, e \in E : d.type = "push" /\ e.type = "push" /\ d.val = e.val => d = e

\* The next event of the thread that called is the return.
Matches(E, c, r) ==
  /\ c \in E /\ r \in E /\ c.type # "return" /\ r.type = "return"
  /\ c.thread = r.thread /\ c.ts < r.ts
  /\ \A m \in E : m.thread = c.thread => m.ts <= c.ts \/ m.ts >= r.ts

OpFrom(c, r) == [type |-> c.type, val |-> c.val, call |-> c.ts, ret |-> r.ts]

Ops(E) == {OpFrom(x[1], x[2]) : x \in {y \in E \X E : Matches(E, y[1], y[2])}}

\* Every call has a return and every return a call.
Paired(E) ==
  /\ \A c \in E : c.type # "return" => \E r \in E : Matches(E, c, r)
  /\ \A r \in E : r.type = "return" => \E c \in E : Matches(E, c, r)

\* A removal returns no earlier than an insertion of its value, and no value is
\* removed twice.
Clean(T) ==
  \A p \in T : p.type = "pop" /\ p.val # NoVal =>
    /\ \E o \in T : o.type = "push" /\ o.val = p.val /\ o.ret <= p.ret
    /\ \A q \in T : Pops(q, p.val) => q = p

IsLast(F, c) == c \in F /\ \A m \in F : m.thread = c.thread => m.ts <= c.ts

\* Of the events of F those in op are the calls that have not returned.
CallsOK(F, last, op) ==
  /\ \A t \in DOMAIN op : IsLast(F, op[t]) /\ op[t].type # "return" /\ op[t].thread = t
  /\ \A t \in DOMAIN op : t \in DOMAIN last /\ last[t] # "return"
  /\ \A t \in DOMAIN last : last[t] # "return" => t \in DOMAIN op
  /\ \A c \in F : c.type # "return" =>
       \/ \E r \in F : Matches(F, c, r)
       \/ c.thread \in DOMAIN op /\ op[c.thread] = c

\* The values and empty pops are the operations of the events of F, without
\* pairs that overlap.
AccountsFor(F, vs, es) ==
  /\ ValuesOK(vs) /\ EmptiesOK(es) /\ \A v \in vs : v = CoverVal(v.val, v.add, v.rmv)
  /\ \A v \in vs : \E m \in F : v.add.ub = m.ts
  /\ \A k \in DOMAIN es : \E m \in F : es[k].ub = m.ts
  /\ OpsOf(vs) \subseteq Ops(F)
  /\ {EmptyPopOf(es[k]) : k \in DOMAIN es} = {o \in Ops(F) : EmptyPop(o)}
  /\ \A o \in Ops(F) : o.val # NoVal =>
       \/ o \in OpsOf(vs)
       \/ IsPairIn(Ops(F), o.val) /\ \A v \in vs : v.val # o.val

LEMMA OpsIs ==
  ASSUME NEW E, NEW o
  PROVE  o \in Ops(E) <=> \E c, r \in E : Matches(E, c, r) /\ o = OpFrom(c, r)
<1>1. ASSUME o \in Ops(E)
      PROVE  \E c, r \in E : Matches(E, c, r) /\ o = OpFrom(c, r)
  <2>. PICK x \in E \X E : Matches(E, x[1], x[2]) /\ o = OpFrom(x[1], x[2])
    BY <1>1 DEF Ops
  <2>. QED
    OBVIOUS
<1>2. ASSUME NEW c \in E, NEW r \in E, Matches(E, c, r), o = OpFrom(c, r)
      PROVE  o \in Ops(E)
  <2>1. <<c, r>> \in {y \in E \X E : Matches(E, y[1], y[2])}
    BY <1>2
  <2>. QED
    BY <1>2, <2>1 DEF Ops
<1>. QED
  BY <1>1, <1>2

LEMMA OpFromIs ==
  ASSUME NEW c, NEW r
  PROVE  /\ OpFrom(c, r).type = c.type /\ OpFrom(c, r).val = c.val
         /\ OpFrom(c, r).call = c.ts /\ OpFrom(c, r).ret = r.ts
BY DEF OpFrom

\* A later event leaves the operations alone, but for a return of a call.
LEMMA MatchesLater ==
  ASSUME NEW F, NEW e, EventsOK(F \cup {e}), \A m \in F : m.ts < e.ts,
         NEW c, NEW r
  PROVE  /\ r # e => (Matches(F \cup {e}, c, r) <=> Matches(F, c, r))
         /\ Matches(F \cup {e}, c, e) <=>
              e.type = "return" /\ c.type # "return" /\ c.thread = e.thread /\ IsLast(F, c)
<1>0. \A m \in F \cup {e} : m.ts \in Nat
  BY DEF EventsOK, EventOK
<1>1. e \notin F
  BY <1>0
<1>2. \A d \in F : d \in F \cup {e}
  OBVIOUS
<1>3. r # e => (Matches(F \cup {e}, c, r) <=> Matches(F, c, r))
  <2>1. ASSUME r # e, Matches(F \cup {e}, c, r) PROVE Matches(F, c, r)
    <3>1. r \in F /\ r.ts < e.ts
      BY <2>1 DEF Matches
    <3>2. c # e
      BY <1>0, <2>1, <3>1 DEF Matches
    <3>. QED
      BY <2>1, <3>1, <3>2 DEF Matches
  <2>2. ASSUME Matches(F, c, r) PROVE Matches(F \cup {e}, c, r)
    <3>1. r.ts < e.ts
      BY <2>2 DEF Matches
    <3>2. \A m \in F \cup {e} : m.thread = c.thread => m.ts <= c.ts \/ m.ts >= r.ts
      BY <1>0, <2>2, <3>1 DEF Matches
    <3>. QED
      BY <2>2, <3>2 DEF Matches
  <2>. QED
    BY <2>1, <2>2
<1>4. ASSUME Matches(F \cup {e}, c, e)
      PROVE  e.type = "return" /\ c.type # "return" /\ c.thread = e.thread /\ IsLast(F, c)
  <2>1. c \in F
    BY <1>4 DEF Matches
  <2>2. \A m \in F : m.thread = c.thread => m.ts <= c.ts
    BY <1>0, <1>4 DEF Matches
  <2>. QED
    BY <1>4, <2>1, <2>2 DEF Matches, IsLast
<1>5. ASSUME e.type = "return", c.type # "return", c.thread = e.thread, IsLast(F, c)
      PROVE  Matches(F \cup {e}, c, e)
  <2>1. c \in F /\ c.ts < e.ts
    BY <1>5 DEF IsLast
  <2>2. \A m \in F \cup {e} : m.thread = c.thread => m.ts <= c.ts \/ m.ts >= e.ts
    BY <1>0, <1>5 DEF IsLast
  <2>. QED
    BY <1>5, <2>1, <2>2 DEF Matches
<1>. QED
  BY <1>3, <1>4, <1>5

LEMMA OpsLater ==
  ASSUME NEW F, NEW e, EventsOK(F \cup {e}), \A m \in F : m.ts < e.ts
  PROVE  /\ e.type # "return" => Ops(F \cup {e}) = Ops(F)
         /\ \A c : c.type # "return" /\ e.type = "return" /\ c.thread = e.thread /\ IsLast(F, c)
                  => Ops(F \cup {e}) = Ops(F) \cup {OpFrom(c, e)}
<1>1. \A o \in Ops(F) : o \in Ops(F \cup {e})
  <2>. TAKE o \in Ops(F)
  <2>. PICK c \in F, r \in F : Matches(F, c, r) /\ o = OpFrom(c, r)
    BY OpsIs
  <2>1. r.ts < e.ts /\ r.ts \in Nat
    BY DEF EventsOK, EventOK
  <2>2. r # e
    BY <2>1
  <2>3. Matches(F \cup {e}, c, r)
    BY <2>2, MatchesLater
  <2>. QED
    BY <2>3, OpsIs
<1>2. ASSUME NEW o \in Ops(F \cup {e}), o \notin Ops(F)
      PROVE  \E c \in F : Matches(F \cup {e}, c, e) /\ o = OpFrom(c, e)
  <2>. PICK c \in F \cup {e}, r \in F \cup {e} : Matches(F \cup {e}, c, r) /\ o = OpFrom(c, r)
    BY OpsIs
  <2>1. CASE r = e
    BY <2>1, MatchesLater DEF IsLast
  <2>2. CASE r # e
    <3>1. Matches(F, c, r)
      BY <2>2, MatchesLater
    <3>2. c \in F /\ r \in F
      BY <3>1 DEF Matches
    <3>. QED
      BY <1>2, <3>1, <3>2, OpsIs
  <2>. QED
    BY <2>1, <2>2
<1>3. ASSUME e.type # "return"
      PROVE  Ops(F \cup {e}) = Ops(F)
  <2>1. \A c : ~Matches(F \cup {e}, c, e)
    BY <1>3 DEF Matches
  <2>. QED
    BY <1>1, <1>2, <2>1
<1>4. ASSUME NEW c, c.type # "return", e.type = "return", c.thread = e.thread, IsLast(F, c)
      PROVE  Ops(F \cup {e}) = Ops(F) \cup {OpFrom(c, e)}
  <2>1. Matches(F \cup {e}, c, e)
    BY <1>4, MatchesLater
  <2>2. OpFrom(c, e) \in Ops(F \cup {e})
    <3>1. c \in F \cup {e} /\ e \in F \cup {e}
      BY <1>4 DEF IsLast
    <3>. QED
      BY <2>1, <3>1, OpsIs
  <2>3. ASSUME NEW d \in F, Matches(F \cup {e}, d, e)
        PROVE  d = c
    <3>1. d.thread = e.thread /\ IsLast(F, d)
      BY <2>3, MatchesLater
    <3>2. d.ts <= c.ts /\ c.ts <= d.ts /\ c \in F
      BY <1>4, <3>1 DEF IsLast
    <3>3. d.ts \in Nat /\ c.ts \in Nat
      BY <3>2 DEF EventsOK, EventOK
    <3>4. d.ts = c.ts
      BY <3>2, <3>3
    <3>. QED
      BY <3>2, <3>4 DEF EventsOK
  <2>. QED
    BY <1>1, <1>2, <2>2, <2>3
<1>. QED
  BY <1>3, <1>4

\* After a call.
LEMMA CallsAfterCall ==
  ASSUME NEW F, NEW e, EventsOK(F \cup {e}), \A m \in F : m.ts < e.ts,
         NEW last, NEW op, CallsOK(F, last, op), e.type # "return",
         e.thread \in DOMAIN last => last[e.thread] = "return"
  PROVE  CallsOK(F \cup {e}, With(last, e.thread, e.type), With(op, e.thread, e))
<1>. DEFINE l == With(last, e.thread, e.type)
            o == With(op, e.thread, e)
<1>0. \A m \in F \cup {e} : m.ts \in Nat
  BY DEF EventsOK, EventOK
<1>1. e.thread \notin DOMAIN op
  BY DEF CallsOK
<1>2. /\ DOMAIN l = DOMAIN last \cup {e.thread} /\ l[e.thread] = e.type
      /\ \A t \in DOMAIN last : t # e.thread => l[t] = last[t]
      /\ DOMAIN o = DOMAIN op \cup {e.thread} /\ o[e.thread] = e
      /\ \A t \in DOMAIN op : t # e.thread /\ o[t] = op[t]
  BY <1>1 DEF With
<1>. HIDE DEF l, o
<1>3. \A t \in DOMAIN o : IsLast(F \cup {e}, o[t]) /\ o[t].type # "return" /\ o[t].thread = t
  <2>. TAKE t \in DOMAIN o
  <2>1. CASE t = e.thread
    <3>1. IsLast(F \cup {e}, e)
      BY <1>0 DEF IsLast
    <3>. QED
      BY <1>2, <2>1, <3>1
  <2>2. CASE t # e.thread
    <3>1. t \in DOMAIN op /\ o[t] = op[t]
      BY <1>2, <2>2
    <3>2. IsLast(F, op[t]) /\ op[t].type # "return" /\ op[t].thread = t
      BY <3>1 DEF CallsOK
    <3>3. IsLast(F \cup {e}, op[t])
      BY <2>2, <3>2 DEF IsLast
    <3>. QED
      BY <3>1, <3>2, <3>3
  <2>. QED
    BY <2>1, <2>2
<1>4. \A t \in DOMAIN o : t \in DOMAIN l /\ l[t] # "return"
  BY <1>2 DEF CallsOK
<1>5. \A t \in DOMAIN l : l[t] # "return" => t \in DOMAIN o
  BY <1>2 DEF CallsOK
<1>6. ASSUME NEW c \in F \cup {e}, c.type # "return"
      PROVE  \/ \E r \in F \cup {e} : Matches(F \cup {e}, c, r)
             \/ c.thread \in DOMAIN o /\ o[c.thread] = c
  <2>1. CASE c = e
    BY <1>2, <2>1
  <2>2. CASE c \in F /\ \E r \in F : Matches(F, c, r)
    <3>. PICK r \in F : Matches(F, c, r)
      BY <2>2
    <3>1. r # e
      BY <1>0
    <3>. QED
      BY <3>1, MatchesLater
  <2>3. CASE c \in F /\ c.thread \in DOMAIN op /\ op[c.thread] = c
    BY <1>2, <2>3
  <2>. QED
    BY <1>6, <2>1, <2>2, <2>3 DEF CallsOK
<1>. QED
  BY <1>3, <1>4, <1>5, <1>6 DEF CallsOK, l, o

\* After a return.
LEMMA CallsAfterReturn ==
  ASSUME NEW F, NEW e, EventsOK(F \cup {e}), \A m \in F : m.ts < e.ts,
         NEW last, NEW op, CallsOK(F, last, op), e.type = "return",
         e.thread \in DOMAIN last, last[e.thread] # "return"
  PROVE  CallsOK(F \cup {e}, With(last, e.thread, "return"), Without(op, e.thread))
<1>. DEFINE l == With(last, e.thread, "return")
            o == Without(op, e.thread)
<1>0. \A m \in F \cup {e} : m.ts \in Nat
  BY DEF EventsOK, EventOK
<1>1. e.thread \in DOMAIN op
  BY DEF CallsOK
<1>2. /\ DOMAIN l = DOMAIN last /\ l[e.thread] = "return"
      /\ \A t \in DOMAIN last : t # e.thread => l[t] = last[t]
      /\ DOMAIN o = DOMAIN op \ {e.thread}
      /\ \A t \in DOMAIN o : o[t] = op[t]
  BY DEF With, Without
<1>. HIDE DEF l, o
<1>3. \A t \in DOMAIN o : IsLast(F \cup {e}, o[t]) /\ o[t].type # "return" /\ o[t].thread = t
  <2>. TAKE t \in DOMAIN o
  <2>1. t \in DOMAIN op /\ o[t] = op[t] /\ t # e.thread
    BY <1>2
  <2>2. IsLast(F, op[t]) /\ op[t].type # "return" /\ op[t].thread = t
    BY <2>1 DEF CallsOK
  <2>3. IsLast(F \cup {e}, op[t])
    BY <2>1, <2>2 DEF IsLast
  <2>. QED
    BY <2>1, <2>2, <2>3
<1>4. \A t \in DOMAIN o : t \in DOMAIN l /\ l[t] # "return"
  BY <1>2 DEF CallsOK
<1>5. \A t \in DOMAIN l : l[t] # "return" => t \in DOMAIN o
  BY <1>2 DEF CallsOK
<1>6. ASSUME NEW c \in F \cup {e}, c.type # "return"
      PROVE  \/ \E r \in F \cup {e} : Matches(F \cup {e}, c, r)
             \/ c.thread \in DOMAIN o /\ o[c.thread] = c
  <2>1. c \in F
    BY <1>6
  <2>2. CASE \E r \in F : Matches(F, c, r)
    <3>. PICK r \in F : Matches(F, c, r)
      BY <2>2
    <3>1. r # e
      BY <1>0
    <3>. QED
      BY <3>1, MatchesLater
  <2>3. CASE c.thread \in DOMAIN op /\ op[c.thread] = c /\ c.thread # e.thread
    BY <1>2, <2>3
  <2>4. CASE c.thread \in DOMAIN op /\ op[c.thread] = c /\ c.thread = e.thread
    <3>1. IsLast(F, c)
      BY <2>4 DEF CallsOK
    <3>2. Matches(F \cup {e}, c, e)
      BY <1>6, <2>4, <3>1, MatchesLater
    <3>. QED
      BY <3>2
  <2>. QED
    BY <1>6, <2>1, <2>2, <2>3, <2>4 DEF CallsOK
<1>. QED
  BY <1>3, <1>4, <1>5, <1>6 DEF CallsOK, l, o

LEMMA PairStays ==
  ASSUME NEW T, NEW d, IsPairIn(T, d), NEW x, x.val # d, NEW U, U = T \cup {x}
  PROVE  IsPairIn(U, d)
<1>. PICK p \in T, q \in T : OverlappingPair(p, q) /\ {o \in T : o.val = d} = {p, q}
  BY DEF IsPairIn
<1>1. {o \in U : o.val = d} = {p, q}
  OBVIOUS
<1>. QED
  BY <1>1 DEF IsPairIn

\* A call leaves the account as it is.
LEMMA AccountAfterCall ==
  ASSUME NEW F, NEW e, EventsOK(F \cup {e}), \A m \in F : m.ts < e.ts, e.type # "return",
         NEW vs, NEW es, AccountsFor(F, vs, es)
  PROVE  AccountsFor(F \cup {e}, vs, es)
<1>1. Ops(F \cup {e}) = Ops(F)
  BY OpsLater
<1>. QED
  BY <1>1 DEF AccountsFor

\* No operation has the value of a push that has not returned.
LEMMA NoOperationYet ==
  ASSUME NEW F, EventsOK(F), NEW vs, NEW es, AccountsFor(F, vs, es),
         NEW c, IsLast(F, c), c.type = "push", NEW o \in Ops(F)
  PROVE  o.val # c.val
<1>. SUFFICES ASSUME o.val = c.val PROVE FALSE
  OBVIOUS
<1>1. c \in F /\ EventOK(c)
  BY DEF IsLast, EventsOK
<1>2. o.val # NoVal
  BY <1>1 DEF EventOK
<1>3. \E p \in Ops(F) : p.type = "push" /\ p.val = c.val
  <2>1. CASE o \in OpsOf(vs)
    <3>1. PICK v \in vs : o.val = v.val
      BY <2>1, OpsAre
    <3>2. PushOf(v) \in Ops(F) /\ PushOf(v).type = "push" /\ PushOf(v).val = v.val
      BY DEF AccountsFor, OpsOf, PushOf
    <3>. QED
      BY <3>1, <3>2
  <2>2. CASE IsPairIn(Ops(F), o.val)
    <3>. PICK p \in Ops(F), q \in Ops(F) : OverlappingPair(p, q) /\ {x \in Ops(F) : x.val = o.val} = {p, q}
      BY <2>2 DEF IsPairIn
    <3>1. p.val = o.val
      OBVIOUS
    <3>. QED
      BY <3>1 DEF OverlappingPair
  <2>. QED
    BY <1>2, <2>1, <2>2 DEF AccountsFor
<1>4. PICK p \in Ops(F) : p.type = "push" /\ p.val = c.val
  BY <1>3
<1>5. PICK d \in F, r \in F : Matches(F, d, r) /\ p = OpFrom(d, r)
  BY OpsIs
<1>6. d.type = "push" /\ d.val = c.val
  BY <1>4, <1>5, OpFromIs
<1>7. d = c
  BY <1>1, <1>6 DEF EventsOK
<1>8. r.ts \in Nat /\ c.ts \in Nat /\ r.ts > c.ts /\ r.ts <= c.ts
  BY <1>1, <1>5, <1>7 DEF Matches, IsLast, EventsOK, EventOK
<1>. QED
  BY <1>8

\* The return e of the call c adds the operation x, with the interval i.
AtReturn(F, e, c, i, x) ==
  /\ Ops(F \cup {e}) = Ops(F) \cup {x}
  /\ x.type = c.type /\ x.val = c.val /\ x.call = c.ts /\ x.ret = e.ts
  /\ EventOK(c) /\ EventOK(e) /\ EventsOK(F) /\ c.ts < e.ts
  /\ \A m \in F : m.ts \in Nat
  /\ i.lb = c.ts /\ i.ub = e.ts /\ EmptyOK(i) /\ i # End /\ ~Overlaps(End, i)

\* The interval between call and return.
LEMMA ReturnIs ==
  ASSUME NEW F, NEW e, EventsOK(F \cup {e}), \A m \in F : m.ts < e.ts, e.type = "return",
         NEW c, IsLast(F, c), c.type # "return", c.thread = e.thread
  PROVE  AtReturn(F, e, c, Closed(c.ts, e.ts), OpFrom(c, e))
<1>1. c \in F /\ c.ts < e.ts
  BY DEF IsLast
<1>2. EventOK(c) /\ EventOK(e) /\ \A m \in F : m.ts \in Nat
  BY <1>1 DEF EventsOK, EventOK
<1>3. EventsOK(F)
  <2>1. IsFiniteSet(F)
    BY FS_Subset DEF EventsOK
  <2>. QED
    BY <2>1 DEF EventsOK
<1>. PICK i : i = Closed(c.ts, e.ts)
  OBVIOUS
<1>4. i.lb = c.ts /\ i.ub = e.ts /\ i.lo = FALSE /\ i.uo = FALSE
  BY DEF Closed, Atom
<1>5. EmptyOK(i) /\ i # End /\ ~Overlaps(End, i)
  BY <1>1, <1>2, <1>4, EndIs DEF EmptyOK, EventOK, Overlaps
<1>. QED
  BY <1>1, <1>2, <1>3, <1>4, <1>5, OpsLater, OpFromIs DEF AtReturn

\* The operations of a set of values without one, and with one more.
LEMMA OpsWithout ==
  ASSUME NEW vs, NEW w \in vs, NEW o \in OpsOf(vs)
  PROVE  o \in OpsOf(vs \ {w}) \/ o \in OpsOf({w})
<1>1. vs = (vs \ {w}) \cup {w}
  OBVIOUS
<1>2. OpsOf(vs) = OpsOf(vs \ {w}) \cup OpsOf({w})
  BY <1>1, OpsOfUnion
<1>. QED
  BY <1>2

LEMMA OpsOfNotRemoved ==
  ASSUME NEW w, w.rmv = End
  PROVE  OpsOf({w}) = {PushOf(w)}
<1>1. {x \in {w} : x.rmv # End} = {}
  OBVIOUS
<1>. QED
  BY <1>1 DEF OpsOf

LEMMA OpsOfRemoved ==
  ASSUME NEW w, w.rmv # End
  PROVE  OpsOf({w}) = {PushOf(w), PopOf(w)}
<1>1. {x \in {w} : x.rmv # End} = {w}
  OBVIOUS
<1>. QED
  BY <1>1 DEF OpsOf

\* A push returns.
LEMMA AccountAfterPush ==
  ASSUME NEW F, NEW e, EventsOK(F \cup {e}), \A m \in F : m.ts < e.ts, e.type = "return",
         NEW c, IsLast(F, c), c.type = "push", c.thread = e.thread,
         NEW vs, NEW es, AccountsFor(F, vs, es)
  PROVE  AccountsFor(F \cup {e}, vs \cup {CoverVal(c.val, Closed(c.ts, e.ts), End)}, es)
<1>. PICK i : i = Closed(c.ts, e.ts)
  OBVIOUS
<1>. PICK a : a = CoverVal(c.val, i, End)
  OBVIOUS
<1>1. a.val = c.val /\ a.add = i /\ a.rmv = End /\ a = CoverVal(a.val, a.add, a.rmv)
  BY DEF CoverVal
<1>. PICK x : x = OpFrom(c, e)
  OBVIOUS
<1>2. AtReturn(F, e, c, i, x)
  BY ReturnIs
<1>20. /\ Ops(F \cup {e}) = Ops(F) \cup {x}
       /\ x.type = c.type /\ x.val = c.val /\ x.call = c.ts /\ x.ret = e.ts
       /\ EventOK(c) /\ EventOK(e) /\ EventsOK(F) /\ c.ts < e.ts
       /\ \A m \in F : m.ts \in Nat
       /\ i.lb = c.ts /\ i.ub = e.ts
  BY <1>2 DEF AtReturn
<1>3. ValueOK(a)
  BY <1>1, <1>20, EndIs DEF ValueOK, EventOK
<1>4. \A v \in vs : v.val # a.val /\ v.add.ub # a.add.ub
  <2>. TAKE v \in vs
  <2>1. PushOf(v) \in Ops(F) /\ PushOf(v).val = v.val
    BY DEF AccountsFor, OpsOf, PushOf
  <2>2. v.val # c.val
    BY <1>20, <2>1, NoOperationYet
  <2>3. PICK m \in F : v.add.ub = m.ts
    BY DEF AccountsFor
  <2>4. m.ts < e.ts /\ m.ts \in Nat /\ e.ts \in Nat
    BY <1>20 DEF EventOK
  <2>. QED
    BY <1>1, <1>20, <2>2, <2>3, <2>4
<1>5. ValuesOK(vs \cup {a})
  <2>1. IsFiniteSet(vs \cup {a})
    BY FS_AddElement DEF AccountsFor, ValuesOK
  <2>2. \A v \in vs \cup {a} : ValueOK(v)
    BY <1>3 DEF AccountsFor, ValuesOK
  <2>3. \A v, w \in vs \cup {a} : v.val = w.val \/ v.add.ub = w.add.ub => v = w
    BY <1>4 DEF AccountsFor, ValuesOK
  <2>. QED
    BY <2>1, <2>2, <2>3 DEF ValuesOK
<1>6. OpsOf(vs \cup {a}) = OpsOf(vs) \cup {x}
  <2>1. PushOf(a) = x
    BY <1>1, <1>20 DEF PushOf, OpFrom
  <2>2. OpsOf({a}) = {x}
    BY <1>1, <2>1, OpsOfNotRemoved
  <2>. QED
    BY <2>2, OpsOfUnion
<1>7. x.val = c.val /\ x.type = "push" /\ c.val # NoVal
  BY <1>20 DEF EventOK
<1>8. {o \in Ops(F \cup {e}) : EmptyPop(o)} = {o \in Ops(F) : EmptyPop(o)}
  BY <1>20, <1>7 DEF EmptyPop
<1>9. ASSUME NEW o \in Ops(F \cup {e}), o.val # NoVal
      PROVE  \/ o \in OpsOf(vs \cup {a})
             \/ IsPairIn(Ops(F \cup {e}), o.val) /\ \A v \in vs \cup {a} : v.val # o.val
  <2>1. CASE o = x \/ o \in OpsOf(vs)
    BY <1>6, <2>1
  <2>2. CASE o \in Ops(F) /\ IsPairIn(Ops(F), o.val) /\ \A v \in vs : v.val # o.val
    <3>1. o.val # c.val
      BY <1>20, <2>2, NoOperationYet
    <3>2. IsPairIn(Ops(F \cup {e}), o.val)
      <4>1. x.val # o.val /\ Ops(F \cup {e}) = Ops(F) \cup {x} /\ IsPairIn(Ops(F), o.val)
        BY <1>20, <2>2, <3>1
      <4>. QED
        BY ONLY <4>1, PairStays
    <3>. QED
      BY <1>1, <2>2, <3>1, <3>2
  <2>. QED
    BY <1>20, <1>9, <2>1, <2>2 DEF AccountsFor
<1>10. \A v \in vs \cup {a} : \E m \in F \cup {e} : v.add.ub = m.ts
  BY <1>1, <1>20 DEF AccountsFor
<1>11. OpsOf(vs \cup {a}) \subseteq Ops(F \cup {e})
  BY <1>20, <1>6 DEF AccountsFor
<1>. QED
  BY <1>1, <1>5, <1>8, <1>9, <1>10, <1>11 DEF AccountsFor

\* A pop returns empty.
LEMMA AccountAfterEmpty ==
  ASSUME NEW F, NEW e, EventsOK(F \cup {e}), \A m \in F : m.ts < e.ts, e.type = "return",
         NEW c, IsLast(F, c), c.type = "pop", c.val = NoVal, c.thread = e.thread,
         NEW vs, NEW es, NEW S, es \in Seq(S), AccountsFor(F, vs, es)
  PROVE  AccountsFor(F \cup {e}, vs, Append(es, Closed(c.ts, e.ts)))
<1>. PICK i : i = Closed(c.ts, e.ts)
  OBVIOUS
<1>. PICK x : x = OpFrom(c, e)
  OBVIOUS
<1>0. AtReturn(F, e, c, i, x)
  BY ReturnIs
<1>1. /\ Ops(F \cup {e}) = Ops(F) \cup {x}
      /\ x.type = "pop" /\ x.val = NoVal /\ x.call = c.ts /\ x.ret = e.ts
      /\ \A m \in F : m.ts \in Nat /\ m.ts < e.ts
      /\ e.ts \in Nat /\ i.lb = c.ts /\ i.ub = e.ts /\ EmptyOK(i)
  BY <1>0 DEF AtReturn, EventOK
<1>2. EmptyPopOf(i) = x /\ EmptyPop(x)
  BY <1>1 DEF OpFrom, EmptyPop, EmptyPopOf
<1>. PICK n \in Nat : n = Len(es)
  OBVIOUS
<1>. PICK q : q = Append(es, i)
  OBVIOUS
<1>3. /\ Len(q) = n + 1 /\ DOMAIN q = 1 .. n + 1 /\ DOMAIN es = 1 .. n
      /\ q[n + 1] = i /\ \A k \in 1 .. n : q[k] = es[k]
  OBVIOUS
<1>4. \A k \in 1 .. n + 1 : k \in 1 .. n \/ k = n + 1
  OBVIOUS
<1>5. \A k \in 1 .. n : es[k].ub < i.ub /\ EmptyOK(es[k])
  <2>. TAKE k \in 1 .. n
  <2>1. PICK m \in F : es[k].ub = m.ts
    BY <1>3 DEF AccountsFor
  <2>. QED
    BY <1>1, <1>3, <2>1 DEF AccountsFor, EmptiesOK
<1>6. EmptiesOK(q)
  <2>1. \A k \in DOMAIN q : EmptyOK(q[k])
    BY <1>1, <1>3, <1>4, <1>5
  <2>2. ASSUME NEW j \in DOMAIN q, NEW k \in DOMAIN q, j < k
        PROVE  q[j].ub < q[k].ub
    <3>1. j \in 1 .. n
      BY <1>3, <2>2
    <3>2. CASE k = n + 1
      BY <1>3, <1>5, <3>1, <3>2
    <3>3. CASE k \in 1 .. n
      BY <1>3, <2>2, <3>1, <3>3 DEF AccountsFor, EmptiesOK
    <3>. QED
      BY <1>3, <1>4, <3>2, <3>3
  <2>. QED
    BY <1>3, <2>1, <2>2 DEF EmptiesOK
<1>7. {EmptyPopOf(q[k]) : k \in DOMAIN q} = {EmptyPopOf(es[k]) : k \in DOMAIN es} \cup {EmptyPopOf(i)}
  <2>1. n + 1 \in DOMAIN q /\ \A k \in DOMAIN es : k \in DOMAIN q
    BY <1>3
  <2>. QED
    BY <1>3, <1>4, <2>1
<1>8. {EmptyPopOf(q[k]) : k \in DOMAIN q} = {o \in Ops(F \cup {e}) : EmptyPop(o)}
  BY <1>1, <1>2, <1>7 DEF AccountsFor
<1>9. \A o \in Ops(F \cup {e}) : o.val # NoVal =>
       \/ o \in OpsOf(vs)
       \/ IsPairIn(Ops(F \cup {e}), o.val) /\ \A v \in vs : v.val # o.val
  <2>. TAKE o \in Ops(F \cup {e})
  <2>. HAVE o.val # NoVal
  <2>1. o \in Ops(F) /\ x.val # o.val
    BY <1>1
  <2>2. IsPairIn(Ops(F), o.val) => IsPairIn(Ops(F \cup {e}), o.val)
    BY ONLY <1>1, <2>1, PairStays
  <2>. QED
    BY <2>1, <2>2 DEF AccountsFor
<1>10. \A k \in DOMAIN q : \E m \in F \cup {e} : q[k].ub = m.ts
  BY <1>1, <1>3, <1>4 DEF AccountsFor
<1>. QED
  BY <1>1, <1>6, <1>8, <1>9, <1>10 DEF AccountsFor

\* A pop returns the value of w, which it overlaps: the pair is dropped.
LEMMA AccountAfterPair ==
  ASSUME NEW F, NEW e, EventsOK(F \cup {e}), \A m \in F : m.ts < e.ts, e.type = "return",
         NEW c, IsLast(F, c), c.type = "pop", c.val # NoVal, c.thread = e.thread,
         NEW vs, NEW es, AccountsFor(F, vs, es),
         NEW w \in vs, w.val = c.val, w.rmv = End, Overlaps(Closed(c.ts, e.ts), w.add)
  PROVE  AccountsFor(F \cup {e}, vs \ {w}, es)
<1>. PICK i : i = Closed(c.ts, e.ts)
  OBVIOUS
<1>. PICK x : x = OpFrom(c, e)
  OBVIOUS
<1>0. AtReturn(F, e, c, i, x)
  BY ReturnIs
<1>1. /\ Ops(F \cup {e}) = Ops(F) \cup {x}
      /\ x.type = "pop" /\ x.val = w.val /\ x.call = c.ts /\ x.ret = e.ts
      /\ i.lb = c.ts /\ i.ub = e.ts
  BY <1>0 DEF AtReturn
<1>. PICK T : T = Ops(F \cup {e})
  OBVIOUS
<1>2. ValuesOK(vs \ {w})
  BY PartOK DEF AccountsFor
<1>3. OpsOf(vs \ {w}) \subseteq OpsOf(vs) /\ OpsOf(vs) \subseteq Ops(F)
  BY DEF AccountsFor, OpsOf
<1>4. \A v \in vs : v.val = w.val => v = w
  BY DEF AccountsFor, ValuesOK
<1>5. IsPairIn(T, w.val)
  <2>. PICK p : p = PushOf(w)
    OBVIOUS
  <2>1. p \in Ops(F) /\ p.type = "push" /\ p.val = w.val /\ p.call = w.add.lb /\ p.ret = w.add.ub
    BY <1>3 DEF OpsOf, PushOf
  <2>2. OverlappingPair(p, x)
    <3>1. i.ub >= w.add.lb /\ i.lb <= w.add.ub
      BY DEF Overlaps
    <3>2. e.ts \in Nat /\ c.ts \in Nat /\ w.add.lb \in Nat /\ w.add.ub \in Nat
      BY <1>0 DEF AtReturn, EventOK, AccountsFor, ValuesOK, ValueOK
    <3>. QED
      BY <1>1, <2>1, <3>1, <3>2 DEF OverlappingPair, Pops
  <2>3. ASSUME NEW o \in Ops(F), o.val = w.val
        PROVE  o = p
    <3>1. o \in OpsOf(vs)
      BY <2>3 DEF AccountsFor
    <3>. PICK v \in vs : \/ o = PushOf(v) /\ o.val = v.val
                         \/ o = PopOf(v) /\ o.val = v.val /\ v.rmv # End
      BY <3>1, OpsAre
    <3>2. v = w
      BY <1>4, <2>3
    <3>. QED
      BY <3>2
  <2>4. {o \in T : o.val = w.val} = {p, x}
    BY <1>1, <2>1, <2>3
  <2>. QED
    BY <1>1, <2>1, <2>2, <2>4 DEF IsPairIn
<1>6. ASSUME NEW o \in T, o.val # NoVal
      PROVE  \/ o \in OpsOf(vs \ {w})
             \/ IsPairIn(T, o.val) /\ \A v \in vs \ {w} : v.val # o.val
  <2>1. CASE o.val = w.val
    BY <1>4, <1>5, <2>1
  <2>2. CASE o.val # w.val
    <3>1. o \in Ops(F) /\ x.val # o.val
      BY <1>1, <2>2
    <3>2. CASE o \in OpsOf(vs)
      <4>1. o \notin OpsOf({w})
        BY <2>2, OpsAre
      <4>. QED
        BY <3>2, <4>1, OpsWithout
    <3>3. CASE IsPairIn(Ops(F), o.val) /\ \A v \in vs : v.val # o.val
      <4>1. IsPairIn(T, o.val)
        BY ONLY <1>1, <3>1, <3>3, T = Ops(F \cup {e}), PairStays
      <4>. QED
        BY <3>3, <4>1
    <3>. QED
      BY <1>6, <3>1, <3>2, <3>3 DEF AccountsFor
  <2>. QED
    BY <2>1, <2>2
<1>7. {o \in T : EmptyPop(o)} = {o \in Ops(F) : EmptyPop(o)}
  <2>1. ~EmptyPop(x)
    BY <1>1 DEF EmptyPop
  <2>. QED
    BY <1>1, <2>1
<1>8. OpsOf(vs \ {w}) \subseteq T
  BY <1>1, <1>3
<1>. QED
  BY <1>2, <1>6, <1>7, <1>8 DEF AccountsFor

\* A pop returns the value of w after its push has returned.
LEMMA AccountAfterPop ==
  ASSUME NEW F, NEW e, EventsOK(F \cup {e}), \A m \in F : m.ts < e.ts, e.type = "return",
         NEW c, IsLast(F, c), c.type = "pop", c.val # NoVal, c.thread = e.thread,
         NEW vs, NEW es, AccountsFor(F, vs, es),
         NEW w \in vs, w.val = c.val, w.rmv = End, ~Overlaps(Closed(c.ts, e.ts), w.add)
  PROVE  AccountsFor(F \cup {e}, (vs \ {w}) \cup {[w EXCEPT !.rmv = Closed(c.ts, e.ts)]}, es)
<1>. PICK i : i = Closed(c.ts, e.ts)
  OBVIOUS
<1>. PICK x : x = OpFrom(c, e)
  OBVIOUS
<1>0. AtReturn(F, e, c, i, x)
  BY ReturnIs
<1>1. /\ Ops(F \cup {e}) = Ops(F) \cup {x}
      /\ x.type = "pop" /\ x.val = w.val /\ x.call = c.ts /\ x.ret = e.ts
      /\ i.lb = c.ts /\ i.ub = e.ts /\ i.lo = FALSE /\ i # End
      /\ c.ts \in Nat /\ e.ts \in Nat /\ c.ts < e.ts /\ e.ts < POSINF - 2
  BY <1>0 DEF AtReturn, EventOK, EmptyOK
<1>. PICK T : T = Ops(F \cup {e})
  OBVIOUS
<1>. PICK u : u = [w EXCEPT !.rmv = i]
  OBVIOUS
<1>2. u.val = w.val /\ u.add = w.add /\ u.rmv = i /\ u = CoverVal(u.val, u.add, u.rmv)
  <2>1. w = [val |-> w.val, add |-> w.add, rmv |-> w.rmv]
    BY DEF AccountsFor, CoverVal
  <2>. QED
    BY <2>1 DEF CoverVal
<1>3. ValueOK(w) /\ w.add.ub < e.ts
  <2>. PICK m \in F : w.add.ub = m.ts
    BY DEF AccountsFor
  <2>1. m.ts < e.ts
    OBVIOUS
  <2>. QED
    BY <2>1 DEF AccountsFor, ValuesOK
<1>4. w.add.ub < i.lb
  BY <1>1, <1>3 DEF Overlaps, ValueOK
<1>5. ValueOK(u)
  BY <1>1, <1>2, <1>3, <1>4, EndIs DEF ValueOK
<1>. PICK vr : vr = vs \ {w}
  OBVIOUS
<1>6. \A v \in vs : v.val = w.val \/ v.add.ub = w.add.ub => v = w
  BY DEF AccountsFor, ValuesOK
<1>7. ValuesOK(vr \cup {u})
  <2>0. ValuesOK(vr)
    BY PartOK DEF AccountsFor
  <2>1. IsFiniteSet(vr \cup {u})
    BY <2>0, FS_AddElement DEF ValuesOK
  <2>2. \A v \in vr \cup {u} : ValueOK(v)
    BY <1>5, <2>0 DEF ValuesOK
  <2>3. \A v \in vr : v.val # u.val /\ v.add.ub # u.add.ub
    BY <1>2, <1>6
  <2>4. ASSUME NEW v \in vr \cup {u}, NEW z \in vr \cup {u},
               v.val = z.val \/ v.add.ub = z.add.ub
        PROVE  v = z
    <3>1. CASE v \in vr /\ z \in vr
      BY <2>0, <2>4, <3>1 DEF ValuesOK
    <3>2. CASE v = u \/ z = u
      BY <2>3, <2>4, <3>2
    <3>. QED
      BY <3>1, <3>2
  <2>. QED
    BY <2>1, <2>2, <2>4 DEF ValuesOK
<1>8. OpsOf(vr \cup {u}) = OpsOf(vr) \cup {PushOf(w), x}
  <2>1. PushOf(u) = PushOf(w)
    BY <1>2 DEF PushOf
  <2>2. PopOf(u) = x
    BY <1>1, <1>2 DEF PopOf, OpFrom
  <2>3. OpsOf({u}) = {PushOf(w), x}
    BY <1>1, <1>2, <2>1, <2>2, OpsOfRemoved
  <2>. QED
    BY <2>3, OpsOfUnion
<1>9. OpsOf(vr) \subseteq OpsOf(vs) /\ OpsOf(vs) \subseteq Ops(F) /\ PushOf(w) \in Ops(F)
  BY DEF AccountsFor, OpsOf
<1>10. \A o \in OpsOf(vs) : o \in OpsOf(vr \cup {u})
  <2>1. OpsOf({w}) = {PushOf(w)}
    BY OpsOfNotRemoved
  <2>. QED
    BY <1>8, <2>1, OpsWithout
<1>11. ASSUME NEW o \in T, o.val # NoVal
      PROVE  \/ o \in OpsOf(vr \cup {u})
             \/ IsPairIn(T, o.val) /\ \A v \in vr \cup {u} : v.val # o.val
  <2>1. CASE o = x \/ o \in OpsOf(vs)
    BY <1>8, <1>10, <2>1
  <2>2. CASE o \in Ops(F) /\ IsPairIn(Ops(F), o.val) /\ \A v \in vs : v.val # o.val
    <3>1. x.val # o.val
      BY <1>1, <2>2
    <3>2. IsPairIn(T, o.val)
      BY ONLY <1>1, <2>2, <3>1, T = Ops(F \cup {e}), PairStays
    <3>. QED
      BY <1>2, <2>2, <3>2
  <2>. QED
    BY <1>1, <1>11, <2>1, <2>2 DEF AccountsFor
<1>12. {o \in T : EmptyPop(o)} = {o \in Ops(F) : EmptyPop(o)}
  <2>1. ~EmptyPop(x)
    BY <1>1 DEF EmptyPop
  <2>. QED
    BY <1>1, <2>1
<1>13. OpsOf(vr \cup {u}) \subseteq T
  BY <1>1, <1>8, <1>9
<1>14. \A v \in vr \cup {u} : \E m \in F \cup {e} : v.add.ub = m.ts
  <2>1. \A v \in vs : \E m \in F : v.add.ub = m.ts
    BY DEF AccountsFor
  <2>2. \A v \in vr \cup {u} : \E z \in vs : v.add = z.add
    BY <1>2
  <2>. QED
    BY <2>1, <2>2
<1>15. \A v \in vr \cup {u} : v = CoverVal(v.val, v.add, v.rmv)
  BY <1>2 DEF AccountsFor
<1>. QED
  BY <1>7, <1>11, <1>12, <1>13, <1>14, <1>15 DEF AccountsFor

LEMMA OpsAreFinite ==
  ASSUME NEW F, EventsOK(F)
  PROVE  /\ IsFiniteSet(Ops(F)) /\ Timed(Ops(F))
         /\ \A o \in Ops(F) : o.val = NoVal => EmptyPop(o)
<1>1. IsFiniteSet(Ops(F))
  <2>. DEFINE S == {y \in F \X F : Matches(F, y[1], y[2])}
              f == [x \in S |-> OpFrom(x[1], x[2])]
  <2>1. IsFiniteSet(F \X F)
    BY FS_Product DEF EventsOK
  <2>2. IsFiniteSet(S)
    BY <2>1, FS_Subset
  <2>3. Ops(F) = {f[x] : x \in S}
    BY DEF Ops
  <2>. HIDE DEF S, f
  <2>. QED
    BY <2>2, <2>3, FiniteImage
<1>2. ASSUME NEW o \in Ops(F)
      PROVE  /\ o.call \in Nat /\ o.ret \in Nat /\ o.call <= o.ret
             /\ o.val = NoVal => EmptyPop(o)
  <2>. PICK c \in F, r \in F : Matches(F, c, r) /\ o = OpFrom(c, r)
    BY OpsIs
  <2>1. EventOK(c) /\ EventOK(r)
    BY DEF EventsOK
  <2>2. o.type = c.type /\ o.val = c.val /\ o.call = c.ts /\ o.ret = r.ts
    BY OpFromIs
  <2>. QED
    BY <2>1, <2>2 DEF Matches, EventOK, EmptyPop
<1>. QED
  BY <1>1, <1>2 DEF Timed

LEMMA PushesDiffer ==
  ASSUME NEW F, EventsOK(F), NEW o \in Ops(F), NEW q \in Ops(F),
         o.type = "push" /\ q.type = "push" /\ o.val = q.val
  PROVE  o = q
<1>. PICK c \in F, a \in F : Matches(F, c, a) /\ o = OpFrom(c, a)
  BY OpsIs
<1>. PICK d \in F, b \in F : Matches(F, d, b) /\ q = OpFrom(d, b)
  BY OpsIs
<1>1. c = d
  BY OpFromIs DEF EventsOK
<1>2. a.ts \in Nat /\ b.ts \in Nat /\ c.ts \in Nat
  BY DEF EventsOK, EventOK
<1>3. a.ts = b.ts
  BY <1>1, <1>2 DEF Matches
<1>4. a = b
  BY <1>3 DEF EventsOK
<1>. QED
  BY <1>1, <1>4

\* The operations can be ordered if and only if those of the account can.
LEMMA AccountIsExact ==
  ASSUME NEW F, EventsOK(F), NEW vs, NEW es, AccountsFor(F, vs, es)
  PROVE  Orders(Ops(F), << >>) <=>
           Orders(OpsOf(vs) \cup {EmptyPopOf(es[k]) : k \in DOMAIN es}, << >>)
<1>. PICK T : T = Ops(F)
  OBVIOUS
<1>. DEFINE D == {o.val : o \in T} \ ({v.val : v \in vs} \cup {NoVal})
<1>1. IsFiniteSet(T) /\ Timed(T) /\ \A o \in T : o.val = NoVal => EmptyPop(o)
  BY OpsAreFinite
<1>2. IsFiniteSet(D)
  <2>. DEFINE f == [o \in T |-> o.val]
  <2>1. D \subseteq {f[o] : o \in T}
    OBVIOUS
  <2>. HIDE DEF f, D
  <2>2. IsFiniteSet({f[o] : o \in T})
    BY <1>1, FiniteImage
  <2>. QED
    BY <2>1, <2>2, FS_Subset
<1>3. \A d \in D : IsPairIn(T, d)
  <2>. TAKE d \in D
  <2>. PICK o \in T : o.val = d
    OBVIOUS
  <2>1. o \notin OpsOf(vs)
    BY OpsAre
  <2>. QED
    BY <2>1 DEF AccountsFor
<1>. PICK B : B = OpsOf(vs) \cup {EmptyPopOf(es[k]) : k \in DOMAIN es}
  OBVIOUS
<1>4. B = OpsOf(vs) \cup {o \in T : EmptyPop(o)} /\ OpsOf(vs) \subseteq T
  BY DEF AccountsFor
<1>5. {o \in T : o.val \notin D} = B
  <2>1. ASSUME NEW o \in T, o.val \notin D
        PROVE  o \in B
    <3>1. CASE o.val = NoVal
      BY <1>1, <1>4, <3>1
    <3>2. CASE o.val # NoVal
      <4>1. PICK v \in vs : v.val = o.val
        BY <2>1, <3>2
      <4>. QED
        BY <1>4, <3>2, <4>1 DEF AccountsFor
    <3>. QED
      BY <3>1, <3>2
  <2>2. ASSUME NEW o \in B
        PROVE  o \in T /\ o.val \notin D
    <3>1. CASE o \in OpsOf(vs)
      <4>1. \E v \in vs : o.val = v.val
        BY <3>1, OpsAre
      <4>. QED
        BY <1>4, <3>1, <4>1
    <3>2. CASE o \in T /\ EmptyPop(o)
      BY <3>2 DEF EmptyPop
    <3>. QED
      BY <1>4, <2>2, <3>1, <3>2
  <2>. HIDE DEF D
  <2>. QED
    BY <2>1, <2>2
<1>. HIDE DEF D
<1>6. Orders(B, << >>) => Orders(T, << >>)
  BY <1>1, <1>2, <1>3, <1>5, DropPairs
<1>7. Orders(T, << >>) => Orders(B, << >>)
  <2>. PICK V : V = ValuesIn(T)
    OBVIOUS
  <2>1. Orders(T, << >>) => Orders(WithoutValues(T, D), << >>)
    BY ONLY <1>1, V = ValuesIn(T), OrderWithout
  <2>. QED
    BY <1>5, <2>1 DEF WithoutValues
<1>. QED
  BY <1>6, <1>7

\* Of the events of G those of F come before e, and e before all others.
IsNext(F, e, G) ==
  /\ F \subseteq G /\ e \in G
  /\ \A m \in F : m.ts < e.ts
  /\ \A m \in G : m \in F \/ m.ts > e.ts \/ m = e

\* Of the events of G those of F come first.
IsStart(F, G) ==
  /\ F \subseteq G
  /\ \A m \in F : \A k \in G : k \in F \/ m.ts < k.ts

LEMMA NextIsAfterStart ==
  ASSUME NEW F, NEW e, NEW G, IsNext(F, e, G), EventsOK(G)
  PROVE  IsStart(F, G)
<1>. SUFFICES ASSUME NEW m \in F, NEW k \in G, k \notin F
              PROVE  m.ts < k.ts
  BY DEF IsStart, IsNext
<1>1. m.ts \in Nat /\ k.ts \in Nat /\ e.ts \in Nat
  BY DEF EventsOK, EventOK, IsNext
<1>2. m.ts < e.ts /\ (k.ts > e.ts \/ k = e)
  BY DEF IsNext
<1>. QED
  BY <1>1, <1>2

LEMMA MatchesBefore ==
  ASSUME NEW F, NEW G, IsStart(F, G), EventsOK(G), NEW c, NEW r \in F
  PROVE  Matches(G, c, r) <=> Matches(F, c, r)
<1>0. \A m \in G : m.ts \in Nat
  BY DEF EventsOK, EventOK
<1>1. \A m \in G : m \in F \/ r.ts < m.ts
  BY DEF IsStart
<1>2. ASSUME Matches(G, c, r)
      PROVE  Matches(F, c, r)
  <2>1. c \in F
    BY <1>0, <1>1, <1>2 DEF Matches
  <2>. QED
    BY <1>2, <2>1 DEF Matches, IsStart
<1>3. ASSUME Matches(F, c, r)
      PROVE  Matches(G, c, r)
  <2>1. \A m \in G : m.thread = c.thread => m.ts <= c.ts \/ m.ts >= r.ts
    <3>. SUFFICES ASSUME NEW m \in G, m.thread = c.thread
                  PROVE  m.ts <= c.ts \/ m.ts >= r.ts
      OBVIOUS
    <3>1. r \in G /\ r.ts \in Nat /\ m.ts \in Nat
      BY <1>0, <1>3 DEF Matches, IsStart
    <3>. QED
      BY <1>1, <1>3, <3>1 DEF Matches
  <2>. QED
    BY <1>3, <2>1 DEF Matches, IsStart
<1>. QED
  BY <1>2, <1>3

LEMMA OpsOfStart ==
  ASSUME NEW F, NEW G, IsStart(F, G), EventsOK(G)
  PROVE  Ops(F) \subseteq Ops(G)
<1>. SUFFICES ASSUME NEW o \in Ops(F)
              PROVE  o \in Ops(G)
  OBVIOUS
<1>. PICK c \in F, r \in F : Matches(F, c, r) /\ o = OpFrom(c, r)
  BY OpsIs
<1>1. Matches(G, c, r)
  BY MatchesBefore
<1>. QED
  BY <1>1, OpsIs DEF Matches

\* The first events can be left out if they are pairs that overlap.
LEMMA StartLeftOut ==
  ASSUME NEW F, NEW H, NEW G, G = F \cup H, EventsOK(G), Paired(G),
         \A m \in F : \A k \in H : m.ts < k.ts,
         \A c \in F : c.type # "return" => \E r \in F : Matches(F, c, r),
         \A o \in Ops(F) : IsPairIn(Ops(F), o.val),
         \A o, q \in Ops(G) : o.type = q.type /\ o.val = q.val /\ o.val # NoVal => o = q
  PROVE  Paired(H) /\ (Orders(Ops(G), << >>) <=> Orders(Ops(H), << >>))
<1>0. \A m \in G : m.ts \in Nat
  BY DEF EventsOK, EventOK
<1>1. IsStart(F, G) /\ Ops(F) \subseteq Ops(G)
  <2>1. IsStart(F, G)
    BY DEF IsStart
  <2>. QED
    BY <2>1, OpsOfStart
<1>2. \A m \in F : m \notin H
  BY <1>0
<1>3. ASSUME NEW c, NEW r, Matches(G, c, r)
      PROVE  /\ c \in F <=> r \in F
             /\ c \in F => Matches(F, c, r)
             /\ c \notin F => Matches(H, c, r)
  <2>0. c \in G /\ r \in G /\ c.ts < r.ts
    BY <1>3 DEF Matches
  <2>1. ASSUME c \in F
        PROVE  r \in F
    <3>. PICK x \in F : Matches(F, c, x)
      BY <1>3, <2>1 DEF Matches
    <3>1. x \in G /\ x.thread = c.thread /\ c.ts < x.ts /\ r.thread = c.thread
      BY <1>3 DEF Matches
    <3>2. x.ts <= c.ts \/ x.ts >= r.ts
      BY <1>3, <3>1 DEF Matches
    <3>3. x.ts \in Nat /\ c.ts \in Nat /\ r.ts \in Nat
      BY <1>0, <2>0, <3>1
    <3>4. ~(x.ts < r.ts)
      BY <3>1, <3>2, <3>3
    <3>5. r \notin H
      BY <3>4
    <3>. QED
      BY <2>0, <3>5
  <2>2. ASSUME r \in F
        PROVE  c \in F
    BY <1>0, <2>0, <2>2
  <2>3. c \in F => Matches(F, c, r)
    BY <1>1, <1>3, <2>1, MatchesBefore
  <2>4. ASSUME c \notin F
        PROVE  Matches(H, c, r)
    <3>1. c \in H /\ r \in H /\ H \subseteq G
      BY <2>0, <2>2, <2>4
    <3>. QED
      BY <1>3, <3>1 DEF Matches
  <2>. QED
    BY <2>1, <2>2, <2>3, <2>4
<1>4. ASSUME NEW c, NEW r, Matches(H, c, r)
      PROVE  Matches(G, c, r)
  <2>0. c \in H /\ r \in H /\ c \in G /\ r \in G /\ c.ts \in Nat /\ r.ts \in Nat
    BY <1>0, <1>4 DEF Matches
  <2>1. \A m \in G : m.thread = c.thread => m.ts <= c.ts \/ m.ts >= r.ts
    <3>. TAKE m \in G
    <3>1. m \in F => m.ts < c.ts /\ m.ts \in Nat
      BY <1>0, <2>0
    <3>2. m \in H => (m.thread = c.thread => m.ts <= c.ts \/ m.ts >= r.ts)
      BY <1>4 DEF Matches
    <3>. QED
      BY <2>0, <3>1, <3>2
  <2>. QED
    BY <1>4, <2>0, <2>1 DEF Matches
<1>5. Paired(H)
  <2>1. ASSUME NEW c \in H, c.type # "return"
        PROVE  \E r \in H : Matches(H, c, r)
    <3>. PICK r \in G : Matches(G, c, r)
      BY <2>1 DEF Paired
    <3>. QED
      BY <1>2, <1>3 DEF Matches
  <2>2. ASSUME NEW r \in H, r.type = "return"
        PROVE  \E c \in H : Matches(H, c, r)
    <3>. PICK c \in G : Matches(G, c, r)
      BY <2>2 DEF Paired
    <3>. QED
      BY <1>2, <1>3 DEF Matches
  <2>. QED
    BY <2>1, <2>2 DEF Paired
<1>6. ASSUME NEW o
      PROVE  o \in Ops(G) <=> o \in Ops(F) \/ o \in Ops(H)
  <2>1. ASSUME o \in Ops(G)
        PROVE  o \in Ops(F) \/ o \in Ops(H)
    <3>. PICK c, r : Matches(G, c, r) /\ o = OpFrom(c, r)
      BY <2>1, OpsIs
    <3>1. CASE c \in F
      BY <1>3, <3>1, OpsIs
    <3>2. CASE c \notin F
      <4>1. Matches(H, c, r) /\ c \in H /\ r \in H
        BY <1>3, <3>2 DEF Matches
      <4>. QED
        BY <4>1, OpsIs
    <3>. QED
      BY <3>1, <3>2
  <2>2. ASSUME o \in Ops(H)
        PROVE  o \in Ops(G)
    <3>. PICK c, r : Matches(H, c, r) /\ o = OpFrom(c, r)
      BY <2>2, OpsIs
    <3>1. Matches(G, c, r) /\ c \in G /\ r \in G
      BY <1>4 DEF Matches
    <3>. QED
      BY <3>1, OpsIs
  <2>. QED
    BY <1>1, <2>1, <2>2
<1>7. \A o \in Ops(F), q \in Ops(H) : o # q
  <2>. SUFFICES ASSUME NEW o \in Ops(F), NEW q \in Ops(H), o = q
                PROVE  FALSE
    OBVIOUS
  <2>. PICK c \in F, r \in F : o = OpFrom(c, r)
    BY OpsIs
  <2>. PICK d \in H, x \in H : q = OpFrom(d, x)
    BY OpsIs
  <2>0. OpFrom(c, r).call = c.ts /\ OpFrom(d, x).call = d.ts
    BY OpFromIs
  <2>1. o.call = c.ts /\ q.call = d.ts
    BY <2>0
  <2>2. c.ts < d.ts /\ c.ts \in Nat
    BY <1>0
  <2>. QED
    BY <2>1, <2>2
<1>. PICK T : T = Ops(G)
  OBVIOUS
<1>. PICK D : D = {o.val : o \in Ops(F)}
  OBVIOUS
<1>8. IsFiniteSet(T) /\ Timed(T) /\ IsFiniteSet(D)
  <2>1. IsFiniteSet(T) /\ Timed(T)
    BY OpsAreFinite
  <2>2. IsFiniteSet(Ops(F))
    BY <1>1, <2>1, FS_Subset
  <2>. PICK S : S = Ops(F)
    OBVIOUS
  <2>. PICK f : f = [o \in S |-> o.val]
    OBVIOUS
  <2>3. D = {f[o] : o \in S}
    OBVIOUS
  <2>4. IsFiniteSet({f[o] : o \in S})
    BY <2>2, FiniteImage
  <2>5. IsFiniteSet(D)
    BY <2>3, <2>4
  <2>. QED
    BY <2>1, <2>5
<1>9. ASSUME NEW d \in D
      PROVE  IsPairIn(T, d) /\ \A q \in Ops(H) : q.val # d
  <2>1. IsPairIn(Ops(F), d)
    OBVIOUS
  <2>. PICK p \in Ops(F), q \in Ops(F) : OverlappingPair(p, q) /\ {o \in Ops(F) : o.val = d} = {p, q}
    BY <2>1 DEF IsPairIn
  <2>2. p.val = d /\ q.val = d /\ p.type = "push" /\ q.type = "pop" /\ d # NoVal
    BY DEF OverlappingPair, Pops
  <2>3. ASSUME NEW x \in T, x.val = d
        PROVE  x \in {p, q}
    <3>. PICK c \in G : x.type = c.type /\ c.type # "return"
      BY OpsIs, OpFromIs DEF Matches
    <3>1. x.type \in {"push", "pop"}
      BY DEF EventsOK, EventOK
    <3>. QED
      BY <1>1, <2>2, <2>3, <3>1
  <2>4. p \in T /\ q \in T /\ {o \in T : o.val = d} = {p, q}
    BY <1>1, <2>2, <2>3
  <2>5. IsPairIn(T, d)
    BY <2>4 DEF IsPairIn
  <2>6. \A x \in Ops(H) : x.val # d
    BY <1>6, <1>7, <2>3
  <2>. QED
    BY <2>5, <2>6
<1>10. {o \in T : o.val \notin D} = Ops(H)
  BY <1>6, <1>9
<1>11. Orders(Ops(H), << >>) => Orders(T, << >>)
  <2>1. \A d \in D : IsPairIn(T, d)
    BY <1>9
  <2>2. Orders({o \in T : o.val \notin D}, << >>) => Orders(T, << >>)
    BY ONLY <1>8, <2>1, DropPairs
  <2>. QED
    BY <1>10, <2>2
<1>12. Orders(T, << >>) => Orders(Ops(H), << >>)
  <2>. PICK V : V = ValuesIn(T)
    OBVIOUS
  <2>1. Orders(T, << >>) => Orders(WithoutValues(T, D), << >>)
    BY ONLY <1>8, V = ValuesIn(T), OrderWithout
  <2>. QED
    BY <1>10, <2>1 DEF WithoutValues
<1>. QED
  BY <1>5, <1>11, <1>12

LEMMA OpsBefore ==
  ASSUME NEW F, NEW e, NEW G, IsNext(F, e, G), EventsOK(G)
  PROVE  \A o \in Ops(F) : o \in Ops(G) /\ o.ret < e.ts
<1>. TAKE o \in Ops(F)
<1>. PICK c \in F, r \in F : Matches(F, c, r) /\ o = OpFrom(c, r)
  BY OpsIs
<1>1. o.ret < e.ts
  BY OpFromIs DEF IsNext
<1>. QED
  BY <1>1, NextIsAfterStart, OpsOfStart

\* No thread calls twice.
LEMMA CallIsAccepted ==
  ASSUME NEW F, NEW e, NEW G, IsNext(F, e, G), EventsOK(G), Paired(G), e.type # "return",
         NEW last, NEW op, CallsOK(F, last, op)
  PROVE  e.thread \in DOMAIN last => last[e.thread] = "return"
<1>0. \A m \in G : m.ts \in Nat
  BY DEF EventsOK, EventOK
<1>. SUFFICES ASSUME e.thread \in DOMAIN last, last[e.thread] # "return"
              PROVE  FALSE
  OBVIOUS
<1>. PICK c : c = op[e.thread]
  OBVIOUS
<1>1. IsLast(F, c) /\ c.type # "return" /\ c.thread = e.thread
  BY DEF CallsOK
<1>2. c \in F /\ c \in G /\ c.ts < e.ts
  BY <1>1 DEF IsLast, IsNext
<1>. PICK r \in G : Matches(G, c, r)
  BY <1>1, <1>2 DEF Paired
<1>3. r \notin F
  <2>1. r.thread = c.thread /\ c.ts < r.ts /\ c.ts \in Nat /\ r.ts \in Nat
    BY <1>0, <1>2 DEF Matches
  <2>2. r \in F => r.ts <= c.ts
    BY <1>1, <2>1 DEF IsLast
  <2>. QED
    BY <2>1, <2>2
<1>4. r.ts > e.ts
  BY <1>3 DEF IsNext, Matches
<1>. QED
  BY <1>0, <1>1, <1>2, <1>4 DEF Matches, IsNext

\* A return is of the call that is open.
LEMMA ReturnIsAccepted ==
  ASSUME NEW F, NEW e, NEW G, IsNext(F, e, G), EventsOK(G), Paired(G), e.type = "return",
         NEW last, NEW op, CallsOK(F, last, op)
  PROVE  /\ e.thread \in DOMAIN last /\ last[e.thread] # "return"
         /\ Matches(G, op[e.thread], e)
<1>0. \A m \in G : m.ts \in Nat
  BY DEF EventsOK, EventOK
<1>. PICK c \in G : Matches(G, c, e)
  BY DEF Paired, IsNext
<1>1. c \in F
  BY <1>0 DEF Matches, IsNext
<1>2. ~\E r \in F : Matches(F, c, r)
  <2>. SUFFICES ASSUME NEW r \in F, Matches(F, c, r)
                PROVE  FALSE
    OBVIOUS
  <2>1. r \in G /\ r.thread = c.thread /\ c.ts < r.ts /\ r.ts < e.ts
    BY DEF Matches, IsNext
  <2>. QED
    BY <1>0, <2>1 DEF Matches
<1>3. c.thread \in DOMAIN op /\ op[c.thread] = c /\ c.thread = e.thread
  BY <1>1, <1>2 DEF CallsOK, Matches
<1>. QED
  BY <1>3 DEF CallsOK

\* The value of a removal is known, and not removed yet.
LEMMA ValueIsKnown ==
  ASSUME NEW F, NEW e, NEW G, IsNext(F, e, G), EventsOK(G), Clean(Ops(G)),
         NEW vs, (\E es : AccountsFor(F, vs, es)),
         NEW c, Matches(G, c, e) /\ c.type = "pop" /\ c.val # NoVal
  PROVE  /\ \E w \in vs : w.val = c.val
         /\ \A w \in vs : w.val = c.val => w.rmv = End
<1>. PICK es : AccountsFor(F, vs, es)
  OBVIOUS
<1>0. \A m \in G : m.ts \in Nat
  BY DEF EventsOK, EventOK
<1>. PICK x : x = OpFrom(c, e)
  OBVIOUS
<1>1. x \in Ops(G) /\ x.type = "pop" /\ x.val = c.val /\ x.ret = e.ts
  BY OpsIs, OpFromIs DEF Matches
<1>2. \A o \in Ops(F) : o \in Ops(G) /\ o.ret < e.ts
  BY OpsBefore
<1>3. ASSUME NEW q \in Ops(F), Pops(q, c.val)
      PROVE  FALSE
  <2>1. q = x
    BY <1>1, <1>2, <1>3 DEF Clean
  <2>2. e.ts \in Nat /\ q.ret < e.ts
    BY <1>0, <1>2 DEF IsNext
  <2>. QED
    BY <1>1, <2>1, <2>2
<1>4. ASSUME NEW w \in vs, w.val = c.val
      PROVE  w.rmv = End
  <2>. SUFFICES ASSUME w.rmv # End
                PROVE  FALSE
    OBVIOUS
  <2>1. PopOf(w) \in OpsOf(vs)
    BY DEF OpsOf
  <2>2. PopOf(w) \in Ops(F)
    BY <2>1 DEF AccountsFor
  <2>3. Pops(PopOf(w), c.val)
    BY <1>4 DEF Pops, PopOf
  <2>. QED
    BY <1>3, <2>2, <2>3
<1>5. \E w \in vs : w.val = c.val
  <2>. PICK o \in Ops(G) : o.type = "push" /\ o.val = c.val /\ o.ret <= e.ts
    BY <1>1 DEF Clean
  <2>. PICK d \in G, r \in G : Matches(G, d, r) /\ o = OpFrom(d, r)
    BY OpsIs
  <2>1. d.type = "push" /\ r.ts <= e.ts
    BY OpFromIs
  <2>2. r \in F
    <3>1. ASSUME r = e
          PROVE  FALSE
      <4>1. d.ts < e.ts /\ c.ts < e.ts /\ d.thread = c.thread /\ d \in G /\ c \in G
        BY <3>1 DEF Matches
      <4>2. d.ts = c.ts
        BY <1>0, <3>1, <4>1 DEF Matches, IsNext
      <4>3. d = c
        BY <4>1, <4>2 DEF EventsOK
      <4>. QED
        BY <2>1, <4>3
    <3>. QED
      BY <1>0, <2>1, <3>1 DEF IsNext
  <2>3. Matches(F, d, r)
    BY <2>2, NextIsAfterStart, MatchesBefore
  <2>4. o \in Ops(F)
    BY <2>2, <2>3, OpsIs DEF Matches
  <2>5. ~IsPairIn(Ops(F), o.val)
    <3>. SUFFICES ASSUME NEW p, NEW q \in Ops(F), OverlappingPair(p, q),
                         {z \in Ops(F) : z.val = o.val} = {p, q}
                  PROVE  FALSE
      BY DEF IsPairIn
    <3>1. q.type = "pop" /\ q.val = o.val
      BY DEF OverlappingPair, Pops
    <3>2. Pops(q, c.val)
      BY <3>1 DEF Pops
    <3>. QED
      BY <1>3, <3>2
  <2>6. o \in OpsOf(vs)
    BY <2>4, <2>5 DEF AccountsFor
  <2>. QED
    BY <2>6, OpsAre
<1>. QED
  BY <1>4, <1>5

----------------------------------------------------------------------------
(* Complete histories. *)

\* The event at r is the return of the call at k.
IsReturnOf(es, k, r) ==
  /\ k \in DOMAIN es /\ r \in DOMAIN es /\ k < r
  /\ es[k].type # "return" /\ es[r].type = "return" /\ es[k].thread = es[r].thread
  /\ \A m \in DOMAIN es : k < m /\ m < r => es[m].thread # es[k].thread

\* Calls and returns alternate in every thread, and the last is a return.
Complete(es) ==
  /\ Len(es) \in Nat /\ DOMAIN es = 1 .. Len(es)
  /\ \A k \in DOMAIN es : es[k].type \in {"push", "pop", "return"} /\ es[k].ts = k
  /\ \A k \in DOMAIN es : es[k].type # "return" => \E r \in DOMAIN es : IsReturnOf(es, k, r)
  /\ \A r \in DOMAIN es : es[r].type = "return" => \E k \in DOMAIN es : IsReturnOf(es, k, r)

EventSet(es) == {es[k] : k \in DOMAIN es}

\* The same of a history that need not have events at every time.
Alternates(es) ==
  /\ Len(es) \in Nat /\ DOMAIN es = 1 .. Len(es)
  /\ \A k \in DOMAIN es : es[k].type # "return" => \E r \in DOMAIN es : IsReturnOf(es, k, r)

TimesInOrder(es) ==
  /\ DOMAIN es \subseteq Nat /\ \A k \in DOMAIN es : es[k].ts \in Nat
  /\ \A j, k \in DOMAIN es : j < k => es[j].ts < es[k].ts

LEMMA CompleteAlternates ==
  ASSUME NEW es, Complete(es)
  PROVE  Alternates(es) /\ TimesInOrder(es)
BY DEF Complete, Alternates, TimesInOrder

\* The value of an operation may be on its return.
RecordedOp(l, k, r) ==
  [type |-> l[k].type, val |-> IF l[k].val # NoVal THEN l[k].val ELSE l[r].val,
   call |-> l[k].ts, ret |-> l[r].ts]

LEMMA OneReturnOf ==
  ASSUME NEW es, Alternates(es), NEW k, NEW r, IsReturnOf(es, k, r)
  PROVE  /\ \A q : IsReturnOf(es, k, q) => q = r
         /\ \A j : IsReturnOf(es, j, r) => j = k
<1>0. DOMAIN es \subseteq Nat
  BY DEF Alternates
<1>1. ASSUME NEW q, IsReturnOf(es, k, q)
      PROVE  q = r
  <2>1. q \in Nat /\ r \in Nat /\ q \in DOMAIN es /\ r \in DOMAIN es /\ k < q /\ k < r
    BY <1>0, <1>1 DEF IsReturnOf
  <2>2. ~(q < r) /\ ~(r < q)
    BY <1>1, <2>1 DEF IsReturnOf
  <2>. QED
    BY <2>1, <2>2
<1>2. ASSUME NEW j, IsReturnOf(es, j, r)
      PROVE  j = k
  <2>1. j \in Nat /\ k \in Nat /\ j \in DOMAIN es /\ k \in DOMAIN es /\ k < r /\ j < r
    BY <1>0, <1>2 DEF IsReturnOf
  <2>2. es[j].thread = es[r].thread /\ es[k].thread = es[r].thread
    BY <1>2 DEF IsReturnOf
  <2>3. ~(j < k)
    BY <1>2, <2>1, <2>2 DEF IsReturnOf
  <2>4. ~(k < j)
    BY <1>2, <2>1, <2>2 DEF IsReturnOf
  <2>. QED
    BY <2>1, <2>3, <2>4
<1>. QED
  BY <1>1, <1>2

LEMMA OneReturn ==
  ASSUME NEW es, Complete(es), NEW k, NEW r, IsReturnOf(es, k, r)
  PROVE  /\ \A q : IsReturnOf(es, k, q) => q = r
         /\ \A j : IsReturnOf(es, j, r) => j = k
BY CompleteAlternates, OneReturnOf

\* The events as a set match as they do in the history.
LEMMA EventsMatch ==
  ASSUME NEW es, TimesInOrder(es), NEW c, NEW x
  PROVE  Matches(EventSet(es), c, x) <=>
           \E k, r \in DOMAIN es : IsReturnOf(es, k, r) /\ c = es[k] /\ x = es[r]
<1>0. /\ \A j, k \in DOMAIN es : j < k <=> es[j].ts < es[k].ts
      /\ \A j, k \in DOMAIN es : j >= k <=> es[j].ts >= es[k].ts
      /\ \A k \in DOMAIN es : es[k] \in EventSet(es) /\ k \in Nat
      /\ \A m \in EventSet(es) : \E k \in DOMAIN es : m = es[k]
  <2>1. ASSUME NEW j \in DOMAIN es, NEW k \in DOMAIN es
        PROVE  (j < k <=> es[j].ts < es[k].ts) /\ (j >= k <=> es[j].ts >= es[k].ts)
    <3>1. j \in Nat /\ k \in Nat /\ es[j].ts \in Nat /\ es[k].ts \in Nat
      BY DEF TimesInOrder
    <3>2. (j < k => es[j].ts < es[k].ts) /\ (k < j => es[k].ts < es[j].ts)
      BY DEF TimesInOrder
    <3>. QED
      BY <3>1, <3>2
  <2>. QED
    BY <2>1 DEF EventSet, TimesInOrder
<1>1. ASSUME Matches(EventSet(es), c, x)
      PROVE  \E k, r \in DOMAIN es : IsReturnOf(es, k, r) /\ c = es[k] /\ x = es[r]
  <2>. PICK k \in DOMAIN es, r \in DOMAIN es : c = es[k] /\ x = es[r]
    BY <1>0, <1>1 DEF Matches
  <2>1. k < r /\ es[k].type # "return" /\ es[r].type = "return" /\ es[k].thread = es[r].thread
    BY <1>0, <1>1 DEF Matches
  <2>2. \A m \in DOMAIN es : es[m].thread = es[k].thread => m <= k \/ m >= r
    BY <1>0, <1>1 DEF Matches
  <2>3. \A m \in DOMAIN es : k < m /\ m < r => es[m].thread # es[k].thread
    BY <1>0, <2>2
  <2>. QED
    BY <2>1, <2>3 DEF IsReturnOf
<1>2. ASSUME NEW k \in DOMAIN es, NEW r \in DOMAIN es, IsReturnOf(es, k, r), c = es[k], x = es[r]
      PROVE  Matches(EventSet(es), c, x)
  <2>1. \A m \in EventSet(es) : m.thread = c.thread => m.ts <= c.ts \/ m.ts >= x.ts
    <3>. TAKE m \in EventSet(es)
    <3>. PICK i \in DOMAIN es : m = es[i]
      BY <1>0
    <3>1. ~(k < i /\ i < r) \/ es[i].thread # es[k].thread
      BY <1>2 DEF IsReturnOf
    <3>. QED
      BY <1>0, <1>2, <3>1
  <2>. QED
    BY <1>0, <1>2, <2>1 DEF Matches, IsReturnOf
<1>. QED
  BY <1>1, <1>2

LEMMA ReturnsMatch ==
  ASSUME NEW es, Complete(es), NEW c, NEW x
  PROVE  Matches(EventSet(es), c, x) <=>
           \E k, r \in DOMAIN es : IsReturnOf(es, k, r) /\ c = es[k] /\ x = es[r]
BY CompleteAlternates, EventsMatch

LEMMA CompleteOps ==
  ASSUME NEW es, Complete(es), NEW o
  PROVE  o \in Ops(EventSet(es)) <=>
           \E k, r \in DOMAIN es : IsReturnOf(es, k, r) /\ o = OpFrom(es[k], es[r])
<1>1. ASSUME o \in Ops(EventSet(es))
      PROVE  \E k, r \in DOMAIN es : IsReturnOf(es, k, r) /\ o = OpFrom(es[k], es[r])
  <2>. PICK c, x : Matches(EventSet(es), c, x) /\ o = OpFrom(c, x)
    BY <1>1, OpsIs
  <2>. QED
    BY ReturnsMatch
<1>2. ASSUME NEW k \in DOMAIN es, NEW r \in DOMAIN es, IsReturnOf(es, k, r), o = OpFrom(es[k], es[r])
      PROVE  o \in Ops(EventSet(es))
  <2>. PICK c, x : c = es[k] /\ x = es[r]
    OBVIOUS
  <2>1. Matches(EventSet(es), c, x)
    BY <1>2, ReturnsMatch
  <2>2. c \in EventSet(es) /\ x \in EventSet(es)
    BY DEF EventSet
  <2>. QED
    BY <1>2, <2>1, <2>2, OpsIs
<1>. QED
  BY <1>1, <1>2

\* Events in the order of their times, with no call left open, that can be
\* ordered if and only if the operations can.
GivenOK(es, ops) ==
  /\ \E S : es \in Seq(S)
  /\ \A j, k \in DOMAIN es : j < k => es[j].ts < es[k].ts
  /\ EventsOK(EventSet(es)) /\ Paired(EventSet(es))
  /\ Orders(Ops(EventSet(es)), << >>) <=> Orders(ops, << >>)

LEMMA CompleteIsPaired ==
  ASSUME NEW es, Complete(es)
  PROVE  Paired(EventSet(es))
<1>1. ASSUME NEW c \in EventSet(es), c.type # "return"
      PROVE  \E r \in EventSet(es) : Matches(EventSet(es), c, r)
  <2>. PICK k \in DOMAIN es : c = es[k]
    BY DEF EventSet
  <2>. PICK r \in DOMAIN es : IsReturnOf(es, k, r)
    BY <1>1 DEF Complete
  <2>1. Matches(EventSet(es), c, es[r]) /\ es[r] \in EventSet(es)
    BY ReturnsMatch DEF EventSet
  <2>. QED
    BY <2>1
<1>2. ASSUME NEW r \in EventSet(es), r.type = "return"
      PROVE  \E c \in EventSet(es) : Matches(EventSet(es), c, r)
  <2>. PICK i \in DOMAIN es : r = es[i]
    BY DEF EventSet
  <2>. PICK k \in DOMAIN es : IsReturnOf(es, k, i)
    BY <1>2 DEF Complete
  <2>1. Matches(EventSet(es), es[k], r) /\ es[k] \in EventSet(es)
    BY ReturnsMatch DEF EventSet
  <2>. QED
    BY <2>1
<1>. QED
  BY <1>1, <1>2 DEF Paired

\* The times of a log of a kind fit below End.
TimesFit(kd) ==
  /\ kd.adds \in Nat /\ kd.removals \in Nat
  /\ 2 * (kd.adds + kd.removals) < POSINF - 2

LEMMA FiniteEvents ==
  ASSUME NEW es, Complete(es)
  PROVE  IsFiniteSet(EventSet(es)) /\ IsFiniteSet(DOMAIN es)
<1>1. IsFiniteSet(DOMAIN es)
  BY FS_Interval DEF Complete
<1>. PICK S : S = DOMAIN es
  OBVIOUS
<1>2. IsFiniteSet({es[x] : x \in S})
  BY <1>1, FiniteImage
<1>. QED
  BY <1>1, <1>2 DEF EventSet

----------------------------------------------------------------------------
(* The passes of simplify() and preprocess(), event by event. *)

\* One event of a pass: pass is "simplify", "mark" or "drop", and skip the
\* values that the last one drops.
TurnOf(w, s, e) ==
  IF w.pass = "simplify" THEN SimplifyEvent(s, e)
  ELSE IF w.pass = "mark" THEN MarkOverlap(s, e) ELSE DropMarked(w.skip, s, e)

\* The equation of a fold over the positions T of l.
PassEquation(F, w, base, l, n) ==
  F = [T \in SUBSET (1 .. n) |->
         IF T = {} THEN base ELSE TurnOf(w, F[T \ {Max(T)}], l[Max(T)])]

\* Its states.
PassStates(f, w, base, l, n, end) ==
  f[0] = base /\ f[n] = end /\ \A k \in 1 .. n : f[k] = TurnOf(w, f[k - 1], l[k])

LEMMA PassExists ==
  ASSUME NEW w, NEW base, NEW l, NEW n \in Nat
  PROVE  \E F : PassEquation(F, w, base, l, n)
<1>. DEFINE X == {k \in Nat : \E F : PassEquation(F, w, base, l, k)}
<1>1. 0 \in X
  <2>. DEFINE F == [T \in SUBSET (1 .. 0) |-> base]
  <2>1. \A T \in SUBSET (1 .. 0) : T = {}
    OBVIOUS
  <2>2. F = [T \in SUBSET (1 .. 0) |->
               IF T = {} THEN base ELSE TurnOf(w, F[T \ {Max(T)}], l[Max(T)])]
    BY <2>1
  <2>. HIDE DEF F
  <2>3. PassEquation(F, w, base, l, 0)
    BY <2>2 DEF PassEquation
  <2>. QED
    BY <2>3
<1>2. ASSUME NEW k \in Nat, k \in X
      PROVE  k + 1 \in X
  <2>. PICK F : PassEquation(F, w, base, l, k)
    BY <1>2
  <2>. DEFINE S == SUBSET (1 .. k)
              R == SUBSET (1 .. k + 1)
              G == [T \in R |-> IF k + 1 \in T THEN TurnOf(w, F[T \ {k + 1}], l[k + 1]) ELSE F[T]]
  <2>0. \A T \in S : F[T] = IF T = {} THEN base ELSE TurnOf(w, F[T \ {Max(T)}], l[Max(T)])
    BY DEF PassEquation
  <2>1. \A T \in S : T \in R /\ k + 1 \notin T
    OBVIOUS
  <2>2. \A T \in R : /\ k + 1 \notin T => T \in S
                     /\ T \ {k + 1} \in S
    OBVIOUS
  <2>3. ASSUME NEW T \in R, k + 1 \in T
        PROVE  Max(T) = k + 1
    <3>0. k + 1 \in Nat /\ T \in SUBSET (1 .. k + 1) /\ T # {}
      BY <2>3
    <3>1. Max(T) \in T /\ \A y \in T : Max(T) >= y
      BY <3>0, HasMax
    <3>2. Max(T) \in 1 .. k + 1 /\ Max(T) >= k + 1
      BY <2>3, <3>1
    <3>. QED
      BY <3>2
  <2>4. \A T \in S : G[T] = F[T]
    BY <2>1
  <2>5. ASSUME NEW T \in R
        PROVE  G[T] = IF T = {} THEN base ELSE TurnOf(w, G[T \ {Max(T)}], l[Max(T)])
    <3>1. CASE k + 1 \in T
      <4>1. G[T] = TurnOf(w, F[T \ {k + 1}], l[k + 1])
        BY <3>1
      <4>2. G[T \ {k + 1}] = F[T \ {k + 1}]
        BY <2>2, <2>4
      <4>. HIDE DEF G
      <4>. QED
        BY <2>3, <3>1, <4>1, <4>2
    <3>2. CASE k + 1 \notin T
      <4>1. T \in S /\ T \ {Max(T)} \in S
        BY <2>2, <3>2
      <4>2. G[T] = F[T] /\ G[T \ {Max(T)}] = F[T \ {Max(T)}]
        BY <2>4, <4>1
      <4>. HIDE DEF G, S
      <4>. QED
        BY <2>0, <4>1, <4>2
    <3>. QED
      BY <3>1, <3>2
  <2>6. G = [T \in R |-> G[T]]
    OBVIOUS
  <2>. HIDE DEF G
  <2>7. PassEquation(G, w, base, l, k + 1)
    BY <2>5, <2>6 DEF PassEquation
  <2>. QED
    BY <2>7
<1>. HIDE DEF X
<1>3. \A k \in Nat : k \in X
  BY <1>1, <1>2, NatSetInduction
<1>. QED
  BY <1>3 DEF X

LEMMA PassGoesOn ==
  ASSUME NEW w, NEW base, NEW l, NEW n \in Nat, NEW G, PassEquation(G, w, base, l, n)
  PROVE  \E f : PassStates(f, w, base, l, n, G[1 .. n])
<1>. DEFINE f == [k \in 0 .. n |-> G[1 .. k]]
<1>0. \A T \in SUBSET (1 .. n) :
        G[T] = IF T = {} THEN base ELSE TurnOf(w, G[T \ {Max(T)}], l[Max(T)])
  BY DEF PassEquation
<1>1. f[0] = base
  <2>1. 1 .. 0 = {} /\ {} \in SUBSET (1 .. n) /\ 0 \in 0 .. n
    OBVIOUS
  <2>. QED
    BY <1>0, <2>1
<1>2. ASSUME NEW k \in 1 .. n
      PROVE  f[k] = TurnOf(w, f[k - 1], l[k])
  <2>1. /\ 1 .. k \in SUBSET (1 .. n) /\ 1 .. k # {} /\ Max(1 .. k) = k
        /\ (1 .. k) \ {k} = 1 .. k - 1
    BY Beginnings
  <2>2. k \in 0 .. n /\ k - 1 \in 0 .. n
    OBVIOUS
  <2>3. G[1 .. k] = TurnOf(w, G[1 .. k - 1], l[k])
    BY <1>0, <2>1
  <2>. QED
    BY <2>2, <2>3
<1>3. f[n] = G[1 .. n]
  OBVIOUS
<1>4. PassStates(f, w, base, l, n, G[1 .. n])
  BY <1>1, <1>2, <1>3 DEF PassStates
<1>. QED
  BY <1>4

\* The fold of simplify.
SimplifyEquation(F, l) ==
  F = [T \in SUBSET DOMAIN l |->
         IF T = {} THEN SimplifyInit ELSE SimplifyEvent(F[T \ {Max(T)}], l[Max(T)])]

LEMMA SimplifyIsChosen ==
  ASSUME NEW l
  PROVE  FoldLeft(SimplifyEvent, SimplifyInit, l) = (CHOOSE F : SimplifyEquation(F, l))[DOMAIN l]
BY Zenon DEF FoldLeft, MapThenFoldSet, SimplifyEquation

\* The folds of preprocess.
MarkInit == [running |-> EmptyMap, skip |-> {}]

MarkEquation(F, l) ==
  F = [T \in SUBSET DOMAIN l |->
         IF T = {} THEN MarkInit ELSE MarkOverlap(F[T \ {Max(T)}], l[Max(T)])]

LEMMA MarkIsChosen ==
  ASSUME NEW l
  PROVE  OverlappingValues(l) = (CHOOSE F : MarkEquation(F, l))[DOMAIN l].skip
BY Zenon DEF OverlappingValues, FoldLeft, MapThenFoldSet, MarkEquation, MarkInit

DropInit == [out |-> << >>, skipping |-> {}]

DropEquation(F, skip, l) ==
  F = [T \in SUBSET DOMAIN l |->
         IF T = {} THEN DropInit ELSE DropMarked(skip, F[T \ {Max(T)}], l[Max(T)])]

LEMMA DropIsChosen ==
  ASSUME NEW l, NEW skip, skip = OverlappingValues(l)
  PROVE  Preprocess(l) = (CHOOSE F : DropEquation(F, skip, l))[DOMAIN l].out
BY Zenon DEF Preprocess, FoldLeft, MapThenFoldSet, DropEquation, DropInit

LEMMA SimplifyBySteps ==
  ASSUME NEW l, NEW n \in Nat, DOMAIN l = 1 .. n
  PROVE  \E f : PassStates(f, [pass |-> "simplify", skip |-> {}], SimplifyInit, l, n, f[n]) /\ FoldLeft(SimplifyEvent, SimplifyInit, l) = f[n]
<1>. PICK w : w = [pass |-> "simplify", skip |-> {}]
  OBVIOUS
<1>0. \A s, e : TurnOf(w, s, e) = SimplifyEvent(s, e)
  BY DEF TurnOf
<1>. PICK H : PassEquation(H, w, SimplifyInit, l, n)
  BY PassExists
<1>1. H = [T \in SUBSET DOMAIN l |->
             IF T = {} THEN SimplifyInit ELSE SimplifyEvent(H[T \ {Max(T)}], l[Max(T)])]
  BY <1>0 DEF PassEquation
<1>2. \E F : SimplifyEquation(F, l)
  BY <1>1, Zenon DEF SimplifyEquation
<1>. DEFINE G == CHOOSE F : SimplifyEquation(F, l)
<1>3. G = [T \in SUBSET DOMAIN l |->
             IF T = {} THEN SimplifyInit ELSE SimplifyEvent(G[T \ {Max(T)}], l[Max(T)])]
  BY <1>2, Zenon DEF SimplifyEquation
<1>4. FoldLeft(SimplifyEvent, SimplifyInit, l) = G[1 .. n]
  BY SimplifyIsChosen
<1>. HIDE DEF G
<1>5. PassEquation(G, w, SimplifyInit, l, n)
  <2>1. \A T \in SUBSET (1 .. n) :
          G[T] = IF T = {} THEN SimplifyInit ELSE TurnOf(w, G[T \ {Max(T)}], l[Max(T)])
    BY <1>0, <1>3
  <2>2. G = [T \in SUBSET (1 .. n) |-> G[T]]
    BY <1>3
  <2>. QED
    BY <2>1, <2>2 DEF PassEquation
<1>. PICK f : PassStates(f, w, SimplifyInit, l, n, G[1 .. n])
  BY <1>5, PassGoesOn
<1>6. f[n] = G[1 .. n]
  BY DEF PassStates
<1>. QED
  BY <1>4, <1>6

LEMMA MarkBySteps ==
  ASSUME NEW l, NEW n \in Nat, DOMAIN l = 1 .. n
  PROVE  \E f : PassStates(f, [pass |-> "mark", skip |-> {}], MarkInit, l, n, f[n]) /\ OverlappingValues(l) = f[n].skip
<1>. PICK w : w = [pass |-> "mark", skip |-> {}]
  OBVIOUS
<1>0. \A s, e : TurnOf(w, s, e) = MarkOverlap(s, e)
  BY DEF TurnOf
<1>. PICK H : PassEquation(H, w, MarkInit, l, n)
  BY PassExists
<1>1. H = [T \in SUBSET DOMAIN l |->
             IF T = {} THEN MarkInit ELSE MarkOverlap(H[T \ {Max(T)}], l[Max(T)])]
  BY <1>0 DEF PassEquation
<1>2. \E F : MarkEquation(F, l)
  BY <1>1, Zenon DEF MarkEquation
<1>. DEFINE G == CHOOSE F : MarkEquation(F, l)
<1>3. G = [T \in SUBSET DOMAIN l |->
             IF T = {} THEN MarkInit ELSE MarkOverlap(G[T \ {Max(T)}], l[Max(T)])]
  BY <1>2, Zenon DEF MarkEquation
<1>4. OverlappingValues(l) = G[1 .. n].skip
  BY MarkIsChosen
<1>. HIDE DEF G
<1>5. PassEquation(G, w, MarkInit, l, n)
  <2>1. \A T \in SUBSET (1 .. n) :
          G[T] = IF T = {} THEN MarkInit ELSE TurnOf(w, G[T \ {Max(T)}], l[Max(T)])
    BY <1>0, <1>3
  <2>2. G = [T \in SUBSET (1 .. n) |-> G[T]]
    BY <1>3
  <2>. QED
    BY <2>1, <2>2 DEF PassEquation
<1>. PICK f : PassStates(f, w, MarkInit, l, n, G[1 .. n])
  BY <1>5, PassGoesOn
<1>6. f[n] = G[1 .. n]
  BY DEF PassStates
<1>. QED
  BY <1>4, <1>6

LEMMA DropBySteps ==
  ASSUME NEW l, NEW n \in Nat, DOMAIN l = 1 .. n,
         NEW skip, skip = OverlappingValues(l)
  PROVE  \E f : PassStates(f, [pass |-> "drop", skip |-> skip], DropInit, l, n, f[n]) /\ Preprocess(l) = f[n].out
<1>. PICK w : w = [pass |-> "drop", skip |-> skip]
  OBVIOUS
<1>0. \A s, e : TurnOf(w, s, e) = DropMarked(skip, s, e)
  BY DEF TurnOf
<1>. PICK H : PassEquation(H, w, DropInit, l, n)
  BY PassExists
<1>1. H = [T \in SUBSET DOMAIN l |->
             IF T = {} THEN DropInit ELSE DropMarked(skip, H[T \ {Max(T)}], l[Max(T)])]
  BY <1>0 DEF PassEquation
<1>2. \E F : DropEquation(F, skip, l)
  BY <1>1, Zenon DEF DropEquation
<1>. DEFINE G == CHOOSE F : DropEquation(F, skip, l)
<1>3. G = [T \in SUBSET DOMAIN l |->
             IF T = {} THEN DropInit ELSE DropMarked(skip, G[T \ {Max(T)}], l[Max(T)])]
  BY <1>2, Zenon DEF DropEquation
<1>4. Preprocess(l) = G[1 .. n].out
  BY DropIsChosen
<1>. HIDE DEF G
<1>5. PassEquation(G, w, DropInit, l, n)
  <2>1. \A T \in SUBSET (1 .. n) :
          G[T] = IF T = {} THEN DropInit ELSE TurnOf(w, G[T \ {Max(T)}], l[Max(T)])
    <3>. TAKE T \in SUBSET (1 .. n)
    <3>1. G[T] = IF T = {} THEN DropInit ELSE DropMarked(skip, G[T \ {Max(T)}], l[Max(T)])
      BY <1>3
    <3>. QED
      BY <1>0, <3>1
  <2>2. G = [T \in SUBSET (1 .. n) |-> G[T]]
    BY <1>3
  <2>. QED
    BY <2>1, <2>2 DEF PassEquation
<1>. PICK f : PassStates(f, w, DropInit, l, n, G[1 .. n])
  BY <1>5, PassGoesOn
<1>6. f[n] = G[1 .. n]
  BY DEF PassStates
<1>. QED
  BY <1>4, <1>6

----------------------------------------------------------------------------
(* preprocess(). *)

\* After n events the call at k has not returned.
IsRunning(l, n, k) ==
  /\ k \in 1 .. n /\ l[k].type # "return"
  /\ \A m \in 1 .. n : k < m => l[m].thread # l[k].thread

\* No two calls of a type carry the same value, and no return carries one.
OneOfEach(es) ==
  /\ \A j, k \in DOMAIN es : es[j].type = es[k].type /\ es[j].val = es[k].val
                             /\ es[j].val # NoVal => j = k
  /\ \A k \in DOMAIN es : es[k].type = "return" => es[k].val = NoVal

\* A removal with a value returns after an insertion of it is called.
PushesFirst(o) ==
  \A k, r : IsReturnOf(o, k, r) /\ o[k].type = "pop" /\ o[k].val # NoVal =>
    \E j \in DOMAIN o : o[j].type = "push" /\ o[j].val = o[k].val /\ j < r

\* Here threads are used again after a return.
LEMMA CompleteCall ==
  ASSUME NEW o, Complete(o), NEW n \in Nat, n + 1 \in DOMAIN o, o[n + 1].type # "return"
  PROVE  /\ \A j : IsRunning(o, n, j) => o[j].thread # o[n + 1].thread
         /\ \A j : IsRunning(o, n + 1, j) <=> j = n + 1 \/ IsRunning(o, n, j)
<1>0. /\ \A m \in 1 .. n : m \in DOMAIN o /\ m \in Nat /\ m < n + 1 /\ m \in 1 .. n + 1 /\ m # n + 1
      /\ \A m \in 1 .. n + 1 : m \in 1 .. n \/ m = n + 1
      /\ \A m \in DOMAIN o : m \in 1 .. n \/ m = n + 1 \/ n + 1 < m
      /\ ~(n + 1 < n + 1) /\ n + 1 \in 1 .. n + 1
  BY DEF Complete
<1>1. ASSUME NEW j, IsRunning(o, n, j)
      PROVE  o[j].thread # o[n + 1].thread
  <2>. SUFFICES ASSUME o[j].thread = o[n + 1].thread
                PROVE  FALSE
    OBVIOUS
  <2>1. j \in 1 .. n /\ j \in DOMAIN o /\ o[j].type # "return"
    BY <1>0, <1>1 DEF IsRunning
  <2>. PICK r \in DOMAIN o : IsReturnOf(o, j, r)
    BY <2>1 DEF Complete
  <2>2. CASE r \in 1 .. n
    BY <1>1, <2>2 DEF IsRunning, IsReturnOf
  <2>3. CASE r = n + 1
    BY <2>3 DEF IsReturnOf
  <2>4. CASE n + 1 < r
    BY <1>0, <2>1, <2>4 DEF IsReturnOf
  <2>. QED
    BY <1>0, <2>2, <2>3, <2>4
<1>2. IsRunning(o, n + 1, n + 1)
  <2>1. \A m \in 1 .. n + 1 : ~(n + 1 < m)
    OBVIOUS
  <2>. QED
    BY <1>0, <2>1 DEF IsRunning
<1>3. ASSUME NEW j, IsRunning(o, n, j)
      PROVE  IsRunning(o, n + 1, j)
  BY <1>0, <1>1, <1>3 DEF IsRunning
<1>4. ASSUME NEW j, IsRunning(o, n + 1, j), j # n + 1
      PROVE  IsRunning(o, n, j)
  BY <1>0, <1>4 DEF IsRunning
<1>. QED
  BY <1>1, <1>2, <1>3, <1>4

Ends(o, n, c) ==
  /\ c \in 1 .. n /\ IsReturnOf(o, c, n + 1) /\ IsRunning(o, n, c)
  /\ \A j : IsRunning(o, n, j) /\ o[j].thread = o[n + 1].thread => j = c
  /\ \A j : IsRunning(o, n + 1, j) <=> IsRunning(o, n, j) /\ j # c

LEMMA CompleteReturn ==
  ASSUME NEW o, Complete(o), NEW n \in Nat, n + 1 \in DOMAIN o, o[n + 1].type = "return"
  PROVE  \E c : Ends(o, n, c)
<1>0. /\ \A m \in 1 .. n : m \in DOMAIN o /\ m \in Nat /\ m < n + 1 /\ m \in 1 .. n + 1 /\ m # n + 1
      /\ \A m \in 1 .. n + 1 : m \in 1 .. n \/ m = n + 1
      /\ \A m \in DOMAIN o : m < n + 1 => m \in 1 .. n
  BY DEF Complete
<1>. PICK c : IsReturnOf(o, c, n + 1)
  BY DEF Complete
<1>1. c \in 1 .. n /\ o[c].type # "return" /\ o[c].thread = o[n + 1].thread
  BY <1>0 DEF IsReturnOf
<1>2. IsRunning(o, n, c)
  BY <1>0, <1>1 DEF IsReturnOf, IsRunning
<1>3. ASSUME NEW j, IsRunning(o, n, j), o[j].thread = o[n + 1].thread
      PROVE  j = c
  <2>1. j \in 1 .. n /\ o[j].type # "return" /\ \A m \in 1 .. n : j < m => o[m].thread # o[j].thread
    BY <1>3 DEF IsRunning
  <2>2. IsReturnOf(o, j, n + 1)
    BY <1>0, <1>3, <2>1 DEF IsReturnOf
  <2>. QED
    BY <2>2, OneReturn
<1>4. ASSUME NEW j, IsRunning(o, n + 1, j)
      PROVE  IsRunning(o, n, j) /\ j # c
  <2>1. j # n + 1
    BY <1>4 DEF IsRunning
  <2>2. IsRunning(o, n, j)
    BY <1>0, <1>4, <2>1 DEF IsRunning
  <2>3. j # c
    BY <1>0, <1>1, <1>4 DEF IsRunning
  <2>. QED
    BY <2>2, <2>3
<1>5. ASSUME NEW j, IsRunning(o, n, j), j # c
      PROVE  IsRunning(o, n + 1, j)
  <2>1. o[j].thread # o[n + 1].thread
    BY <1>3, <1>5
  <2>. QED
    BY <1>0, <1>5, <2>1 DEF IsRunning
<1>. QED
  BY <1>1, <1>2, <1>3, <1>4, <1>5 DEF Ends

\* The call at m comes while the call at j is running, with its value.
IsOverlap(o, j, m) ==
  /\ j \in DOMAIN o /\ m \in DOMAIN o /\ j < m /\ o[j].type # "return" /\ o[m].type # "return"
  /\ o[j].val = o[m].val /\ o[j].val # NoVal
  /\ \A i \in DOMAIN o : j < i /\ i < m => o[i].thread # o[j].thread

MarkOK(o, n, s) ==
  /\ s = [running |-> s.running, skip |-> s.skip]
  /\ \A t \in DOMAIN s.running : s.running[t] # NoVal =>
       \E j : IsRunning(o, n, j) /\ o[j].thread = t /\ o[j].val = s.running[t]
  /\ \A j : IsRunning(o, n, j) => o[j].thread \in DOMAIN s.running /\ s.running[o[j].thread] = o[j].val
  /\ \A v \in s.skip : \E j, m : IsOverlap(o, j, m) /\ o[j].val = v
  /\ \A j, m : IsOverlap(o, j, m) /\ m <= n => o[j].val \in s.skip

LEMMA MarkGoesOn ==
  ASSUME NEW o, Complete(o), NEW n \in Nat, n + 1 \in DOMAIN o,
         NEW s, MarkOK(o, n, s), NEW q, q = MarkOverlap(s, o[n + 1])
  PROVE  MarkOK(o, n + 1, q)
<1>. PICK e : e = o[n + 1]
  OBVIOUS
<1>0. /\ s = [running |-> s.running, skip |-> s.skip]
      /\ \A t \in DOMAIN s.running : s.running[t] # NoVal =>
           \E j : IsRunning(o, n, j) /\ o[j].thread = t /\ o[j].val = s.running[t]
      /\ \A j : IsRunning(o, n, j) => o[j].thread \in DOMAIN s.running /\ s.running[o[j].thread] = o[j].val
      /\ \A v \in s.skip : \E j, m : IsOverlap(o, j, m) /\ o[j].val = v
      /\ \A j, m : IsOverlap(o, j, m) /\ m <= n => o[j].val \in s.skip
  BY DEF MarkOK
<1>3. \A m \in DOMAIN o : m <= n + 1 => m <= n \/ m = n + 1
  BY DEF Complete
<1>1. CASE e.type = "return"
  <2>. PICK c : Ends(o, n, c)
    BY <1>1, CompleteReturn
  <2>. PICK r : r = With(s.running, e.thread, NoVal)
    OBVIOUS
  <2>1. q = [running |-> r, skip |-> s.skip]
    BY <1>0, <1>1 DEF MarkOverlap
  <2>2. q.running = r /\ q.skip = s.skip
    BY ONLY <2>1
  <2>3. ASSUME NEW t \in DOMAIN r, r[t] # NoVal
        PROVE  \E j : IsRunning(o, n + 1, j) /\ o[j].thread = t /\ o[j].val = r[t]
    <3>1. t # e.thread /\ t \in DOMAIN s.running /\ r[t] = s.running[t]
      BY <2>3 DEF With
    <3>. PICK j : IsRunning(o, n, j) /\ o[j].thread = t /\ o[j].val = s.running[t]
      BY <1>0, <2>3, <3>1
    <3>2. j # c
      BY <3>1 DEF Ends, IsReturnOf
    <3>3. IsRunning(o, n + 1, j)
      BY <3>2 DEF Ends
    <3>. QED
      BY <3>1, <3>3
  <2>4. ASSUME NEW j, IsRunning(o, n + 1, j)
        PROVE  o[j].thread \in DOMAIN r /\ r[o[j].thread] = o[j].val
    <3>1. IsRunning(o, n, j) /\ j # c
      BY <2>4 DEF Ends
    <3>2. o[j].thread # e.thread
      BY <3>1 DEF Ends
    <3>3. o[j].thread \in DOMAIN s.running /\ s.running[o[j].thread] = o[j].val
      BY <1>0, <3>1
    <3>. QED
      BY <3>2, <3>3 DEF With
  <2>5. ASSUME NEW j, NEW m, IsOverlap(o, j, m), m <= n + 1
        PROVE  o[j].val \in s.skip
    <3>1. m \in DOMAIN o /\ o[m].type # "return"
      BY <2>5 DEF IsOverlap
    <3>2. m <= n
      BY <1>1, <1>3, <2>5, <3>1
    <3>. QED
      BY <1>0, <2>5, <3>2
  <2>. QED
    BY <1>0, <2>1, <2>2, <2>3, <2>4, <2>5 DEF MarkOK
<1>2. CASE e.type # "return"
  <2>0. /\ \A j : IsRunning(o, n, j) => o[j].thread # o[n + 1].thread
        /\ \A j : IsRunning(o, n + 1, j) <=> j = n + 1 \/ IsRunning(o, n, j)
    BY <1>2, CompleteCall
  <2>. PICK r : r = With(s.running, e.thread, e.val)
    OBVIOUS
  <2>. PICK k : k = s.skip \cup {v \in {s.running[t] : t \in DOMAIN s.running} : v # NoVal /\ v = e.val}
    OBVIOUS
  <2>1. q = [running |-> r, skip |-> k]
    BY <1>2 DEF MarkOverlap
  <2>2. q.running = r /\ q.skip = k
    BY ONLY <2>1
  <2>3. ASSUME NEW t \in DOMAIN r, r[t] # NoVal
        PROVE  \E j : IsRunning(o, n + 1, j) /\ o[j].thread = t /\ o[j].val = r[t]
    <3>1. CASE t = e.thread
      <4>1. r[t] = o[n + 1].val /\ o[n + 1].thread = t
        BY <3>1 DEF With
      <4>. QED
        BY <2>0, <4>1
    <3>2. CASE t # e.thread
      <4>1. t \in DOMAIN s.running /\ r[t] = s.running[t]
        BY <2>3, <3>2 DEF With
      <4>. QED
        BY <1>0, <2>0, <2>3, <4>1
    <3>. QED
      BY <3>1, <3>2
  <2>4. ASSUME NEW v \in k
        PROVE  \E j, m : IsOverlap(o, j, m) /\ o[j].val = v
    <3>1. CASE v \in s.skip
      BY <1>0, <3>1
    <3>2. CASE v \notin s.skip
      <4>. PICK t \in DOMAIN s.running : v = s.running[t] /\ v # NoVal /\ v = e.val
        BY <3>2
      <4>. PICK j : IsRunning(o, n, j) /\ o[j].thread = t /\ o[j].val = s.running[t]
        BY <1>0
      <4>1. /\ j \in 1 .. n /\ o[j].type # "return"
            /\ \A i \in 1 .. n : j < i => o[i].thread # o[j].thread
        BY DEF IsRunning
      <4>2. j \in DOMAIN o /\ j < n + 1 /\ \A i \in DOMAIN o : i < n + 1 => i \in 1 .. n
        BY <4>1 DEF Complete
      <4>3. IsOverlap(o, j, n + 1)
        BY <1>2, <4>1, <4>2 DEF IsOverlap
      <4>. QED
        BY <4>3
    <3>. QED
      BY <3>1, <3>2
  <2>5. ASSUME NEW j, IsRunning(o, n + 1, j)
        PROVE  o[j].thread \in DOMAIN r /\ r[o[j].thread] = o[j].val
    <3>1. CASE j = n + 1
      BY <3>1 DEF With
    <3>2. CASE j # n + 1
      <4>1. IsRunning(o, n, j) /\ o[j].thread # e.thread
        BY <2>0, <2>5, <3>2
      <4>2. o[j].thread \in DOMAIN s.running /\ s.running[o[j].thread] = o[j].val
        BY <1>0, <4>1
      <4>. QED
        BY <4>1, <4>2 DEF With
    <3>. QED
      BY <3>1, <3>2
  <2>6. ASSUME NEW j, NEW m, IsOverlap(o, j, m), m <= n + 1
        PROVE  o[j].val \in k
    <3>0. /\ j \in DOMAIN o /\ m \in DOMAIN o /\ j < m /\ o[j].type # "return"
          /\ o[j].val = o[m].val /\ o[j].val # NoVal
          /\ \A i \in DOMAIN o : j < i /\ i < m => o[i].thread # o[j].thread
      BY <2>6 DEF IsOverlap
    <3>1. CASE m <= n
      BY <1>0, <2>6, <3>1
    <3>2. CASE m = n + 1
      <4>1. j \in 1 .. n /\ \A i \in 1 .. n : i \in DOMAIN o /\ i < n + 1
        BY <3>0, <3>2 DEF Complete
      <4>2. IsRunning(o, n, j)
        BY <3>0, <3>2, <4>1 DEF IsRunning
      <4>3. o[j].thread \in DOMAIN s.running /\ s.running[o[j].thread] = o[j].val
        BY <1>0, <4>2
      <4>4. o[j].val = e.val
        BY <3>0, <3>2
      <4>. QED
        BY <3>0, <4>3, <4>4
    <3>. QED
      BY <1>3, <2>6, <3>0, <3>1, <3>2
  <2>. QED
    BY <1>0, <2>1, <2>2, <2>3, <2>4, <2>5, <2>6 DEF MarkOK
<1>. QED
  BY <1>1, <1>2

LEMMA MarkStarts ==
  ASSUME NEW o, Complete(o)
  PROVE  MarkOK(o, 0, MarkInit)
<1>. PICK s : s = MarkInit
  OBVIOUS
<1>1. s.running = EmptyMap /\ s.skip = {} /\ s = [running |-> s.running, skip |-> s.skip]
  BY DEF MarkInit
<1>2. DOMAIN s.running = {}
  BY <1>1 DEF EmptyMap
<1>3. \A j : ~IsRunning(o, 0, j)
  BY DEF IsRunning
<1>4. \A j, m : IsOverlap(o, j, m) => ~(m <= 0)
  BY DEF IsOverlap, Complete
<1>. QED
  BY <1>1, <1>2, <1>3, <1>4 DEF MarkOK

\* The values that preprocess() drops are those of overlapping operations.
LEMMA Marked ==
  ASSUME NEW o, Complete(o)
  PROVE  /\ \A v \in OverlappingValues(o) : \E j, m : IsOverlap(o, j, m) /\ o[j].val = v
         /\ \A j, m : IsOverlap(o, j, m) => o[j].val \in OverlappingValues(o)
<1>. PICK n \in Nat : n = Len(o) /\ DOMAIN o = 1 .. n
  BY DEF Complete
<1>. PICK w : w = [pass |-> "mark", skip |-> {}]
  OBVIOUS
<1>. PICK f : PassStates(f, w, MarkInit, o, n, f[n]) /\ OverlappingValues(o) = f[n].skip
  BY MarkBySteps
<1>1. f[0] = MarkInit /\ \A k \in 1 .. n : f[k] = MarkOverlap(f[k - 1], o[k])
  BY DEF PassStates, TurnOf
<1>. DEFINE X == {k \in Nat : k <= n => MarkOK(o, k, f[k])}
<1>2. 0 \in X
  BY <1>1, MarkStarts
<1>3. ASSUME NEW k \in Nat, k \in X
      PROVE  k + 1 \in X
  <2>. SUFFICES ASSUME k + 1 <= n
                PROVE  MarkOK(o, k + 1, f[k + 1])
    OBVIOUS
  <2>1. k + 1 \in 1 .. n /\ (k + 1) - 1 = k /\ k <= n
    OBVIOUS
  <2>2. f[k + 1] = MarkOverlap(f[k], o[k + 1])
    BY <1>1, <2>1
  <2>. QED
    BY <1>3, <2>1, <2>2, MarkGoesOn
<1>. HIDE DEF X
<1>4. \A k \in Nat : k \in X
  BY <1>2, <1>3, NatSetInduction
<1>5. n \in X
  BY <1>4
<1>6. MarkOK(o, n, f[n])
  BY <1>5 DEF X
<1>7. \A j, m : IsOverlap(o, j, m) => m <= n
  BY DEF IsOverlap
<1>. QED
  BY <1>6, <1>7 DEF MarkOK

\* The values marked are those of pairs that overlap.
LEMMA MarkedArePairs ==
  ASSUME NEW o, Complete(o), OneOfEach(o), NEW v \in OverlappingValues(o)
  PROVE  v # NoVal /\ v \in {o[k].val : k \in DOMAIN o} /\ IsPairIn(Ops(EventSet(o)), v)
<1>. PICK j, m : IsOverlap(o, j, m) /\ o[j].val = v
  BY Marked
<1>0. /\ j \in DOMAIN o /\ m \in DOMAIN o /\ j < m /\ o[j].type # "return" /\ o[m].type # "return"
      /\ o[j].val = v /\ o[m].val = v /\ v # NoVal
      /\ \A i \in DOMAIN o : j < i /\ i < m => o[i].thread # o[j].thread
  BY DEF IsOverlap
<1>1. \A k \in DOMAIN o : k \in Nat /\ o[k].ts = k /\ o[k].type \in {"push", "pop", "return"}
  BY DEF Complete
<1>. PICK a \in DOMAIN o : IsReturnOf(o, j, a)
  BY <1>0 DEF Complete
<1>. PICK b \in DOMAIN o : IsReturnOf(o, m, b)
  BY <1>0 DEF Complete
<1>2. a > m
  <2>1. j < a /\ o[a].type = "return" /\ o[a].thread = o[j].thread
    BY DEF IsReturnOf
  <2>. QED
    BY <1>0, <1>1, <2>1
<1>3. b > m
  BY DEF IsReturnOf
<1>. PICK x, y : x = OpFrom(o[j], o[a]) /\ y = OpFrom(o[m], o[b])
  OBVIOUS
<1>4. x \in Ops(EventSet(o)) /\ y \in Ops(EventSet(o))
  BY <1>0, CompleteOps
<1>5. /\ x.type = o[j].type /\ x.val = v /\ x.call = j /\ x.ret = a
      /\ y.type = o[m].type /\ y.val = v /\ y.call = m /\ y.ret = b
  BY <1>0, <1>1, OpFromIs
<1>6. o[j].type # o[m].type
  BY <1>0, <1>1 DEF OneOfEach
<1>7. {z \in Ops(EventSet(o)) : z.val = v} = {x, y}
  <2>1. ASSUME NEW z \in Ops(EventSet(o)), z.val = v
        PROVE  z = x \/ z = y
    <3>. PICK k \in DOMAIN o, r \in DOMAIN o : IsReturnOf(o, k, r) /\ z = OpFrom(o[k], o[r])
      BY CompleteOps
    <3>1. o[k].type # "return" /\ o[k].val = v
      BY <2>1, OpFromIs DEF IsReturnOf
    <3>2. o[k].type = o[j].type \/ o[k].type = o[m].type
      BY <1>0, <1>1, <1>6, <3>1
    <3>3. k = j \/ k = m
      BY <1>0, <3>1, <3>2 DEF OneOfEach
    <3>. QED
      BY <3>3, OneReturn
  <2>. QED
    BY <1>4, <1>5, <2>1
<1>8. OverlappingPair(x, y) \/ OverlappingPair(y, x)
  <2>1. x.ret >= y.call /\ y.ret >= x.call
    BY <1>0, <1>1, <1>2, <1>3, <1>5
  <2>2. \/ x.type = "push" /\ y.type = "pop"
        \/ x.type = "pop" /\ y.type = "push"
    BY <1>0, <1>1, <1>5, <1>6
  <2>. QED
    BY <1>0, <1>5, <2>1, <2>2 DEF OverlappingPair, Pops
<1>9. {x, y} = {y, x}
  OBVIOUS
<1>. QED
  BY <1>0, <1>4, <1>7, <1>8, <1>9 DEF IsPairIn

\* The events that stay: those of calls with other values.
Kept(o, skip, k) ==
  o[k].val \notin skip /\ \A c : IsReturnOf(o, c, k) => o[c].val \notin skip

DropOK(o, skip, n, s) ==
  /\ s = [out |-> s.out, skipping |-> s.skipping]
  /\ \E S : s.out \in Seq(S)
  /\ \A i \in DOMAIN s.out : \E k \in 1 .. n : s.out[i] = o[k] /\ Kept(o, skip, k)
  /\ \A k \in 1 .. n : Kept(o, skip, k) => \E i \in DOMAIN s.out : s.out[i] = o[k]
  /\ \A i, j \in DOMAIN s.out : i < j => s.out[i].ts < s.out[j].ts
  /\ \A t : t \in s.skipping <=> \E j : IsRunning(o, n, j) /\ o[j].thread = t /\ o[j].val \in skip

\* An event is kept or dropped.
KeepsOrDrops(o, skip, n, s, q) ==
  /\ Kept(o, skip, n + 1) => q.out = Append(s.out, o[n + 1])
  /\ ~Kept(o, skip, n + 1) => q.out = s.out
  /\ q = [out |-> q.out, skipping |-> q.skipping]
  /\ \A t : t \in q.skipping <=> \E j : IsRunning(o, n + 1, j) /\ o[j].thread = t /\ o[j].val \in skip

LEMMA OutGrows ==
  ASSUME NEW o, Complete(o), NEW skip, NEW n \in Nat, n + 1 \in DOMAIN o,
         NEW s, DropOK(o, skip, n, s), NEW q, KeepsOrDrops(o, skip, n, s, q)
  PROVE  DropOK(o, skip, n + 1, q)
<1>0. /\ \A m \in 1 .. n : m \in DOMAIN o /\ m \in 1 .. n + 1 /\ m < n + 1
      /\ \A m \in 1 .. n + 1 : m \in 1 .. n \/ m = n + 1
      /\ n + 1 \in 1 .. n + 1 /\ \A m \in DOMAIN o : o[m].ts = m
  BY DEF Complete
<1>1. CASE ~Kept(o, skip, n + 1)
  <2>1. q.out = s.out
    BY <1>1 DEF KeepsOrDrops
  <2>2. \A i \in DOMAIN s.out : \E k \in 1 .. n + 1 : s.out[i] = o[k] /\ Kept(o, skip, k)
    BY <1>0 DEF DropOK
  <2>3. \A k \in 1 .. n + 1 : Kept(o, skip, k) => \E i \in DOMAIN s.out : s.out[i] = o[k]
    BY <1>0, <1>1 DEF DropOK
  <2>. QED
    BY <2>1, <2>2, <2>3 DEF DropOK, KeepsOrDrops
<1>2. CASE Kept(o, skip, n + 1)
  <2>. PICK S : s.out \in Seq(S)
    BY DEF DropOK
  <2>. PICK x : x = o[n + 1]
    OBVIOUS
  <2>. PICK T : T = S \cup {x}
    OBVIOUS
  <2>. PICK m \in Nat : m = Len(s.out) /\ DOMAIN s.out = 1 .. m
    OBVIOUS
  <2>1. s.out \in Seq(T) /\ x \in T
    OBVIOUS
  <2>. PICK w : w = Append(s.out, x)
    OBVIOUS
  <2>2. /\ w \in Seq(T) /\ Len(w) = m + 1 /\ DOMAIN w = 1 .. m + 1 /\ w[m + 1] = x
        /\ \A k \in 1 .. m : w[k] = s.out[k]
    BY <2>1, AppendedLast
  <2>3. q.out = w
    BY <1>2 DEF KeepsOrDrops
  <2>4. /\ \A i \in 1 .. m + 1 : i \in 1 .. m \/ i = m + 1
        /\ \A i \in 1 .. m : i \in 1 .. m + 1
        /\ m + 1 \in 1 .. m + 1
        /\ \A i, j \in 1 .. m + 1 : i < j => i \in 1 .. m
    OBVIOUS
  <2>5. ASSUME NEW i \in DOMAIN w
        PROVE  \E k \in 1 .. n + 1 : w[i] = o[k] /\ Kept(o, skip, k)
    <3>1. CASE i \in 1 .. m
      BY <1>0, <2>2, <3>1 DEF DropOK
    <3>2. CASE i = m + 1
      BY <1>0, <1>2, <2>2, <3>2
    <3>. QED
      BY <2>2, <2>4, <3>1, <3>2
  <2>6. ASSUME NEW k \in 1 .. n + 1, Kept(o, skip, k)
        PROVE  \E i \in DOMAIN w : w[i] = o[k]
    <3>1. CASE k \in 1 .. n
      <4>. PICK i \in 1 .. m : s.out[i] = o[k]
        BY <2>6, <3>1 DEF DropOK
      <4>. QED
        BY <2>2, <2>4
    <3>2. CASE k = n + 1
      BY <2>2, <2>4, <3>2
    <3>. QED
      BY <1>0, <3>1, <3>2
  <2>7. ASSUME NEW i \in DOMAIN w, NEW j \in DOMAIN w, i < j
        PROVE  w[i].ts < w[j].ts
    <3>0. i \in 1 .. m /\ w[i] = s.out[i]
      BY <2>2, <2>4, <2>7
    <3>1. CASE j \in 1 .. m
      <4>1. s.out[i].ts < s.out[j].ts
        BY <2>7, <3>0, <3>1 DEF DropOK
      <4>. QED
        BY <2>2, <3>0, <3>1, <4>1
    <3>2. CASE j = m + 1
      <4>. PICK k \in 1 .. n : s.out[i] = o[k]
        BY <3>0 DEF DropOK
      <4>1. w[j].ts = n + 1 /\ w[i].ts = k
        BY <1>0, <2>2, <3>0, <3>2
      <4>. QED
        BY <1>0, <4>1
    <3>. QED
      BY <2>2, <2>4, <3>1, <3>2
  <2>8. /\ q = [out |-> q.out, skipping |-> q.skipping]
        /\ \A t : t \in q.skipping <=>
                 \E j : IsRunning(o, n + 1, j) /\ o[j].thread = t /\ o[j].val \in skip
    BY DEF KeepsOrDrops
  <2>9. /\ \E U : q.out \in Seq(U)
        /\ \A i \in DOMAIN q.out : \E k \in 1 .. n + 1 : q.out[i] = o[k] /\ Kept(o, skip, k)
        /\ \A k \in 1 .. n + 1 : Kept(o, skip, k) => \E i \in DOMAIN q.out : q.out[i] = o[k]
        /\ \A i, j \in DOMAIN q.out : i < j => q.out[i].ts < q.out[j].ts
    BY <2>2, <2>3, <2>5, <2>6, <2>7
  <2>. QED
    BY ONLY <2>8, <2>9 DEF DropOK
<1>. QED
  BY <1>1, <1>2

LEMMA DropGoesOn ==
  ASSUME NEW o, Complete(o), OneOfEach(o), NEW skip, NoVal \notin skip,
         NEW n \in Nat, n + 1 \in DOMAIN o,
         NEW s, DropOK(o, skip, n, s), NEW q, q = DropMarked(skip, s, o[n + 1])
  PROVE  KeepsOrDrops(o, skip, n, s, q)
<1>. PICK e : e = o[n + 1]
  OBVIOUS
<1>0. /\ s = [out |-> s.out, skipping |-> s.skipping]
      /\ \A t : t \in s.skipping <=> \E j : IsRunning(o, n, j) /\ o[j].thread = t /\ o[j].val \in skip
  BY DEF DropOK
<1>1. CASE e.type # "return"
  <2>1. /\ \A j : IsRunning(o, n, j) => o[j].thread # e.thread
        /\ \A j : IsRunning(o, n + 1, j) <=> j = n + 1 \/ IsRunning(o, n, j)
    BY <1>1, CompleteCall
  <2>2. Kept(o, skip, n + 1) <=> e.val \notin skip
    BY <1>1 DEF Kept, IsReturnOf
  <2>3. e.thread \notin s.skipping
    BY <1>0, <2>1
  <2>4. CASE e.val \in skip
    <3>. PICK k : k = s.skipping \cup {e.thread}
      OBVIOUS
    <3>1. q = [s EXCEPT !.skipping = k]
      BY <2>4 DEF DropMarked
    <3>2. q = [out |-> s.out, skipping |-> k]
      BY ONLY <1>0, <3>1
    <3>3. q.out = s.out /\ q.skipping = k
      BY ONLY <3>2
    <3>4. \A t : t \in k <=> \E j : IsRunning(o, n + 1, j) /\ o[j].thread = t /\ o[j].val \in skip
      BY <1>0, <2>1, <2>4
    <3>. QED
      BY <2>2, <2>4, <3>2, <3>3, <3>4 DEF KeepsOrDrops
  <2>5. CASE e.val \notin skip
    <3>. PICK w : w = Append(s.out, e)
      OBVIOUS
    <3>1. q = [s EXCEPT !.out = w]
      BY <2>3, <2>5 DEF DropMarked
    <3>2. q = [out |-> w, skipping |-> s.skipping]
      BY ONLY <1>0, <3>1
    <3>3. q.out = w /\ q.skipping = s.skipping
      BY ONLY <3>2
    <3>4. \A t : t \in s.skipping <=>
                   \E j : IsRunning(o, n + 1, j) /\ o[j].thread = t /\ o[j].val \in skip
      BY <1>0, <2>1, <2>5
    <3>. QED
      BY <2>2, <2>5, <3>2, <3>3, <3>4 DEF KeepsOrDrops
  <2>. QED
    BY <2>4, <2>5
<1>2. CASE e.type = "return"
  <2>. PICK c : Ends(o, n, c)
    BY <1>2, CompleteReturn
  <2>0. e.val = NoVal
    BY <1>2 DEF OneOfEach
  <2>1. /\ IsReturnOf(o, c, n + 1) /\ IsRunning(o, n, c) /\ o[c].thread = e.thread
        /\ \A j : IsRunning(o, n, j) /\ o[j].thread = e.thread => j = c
        /\ \A j : IsRunning(o, n + 1, j) <=> IsRunning(o, n, j) /\ j # c
    BY DEF Ends, IsReturnOf
  <2>2. Kept(o, skip, n + 1) <=> o[c].val \notin skip
    <3>1. \A j : IsReturnOf(o, j, n + 1) => j = c
      BY <2>1, OneReturn
    <3>. QED
      BY <2>0, <2>1, <3>1 DEF Kept
  <2>3. e.thread \in s.skipping <=> o[c].val \in skip
    BY <1>0, <2>1
  <2>4. CASE o[c].val \in skip
    <3>. PICK k : k = s.skipping \ {e.thread}
      OBVIOUS
    <3>1. q = [s EXCEPT !.skipping = k]
      BY <2>0, <2>3, <2>4 DEF DropMarked
    <3>2. q = [out |-> s.out, skipping |-> k]
      BY ONLY <1>0, <3>1
    <3>3. q.out = s.out /\ q.skipping = k
      BY ONLY <3>2
    <3>4. \A t : t \in k <=> \E j : IsRunning(o, n + 1, j) /\ o[j].thread = t /\ o[j].val \in skip
      BY <1>0, <2>1
    <3>. QED
      BY <2>2, <2>4, <3>2, <3>3, <3>4 DEF KeepsOrDrops
  <2>5. CASE o[c].val \notin skip
    <3>. PICK w : w = Append(s.out, e)
      OBVIOUS
    <3>1. q = [s EXCEPT !.out = w]
      BY <2>0, <2>3, <2>5 DEF DropMarked
    <3>2. q = [out |-> w, skipping |-> s.skipping]
      BY ONLY <1>0, <3>1
    <3>3. q.out = w /\ q.skipping = s.skipping
      BY ONLY <3>2
    <3>4. \A t : t \in s.skipping <=>
                   \E j : IsRunning(o, n + 1, j) /\ o[j].thread = t /\ o[j].val \in skip
      BY <1>0, <2>1, <2>5
    <3>. QED
      BY <2>2, <2>5, <3>2, <3>3, <3>4 DEF KeepsOrDrops
  <2>. QED
    BY <2>4, <2>5
<1>. QED
  BY <1>1, <1>2

LEMMA DropStarts ==
  ASSUME NEW o, NEW skip
  PROVE  DropOK(o, skip, 0, DropInit)
<1>. PICK s : s = DropInit
  OBVIOUS
<1>1. s.out = << >> /\ s.skipping = {} /\ s = [out |-> s.out, skipping |-> s.skipping]
  BY DEF DropInit
<1>2. \A k : k \notin 1 .. 0
  OBVIOUS
<1>3. s.out \in Seq({}) /\ DOMAIN s.out = {}
  BY <1>1
<1>4. \A j : ~IsRunning(o, 0, j)
  BY <1>2 DEF IsRunning
<1>. QED
  BY <1>1, <1>2, <1>3, <1>4 DEF DropOK

IsDropped(o, skip, n, w) == \E s : s.out = w /\ DropOK(o, skip, n, s)

LEMMA Preprocessed ==
  ASSUME NEW o, Complete(o), OneOfEach(o), NEW n \in Nat, DOMAIN o = 1 .. n,
         NEW skip, skip = OverlappingValues(o), NoVal \notin skip
  PROVE  IsDropped(o, skip, n, Preprocess(o))
<1>. PICK w : w = [pass |-> "drop", skip |-> skip]
  OBVIOUS
<1>. PICK f : PassStates(f, w, DropInit, o, n, f[n]) /\ Preprocess(o) = f[n].out
  BY DropBySteps
<1>0. \A s, e : TurnOf(w, s, e) = DropMarked(skip, s, e)
  BY DEF TurnOf
<1>1. f[0] = DropInit /\ \A k \in 1 .. n : f[k] = DropMarked(skip, f[k - 1], o[k])
  <2>1. f[0] = DropInit /\ \A k \in 1 .. n : f[k] = TurnOf(w, f[k - 1], o[k])
    BY DEF PassStates
  <2>. QED
    BY <1>0, <2>1
<1>. DEFINE X == {k \in Nat : k <= n => DropOK(o, skip, k, f[k])}
<1>2. 0 \in X
  BY <1>1, DropStarts
<1>3. ASSUME NEW k \in Nat, k \in X
      PROVE  k + 1 \in X
  <2>. SUFFICES ASSUME k + 1 <= n
                PROVE  DropOK(o, skip, k + 1, f[k + 1])
    OBVIOUS
  <2>1. k + 1 \in 1 .. n /\ (k + 1) - 1 = k /\ k <= n
    OBVIOUS
  <2>2. f[k + 1] = DropMarked(skip, f[k], o[k + 1])
    BY <1>1, <2>1
  <2>3. DropOK(o, skip, k, f[k])
    BY <1>3, <2>1
  <2>4. KeepsOrDrops(o, skip, k, f[k], f[k + 1])
    BY <2>1, <2>2, <2>3, DropGoesOn
  <2>. QED
    BY <2>1, <2>3, <2>4, OutGrows
<1>. HIDE DEF X
<1>4. \A k \in Nat : k \in X
  BY <1>2, <1>3, NatSetInduction
<1>5. n \in X
  BY <1>4
<1>6. DropOK(o, skip, n, f[n])
  BY <1>5 DEF X
<1>. QED
  BY <1>6 DEF IsDropped

KeptEvents(o, skip) == {o[k] : k \in {i \in DOMAIN o : Kept(o, skip, i)}}

\* The operations of the events of F are those of o on other values.
IsWithout(o, skip, F) == Ops(F) = WithoutValues(Ops(EventSet(o)), skip) /\ Paired(F)

LEMMA KeptOps ==
  ASSUME NEW o, Complete(o), OneOfEach(o), NEW skip, NoVal \notin skip,
         NEW F, F = KeptEvents(o, skip)
  PROVE  IsWithout(o, skip, F)
<1>0. \A k \in DOMAIN o : k \in Nat /\ o[k].ts = k
  BY DEF Complete
<1>1. ASSUME NEW k, NEW r, IsReturnOf(o, k, r)
      PROVE  /\ k \in DOMAIN o /\ r \in DOMAIN o
             /\ Kept(o, skip, k) <=> o[k].val \notin skip
             /\ Kept(o, skip, r) <=> o[k].val \notin skip
  <2>1. o[r].val = NoVal /\ k \in DOMAIN o /\ r \in DOMAIN o
    BY <1>1 DEF OneOfEach, IsReturnOf
  <2>2. \A c : ~IsReturnOf(o, c, k)
    BY <1>1 DEF IsReturnOf
  <2>3. \A c : IsReturnOf(o, c, r) => c = k
    BY <1>1, OneReturn
  <2>. QED
    BY <1>1, <2>1, <2>2, <2>3 DEF Kept
<1>2. F \subseteq EventSet(o) /\ \A k \in DOMAIN o : Kept(o, skip, k) => o[k] \in F
  BY DEF EventSet, KeptEvents
<1>3. \A m \in F : \E k \in DOMAIN o : m = o[k] /\ Kept(o, skip, k)
  BY DEF KeptEvents
<1>4. ASSUME NEW k, NEW r, IsReturnOf(o, k, r), o[k].val \notin skip
      PROVE  Matches(F, o[k], o[r])
  <2>1. k \in DOMAIN o /\ r \in DOMAIN o /\ o[k] \in F /\ o[r] \in F
    BY <1>1, <1>2, <1>4
  <2>2. Matches(EventSet(o), o[k], o[r])
    BY <1>4, <2>1, ReturnsMatch
  <2>. QED
    BY <1>2, <2>1, <2>2 DEF Matches
<1>5. ASSUME NEW c \in F, c.type # "return"
      PROVE  \E k, r \in DOMAIN o : IsReturnOf(o, k, r) /\ c = o[k] /\ o[k].val \notin skip /\ Matches(F, c, o[r])
  <2>. PICK k \in DOMAIN o : c = o[k] /\ Kept(o, skip, k)
    BY <1>3
  <2>. PICK r \in DOMAIN o : IsReturnOf(o, k, r)
    BY <1>5 DEF Complete
  <2>1. o[k].val \notin skip
    BY <1>1
  <2>2. Matches(F, o[k], o[r])
    BY <1>4, <2>1
  <2>. QED
    BY <2>1, <2>2
<1>6. ASSUME NEW c, NEW a, NEW b, Matches(F, c, a), Matches(F, c, b)
      PROVE  a = b
  <2>1. a \in F /\ b \in F /\ c \in F
    BY <1>6 DEF Matches
  <2>. PICK i \in DOMAIN o : a = o[i]
    BY <1>3, <1>6 DEF Matches
  <2>. PICK j \in DOMAIN o : b = o[j]
    BY <1>3, <1>6 DEF Matches
  <2>. PICK k \in DOMAIN o : c = o[k]
    BY <1>3, <1>6 DEF Matches
  <2>2. k < i /\ k < j /\ (i <= k \/ i >= j) /\ (j <= k \/ j >= i)
    BY <1>0, <1>6 DEF Matches
  <2>3. i = j
    BY <1>0, <2>2
  <2>. QED
    BY <2>3
<1>7. ASSUME NEW x \in Ops(F)
      PROVE  x \in Ops(EventSet(o)) /\ x.val \notin skip
  <2>. PICK c \in F, a \in F : Matches(F, c, a) /\ x = OpFrom(c, a)
    BY <1>7, OpsIs
  <2>1. c.type # "return"
    BY DEF Matches
  <2>. PICK k \in DOMAIN o, r \in DOMAIN o : /\ IsReturnOf(o, k, r) /\ c = o[k]
                                            /\ o[k].val \notin skip /\ Matches(F, c, o[r])
    BY <1>5, <2>1
  <2>2. a = o[r]
    BY <1>6
  <2>3. x.val = o[k].val
    BY OpFromIs
  <2>. QED
    BY <2>2, <2>3, CompleteOps
<1>8. ASSUME NEW x \in Ops(EventSet(o)), x.val \notin skip
      PROVE  x \in Ops(F)
  <2>. PICK k \in DOMAIN o, r \in DOMAIN o : IsReturnOf(o, k, r) /\ x = OpFrom(o[k], o[r])
    BY CompleteOps
  <2>1. o[k].val \notin skip
    BY <1>8, OpFromIs
  <2>2. Matches(F, o[k], o[r])
    BY <1>4, <2>1
  <2>3. o[k] \in F /\ o[r] \in F
    BY <2>2 DEF Matches
  <2>. QED
    BY <2>2, <2>3, OpsIs
<1>9. ASSUME NEW c \in F, c.type # "return"
      PROVE  \E m \in F : Matches(F, c, m)
  <2>. PICK k \in DOMAIN o, r \in DOMAIN o : IsReturnOf(o, k, r) /\ c = o[k] /\ Matches(F, c, o[r])
    BY <1>5, <1>9
  <2>1. o[r] \in F
    BY DEF Matches
  <2>. QED
    BY <2>1
<1>10. ASSUME NEW m \in F, m.type = "return"
       PROVE  \E c \in F : Matches(F, c, m)
  <2>. PICK r \in DOMAIN o : m = o[r] /\ Kept(o, skip, r)
    BY <1>3
  <2>. PICK k \in DOMAIN o : IsReturnOf(o, k, r)
    BY <1>10 DEF Complete
  <2>1. Matches(F, o[k], m) /\ o[k] \in F
    BY <1>1, <1>2, <1>4
  <2>. QED
    BY <2>1
<1>. QED
  BY <1>7, <1>8, <1>9, <1>10 DEF IsWithout, Paired, WithoutValues

\* What is left after preprocess() has no overlapping pairs.
LEMMA KeptAreClean ==
  ASSUME NEW o, Complete(o), OneOfEach(o), PushesFirst(o), NEW skip, skip = OverlappingValues(o)
  PROVE  Clean(WithoutValues(Ops(EventSet(o)), skip))
<1>. PICK T : T = Ops(EventSet(o))
  OBVIOUS
<1>0. \A k \in DOMAIN o : k \in Nat /\ o[k].ts = k /\ o[k].type \in {"push", "pop", "return"}
  BY DEF Complete
<1>1. \A k, r : OpFrom(o[k], o[r]).type = o[k].type /\ OpFrom(o[k], o[r]).val = o[k].val
                /\ OpFrom(o[k], o[r]).ret = o[r].ts
  BY OpFromIs
<1>2. \A x : x \in T <=> \E k, r \in DOMAIN o : IsReturnOf(o, k, r) /\ x = OpFrom(o[k], o[r])
  BY CompleteOps
<1>3. \A j, m : IsOverlap(o, j, m) => o[j].val \in skip
  BY Marked
<1>. SUFFICES ASSUME NEW p \in T, p.val \notin skip, p.type = "pop", p.val # NoVal
              PROVE  /\ \E q \in T : q.type = "push" /\ q.val = p.val /\ q.ret <= p.ret
                     /\ \A q \in T : Pops(q, p.val) => q = p
  BY DEF Clean, WithoutValues
<1>. PICK k \in DOMAIN o, r \in DOMAIN o : IsReturnOf(o, k, r) /\ p = OpFrom(o[k], o[r])
  BY <1>2
<1>4. o[k].type = "pop" /\ o[k].val = p.val /\ p.ret = r
  BY <1>0, <1>1
<1>5. ASSUME NEW q \in T, Pops(q, p.val)
      PROVE  q = p
  <2>. PICK j \in DOMAIN o, i \in DOMAIN o : IsReturnOf(o, j, i) /\ q = OpFrom(o[j], o[i])
    BY <1>2
  <2>1. o[j].type = "pop" /\ o[j].val = p.val
    BY <1>1, <1>5 DEF Pops
  <2>2. j = k
    BY <1>4, <2>1 DEF OneOfEach
  <2>3. i = r
    BY <2>2, OneReturn
  <2>. QED
    BY <2>2, <2>3
<1>. PICK j \in DOMAIN o : o[j].type = "push" /\ o[j].val = o[k].val /\ j < r
  BY <1>4 DEF PushesFirst
<1>. PICK i \in DOMAIN o : IsReturnOf(o, j, i)
  BY DEF Complete
<1>. PICK q : q = OpFrom(o[j], o[i])
  OBVIOUS
<1>6. q \in T /\ q.type = "push" /\ q.val = p.val /\ q.ret = i
  BY <1>0, <1>1, <1>2, <1>4
<1>7. i <= r
  <2>. SUFFICES ASSUME i > r
                PROVE  FALSE
    BY <1>0
  <2>1. /\ j < i /\ k < r /\ o[j].type # "return" /\ o[k].type # "return" /\ o[j].val # NoVal
        /\ \A m \in DOMAIN o : j < m /\ m < i => o[m].thread # o[j].thread
        /\ \A m \in DOMAIN o : k < m /\ m < r => o[m].thread # o[k].thread
    BY <1>4 DEF IsReturnOf
  <2>2. j # k
    BY <1>4
  <2>3. CASE j < k
    <3>1. \A m \in DOMAIN o : j < m /\ m < k => j < m /\ m < i
      BY <1>0, <2>1
    <3>2. IsOverlap(o, j, k)
      BY <2>1, <2>3, <3>1 DEF IsOverlap
    <3>. QED
      BY <1>3, <1>4, <3>2
  <2>4. CASE k < j
    <3>1. \A m \in DOMAIN o : k < m /\ m < j => k < m /\ m < r
      BY <1>0
    <3>2. IsOverlap(o, k, j)
      BY <1>4, <2>1, <2>4, <3>1 DEF IsOverlap
    <3>. QED
      BY <1>3, <1>4, <3>2
  <2>. QED
    BY <1>0, <2>2, <2>3, <2>4
<1>8. q.ret <= p.ret
  BY <1>4, <1>6, <1>7
<1>. QED
  BY <1>5, <1>6, <1>8

LEMMA DroppedIsGiven ==
  ASSUME NEW o, Complete(o), OneOfEach(o), PushesFirst(o), NEW ops, GivenOK(o, ops)
  PROVE  GivenOK(Preprocess(o), ops) /\ Clean(Ops(EventSet(Preprocess(o))))
<1>. PICK n \in Nat : DOMAIN o = 1 .. n
  BY DEF Complete
<1>. PICK skip : skip = OverlappingValues(o)
  OBVIOUS
<1>1. \A v \in skip : v # NoVal /\ v \in {o[k].val : k \in DOMAIN o} /\ IsPairIn(Ops(EventSet(o)), v)
  BY MarkedArePairs
<1>2. IsFiniteSet(skip)
  <2>. DEFINE g == [k \in DOMAIN o |-> o[k].val]
  <2>1. IsFiniteSet(DOMAIN o)
    BY FS_Interval
  <2>2. skip \subseteq {g[k] : k \in DOMAIN o}
    BY <1>1
  <2>. HIDE DEF g
  <2>3. IsFiniteSet({g[k] : k \in DOMAIN o})
    BY <2>1, FiniteImage
  <2>. QED
    BY <2>2, <2>3, FS_Subset
<1>. PICK w : w = Preprocess(o)
  OBVIOUS
<1>3. IsDropped(o, skip, n, w)
  BY <1>1, Preprocessed
<1>. PICK s : s.out = w /\ DropOK(o, skip, n, s)
  BY <1>3 DEF IsDropped
<1>4. /\ \E S : w \in Seq(S)
      /\ \A i \in DOMAIN w : \E k \in DOMAIN o : w[i] = o[k] /\ Kept(o, skip, k)
      /\ \A k \in DOMAIN o : Kept(o, skip, k) => \E i \in DOMAIN w : w[i] = o[k]
      /\ \A i, j \in DOMAIN w : i < j => w[i].ts < w[j].ts
  BY DEF DropOK
<1>. PICK F : F = KeptEvents(o, skip)
  OBVIOUS
<1>5. EventSet(w) = F
  BY <1>4 DEF EventSet, KeptEvents
<1>6. Ops(F) = WithoutValues(Ops(EventSet(o)), skip) /\ Paired(F)
  BY <1>1, KeptOps DEF IsWithout
<1>7. EventsOK(EventSet(o)) /\ (Orders(Ops(EventSet(o)), << >>) <=> Orders(ops, << >>))
  BY DEF GivenOK
<1>8. EventsOK(F)
  <2>1. F \subseteq EventSet(o)
    BY DEF EventSet, KeptEvents
  <2>. QED
    BY <1>7, <2>1, FS_Subset DEF EventsOK
<1>. PICK T : T = Ops(EventSet(o))
  OBVIOUS
<1>9. IsFiniteSet(T) /\ Timed(T)
  BY <1>7, OpsAreFinite
<1>10. Orders(Ops(F), << >>) => Orders(ops, << >>)
  <2>1. \A d \in skip : IsPairIn(T, d)
    BY <1>1
  <2>2. Ops(F) = {x \in T : x.val \notin skip}
    BY <1>6 DEF WithoutValues
  <2>. QED
    BY <1>2, <1>7, <1>9, <2>1, <2>2, DropPairs
<1>11. Orders(ops, << >>) => Orders(Ops(F), << >>)
  <2>. PICK V : V = ValuesIn(T)
    OBVIOUS
  <2>1. Orders(T, << >>) => Orders(WithoutValues(T, skip), << >>)
    BY ONLY <1>9, V = ValuesIn(T), OrderWithout
  <2>. QED
    BY <1>6, <1>7, <2>1
<1>12. Clean(Ops(F))
  BY <1>6, KeptAreClean
<1>. QED
  BY <1>4, <1>5, <1>6, <1>8, <1>10, <1>11, <1>12 DEF GivenOK
=============================================================================
