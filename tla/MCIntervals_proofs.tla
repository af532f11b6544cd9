------------------------- MODULE MCIntervals_proofs -------------------------
(***************************************************************************)
(* What the interval calculator shows on small timestamps holds of all:    *)
(* its cover, complement and intersection are exact.                       *)
(***************************************************************************)
EXTENDS MCIntervals, Verifier_proofs

----------------------------------------------------------------------------
(* The calculator. *)

\* The constructor made it from a list in order.
IsCover(i) == \E s : InOrder(s) /\ i = MkInterval(s)

\* Every interval was built from a list in order, and a result is that of the
\* operation on what was built.
CalculatorInv ==
  /\ InOrder(atoms) /\ left = MkInterval(atoms)
  /\ op = "complement" => result = Complement(left)
  /\ op = "intersect" => IsCover(right) /\ result = IntersectIntervals(left, right)

\* The lists that the calculator starts with are in order.
LEMMA SortedIsInOrder ==
  ASSUME NEW s \in SortedLists
  PROVE  InOrder(s)
<1>1. PICK n \in 0 .. MaxAtoms : s \in [1 .. n -> ClosedAtoms]
  BY DEF SortedLists
<1>2. CASE n \in Nat
  <2>1. s \in Seq(ClosedAtoms) /\ Len(s) = n
    BY <1>1, <1>2
  <2>2. \A k \in 1 .. n - 1 : s[k].lb <= s[k + 1].lb
    BY <2>1 DEF SortedLists
  <2>3. \A k \in 1 .. n : s[k].lb \in Nat
    <3>. TAKE k \in 1 .. n
    <3>1. s[k] \in ClosedAtoms
      BY <2>1
    <3>. QED
      BY <3>1, ClosedAtomIs
  <2>. DEFINE X == {d \in Nat : \A k \in 1 .. n : k + d <= n => s[k].lb <= s[k + d].lb}
  <2>4. 0 \in X
    BY <1>2, <2>3
  <2>5. ASSUME NEW d \in Nat, d \in X
        PROVE  d + 1 \in X
    <3>. SUFFICES ASSUME NEW k \in 1 .. n, k + (d + 1) <= n
                  PROVE  s[k].lb <= s[k + (d + 1)].lb
      OBVIOUS
    <3>1. k + d \in 1 .. n - 1 /\ k + d \in 1 .. n /\ k + (d + 1) = (k + d) + 1
          /\ (k + d) + 1 \in 1 .. n
      BY <1>2
    <3>2. s[k].lb <= s[k + d].lb
      BY <2>5, <3>1
    <3>3. s[k + d].lb <= s[(k + d) + 1].lb
      BY <2>2, <3>1
    <3>. PICK l : l = k + d
      OBVIOUS
    <3>4. s[k].lb \in Nat /\ s[l].lb \in Nat /\ s[l + 1].lb \in Nat
      BY <2>3, <3>1
    <3>. QED
      BY <3>1, <3>2, <3>3, <3>4
  <2>. HIDE DEF X
  <2>6. \A d \in Nat : d \in X
    BY <2>4, <2>5, NatSetInduction
  <2>7. ASSUME NEW k \in 1 .. n, NEW l \in 1 .. n, k <= l
        PROVE  s[k].lb <= s[l].lb
    <3>1. l - k \in Nat /\ k + (l - k) = l /\ k + (l - k) <= n
      BY <1>2, <2>7
    <3>. QED
      BY <2>6, <3>1 DEF X
  <2>. QED
    BY <2>1, <2>7 DEF InOrder
<1>. QED
  BY <1>2

\* What the constructor made of a list in order is in normal form.
LEMMA CoverIsNormalForm ==
  ASSUME NEW i, IsCover(i)
  PROVE  NormalForm(i)
BY MergedInOrder DEF IsCover

\* The cover, the complement and the intersection are always what the
\* constructor, complement() and operator* make of lists in order: no step of
\* the calculator leaves one of them stale.
THEOREM CalculatorInvariant == Spec => []CalculatorInv
<1>1. Init => CalculatorInv
  BY SortedIsInOrder DEF Init, CalculatorInv
<1>2. CalculatorInv /\ [Next]_vars => CalculatorInv'
  <2>. SUFFICES ASSUME CalculatorInv, [Next]_vars PROVE CalculatorInv'
    OBVIOUS
  <2>1. CASE DoComplement
    BY <2>1 DEF DoComplement, CalculatorInv
  <2>2. CASE DoIntersect
    <3>1. PICK a \in ClosedAtoms, b \in ClosedAtoms :
            a.lb <= b.lb /\ right' = MkInterval(<<a, b>>)
            /\ result' = IntersectIntervals(left, right')
      BY <2>2 DEF DoIntersect
    <3>2. InOrder(<<a, b>>)
      <4>1. <<a, b>> \in Seq(ClosedAtoms) /\ Len(<<a, b>>) = 2 /\ <<a, b>>[1] = a /\ <<a, b>>[2] = b
        OBVIOUS
      <4>2. a.lb \in Nat /\ b.lb \in Nat
        BY ClosedAtomIs
      <4>3. \A k \in 1 .. 2 : k = 1 \/ k = 2
        OBVIOUS
      <4>. QED
        BY <3>1, <4>1, <4>2, <4>3 DEF InOrder
    <3>3. IsCover(right')
      BY <3>1, <3>2 DEF IsCover
    <3>. QED
      BY <2>2, <3>1, <3>3 DEF DoIntersect, CalculatorInv
  <2>3. CASE InsertNext
    BY <2>3 DEF InsertNext, CalculatorInv
  <2>4. CASE UNCHANGED vars
    BY <2>4 DEF vars, CalculatorInv
  <2>. QED
    BY <2>1, <2>2, <2>3, <2>4 DEF Next
<1>. QED
  BY <1>1, <1>2, PTL DEF Spec

\* For any timestamps and any number of them, what cover() has the constructor
\* build of the values' intervals holds the instants of these, none lost and
\* none added, whatever gaps and overlaps they have.
THEOREM CoverIsUnion == Spec => []CoverIsExact
<1>1. CalculatorInv => CoverIsExact
  <2>. SUFFICES ASSUME CalculatorInv PROVE Points(left) = Points(atoms)
    BY DEF CoverIsExact
  <2>1. InOrder(atoms) /\ left = MkInterval(atoms)
    BY DEF CalculatorInv
  <2>2. atoms \in Seq(ClosedAtoms) /\ left \in Seq(AtomSet)
    BY <2>1, MergedInOrder, NormalFormIs DEF InOrder
  <2>3. Points(left) = {p \in Grid : Holds(p, left)} /\ Points(atoms) = {p \in Grid : Holds(p, atoms)}
    BY <2>2, PointsAreHeld
  <2>. QED
    BY <2>1, <2>3, MergedInOrder
<1>. QED
  BY <1>1, CalculatorInvariant, PTL

\* And its atoms are in increasing order with an instant between any two: what
\* step() concludes from the number of atoms and the first gap is right.
THEOREM CoverHasGaps == Spec => []CoverIsNormal
<1>1. CalculatorInv => CoverIsNormal
  <2>. SUFFICES ASSUME CalculatorInv, NEW k \in 1 .. Len(left) - 1
                PROVE  \E p \in Grid : p > 2 * left[k].ub /\ p < 2 * left[k + 1].lb
    BY DEF CoverIsNormal
  <2>1. NormalForm(left)
    BY MergedInOrder DEF CalculatorInv
  <2>2. k \in 1 .. Len(left) /\ k + 1 \in 1 .. Len(left) /\ k < k + 1
    BY <2>1, NormalFormIs
  <2>. PICK a, b : a = left[k] /\ b = left[k + 1]
    OBVIOUS
  <2>3. a \in ClosedAtoms /\ b \in ClosedAtoms /\ a.ub < b.lb
    BY <2>1, <2>2, NormalFormIs
  <2>4. a.ub \in Nat /\ b.lb \in Nat /\ b.ub \in Nat /\ b.lb <= b.ub /\ b.ub < POSINF
    BY <2>3, ClosedAtomIs
  <2>5. /\ 2 * a.ub + 1 \in Grid /\ 2 * a.ub + 1 > 2 * a.ub
        /\ 2 * a.ub + 1 < 2 * b.lb
    <3>. PICK u \in Nat, l \in Nat, v \in Nat : u = a.ub /\ l = b.lb /\ v = b.ub
      BY <2>4
    <3>1. u < l /\ l <= v /\ v < POSINF /\ POSINF \in Nat
      BY <2>3, <2>4, PosInfAssumption
    <3>2. 2 * u + 1 \in 1 .. 2 * POSINF - 1 /\ 2 * u + 1 > 2 * u /\ 2 * u + 1 < 2 * l
      BY ONLY <3>1, u \in Nat, l \in Nat, v \in Nat
    <3>. QED
      BY <3>2 DEF Grid
  <2>. QED
    BY <2>5
<1>. QED
  BY <1>1, CalculatorInvariant, PTL

\* complement() holds exactly the instants that its interval does not hold.
THEOREM ComplementIsRight == Spec => []ComplementIsExact
<1>1. CalculatorInv => ComplementIsExact
  <2>. SUFFICES ASSUME CalculatorInv, op = "complement"
                PROVE  Points(result) = Grid \ Points(left)
    BY DEF ComplementIsExact
  <2>1. NormalForm(left) /\ result = Complement(left)
    BY MergedInOrder DEF CalculatorInv
  <2>2. \A p \in Grid : Holds(p, result) <=> ~Holds(p, left)
    BY <2>1, ComplementIsTheRest
  <2>3. left \in Seq(AtomSet) /\ result \in Seq(AtomSet)
    BY <2>1, NormalFormIs, MadeOfAtoms, GapsAreAtoms, ComplementIs
  <2>4. Points(left) = {p \in Grid : Holds(p, left)} /\ Points(result) = {p \in Grid : Holds(p, result)}
    BY <2>3, PointsAreHeld
  <2>. QED
    BY <2>2, <2>4
<1>. QED
  BY <1>1, CalculatorInvariant, PTL

\* operator* never reaches the branch marked "This should never happen" and
\* returns exactly the instants that both intervals hold.
THEOREM IntersectIsRight == Spec => []IntersectIsExact
<1>1. CalculatorInv => IntersectIsExact
  <2>. SUFFICES ASSUME CalculatorInv, op = "intersect"
                PROVE  ~IntersectAsserts(left, right)
                       /\ Points(result) = Points(left) \cap Points(right)
    BY DEF IntersectIsExact
  <2>1. NormalForm(left) /\ NormalForm(right) /\ result = IntersectIntervals(left, right)
    BY MergedInOrder, CoverIsNormalForm DEF CalculatorInv
  <2>2. /\ ~IntersectAsserts(left, right)
        /\ \A p \in Grid : Holds(p, result) <=> Holds(p, left) /\ Holds(p, right)
    BY <2>1, IntersectIsBoth
  <2>3. left \in Seq(AtomSet) /\ right \in Seq(AtomSet) /\ result \in Seq(AtomSet)
    BY <2>1, NormalFormIs, MadeOfAtoms, IntersectRunType DEF IntersectIntervals
  <2>4. /\ Points(left) = {p \in Grid : Holds(p, left)}
        /\ Points(right) = {p \in Grid : Holds(p, right)}
        /\ Points(result) = {p \in Grid : Holds(p, result)}
    BY <2>3, PointsAreHeld
  <2>. QED
    BY <2>2, <2>4
<1>. QED
  BY <1>1, CalculatorInvariant, PTL
=============================================================================
