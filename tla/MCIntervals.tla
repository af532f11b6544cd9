---------------------------- MODULE MCIntervals ----------------------------
(***************************************************************************)
(* A calculator over the interval algebra: a left and a right Interval     *)
(* built by the constructor, then one operation; or a tree that intervals  *)
(* are put into one by one.                                                *)
(***************************************************************************)
EXTENDS Intervals, IntervalTree

CONSTANTS
  MaxAtoms,  \* atoms handed to the constructor
  MaxNodes   \* intervals put into the tree

VARIABLES left, right, op, result, atoms, tree

vars == <<left, right, op, result, atoms, tree>>

\* What cover() hands to the constructor: closed atoms ordered by lower bound.
SortedLists ==
  {s \in UNION {[1 .. n -> ClosedAtoms] : n \in 0 .. MaxAtoms} :
     \A k \in 1 .. Len(s) - 1 : s[k].lb <= s[k + 1].lb}

None == <<>>

Init ==
  /\ \E s \in SortedLists : atoms = s /\ left = MkInterval(s)
  /\ right = None
  /\ op = "built"
  /\ result = None
  /\ tree = EmptyTree

DoComplement ==
  /\ op = "built"
  /\ op' = "complement"
  /\ result' = Complement(left)
  /\ UNCHANGED <<left, right, atoms, tree>>

DoIntersect ==
  /\ op = "built"
  /\ op' = "intersect"
  /\ \E a, b \in ClosedAtoms :
       /\ a.lb <= b.lb
       /\ right' = MkInterval(<<a, b>>)
       /\ result' = IntersectIntervals(left, right')
  /\ UNCHANGED <<left, atoms, tree>>

\* The queue monitor enters intervals in any order.  Timestamps are unique.
InsertNext ==
  /\ atoms = None /\ op \in {"built", "inserted"}
  /\ op' = "inserted"
  /\ Len(tree.node) < MaxNodes
  /\ \E a \in ClosedAtoms :
       /\ \A n \in DOMAIN tree.node : tree.node[n].itv.lb # a.lb
       /\ tree' = Insert(tree, a)
  /\ UNCHANGED <<left, right, result, atoms>>

Next == DoComplement \/ DoIntersect \/ InsertNext

Spec == Init /\ [][Next]_vars

\* The constructor's comment says "Union of all intervals in vector"; on the
\* sorted lists that CoverHistory::cover() passes it is exactly that union.
CoverIsExact == op = "built" => Points(left) = Points(atoms)

\* An Interval built from a sorted list is in normal form: its atoms are in
\* increasing order with a gap of instants between two of them.  step() takes
\* atomic() for "no gap" and atoms()[1] of the complement for "the first gap".
CoverIsNormal ==
  op = "built" =>
    \A k \in 1 .. Len(left) - 1 :
      \E p \in Grid : p > 2 * left[k].ub /\ p < 2 * left[k + 1].lb

\* complement() holds exactly the instants outside the interval.
ComplementIsExact ==
  op = "complement" => Points(result) = Grid \ Points(left)

\* operator* on intervals in normal form with closed ends is the intersection
\* and never reaches the branch marked "This should never happen".
IntersectIsExact ==
  op = "intersect" =>
    /\ ~IntersectAsserts(left, right)
    /\ Points(result) = Points(left) \cap Points(right)

\* However the intervals come in, rotations and recolourings leave a search
\* tree ordered by lower bound, with no two red nodes in a row and as many
\* black nodes on every way down.
TreeIsSearchTree == Ordered(tree) /\ Balanced(tree)

\* contains() finds only intervals that are there, and each of them unless
\* some node has a right child only.
SearchIsExact ==
  \A i \in ClosedAtoms :
    LET found == ContainsItv(tree, tree.root, i)
        there == \E n \in DOMAIN tree.node :
                   tree.node[n].itv.lb <= i.lb /\ i.ub <= tree.node[n].itv.ub
    IN  /\ found => there
        /\ NoLeftGap(tree) => (there => found)
=============================================================================
