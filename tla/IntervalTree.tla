---------------------------- MODULE IntervalTree ----------------------------
(***************************************************************************)
(* The red-black tree of intervals in which the queue monitor looks for    *)
(* an interval around another (src/tool/include/intervaltree.hpp).  The    *)
(* tree is a record: root is a node, and node gives the nodes 1, 2, ... in *)
(* the order of their insertion.  Removal, which nothing calls, is left    *)
(* out.                                                                    *)
(***************************************************************************)
EXTENDS Naturals, Sequences, SequencesExt

NoNode == 0  \* nullptr

EmptyTree == [root |-> NoNode, node |-> <<>>]

\* operator< of AtomicInterval.
Less(i, j) == i.lb < j.lb \/ (i.lb = j.lb /\ i.ub < j.ub)

Opposite(side) == IF side = "left" THEN "right" ELSE "left"

Set(node, n, field, x) ==
  IF n = NoNode THEN node ELSE [node EXCEPT ![n][field] = x]

Attach(node, parent, side, child) ==
  Set(Set(node, parent, side, child), child, "parent", parent)

\* rotateLeft and rotateRight: the child on the other side takes n's place
\* and n goes down to the given side.
Rotate(t, n, side) ==
  LET child == t.node[n][Opposite(side)]
      above == t.node[n].parent
      place == IF above # NoNode /\ t.node[above].left = n THEN "left"
               ELSE "right"
      moved == Attach(t.node, n, Opposite(side), t.node[child][side])
  IN  [root |-> IF above = NoNode THEN child ELSE t.root,
       node |-> Attach(Attach(moved, above, place, child), child, side, n)]

Red(t, n) == n # NoNode /\ t.node[n].red

\* Mutant of FixInsert: a red parent is coloured black, and that is all.
FixInsertPainting(t, n) ==
  IF Red(t, t.node[n].parent)
  THEN [t EXCEPT !.node[t.node[n].parent].red = FALSE]
  ELSE [t EXCEPT !.node[t.root].red = FALSE]

\* One iteration of fixInsert's loop, or none where the loop ends.
FixStep(s) ==
  LET t     == s.tree
      n     == s.at
      p     == t.node[n].parent
      g     == t.node[p].parent
      side  == IF t.node[g].left = p THEN "left" ELSE "right"
      uncle == t.node[g][Opposite(side)]
  IN  IF n = t.root \/ ~Red(t, n) \/ ~Red(t, p) THEN s
      ELSE IF Red(t, uncle)
      THEN [tree |-> [t EXCEPT !.node[g].red = TRUE, !.node[p].red = FALSE,
                               !.node[uncle].red = FALSE],
            at |-> g]
      ELSE LET bent    == n = t.node[p][Opposite(side)]
               top     == IF bent THEN n ELSE p
               rotated == Rotate(IF bent THEN Rotate(t, p, side) ELSE t,
                                 g, Opposite(side))
           IN  [tree |-> [rotated EXCEPT !.node[top].red = Red(t, g),
                                         !.node[g].red = Red(t, top)],
                at |-> top]

\* fixInsert.  Every iteration goes up in the tree: there are fewer than nodes.
FixInsert(t, n) ==
  LET fixed == FoldLeftDomain(LAMBDA s, k : FixStep(s), [tree |-> t, at |-> n], t.node).tree
  IN  [fixed EXCEPT !.node[fixed.root].red = FALSE]

\* Where the search for the place of an interval ends: at a node with no
\* child on the side the interval belongs to.
Descend(t, n, itv) ==
  LET below[m \in DOMAIN t.node] ==
        LET side == IF Less(itv, t.node[m].itv) THEN "left" ELSE "right"
        IN  IF t.node[m][side] = NoNode THEN <<m, side>>
            ELSE below[t.node[m][side]]
  IN  below[n]

NewNode(itv) ==
  [itv |-> itv, red |-> TRUE, parent |-> NoNode, left |-> NoNode, right |-> NoNode]

Insert(t, itv) ==
  LET n    == Len(t.node) + 1
      node == Append(t.node, NewNode(itv))
  IN  FixInsert(
        IF t.root = NoNode THEN [root |-> n, node |-> node]
        ELSE LET place == Descend(t, t.root, itv)
             IN  [root |-> t.root, node |-> Attach(node, place[1], place[2], n)],
        n)

----------------------------------------------------------------------------
NodesOrNone(t) == 0 .. Len(t.node)  \* the nodes and NoNode

\* Mutant of K: the right subtree is forgotten.
KOfLeft(t, n) ==
  LET k[m \in NodesOrNone(t)] ==
        IF m = NoNode THEN 0 ELSE Max({k[t.node[m].left], t.node[m].itv.ub})
  IN  k[n]

\* compute_k: the greatest upper bound below and at n.
K(t, n) ==
  LET k[m \in NodesOrNone(t)] ==
        IF m = NoNode THEN 0
        ELSE Max({k[t.node[m].left], k[t.node[m].right], t.node[m].itv.ub})
  IN  k[n]

\* contains: whether some interval below or at n holds all of itv.  Where n
\* begins early enough, ends too early and has no left child, the search is
\* over, whatever its right child holds.
ContainsItv(t, n, itv) ==
  LET holds[m \in NodesOrNone(t)] ==
        LET here  == t.node[m].itv
            left  == t.node[m].left
            after == here.lb <= itv.lb
        IN  /\ m # NoNode
            /\ \/ after /\ itv.ub <= here.ub
               \/ after /\ left # NoNode /\ itv.ub <= K(t, left)
               \/ /\ after /\ left # NoNode /\ itv.ub > K(t, left)
                  /\ holds[t.node[m].right]
               \/ /\ ~(after /\ left # NoNode)
                  /\ itv.lb <= here.lb
                  /\ holds[left]
  IN  holds[n]

----------------------------------------------------------------------------
(* What a red-black search tree is, for comparison. *)

Nodes(t, n) ==
  LET under[m \in NodesOrNone(t)] ==
        IF m = NoNode THEN {}
        ELSE {m} \cup under[t.node[m].left] \cup under[t.node[m].right]
  IN  under[n]

BlackHeight(t, n) ==
  LET height[m \in NodesOrNone(t)] ==
        IF m = NoNode THEN 0
        ELSE height[t.node[m].left] + IF Red(t, m) THEN 0 ELSE 1
  IN  height[n]

Ordered(t) ==
  \A n \in Nodes(t, t.root) :
    /\ \A m \in Nodes(t, t.node[n].left) : ~Less(t.node[n].itv, t.node[m].itv)
    /\ \A m \in Nodes(t, t.node[n].right) : ~Less(t.node[m].itv, t.node[n].itv)

Balanced(t) ==
  /\ ~Red(t, t.root)
  /\ \A n \in Nodes(t, t.root) :
       /\ Red(t, n) => ~Red(t, t.node[n].parent)
       /\ BlackHeight(t, t.node[n].left) = BlackHeight(t, t.node[n].right)

\* Every node with a right child has a left one.
NoLeftGap(t) ==
  \A n \in Nodes(t, t.root) :
    t.node[n].right # NoNode => t.node[n].left # NoNode
=============================================================================
