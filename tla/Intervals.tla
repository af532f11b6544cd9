----------------------------- MODULE Intervals -----------------------------
(***************************************************************************)
(* The interval algebra of LiMo: AtomicInterval (one interval of           *)
(* timestamps, each end open or closed) and Interval (a list of atomic     *)
(* intervals that is meant to stay sorted and disjoint).  The code is      *)
(* src/tool/include/interval.h and src/tool/events/src/interval.cpp.       *)
(*                                                                         *)
(* An atom is the record [lo, lb, ub, uo]: lower end open, lower bound,    *)
(* upper bound, upper end open.  An Interval is a nonempty sequence of     *)
(* atoms; the empty interval is the one-atom list <<Nil>>.                 *)
(***************************************************************************)
EXTENDS Naturals, Sequences, SequencesExt

CONSTANT POSINF  \* ULLONG_MAX in the code: above every timestamp

ASSUME PosInfAssumption == POSINF \in Nat /\ POSINF > 2

NEGINF == 0

Timestamps == NEGINF .. POSINF

Atom(l, lower, upper, u) == [lo |-> l, lb |-> lower, ub |-> upper, uo |-> u]

AtomSet == [lo : BOOLEAN, lb : Timestamps, ub : Timestamps, uo : BOOLEAN]

Closed(lower, upper) == Atom(FALSE, lower, upper, FALSE)

Nil == Closed(POSINF, NEGINF)

\* AtomicInterval::end(), the removal interval of a value never removed.
End == Closed(POSINF - 2, POSINF)

EmptyAtom(a) == a.lb > a.ub \/ (a.lb >= a.ub /\ (a.uo \/ a.lo))

(***************************************************************************)
(* AtomicInterval::overlaps.  Its last comparison tests other.l_open where *)
(* the touching end is other's upper one.                                  *)
(***************************************************************************)
Overlaps(a, b) ==
  /\ a.ub >= b.lb
  /\ a.lb <= b.ub
  /\ IF a.ub = b.lb THEN ~(a.uo /\ b.lo)
     ELSE a.lb = b.ub => ~(a.lo /\ b.lo)

\* AtomicInterval::intersect: the tighter bound on each side, open if equal
\* bounds disagree.
Intersect(a, b) ==
  LET low  == IF a.lb = b.lb THEN <<a.lb, a.lo \/ b.lo>>
              ELSE IF a.lb < b.lb THEN <<b.lb, b.lo>> ELSE <<a.lb, a.lo>>
      high == IF a.ub = b.ub THEN <<a.ub, a.uo \/ b.uo>>
              ELSE IF a.ub < b.ub THEN <<a.ub, a.uo>> ELSE <<b.ub, b.uo>>
  IN  Atom(low[2], low[1], high[1], high[2])

----------------------------------------------------------------------------
\* Mutant of Extend: a merged atom may end earlier than it did.
ExtendBackwards(curr, succ) == [curr EXCEPT !.ub = succ.ub, !.uo = succ.uo]

(***************************************************************************)
(* The Interval constructor.  Its parameter "sorted" defaults to true and  *)
(* no caller passes anything else, so the atoms are never sorted: adjacent *)
(* atoms of the list as given are merged from left to right.               *)
(***************************************************************************)
Extend(curr, succ) ==
  IF curr.ub > succ.ub THEN curr
  ELSE [curr EXCEPT !.ub = succ.ub,
                    !.uo = succ.uo /\ (curr.ub = succ.ub => curr.uo)]

\* Mutant of MergeNext: atoms that touch in one instant stay apart.
MergeUnlessTouching(merged, a) ==
  IF EmptyAtom(a) THEN merged
  ELSE IF merged # <<>> /\ Last(merged).ub > a.lb
  THEN Append(Front(merged), Extend(Last(merged), a))
  ELSE Append(merged, a)

\* Empty atoms are dropped.
MergeNext(merged, a) ==
  IF EmptyAtom(a) THEN merged
  ELSE IF merged # <<>> /\ Overlaps(Last(merged), a)
  THEN Append(Front(merged), Extend(Last(merged), a))
  ELSE Append(merged, a)

Merged(atoms) == FoldLeft(MergeNext, <<>>, atoms)

MkInterval(atoms) == IF Merged(atoms) = <<>> THEN <<Nil>> ELSE Merged(atoms)

IsAtomic(i) == Len(i) = 1

\* Mutant of Complement: the gaps have the ends of the atoms around them.
ComplementSameEnds(i) ==
  LET n == Len(i)
      Gap(k) == Atom(IF k = 1 THEN TRUE ELSE i[k - 1].uo,
                     IF k = 1 THEN NEGINF ELSE i[k - 1].ub,
                     IF k > n THEN POSINF ELSE i[k].lb,
                     IF k > n THEN TRUE ELSE i[k].lo)
  IN  MkInterval([k \in 1 .. n + 1 |-> Gap(k)])

\* Interval::complement: the gaps before, between and after the atoms.
Complement(i) ==
  LET n == Len(i)
      Gap(k) == Atom(IF k = 1 THEN TRUE ELSE ~i[k - 1].uo,
                     IF k = 1 THEN NEGINF ELSE i[k - 1].ub,
                     IF k > n THEN POSINF ELSE i[k].lb,
                     IF k > n THEN TRUE ELSE ~i[k].lo)
  IN  MkInterval([k \in 1 .. n + 1 |-> Gap(k)])

\* Mutant of IntersectStep: after an overlap the cursor at the atom that ends
\* later moves on.
IntersectStepLater(i, j, s) ==
  IF s.failed \/ s.p > Len(i) \/ s.q > Len(j) THEN s
  ELSE LET a == i[s.p]
           b == j[s.q]
       IN  IF Overlaps(a, b)
           THEN LET t == [s EXCEPT !.out = Append(@, Intersect(a, b))]
                IN  IF a.ub >= b.ub THEN [t EXCEPT !.p = @ + 1]
                    ELSE [t EXCEPT !.q = @ + 1]
           ELSE IF a.ub < b.lb THEN [s EXCEPT !.p = @ + 1]
           ELSE [s EXCEPT !.q = @ + 1]

(***************************************************************************)
(* Interval::operator*: two cursors walk the two lists.  The result is the *)
(* collected atoms and whether the branch marked assert(false) was taken.  *)
(***************************************************************************)
IntersectStep(i, j, s) ==
  IF s.failed \/ s.p > Len(i) \/ s.q > Len(j) THEN s
  ELSE LET a == i[s.p]
           b == j[s.q]
       IN  IF Overlaps(a, b)
           THEN LET t == [s EXCEPT !.out = Append(@, Intersect(a, b))]
                IN  IF a.ub >= b.ub THEN [t EXCEPT !.q = @ + 1]
                    ELSE [t EXCEPT !.p = @ + 1]
           ELSE IF a.ub < b.lb THEN [s EXCEPT !.p = @ + 1]
           ELSE IF b.ub < a.lb THEN [s EXCEPT !.q = @ + 1]
           ELSE [s EXCEPT !.failed = TRUE]

IntersectRun(i, j) ==
  FoldLeftDomain(LAMBDA s, k : IntersectStep(i, j, s),
                 [p |-> 1, q |-> 1, out |-> <<>>, failed |-> FALSE],
                 i \o j)

IntersectIntervals(i, j) == MkInterval(IntersectRun(i, j).out)

IntersectAsserts(i, j) == IntersectRun(i, j).failed

----------------------------------------------------------------------------
(***************************************************************************)
(* What an Interval means: the set of instants it holds, on a grid of half *)
(* steps so that an instant strictly between two timestamps can be told    *)
(* apart.                                                                  *)
(***************************************************************************)

Grid == 1 .. 2 * POSINF - 1

InAtom(p, a) ==
  /\ IF a.lo THEN p > 2 * a.lb ELSE p >= 2 * a.lb
  /\ IF a.uo THEN p < 2 * a.ub ELSE p <= 2 * a.ub

Points(i) == {p \in Grid : \E k \in DOMAIN i : InAtom(p, i[k])}

SolidAtoms == {a \in AtomSet : ~EmptyAtom(a) /\ a.lb > NEGINF /\ a.ub < POSINF}

ClosedAtoms == {a \in SolidAtoms : ~a.lo /\ ~a.uo}
=============================================================================
