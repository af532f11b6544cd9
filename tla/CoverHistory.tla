---------------------------- MODULE CoverHistory ----------------------------
(***************************************************************************)
(* The data of the stack algorithm: a CoverHistory is a set of values,     *)
(* each with the interval of its push and of its pop, and the intervals of *)
(* the pops that returned empty.  The code is                              *)
(* src/tool/events/src/coverhistory.cpp, src/tool/include/coverhistory.h   *)
(* and step() in src/tool/monitor/src/coverlin.cpp.                        *)
(*                                                                         *)
(* std::set<CoverVal> is a set of records: its order (add.ubound) never    *)
(* identifies two values, since every event has a timestamp of its own.    *)
(***************************************************************************)
EXTENDS Intervals, FiniteSets

CoverVal(v, add, rmv) == [val |-> v, add |-> add, rmv |-> rmv]

History(vs, es) == [values |-> vs, empties |-> es]

\* CoverVal::cover: from the end of the push to the start of the pop.
CoverOf(cv) == Closed(cv.add.ub, cv.rmv.lb)

\* The k-th value in the order of the set.
Earlier(vs, v) == {w \in vs : w.add.ub < v.add.ub}
Nth(vs, k) == CHOOSE v \in vs : Cardinality(Earlier(vs, v)) = k - 1

\* CoverHistory::cover, in the order of the set.
Cover(vs) == MkInterval([k \in 1 .. Cardinality(vs) |-> CoverOf(Nth(vs, k))])

Simple(vs) == \A v \in vs : ~Overlaps(v.add, v.rmv)

\* Mutants of Minmax: only the push, or only the pop, is looked at; the push
\* must end, and the pop start, before the others rather than the reverse.
MinmaxPushOnly(vs) ==
  {v \in vs : \A w \in vs : CoverOf(w).lb >= v.add.lb}
MinmaxPopOnly(vs) ==
  {v \in vs : \A w \in vs : CoverOf(w).ub <= v.rmv.ub}
MinmaxSurely(vs) ==
  {v \in vs : \A w \in vs : /\ CoverOf(w).lb >= v.add.ub
                            /\ CoverOf(w).ub <= v.rmv.lb}

(***************************************************************************)
(* minmax: the values whose push may come first and whose pop may come     *)
(* last.  With lb and ub from cover_bounds, add.lbound <= lb says that the *)
(* push starts before every push has ended, rmv.ubound >= ub that the pop  *)
(* ends after every pop has started.                                       *)
(***************************************************************************)
Minmax(vs) ==
  {v \in vs : \A w \in vs : /\ CoverOf(w).lb >= v.add.lb
                            /\ CoverOf(w).ub <= v.rmv.ub}

\* minmax_prune: minmax values are removed until there are none.
MinmaxPrune(vs) ==
  LET rest[k \in 0 .. Cardinality(vs)] ==
        IF k = 0 THEN vs ELSE rest[k - 1] \ Minmax(rest[k - 1])
  IN  rest[Cardinality(vs)]

\* Mutant of Before: a value must be removed before the gap ends up in front.
BeforeByRemoval(v, i) == v.rmv.lb <= i.lb /\ v.rmv.ub < i.lb

\* split: the values that can be over before the gap i, and the others.
Before(v, i) == v.add.ub < i.lb \/ v.rmv.lb <= i.lb

\* Mutant of Split: the second part keeps the values of the first.
SplitKeeping(vs, i) ==
  <<History({v \in vs : Before(v, i)}, <<>>), History(vs, <<>>)>>

Split(vs, i) ==
  LET L == {v \in vs : Before(v, i)}
  IN  <<History(L, <<>>), History(vs \ L, <<>>)>>

\* Mutant of Segmentize: what is split off is put in front of the whole again.
SegmentizeWhole(h, gaps) ==
  FoldLeft(LAMBDA segs, i :
             LET parts == Split(Last(segs).values, i)
             IN  Front(segs) \o <<parts[1], h>>,
           <<h>>, gaps)

\* segmentize: split off the part before each gap in turn.
Segmentize(h, gaps) ==
  FoldLeft(LAMBDA segs, i :
             LET parts == Split(Last(segs).values, i)
             IN  Front(segs) \o parts,
           <<h>>, gaps)

----------------------------------------------------------------------------
(***************************************************************************)
(* step(): one round on one history.  It answers a LinRes: a violation, or *)
(* the histories that remain to be linearized.                             *)
(***************************************************************************)
LinRes(rem) == [violation |-> FALSE, remaining |-> rem]

LinViolation == [violation |-> TRUE, remaining |-> <<>>]

LastOp(h) == IF h.empties # <<>> THEN "PopEmpty"
             ELSE IF h.values # {} THEN "PushPop" ELSE "Epsilon"

\* The first gap of the cover that an empty pop overlaps, or Nil.
FirstMatch(gaps, e) ==
  LET k == SelectInSeq(gaps, LAMBDA i : Overlaps(i, e))
  IN  IF k = 0 THEN Nil ELSE gaps[k]

StepPopEmpty(h) ==
  LET gaps     == Complement(Cover(h.values))
      openings == [k \in DOMAIN h.empties |-> FirstMatch(gaps, h.empties[k])]
  IN  IF \E k \in DOMAIN openings : EmptyAtom(openings[k])
      THEN LinViolation
      ELSE LinRes(Segmentize(h, MkInterval(openings)))

\* Mutant of StepPushPop: a cover without a gap is no reason to stop.
StepSplitAlways(h) ==
  LET pruned == MinmaxPrune(h.values)
  IN  IF pruned # h.values THEN LinRes(<<History(pruned, <<>>)>>)
      ELSE LinRes(Split(h.values, Complement(Cover(h.values))[2]))

StepPushPop(h) ==
  LET pruned == MinmaxPrune(h.values)
      cov    == Cover(h.values)
  IN  IF pruned # h.values THEN LinRes(<<History(pruned, <<>>)>>)
      ELSE IF IsAtomic(cov) THEN LinViolation
      ELSE LinRes(Split(h.values, Complement(cov)[2]))

Step(h) ==
  CASE LastOp(h) = "Epsilon"  -> LinRes(<<>>)
    [] LastOp(h) = "PopEmpty" -> StepPopEmpty(h)
    [] LastOp(h) = "PushPop"  -> StepPushPop(h)
=============================================================================
