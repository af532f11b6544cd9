---------------------------- MODULE GraphMonitor ----------------------------
(***************************************************************************)
(* The segment algorithm (src/tool/monitor/src/graphmonitor.cpp, graph.cpp *)
(* there): the handlers keep a ConstraintGraph, and do_linearization       *)
(* narrows the intervals of concurrent values against each other until     *)
(* nothing changes, looking for two values whose operations are in an      *)
(* order that the type forbids.                                            *)
(*                                                                         *)
(* The history has been simplified, so that a value is the pair of the     *)
(* thread that adds it and its index there.  The graph links each value to *)
(* at most one successor and one predecessor per thread: succ and pred map *)
(* threads to indices, and a thread is absent where the code has MAXIDX or *)
(* MINIDX.  Alongside, conc gathers the values that a value is to be       *)
(* compared with.  A value that preprocess() has dropped leaves an empty   *)
(* node in the code that nothing is compared with; it is left out.         *)
(***************************************************************************)
EXTENDS Integers, FiniteSetsExt, Intervals, Events

\* node_t and its seg_node: times are POSINF until the event happens.
EmptyNode ==
  [addCall |-> POSINF, addRet |-> POSINF, rmvCall |-> POSINF, rmvRet |-> POSINF,
   add |-> "NotStarted", rmv |-> "NotStarted", conc |-> {},
   first |-> EmptyMap, last |-> EmptyMap, succ |-> EmptyMap, pred |-> EmptyMap]

\* A graph for the values that a history names, and the monitor's own state.
GraphInit(vals) ==
  [nodes |-> [v \in vals |-> EmptyNode], height |-> 0,
   active |-> EmptyMap, lastEvt |-> EmptyMap,
   top    |-> EmptyMap,  \* thread -> index of its last value still linked
   barred |-> {},        \* threads t for which pemp_ok[t] is false
   order  |-> <<>>, result |-> "ok"]

Raise(g, kind) == [g EXCEPT !.result = kind]

----------------------------------------------------------------------------
(* Candidates for comparison. *)

\* get_first: the calls running when v begins an operation.
GetFirst(g, v) == [g EXCEPT !.nodes[v].first = g.active]

\* add_candidates: v is the last, and perhaps the first, that thread thr shows
\* to each running call.
AddCandidates(g, thr, v) ==
  LET running == {g.active[t] : t \in DOMAIN g.active}
  IN  [g EXCEPT !.nodes =
         [w \in DOMAIN @ |->
            IF w \notin running THEN @[w]
            ELSE [@[w] EXCEPT
                    !.last  = With(@, thr, v),
                    !.first = IF Has(@, thr) THEN @ ELSE With(@, thr, v)]]]

\* collect_candidates.
CollectCandidates(g, v) ==
  LET n == g.nodes[v]
  IN  [g EXCEPT !.nodes[v] =
         [n EXCEPT !.conc = @ \cup {n.first[t] : t \in DOMAIN n.first}
                              \cup {n.last[t] : t \in DOMAIN n.last},
                   !.first = EmptyMap, !.last = EmptyMap]]

----------------------------------------------------------------------------
(* The links. *)

Preds(n) == {<<t, n.pred[t]>> : t \in DOMAIN n.pred}
Succs(n) == {<<t, n.succ[t]>> : t \in DOMAIN n.succ}

\* What a new value may lie on, of one thread: its top, or while that is still
\* being added, the top's predecessor there.
Below(g, t) ==
  LET v == <<t, g.top[t]>>
  IN  IF g.nodes[v].add # "Called" THEN {v}
      ELSE {w \in Preds(g.nodes[v]) : w[1] = t}

\* The loop of add_call over top.
LinkNew(g, v) ==
  LET below  == UNION {Below(g, t) : t \in DOMAIN g.top}
      linked == {w \in below : \A u \in Succs(g.nodes[w]) : u[1] = v[1] => u[2] > v[2]}
  IN  [g EXCEPT !.nodes =
         [w \in DOMAIN @ |->
            IF w = v THEN [@[w] EXCEPT !.pred =
                             [t \in {u[1] : u \in linked} |->
                                (CHOOSE u \in linked : u[1] = t)[2]]]
            ELSE IF w \in linked THEN [@[w] EXCEPT !.succ = With(@, v[1], v[2])]
            ELSE @[w]]]

\* Link a under b unless one of them is linked to the other's thread.
Join(nodes, a, b) ==
  IF Has(nodes[a].succ, b[1]) \/ Has(nodes[b].pred, a[1]) THEN nodes
  ELSE [nodes EXCEPT ![a].succ = With(@, b[1], b[2]),
                     ![b].pred = With(@, a[1], a[2])]

\* ConstraintGraph::remove: v's neighbours lose their links to v's thread, and
\* those of v's thread are joined to the others.  The joins touch different
\* links, so that their order does not matter.
Unlink(g, v) ==
  LET n       == g.nodes[v]
      cut     == [w \in DOMAIN g.nodes |->
                    [g.nodes[w] EXCEPT
                       !.succ = IF w \in Preds(n) THEN Without(@, v[1]) ELSE @,
                       !.pred = IF w \in Succs(n) THEN Without(@, v[1]) ELSE @]]
      through == {p \in Preds(n) \X Succs(n) : v[1] \in {p[1][1], p[2][1]}}
  IN  [g EXCEPT
         !.nodes = FoldSet(LAMBDA p, nodes : Join(nodes, p[1], p[2]), cut, through),
         !.top   = IF ~Has(@, v[1]) \/ @[v[1]] # v[2] THEN @
                   ELSE IF Has(n.pred, v[1]) THEN With(@, v[1], n.pred[v[1]])
                   ELSE Without(@, v[1])]

\* check_stack_traps and check_queue_traps.
Trapped(g, adt, v) ==
  LET n == g.nodes[v]
  IN  IF adt = "stack"
      THEN \E w \in Succs(n) : LET s == g.nodes[w]
                               IN  /\ n.addRet < s.addCall
                                   /\ s.addRet < n.rmvCall
                                   /\ s.rmvCall = POSINF
      ELSE \E w \in Preds(n) : n.rmvRet < g.nodes[w].rmvCall

----------------------------------------------------------------------------
(* The graph at the call and the return of an addition, a removal and an
   empty removal.  The monitor's own active holds what the graph's holds. *)

AddCall(g, e) ==
  LET v == e.val
      h == [g EXCEPT !.nodes[v].addCall = e.ts, !.nodes[v].add = "Called",
                     !.active = With(@, v[1], v)]
  IN  IF g.nodes[v].add # "NotStarted" THEN Raise(g, "crash")
      ELSE [AddCandidates(GetFirst(LinkNew(h, v), v), v[1], v)
              EXCEPT !.top = With(@, v[1], v[2])]

AddRet(g, e) ==
  LET v == g.active[e.thread]
      h == [g EXCEPT !.nodes[v].addRet = e.ts, !.nodes[v].add = "Returned",
                     !.active = Without(@, v[1]), !.height = @ + 1]
  IN  IF g.nodes[v].add # "Called" THEN Raise(g, "crash")
      ELSE CollectCandidates(AddCandidates(h, v[1], v), v)

RmvCall(g, e) ==
  LET v == e.val
      h == [g EXCEPT !.nodes[v].rmvCall = e.ts, !.nodes[v].rmv = "Called",
                     !.active = With(@, e.thread, v), !.height = @ - 1,
                     !.barred = IF g.height - 1 <= 0 THEN {} ELSE @,
                     !.order  = Append(@, v)]
  IN  IF g.nodes[v].rmv # "NotStarted" THEN Raise(g, "violation")
      ELSE Unlink(AddCandidates(GetFirst(h, v), e.thread, v), v)

RmvRet(g, adt, e) ==
  LET v == g.active[e.thread]
      h == [g EXCEPT !.nodes[v].rmvRet = e.ts, !.nodes[v].rmv = "Returned",
                     !.active = Without(@, e.thread)]
  IN  IF g.nodes[v].rmv # "Called" THEN Raise(g, "crash")
      ELSE IF g.nodes[v].add = "NotStarted" \/ Trapped(h, adt, v)
      THEN Raise(g, "violation")
      ELSE CollectCandidates(AddCandidates(h, e.thread, v), v)

\* Mutant of EmptyCall: an empty removal is refused though the structure is
\* empty at its call.
EmptyCallBarred(g, e) == [g EXCEPT !.barred = @ \cup {e.thread}]

EmptyCall(g, e) ==
  [g EXCEPT !.barred = IF g.height <= 0 THEN @ \ {e.thread}
                       ELSE @ \cup {e.thread}]

EmptyRet(g, e) == IF e.thread \in g.barred THEN Raise(g, "violation") ELSE g

----------------------------------------------------------------------------
(* The monitor's events. *)


\* Graph values in the order of std::set<val_t>.
ValLess(v, w) == v[1] < w[1] \/ (v[1] = w[1] /\ v[2] < w[2])

\* Monitor::add_event, on a history in which calls and returns alternate.
GraphEvent(adt, g, e) ==
  LET h == [g EXCEPT !.lastEvt = With(@, e.thread, e.type)]
  IN  IF g.result # "ok" THEN g
      ELSE CASE e.type \in AddTypes -> AddCall(h, e)
             [] e.type \in RmvTypes /\ e.val # NoVal -> RmvCall(h, e)
             [] e.type \in RmvTypes /\ e.val = NoVal -> EmptyCall(h, e)
             [] g.lastEvt[e.thread] \in AddTypes -> AddRet(h, e)
             [] g.lastEvt[e.thread] \in RmvTypes ->
                  IF Has(g.active, e.thread) THEN RmvRet(h, adt, e)
                  ELSE EmptyRet(h, e)

GraphAfter(adt, events) ==
  FoldLeft(LAMBDA g, e : GraphEvent(adt, g, e),
           GraphInit({e.val : e \in {events[k] : k \in DOMAIN events}} \ {NoVal}),
           events)

\* The removals that never came: close_open.
CloseOpen(g) ==
  LET Closing(n) ==
        [n EXCEPT !.addRet  = IF n.add = "Called" THEN POSINF - 3 ELSE @,
                  !.rmvCall = IF n.rmv = "NotStarted" THEN POSINF - 2 ELSE @,
                  !.rmvRet  = IF n.rmv # "Returned" THEN POSINF - 1 ELSE @]
      present == {v \in DOMAIN g.nodes : g.nodes[v].rmv = "NotStarted"}
  IN  [g EXCEPT !.nodes = [v \in DOMAIN @ |-> Closing(@[v])],
                !.order = @ \o SetToSortSeq(present, ValLess)]

----------------------------------------------------------------------------
(* do_linearization.  Its state is a record: seg gives each value its two  *)
(* intervals and conc, and cmps is the stack of pairs to compare.          *)

SegmentNodes(g) ==
  [v \in DOMAIN g.nodes |->
     LET n == g.nodes[v]
     IN  [add |-> Closed(n.addCall, n.addRet), rmv |-> Closed(n.rmvCall, n.rmvRet),
          conc |-> n.conc]]

Precedes(i, j) == i.ub < j.lb

\* seg_node::overlaps: how many of the four pairs of intervals overlap.
NumOverlaps(a, b) ==
  Cardinality({p \in {"add", "rmv"} \X {"add", "rmv"} : Overlaps(a[p[1]], b[p[2]])})

OrderedAs(i, j, k, l) == Precedes(i, j) /\ Precedes(j, k) /\ Precedes(k, l)

\* invalid (segment.hpp).
Invalid(adt, a, b) ==
  \E p \in {<<a, b>>, <<b, a>>} :
    IF adt = "stack" THEN OrderedAs(p[1].add, p[2].add, p[1].rmv, p[2].rmv)
    ELSE OrderedAs(p[1].add, p[2].add, p[2].rmv, p[1].rmv)

\* add_cmps: values that overlap v once are compared with v, and v and they
\* leave each other's conc.
AddCmps(s, v) ==
  LET once == {w \in s.seg[v].conc : NumOverlaps(s.seg[v], s.seg[w]) = 1}
      new  == SetToSortSeq(once, ValLess)
  IN  [s EXCEPT !.cmps = @ \o [k \in DOMAIN new |-> <<v, new[k]>>],
                !.seg  = [w \in DOMAIN @ |->
                            IF w = v THEN [@[w] EXCEPT !.conc = @ \ once]
                            ELSE IF w \in once THEN [@[w] EXCEPT !.conc = @ \ {v}]
                            ELSE @[w]]]

\* Operation o of v takes place after operation p of w.
Narrow(seg, v, o, w, p) ==
  [seg EXCEPT ![v][o].lb = IF seg[w][p].lb > @ THEN seg[w][p].lb ELSE @,
              ![w][p].ub = IF seg[v][o].ub < @ THEN seg[v][o].ub ELSE @]

\* Mutant of NarrowPair: of two additions that overlap, that of the value
\* removed first comes first.
NarrowPairAsQueue(seg, v, c) ==
  IF Overlaps(seg[v].add, seg[c].add) /\ Precedes(seg[v].rmv, seg[c].rmv)
  THEN Narrow(seg, c, "add", v, "add") ELSE seg

\* The four cases of make_cmp, the same for stack and queue.
NarrowPair(seg, v, c) ==
  LET a == seg[v]  b == seg[c]
  IN  IF Overlaps(a.add, b.add)
      THEN IF Precedes(a.rmv, b.rmv) THEN Narrow(seg, v, "add", c, "add")
           ELSE Narrow(seg, c, "add", v, "add")
      ELSE IF Overlaps(a.add, b.rmv) THEN Narrow(seg, v, "add", c, "rmv")
      ELSE IF Overlaps(b.add, a.rmv) THEN Narrow(seg, c, "add", v, "rmv")
      ELSE IF Overlaps(a.rmv, b.rmv)
      THEN IF Precedes(a.add, b.add) THEN Narrow(seg, v, "rmv", c, "rmv")
           ELSE Narrow(seg, c, "rmv", v, "rmv")
      ELSE seg

\* make_cmp: compare again what was narrowed.
MakeCmp(s, v, c) ==
  LET seg        == NarrowPair(s.seg, v, c)
      Changed(w) == <<seg[w].add, seg[w].rmv>> # <<s.seg[w].add, s.seg[w].rmv>>
      Redo(t, w) == IF Changed(w) THEN AddCmps(t, w) ELSE t
  IN  Redo(Redo([s EXCEPT !.seg = seg], v), c)

\* The loop: "violation", or the nodes when no comparison is left.
Comparisons(vals) ==
  [seg    : [vals -> [add : AtomSet, rmv : AtomSet, conc : SUBSET vals]],
   cmps   : Seq(vals \X vals),
   failed : BOOLEAN]

Compare(adt, s) ==
  LET end[t \in Comparisons(DOMAIN s.seg)] ==
        IF t.cmps = <<>> THEN t
        ELSE LET v == Last(t.cmps)[1]
                 c == Last(t.cmps)[2]
             IN  IF /\ NumOverlaps(t.seg[v], t.seg[c]) # 1
                    /\ Invalid(adt, t.seg[v], t.seg[c])
                 THEN [t EXCEPT !.failed = TRUE]
                 ELSE end[MakeCmp([t EXCEPT !.cmps = Front(@)], v, c)]
  IN  end[s]

SegmentAnswer(adt, events) ==
  LET fed == GraphAfter(adt, events)
      g   == CloseOpen(fed)
      s   == FoldLeft(AddCmps,
                      [seg |-> SegmentNodes(g), cmps |-> <<>>, failed |-> FALSE],
                      g.order)
      end == Compare(adt, s)
  IN  IF fed.result # "ok" THEN fed.result
      ELSE IF end.failed \/ \E k \in DOMAIN g.order :
                  \E c \in end.seg[g.order[k]].conc :
                    Invalid(adt, end.seg[g.order[k]], end.seg[c])
      THEN "violation" ELSE "ok"
=============================================================================
