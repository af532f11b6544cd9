---------------------------- MODULE QueueMonitor ----------------------------
(***************************************************************************)
(* The queue monitor (src/tool/monitor/src/queuemonitor.cpp) as a fold     *)
(* over the events of a history: inner holds, for each value, the interval *)
(* from the return of its enqueue to the call of its dequeue, outer the    *)
(* one from the call of its enqueue to the return of its dequeue.  A       *)
(* history is rejected when some value's outer interval lies inside the    *)
(* inner interval of another.                                              *)
(***************************************************************************)
EXTENDS IntervalTree, Events, SequencesExt

CONSTANT POSINF

QueueInit ==
  [active |-> EmptyMap, inner |-> EmptyMap, outer |-> EmptyMap,
   tree |-> EmptyTree, failed |-> FALSE]

\* ensure_member.
Known(itvs, v) == IF Has(itvs, v) THEN itvs ELSE With(itvs, v, [lb |-> 0, ub |-> POSINF])

SetLower(itvs, v, ts) == [Known(itvs, v) EXCEPT ![v].lb = ts]
SetUpper(itvs, v, ts) == [Known(itvs, v) EXCEPT ![v].ub = ts]

HandleEnq(m, e) ==
  [m EXCEPT !.active = With(@, e.thread, e.val),
            !.inner  = Known(@, e.val),
            !.outer  = SetLower(@, e.val, e.ts)]

\* Mutant of AddVal: the interval is entered as soon as it has one end.
AddValEarly(m, v) == [m EXCEPT !.tree = Insert(@, m.inner[v])]

\* add_val, once both ends of the inner interval are known.
AddVal(m, v) ==
  IF m.inner[v].ub < POSINF /\ m.inner[v].lb > 0
  THEN [m EXCEPT !.tree = Insert(@, m.inner[v])] ELSE m

\* Mutant of HandleRetEnq: the inner interval begins with the call.
HandleRetEnqCall(m, e) ==
  LET v == m.active[e.thread]
  IN  AddVal([m EXCEPT !.inner = SetLower(@, v, m.outer[v].lb)], v)

HandleRetEnq(m, e) ==
  LET v == m.active[e.thread]
  IN  AddVal([m EXCEPT !.inner = SetLower(@, v, e.ts)], v)

\* The value of an empty dequeue is asked for: std::bad_optional_access.
HandleDeq(m, e) ==
  IF e.val = NoVal THEN [m EXCEPT !.failed = TRUE]
  ELSE AddVal([m EXCEPT !.active = With(@, e.thread, e.val),
                        !.inner  = SetUpper(@, e.val, e.ts),
                        !.outer  = Known(@, e.val)], e.val)

HandleRetDeq(m, e) ==
  LET v == m.active[e.thread] IN [m EXCEPT !.outer = SetUpper(@, v, e.ts)]

\* Monitor::add_event, on a history in which calls and returns alternate.
QueueEvent(s, e) ==
  IF s.m.failed THEN s
  ELSE [lastEvt |-> With(s.lastEvt, e.thread, e.type),
        m |-> CASE e.type = "enq" -> HandleEnq(s.m, e)
                [] e.type = "deq" -> HandleDeq(s.m, e)
                [] s.lastEvt[e.thread] = "enq" -> HandleRetEnq(s.m, e)
                [] s.lastEvt[e.thread] = "deq" -> HandleRetDeq(s.m, e)]

QueueMonitorAfter(events) ==
  FoldLeft(QueueEvent, [lastEvt |-> EmptyMap, m |-> QueueInit], events).m

\* do_linearization.
QueueAnswer(events) ==
  LET m == QueueMonitorAfter(events)
  IN  IF m.failed THEN "error"
      ELSE IF \E v \in DOMAIN m.outer : ContainsItv(m.tree, m.tree.root, m.outer[v])
      THEN "violation" ELSE "ok"
=============================================================================
