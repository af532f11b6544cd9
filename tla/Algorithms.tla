----------------------------- MODULE Algorithms -----------------------------
(***************************************************************************)
(* The monitors that the programs choose from (make_monitor in             *)
(* src/tool/include/algorithm.hpp) on one log.  The cover monitor makes    *)
(* the steps of Linearize; the answers of the queue monitor and of the     *)
(* segment algorithm are functions of the log, given here for a log that   *)
(* is about to be simplified.                                              *)
(***************************************************************************)
EXTENDS Linearize

Queue == INSTANCE QueueMonitor
Segment == INSTANCE GraphMonitor

\* The log of a queue: enqueues and dequeues for pushes and pops.
AsQueue(es) ==
  [k \in DOMAIN es |->
     [es[k] EXCEPT !.type = CASE @ = "push" -> "enq" [] @ = "pop" -> "deq"
                              [] OTHER -> @]]

\* make_monitor, and the run of the monitor on what simplify leaves.
Answer(alg, type, es) ==
  LET s == SimplifyHistory(es, type)
  IN  IF s.failed THEN "violation"
      ELSE IF alg = "segment" THEN Segment!SegmentAnswer(type, s.events)
      ELSE Queue!QueueAnswer(s.events)

----------------------------------------------------------------------------
(* Properties. *)

\* The log is complete and about to be simplified.
LogIsRead == stage = "simplify"

\* The segment algorithm is right about stacks: it answers OK exactly to the
\* linearizable logs, however its narrowing of pairs goes.
SegmentIsRight ==
  LogIsRead =>
    (Answer("segment", "stack", log) = "ok" <=> LinearizableStack(Operations(log)))

\* The same of queues, which GraphMonitor accepts as well.
SegmentIsRightOnQueues ==
  LogIsRead =>
    (Answer("segment", "queue", AsQueue(log)) = "ok"
       <=> LinearizableQueue(Operations(log)))

\* "The monitor for queues is QueueMonitor": a log it answers OK to is
\* linearizable.
QueueOkIsLinearizable ==
  LogIsRead => (Answer("cover", "queue", AsQueue(log)) = "ok"
                  => LinearizableQueue(Operations(log)))

\* Comparing outer with inner intervals is right about queues: a linearizable
\* log is never rejected, and any other is, if its dequeues are not empty, all
\* of its values are dequeued, and in the tree no node has a right child only.
AllRemoved(ops) == \A o \in Adds(ops) : \E p \in Removals(ops) : p.val = o.val

TreeOf(es) == Queue!QueueMonitorAfter(SimplifyHistory(es, "queue").events).tree

QueueIsRight ==
  LogIsRead =>
    LET answer == Answer("cover", "queue", AsQueue(log))
    IN  IF LinearizableQueue(Operations(log)) THEN answer # "violation"
        ELSE (AllRemoved(Operations(log)) /\ Queue!NoLeftGap(TreeOf(AsQueue(log))))
             => answer # "ok"
=============================================================================
