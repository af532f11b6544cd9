------------------------------ MODULE Simplify ------------------------------
(***************************************************************************)
(* What happens to a history between the parser and the monitor:           *)
(* simplify() (src/tool/events/src/convert.cpp) renumbers threads and      *)
(* values, moves the value a removal returned to its call, and rejects a   *)
(* removal that returned before the value's insertion was called;          *)
(* preprocess() (preproces.cpp) then drops the values of a stack history   *)
(* whose operations overlap.                                               *)
(*                                                                         *)
(* An event is a record [type, thread, val, ts].  Both functions make one  *)
(* pass (preprocess two) over the events: a fold whose state is the        *)
(* function's local variables.                                             *)
(***************************************************************************)
EXTENDS Events, SequencesExt, FiniteSets

----------------------------------------------------------------------------
(* simplify, with compactify at its default, true. *)

\* The least number no running operation uses.
FreeThread(active) == CHOOSE t \in 0 .. Cardinality(active) :
  t \notin active /\ \A u \in 0 .. t - 1 : u \in active

SimplifyInit ==
  [out |-> <<>>, failed |-> FALSE,
   active |-> {},                       \* new threads with a running call
   remap  |-> EmptyMap,         \* old thread -> new thread
   popmap |-> EmptyMap,         \* new thread -> index of its last pop
   maxi   |-> EmptyMap,         \* new thread -> values it has added
   valmap |-> EmptyMap]         \* value -> <<new thread, index>>

SimplifyAdd(s, e) ==
  LET thr == FreeThread(s.active)
      idx == IF thr \in DOMAIN s.maxi THEN s.maxi[thr] ELSE 0
      mv  == <<thr, idx>>
  IN  [s EXCEPT !.active = @ \cup {thr},
                !.remap  = With(@, e.thread, thr),
                !.maxi   = With(@, thr, idx + 1),
                !.valmap = With(@, e.val, mv),
                !.out    = Append(@, Event(e.type, thr, mv, e.ts))]

SimplifyRmv(s, e) ==
  LET thr == FreeThread(s.active)
  IN  [s EXCEPT !.active = @ \cup {thr},
                !.remap  = With(@, e.thread, thr),
                !.popmap = With(@, thr, Len(s.out) + 1),
                !.out    = Append(@, Event(e.type, thr, e.val, e.ts))]

\* The value of a removal may be on its call or on its return.  The entry of
\* popmap stays when the removal was empty.
SimplifyReturn(s, e) ==
  LET thr    == s.remap[e.thread]
      isRmv  == thr \in DOMAIN s.popmap /\ s.popmap[thr] > 0
      call   == s.out[s.popmap[thr]]
      v      == IF call.val # NoVal THEN call.val ELSE e.val
      ended  == [s EXCEPT !.active = @ \ {thr},
                          !.remap  = Without(@, e.thread)]
      return == Event("return", thr, NoVal, e.ts)
  IN  IF ~isRmv \/ v = NoVal THEN [ended EXCEPT !.out = Append(@, return)]
      ELSE IF v \notin DOMAIN s.valmap THEN [s EXCEPT !.failed = TRUE]
      ELSE [ended EXCEPT
              !.out = Append([@ EXCEPT ![s.popmap[thr]].val = s.valmap[v]],
                             return),
              !.popmap[thr] = 0]

SimplifyEvent(s, e) ==
  IF s.failed THEN s
  ELSE IF e.type \in AddTypes THEN SimplifyAdd(s, e)
  ELSE IF e.type \in RmvTypes THEN SimplifyRmv(s, e)
  ELSE SimplifyReturn(s, e)

----------------------------------------------------------------------------
(* preprocess, for a stack. *)

\* Mutant of MarkOverlap: an operation that has returned is still running.
MarkEarlier(s, e) ==
  IF e.type = "return" THEN s
  ELSE [running |-> With(s.running, e.thread, e.val),
        skip    |-> s.skip \cup
          {v \in {s.running[t] : t \in DOMAIN s.running} :
             v # NoVal /\ v = e.val}]

\* First pass: a call that carries the value of a running call marks it.
MarkOverlap(s, e) ==
  IF e.type = "return" THEN [s EXCEPT !.running = With(@, e.thread, NoVal)]
  ELSE [running |-> With(s.running, e.thread, e.val),
        skip    |-> s.skip \cup
          {v \in {s.running[t] : t \in DOMAIN s.running} :
             v # NoVal /\ v = e.val}]

OverlappingValues(events) ==
  FoldLeft(MarkOverlap, [running |-> EmptyMap, skip |-> {}],
           events).skip

\* Second pass: the calls with a marked value go, and their returns.
DropMarked(skip, s, e) ==
  IF e.val # NoVal
  THEN IF e.val \in skip THEN [s EXCEPT !.skipping = @ \cup {e.thread}]
       ELSE [s EXCEPT !.out = Append(@, e)]
  ELSE IF e.thread \in s.skipping
       THEN [s EXCEPT !.skipping = @ \ {e.thread}]
       ELSE [s EXCEPT !.out = Append(@, e)]

\* Mutant of Preprocess: overlapping operations stay.
PreprocessNothing(events) == events

Preprocess(events) ==
  LET skip == OverlappingValues(events)
  IN  FoldLeft(LAMBDA s, e : DropMarked(skip, s, e),
               [out |-> <<>>, skipping |-> {}], events).out

\* The whole of simplify: failed is the Violation "Rmv before Add".
SimplifyHistory(events, type) ==
  LET s == FoldLeft(SimplifyEvent, SimplifyInit, events)
  IN  [failed |-> s.failed,
       events |-> IF s.failed THEN <<>>
                  ELSE IF type = "stack" THEN Preprocess(s.out) ELSE s.out]
=============================================================================
