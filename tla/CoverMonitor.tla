---------------------------- MODULE CoverMonitor ----------------------------
(***************************************************************************)
(* The stack monitor: Monitor::add_event (src/tool/monitor/src/monitor.cpp)*)
(* dispatching to CoverMonitor's handlers, and do_linearization            *)
(* (covermonitor.cpp), whose while loop is one action per iteration.       *)
(*                                                                         *)
(* Exceptions are results: "violation" is a Violation, "error" any other   *)
(* exception.  The events come from a composing module.                    *)
(***************************************************************************)
EXTENDS CoverHistory, Events

VARIABLES
  lastEvt,    \* Monitor::lastEvt: thread -> type of its last event
  nConc,      \* Monitor::nConc: operations in progress
  maxConc,    \* Monitor::maxConc
  open,       \* CoverHistory::open: thread -> pending call event
  values,     \* CoverHistory::values
  empties,    \* CoverHistory::empties
  unmatched,  \* CoverHistory::unmatched_removes: value -> interval
  remaining,  \* the worklist lr.remaining of do_linearization
  result      \* "feeding", "linearizing", "ok", "violation" or "error"

historyVars == <<open, values, empties, unmatched>>
monitorVars == <<lastEvt, nConc, maxConc, historyVars, remaining, result>>

MonitorInit ==
  /\ lastEvt = EmptyMap
  /\ nConc = 0 /\ maxConc = 0
  /\ open = EmptyMap
  /\ values = {}
  /\ empties = <<>>
  /\ unmatched = EmptyMap
  /\ remaining = <<>>
  /\ result = "feeding"

Raise(kind) ==
  /\ result' = kind
  /\ UNCHANGED <<lastEvt, nConc, maxConc, historyVars, remaining>>

----------------------------------------------------------------------------
(* CoverHistory::add_ret, one case per pending call. *)

\* A push returned: pair it with a pop that returned the value before.
RetPush(call, itv) ==
  LET rm == IF Has(unmatched, call.val) THEN unmatched[call.val] ELSE End
  IN  /\ unmatched' = Without(unmatched, call.val)
      /\ values' = IF Overlaps(rm, itv) THEN values
                   ELSE values \cup {CoverVal(call.val, itv, End)}
      /\ UNCHANGED empties

\* A pop returned a value whose push has returned: an overlapping pair is
\* dropped, any other gets its removal interval.
RetPopKnown(v, itv) ==
  /\ values' = IF Overlaps(itv, v.add) THEN values \ {v}
               ELSE (values \ {v}) \cup {[v EXCEPT !.rmv = itv]}
  /\ UNCHANGED <<empties, unmatched>>

\* A pop returned a value whose push has not returned yet; the map is
\* indexed by the value of the return event.
RetPopUnknown(ret, itv) ==
  /\ unmatched' = With(unmatched, ret.val, itv)
  /\ UNCHANGED <<values, empties>>

RetPopEmpty(itv) ==
  /\ empties' = Append(empties, itv)
  /\ UNCHANGED <<values, unmatched>>

----------------------------------------------------------------------------
(* Monitor::add_event, with the handler it calls. *)

CallEvent(e) ==
  /\ e.type \in {"push", "pop"}
  /\ IF Has(lastEvt, e.thread) /\ lastEvt[e.thread] # "return"
     THEN Raise("error")
     ELSE /\ lastEvt' = With(lastEvt, e.thread, e.type)
          /\ open' = With(open, e.thread, e)
          /\ nConc' = nConc + 1
          /\ maxConc' = IF nConc' > maxConc THEN nConc' ELSE maxConc
          /\ UNCHANGED <<values, empties, unmatched, remaining, result>>

ReturnEvent(e) ==
  /\ e.type = "return"
  /\ IF ~Has(lastEvt, e.thread) \/ lastEvt[e.thread] = "return"
     THEN Raise("error")
     ELSE LET call  == open[e.thread]
              itv   == Closed(call.ts, e.ts)
              v     == IF e.val # NoVal THEN e.val ELSE call.val
              known == {w \in values : w.val = v}
              Done  == /\ lastEvt' = With(lastEvt, e.thread, "return")
                       /\ open' = Without(open, e.thread)
                       /\ nConc' = nConc - 1
                       /\ UNCHANGED <<maxConc, remaining, result>>
          IN  \/ call.type = "push" /\ RetPush(call, itv) /\ Done
              \/ /\ call.type = "pop" /\ v = NoVal
                 /\ RetPopEmpty(itv) /\ Done
              \/ /\ call.type = "pop" /\ v # NoVal /\ known = {}
                 /\ IF e.val = NoVal THEN Raise("error")
                    ELSE RetPopUnknown(e, itv) /\ Done
              \/ /\ call.type = "pop" /\ v # NoVal
                 /\ \E w \in known :
                      IF w.rmv # End THEN Raise("violation")
                      ELSE RetPopKnown(w, itv) /\ Done

AddEvent(e) == result = "feeding" /\ (CallEvent(e) \/ ReturnEvent(e))

----------------------------------------------------------------------------
(* CoverMonitor::do_linearization. *)

\* The checks before the loop and the first step(), which is made on the
\* monitor's own history.
StartLinearization ==
  /\ result = "feeding"
  /\ LET lr == Step(History(values, empties))
     IN  IF DOMAIN unmatched # {} THEN Raise("violation")
         ELSE IF ~Simple(values) THEN Raise("error")
         ELSE IF lr.violation THEN Raise("violation")
         ELSE /\ remaining' = lr.remaining
              /\ values' = IF empties = <<>> THEN MinmaxPrune(values)
                           ELSE values
              /\ result' = "linearizing"
              /\ UNCHANGED <<lastEvt, nConc, maxConc, open, empties, unmatched>>

\* One iteration: take the back of the worklist, step it, and put what
\* remains of it in front of the others (LinearizationResult::operator+).
LinearizeNext ==
  /\ result = "linearizing"
  /\ remaining # <<>>
  /\ LET lr == Step(Last(remaining))
     IN  IF lr.violation THEN Raise("violation")
         ELSE /\ remaining' = lr.remaining \o Front(remaining)
              /\ UNCHANGED <<lastEvt, nConc, maxConc, historyVars, result>>

FinishLinearization ==
  /\ result = "linearizing"
  /\ remaining = <<>>
  /\ result' = "ok"
  /\ UNCHANGED <<lastEvt, nConc, maxConc, historyVars, remaining>>

DoLinearization == StartLinearization \/ LinearizeNext \/ FinishLinearization
=============================================================================
