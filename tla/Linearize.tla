----------------------------- MODULE Linearize -----------------------------
(***************************************************************************)
(* One run of the verifier on a stack history, as main() of                *)
(* src/tool/linearize/src/main.cpp strings it together: the log is         *)
(* simplified, its events are fed to the monitor one by one, and the       *)
(* monitor linearizes.  Where the log comes from is left to the modules    *)
(* that extend this one: they append to it while stage is "input".         *)
(***************************************************************************)
EXTENDS CoverMonitor, Simplify, Linearizability

VARIABLES
  stage,   \* "input", "simplify", "feed", "linearize" or "done"
  log,     \* the history as read: events with timestamps 1, 2, ...
  events,  \* what simplify left of it, not yet given to the monitor
  verdict  \* what the run prints: "none", "ok", "violation" or "error"

vars == <<stage, log, events, verdict, monitorVars>>

LinearizeInit ==
  /\ stage = "input"
  /\ log = <<>>
  /\ events = <<>>
  /\ verdict = "none"
  /\ MonitorInit

SimplifyLog ==
  /\ stage = "simplify"
  /\ LET s == SimplifyHistory(log, "stack")
     IN  /\ events' = s.events
         /\ verdict' = IF s.failed THEN "violation" ELSE verdict
         /\ stage' = IF s.failed THEN "done" ELSE "feed"
  /\ UNCHANGED <<log, monitorVars>>

\* A result other than "feeding" or "linearizing" ends the run.
Conclude ==
  IF result' \in {"ok", "violation", "error"}
  THEN stage' = "done" /\ verdict' = result'
  ELSE UNCHANGED <<stage, verdict>>

FeedEvent ==
  /\ stage = "feed"
  /\ events # <<>>
  /\ AddEvent(Head(events))
  /\ events' = Tail(events)
  /\ Conclude
  /\ UNCHANGED log

BeginLinearization ==
  /\ stage = "feed"
  /\ events = <<>>
  /\ StartLinearization
  /\ IF result' = "linearizing" THEN stage' = "linearize" /\ UNCHANGED verdict
     ELSE Conclude
  /\ UNCHANGED <<log, events>>

LinearizeStep ==
  /\ stage = "linearize"
  /\ LinearizeNext \/ FinishLinearization
  /\ Conclude
  /\ UNCHANGED <<log, events>>

\* The program has ended: any other state without a successor is a deadlock.
Ended == stage = "done" /\ UNCHANGED vars

Run == SimplifyLog \/ FeedEvent \/ BeginLinearization \/ LinearizeStep \/ Ended

----------------------------------------------------------------------------
(* The history as operations, for comparison with the reference. *)

\* The operations of a sequence of events: a call and its thread's next return.
Operations(es) ==
  {LET r == CHOOSE j \in k + 1 .. Len(es) :
              /\ es[j].thread = es[k].thread /\ es[j].type = "return"
              /\ \A m \in k + 1 .. j - 1 : es[m].thread # es[k].thread
   IN  [type |-> es[k].type,
        val  |-> IF es[k].val # NoVal THEN es[k].val ELSE es[r].val,
        call |-> es[k].ts, ret |-> es[r].ts] :
     k \in {i \in DOMAIN es : es[i].type # "return"}}

Adds(ops) == {o \in ops : o.type = "push"}
Removals(ops) == {o \in ops : o.type = "pop" /\ o.val # NoVal}

\* No value is removed twice, and no value that was never added is removed.
Differentiated(ops) ==
  \A o, p \in ops : (o.type = p.type /\ o.val = p.val /\ o.val # NoVal) => o = p

\* The operations a worklist item stands for.
ItemOperations(h) ==
  {[type |-> "push", val |-> v.val, call |-> v.add.lb, ret |-> v.add.ub] :
     v \in h.values}
  \cup {[type |-> "pop", val |-> v.val, call |-> v.rmv.lb, ret |-> v.rmv.ub] :
          v \in {w \in h.values : w.rmv # End}}
  \cup {[type |-> "pop", val |-> NoVal, call |-> h.empties[k].lb,
         ret |-> h.empties[k].ub] : k \in DOMAIN h.empties}

----------------------------------------------------------------------------
(* Properties. *)

\* Types, and what holds of them throughout: only calls that were seen are
\* open, and step() leaves no empty pop in the histories it makes.
TypeOK ==
  /\ stage \in {"input", "simplify", "feed", "linearize", "done"}
  /\ verdict \in {"none", "ok", "violation", "error"}
  /\ result \in {"feeding", "linearizing", "ok", "violation", "error"}
  /\ DOMAIN open \subseteq DOMAIN lastEvt
  /\ \A v \in values : v.add \in AtomSet /\ v.rmv \in AtomSet
  /\ \A k \in DOMAIN empties : empties[k] \in AtomSet
  /\ nConc \in Nat /\ maxConc \in Nat
  /\ \A k \in DOMAIN remaining :
       remaining[k] \in [values : SUBSET values, empties : {<<>>}]

\* The verdict is right: on a complete history in which no value is removed
\* twice, "OK" is printed exactly when the history is linearizable.
VerdictIsRight ==
  (stage = "done" /\ Differentiated(Operations(log))) =>
    (verdict = "ok" <=> LinearizableStack(Operations(log)))

\* Loop invariant of do_linearization: the history is linearizable if and
\* only if every history of the worklist is, so that the rounds may be made
\* in any order and each split or pruning loses and adds nothing.
WorklistIsEquivalent ==
  stage = "linearize" /\ Differentiated(Operations(log)) =>
    (LinearizableStack(Operations(log)) <=>
       \A k \in DOMAIN remaining :
         LinearizableStack(ItemOperations(remaining[k])))

\* Splitting a history never hands a value to both parts: no value is in two
\* histories of the worklist.
WorklistIsDisjoint ==
  \A j, k \in DOMAIN remaining :
    j # k => {v.val : v \in remaining[j].values}
               \cap {v.val : v \in remaining[k].values} = {}

\* Dropping overlapping push/pop pairs does not change the answer.
SimplifyIsEquivalent ==
  (stage = "feed" /\ open = EmptyMap /\ Differentiated(Operations(log))) =>
    (values = {} /\ empties = <<>> =>
       (LinearizableStack(Operations(log))
          <=> LinearizableStack(Operations(events))))

\* "A linearizability verifier for concurrent stacks": a history printed OK
\* is linearizable.
OkIsLinearizable ==
  (stage = "done" /\ verdict = "ok") => LinearizableStack(Operations(log))

(***************************************************************************)
(* Once it has its history the program runs straight through: weak         *)
(* fairness of Run, spelled out.  Run is enabled in every stage but        *)
(* "input", which the deadlock check of the runs confirms, and changes     *)
(* vars in every stage but "done"; TLC would spend exponential time to     *)
(* find that out from ENABLED.                                             *)
(***************************************************************************)
RunFairness == []<>(stage \in {"input", "done"}) \/ []<><<Run>>_vars

\* The loop of do_linearization, which puts the parts of what it takes from
\* the worklist back into it, ends, and with it every run.
Terminates == stage # "input" ~> stage = "done"
=============================================================================
