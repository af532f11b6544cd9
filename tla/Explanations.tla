---------------------------- MODULE Explanations ----------------------------
(***************************************************************************)
(* Linearizability of a running object, decided as the calls and returns   *)
(* happen: explanations is the set of all states in which a sequential     *)
(* stack or queue may be, had each call taken effect at an instant of its  *)
(* own before it returned.  A return leaves those that account for its     *)
(* answer; the calls so far are linearizable as long as one is left.       *)
(* Nothing here models code.                                               *)
(***************************************************************************)
EXTENDS Sequences, FiniteSets, Naturals

CONSTANTS Threads, NoVal

Doing(op, v) == [op |-> op, val |-> v]
Idle == Doing("idle", NoVal)

\* The object starts empty, and no thread has called it.
NothingHappened == {[object |-> <<>>, doing |-> [t \in Threads |-> Idle]]}

\* The call of t takes effect in explanation e.  rmv takes the first value;
\* add puts its value first in a stack, last in a queue.
TakeEffect(adt, e, t) ==
  LET call == e.doing[t]
      rest == IF call.op = "add"
              THEN IF adt = "stack" THEN <<call.val>> \o e.object
                   ELSE Append(e.object, call.val)
              ELSE IF e.object = <<>> THEN <<>> ELSE Tail(e.object)
      ans  == IF call.op = "rmv" /\ e.object # <<>> THEN Head(e.object) ELSE NoVal
  IN  [object |-> rest, doing |-> [e.doing EXCEPT ![t] = Doing("did", ans)]]

\* All that may have happened by now: any of the running calls, in any order.
ByNow(adt, es) ==
  LET Further(fs) ==
        fs \cup {TakeEffect(adt, p[1], p[2]) :
                   p \in {q \in fs \X Threads :
                            q[1].doing[q[2]].op \in {"add", "rmv"}}}
      rounds[k \in 0 .. Cardinality(Threads)] ==
        IF k = 0 THEN es ELSE Further(rounds[k - 1])
  IN  rounds[Cardinality(Threads)]

AfterCall(es, t, op, v) ==
  {[e EXCEPT !.doing[t] = Doing(op, v)] : e \in es}

AfterReturn(adt, es, t, answer) ==
  {[e EXCEPT !.doing[t] = Idle] :
     e \in {f \in ByNow(adt, es) : f.doing[t] = Doing("did", answer)}}
=============================================================================
