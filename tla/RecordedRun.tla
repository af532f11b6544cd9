---------------------------- MODULE RecordedRun ----------------------------
(***************************************************************************)
(* The verifier on histories recorded from an implementation under test:   *)
(* src/tool/runner/src/main.cpp gives every operation an identifier of its *)
(* own as thread, every added value is new, and the log holds all calls    *)
(* and returns in the order of their timestamps.  What a removal answers   *)
(* is up to the implementation, which may be wrong: any value, added or    *)
(* not, or empty.                                                          *)
(***************************************************************************)
EXTENDS Algorithms

\* The kinds of recording: an implementation and its runner.  A kind is a
\* record of
\*   needsSimpl   Configuration::needs_simpl.  FALSE for a log in which every
\*                removal names its value at the call: it is fed as it is
\*   adds, removals   at most so many in a history
\*   running      operations running at once: the runner's threads
\*   duplicates   TRUE: the implementation may remove a value twice
CONSTANT Kinds

\* The times of a history are far below ULLONG_MAX, and below End.
ASSUME KindsAssumption == \A k \in Kinds :
  /\ k.needsSimpl \in BOOLEAN /\ k.duplicates \in BOOLEAN
  /\ k.adds \in Nat /\ k.removals \in Nat
  /\ 2 * (k.adds + k.removals) < POSINF - 2

VARIABLES
  kind,     \* the kind of this recording
  pending   \* operation -> type, for the calls not yet returned

recVars == <<vars, kind, pending>>

Init ==
  /\ LinearizeInit
  /\ kind \in Kinds
  /\ pending = EmptyMap

Calls(types) == {k \in DOMAIN log : log[k].type \in types}

NextUid == Cardinality(Calls(AddTypes \cup RmvTypes))

Record(type, uid, v) == log' = Append(log, Event(type, uid, v, Len(log) + 1))

\* Values a removal can name: any, or, from an implementation that is careful
\* about that, any that none has named before.
Removed == {log[k].val : k \in Calls({"pop", "return"})} \ {NoVal}

Removable == {v \in 0 .. kind.adds - 1 : v \notin Removed \/ kind.duplicates}

CallPush ==
  /\ stage = "input"
  /\ Cardinality(DOMAIN pending) < kind.running
  /\ Cardinality(Calls({"push"})) < kind.adds
  /\ Record("push", NextUid, Cardinality(Calls({"push"})))
  /\ pending' = With(pending, NextUid, "push")
  /\ UNCHANGED <<kind, stage, events, verdict, monitorVars>>

CallPop ==
  /\ stage = "input"
  /\ Cardinality(DOMAIN pending) < kind.running
  /\ Cardinality(Calls({"pop"})) < kind.removals
  /\ \E v \in IF kind.needsSimpl THEN {NoVal} ELSE Removable :
       Record("pop", NextUid, v)
  /\ pending' = With(pending, NextUid, "pop")
  /\ UNCHANGED <<kind, stage, events, verdict, monitorVars>>

\* A push returns, or a removal that is empty or named its value at the call.
Return(uid) ==
  /\ stage = "input"
  /\ Record("return", uid, NoVal)
  /\ pending' = Without(pending, uid)
  /\ UNCHANGED <<kind, stage, events, verdict, monitorVars>>

ReturnValue(uid) ==
  /\ stage = "input"
  /\ kind.needsSimpl
  /\ pending[uid] = "pop"
  /\ \E v \in Removable : Record("return", uid, v)
  /\ pending' = Without(pending, uid)
  /\ UNCHANGED <<kind, stage, events, verdict, monitorVars>>

\* All threads are joined and the log is read back.
EndOfLog ==
  /\ stage = "input"
  /\ log # <<>> /\ pending = EmptyMap
  /\ IF kind.needsSimpl THEN stage' = "simplify" /\ UNCHANGED events
     ELSE stage' = "feed" /\ events' = log
  /\ UNCHANGED <<kind, log, pending, verdict, monitorVars>>

Next ==
  \/ CallPush \/ CallPop \/ EndOfLog
  \/ \E uid \in DOMAIN pending : Return(uid) \/ ReturnValue(uid)
  \/ Run /\ UNCHANGED <<kind, pending>>

Spec == Init /\ [][Next]_recVars

FairSpec == Spec /\ RunFairness

\* A simplified history is never answered with an internal error (a lookup of
\* a missing value, "Simplified history is still not simple"); one that is fed
\* as it is, only if it removes a value that is not there: twice, or before
\* its push has returned.
RemovesMissing(ops) ==
  \/ ~Differentiated(ops)
  \/ \E p \in Removals(ops) : \A o \in Adds(ops) : o.val = p.val => o.ret > p.ret

NoInternalError ==
  verdict = "error" => ~kind.needsSimpl /\ RemovesMissing(Operations(log))

\* The other half of the verdict: a linearizable history is answered OK if it
\* was simplified, and without simplification if in it no push overlaps the
\* pop of its value.
OverlapFree(ops) ==
  \A o \in Adds(ops), p \in Removals(ops) :
    o.val = p.val => o.ret < p.call \/ p.ret < o.call

LinearizableIsOk ==
  (stage = "done" /\ LinearizableStack(Operations(log))
    /\ (kind.needsSimpl \/ OverlapFree(Operations(log)))) => verdict = "ok"

----------------------------------------------------------------------------
(* Kinds for small instances. *)

\* All answers of an implementation that removes no value twice, and all of
\* one that may, where they name their values at the call.
SomeKinds ==
  {[needsSimpl |-> TRUE, adds |-> 2, removals |-> 3, running |-> 2,
    duplicates |-> FALSE],
   [needsSimpl |-> TRUE, adds |-> 2, removals |-> 2, running |-> 3,
    duplicates |-> FALSE],
   [needsSimpl |-> FALSE, adds |-> 3, removals |-> 3, running |-> 2,
    duplicates |-> TRUE]}

\* An implementation that removes values twice and answers at the return.
DuplicatingKind ==
  {[needsSimpl |-> TRUE, adds |-> 2, removals |-> 2, running |-> 4,
    duplicates |-> TRUE]}
=============================================================================
