------------------------------ MODULE Automaton ------------------------------
(***************************************************************************)
(* The automaton of src/tool/automata_checker/src/main.cpp, which looks    *)
(* for a violation of the order of a stack: a pop of class 2 is called     *)
(* although, from the return of a first push of class 1 on, the stack is   *)
(* never without a value of class 1.  The values of a history are divided  *)
(* into three classes in every way; class 3 is ignored.                    *)
(***************************************************************************)
EXTENDS Generator

Transition(tp, op, class, target) ==
  [tp |-> tp, op |-> op, class |-> class, target |-> target]

automata ==
  [q0  |-> {Transition("call", "push", 1, "q0"), Transition("ret", "push", 1, "q1"),
            Transition("any", "any", 3, "q0")},
   q1  |-> {Transition("call", "push", 2, "q1"), Transition("ret", "pop", 1, "q1"),
            Transition("ret", "push", 1, "q11"), Transition("ret", "push", 2, "q11"),
            Transition("call", "pop", 2, "q2"), Transition("any", "any", 3, "q1")},
   q11 |-> {Transition("call", "pop", 1, "q1"), Transition("call", "pop", 2, "q1"),
            Transition("any", "any", 3, "q11")},
   q2  |-> {Transition("any", "any", 3, "q2"), Transition("ret", "pop", 2, "q2")}]

\* Mutant of Matches: a call and a return are not told apart.
MatchesAnyType(t, e) ==
  /\ t.op \in {"any", e.op}
  /\ t.class = e.class

Matches(t, e) ==
  /\ t.tp \in {"any", e.tp}
  /\ t.op \in {"any", e.op}
  /\ t.class = e.class

NextSteps(q, e) == {t.target : t \in {s \in automata[q] : Matches(s, e)}}

\* reaches_q2: some way through the automaton ends in q2; the code tries them
\* in depth, here the states after each event are a set.
ReachesQ2(q, evs) ==
  LET after[k \in 0 .. Len(evs)] ==
        IF k = 0 THEN {q}
        ELSE UNION {NextSteps(s, evs[k]) : s \in after[k - 1]}
  IN  "q2" \in after[Len(evs)]

\* get_partitions: the class of every value.  The code also gives a class to
\* n, which no history contains.
Partitions(n) == [0 .. n - 1 -> 1 .. 3]

\* aut_evs_from_ints.
AutEvsFromInts(P, indices) ==
  [k \in DOMAIN indices |->
     LET i    == indices[k]
         seen == Cardinality({j \in 1 .. k - 1 : indices[j] = i})
     IN  [tp    |-> IF seen \in {0, 2} THEN "call" ELSE "ret",
          op    |-> IF seen \in {0, 1} THEN "push" ELSE "pop",
          class |-> P[i]]]

\* rq2 of main(): the history of n values is caught by some partition.
CaughtByAutomaton(n, indices) ==
  \E P \in Partitions(n) : ReachesQ2("q0", AutEvsFromInts(P, indices))
=============================================================================
