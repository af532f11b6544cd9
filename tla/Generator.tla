----------------------------- MODULE Generator -----------------------------
(***************************************************************************)
(* The generator of histories (src/tool/include/generator.hpp): each of n  *)
(* values goes through push call, push return, pop call, pop return, its   *)
(* state counting 4, 3, 2, 1, 0.  A history is the sequence of the value   *)
(* indices in the order of their events.                                   *)
(***************************************************************************)
EXTENDS Naturals, Sequences, SequencesExt, FiniteSets

Pending(state) == {i \in DOMAIN state : state[i] \in {1, 3}}

\* possible_indices: any return, and, while fewer than maxConc operations
\* run, any pop call and the first push call.
PossibleIndices(state, maxConc) ==
  LET unpushed == {i \in DOMAIN state : state[i] = 4}
      calls    == {i \in DOMAIN state : state[i] = 2}
                  \cup {i \in unpushed : \A j \in unpushed : i <= j}
  IN  Pending(state)
      \cup (IF Cardinality(Pending(state)) < maxConc THEN calls ELSE {})

\* evt: the event of a value in the given state.
EvtType(s) ==
  CASE s = 4 -> "push" [] s = 3 -> "return" [] s = 2 -> "pop" [] s = 1 -> "return"

AllPushed(n) == [i \in 0 .. n - 1 |-> 4]

\* The state after the first events of a history of n values.
StateAfter(n, indices) ==
  [i \in 0 .. n - 1 |-> 4 - Cardinality({k \in DOMAIN indices : indices[k] = i})]

\* gen_histories: what a history may be one event later; one that is complete
\* stays.
Longer(n, maxConc, hs) ==
  UNION {LET next == PossibleIndices(StateAfter(n, h), maxConc)
         IN  IF next = {} THEN {h} ELSE {Append(h, i) : i \in next} : h \in hs}

\* create_generator_prepended, read to its end: the complete histories that
\* begin like h.  The order in which they are given is left out.
Prepended(n, maxConc, h) ==
  LET after[k \in 0 .. 4 * n - Len(h)] ==
        IF k = 0 THEN {h} ELSE Longer(n, maxConc, after[k - 1])
  IN  after[4 * n - Len(h)]

\* create_inits: equally long beginnings, at least minAmt if there are as many.
CreateInits(n, minAmt, maxConc) ==
  LET after[k \in 1 .. 4 * n] ==
        IF k = 1 THEN {<<0>>}
        ELSE UNION {IF Cardinality(hs) >= minAmt THEN hs ELSE Longer(n, maxConc, hs)
                      : hs \in {after[k - 1]}}
  IN  after[4 * n]

(***************************************************************************)
(* make_history and hist_from_ints (execution.hpp): the events of a        *)
(* sequence of indices, the value's index as thread and value, timestamps  *)
(* from 1.                                                                 *)
(***************************************************************************)
MakeHistory(indices) ==
  [k \in DOMAIN indices |->
     LET i    == indices[k]
         seen == Cardinality({j \in 1 .. k - 1 : indices[j] = i})
     IN  [type |-> EvtType(4 - seen), thread |-> i, val |-> i, ts |-> k]]
=============================================================================
