------------------------------- MODULE Events -------------------------------
(***************************************************************************)
(* Events of a history (src/tool/include/event.h, typedef.h) and the maps  *)
(* (std::map) the code keeps from threads or values: functions whose       *)
(* domain is the set of keys present.                                      *)
(***************************************************************************)
EXTENDS Naturals, Sequences

CONSTANT NoVal  \* an optval_t that holds nothing

\* It is neither a value of a log nor one that simplify() makes.
ASSUME OptValAssumption == NoVal \notin Nat /\ NoVal \notin Nat \X Nat

AddTypes == {"push", "enq"}
RmvTypes == {"pop", "deq"}

Event(type, thread, val, ts) ==
  [type |-> type, thread |-> thread, val |-> val, ts |-> ts]

EmptyMap == [k \in {} |-> k]
Has(map, key) == key \in DOMAIN map
With(map, key, x) == [k \in DOMAIN map \cup {key} |-> IF k = key THEN x ELSE map[k]]
Without(map, key) == [k \in DOMAIN map \ {key} |-> map[k]]
=============================================================================
