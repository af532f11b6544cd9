--------------------------- MODULE RunnerThreads ---------------------------
(***************************************************************************)
(* The clients of an implementation: the threads of                        *)
(* src/tool/runner/src/main.cpp (thread_fn).  Each has a list of at most   *)
(* NumOps operations, 1 for an add and -1 for a rmv, drawn by main(), and  *)
(* calls them one after the other; its n-th add adds the value             *)
(* val_t(tid, n), so no two adds add the same value.                       *)
(***************************************************************************)
EXTENDS Integers, Sequences, FiniteSets, Events

CONSTANTS
  Threads,
  NumOps,    \* data_t::num_ops
  Programs   \* the lists of operations main() may have drawn

ASSUME NumOpsAssumption == NumOps \in Nat
ASSUME ProgramsAssumption ==
  \A p \in Programs :
    p \in [Threads -> Seq({1, -1})] /\ \A t \in Threads : Len(p[t]) <= NumOps

\* Mutant of list_valid: only the sum of the whole list counts.
list_valid_total(list) ==
  2 * Cardinality({i \in DOMAIN list : list[i] = 1}) >= Len(list)

\* "There must be at least as many pushes as pops at each point in time.."
list_valid(list) ==
  \A k \in 1 .. Len(list) :
    2 * Cardinality({i \in 1 .. k : list[i] = 1}) >= k

VARIABLES
  prog,  \* thread -> operations left in its list
  added  \* thread -> n, the adds it has called

clientVars == <<prog, added>>

Values == Threads \X (0 .. NumOps - 1)

ASSUME NoValAssumption == NoVal \notin Values

ClientInit ==
  /\ prog \in Programs
  /\ added = [t \in Threads |-> 0]

NextValue(t) == <<t, added[t]>>

\* Mutant of ClientAdd: the position in the list is not advanced.
ClientAddAgain(t) ==
  /\ prog[t] # <<>> /\ Head(prog[t]) = 1
  /\ added' = [added EXCEPT ![t] = @ + 1]
  /\ UNCHANGED prog

ClientAdd(t) ==
  /\ prog[t] # <<>> /\ Head(prog[t]) = 1
  /\ prog' = [prog EXCEPT ![t] = Tail(@)]
  /\ added' = [added EXCEPT ![t] = @ + 1]

ClientRmv(t) ==
  /\ prog[t] # <<>> /\ Head(prog[t]) = -1
  /\ prog' = [prog EXCEPT ![t] = Tail(@)]
  /\ UNCHANGED added

\* The indices a thread has used and may still use stay below NumOps.
ClientTypeOK ==
  /\ prog \in [Threads -> Seq({1, -1})]
  /\ added \in [Threads -> Nat]
  /\ \A t \in Threads : added[t] + Len(prog[t]) <= NumOps
=============================================================================
