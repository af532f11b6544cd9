---------------------------- MODULE GeneratedRun ----------------------------
(***************************************************************************)
(* The verifier on the histories of the generator, as the exhaustive and   *)
(* random testers drive it (hist_from_ints and try_hist in                 *)
(* src/tool/include/execution.hpp, gen_histories and gen_single in         *)
(* generator.hpp).                                                         *)
(***************************************************************************)
EXTENDS Algorithms, Automaton

CONSTANTS
  NumValues,  \* the N of "exhaustive N"
  MaxConc     \* the generator's max_conc

VARIABLES state, indices

genVars == <<vars, state, indices>>

Init ==
  /\ LinearizeInit
  /\ state = AllPushed(NumValues)
  /\ indices = <<>>

\* One more event, any that possible_indices allows.
Generate ==
  /\ stage = "input"
  /\ \E i \in PossibleIndices(state, MaxConc) :
       /\ state' = [state EXCEPT ![i] = @ - 1]
       /\ indices' = Append(indices, i)
  /\ UNCHANGED vars

\* Every value is in state 0: hist_from_ints makes the history.
HandOver ==
  /\ stage = "input"
  /\ PossibleIndices(state, MaxConc) = {}
  /\ log' = MakeHistory(indices)
  /\ stage' = "simplify"
  /\ UNCHANGED <<state, indices, events, verdict, monitorVars>>

Next == Generate \/ HandOver \/ (Run /\ UNCHANGED <<state, indices>>)

Spec == Init /\ [][Next]_genVars

----------------------------------------------------------------------------
(* Property. *)

\* What the automata checker reports as a failure never happens: whatever the
\* automaton catches is not linearizable.  (The converse does not hold, and
\* the program has the check of it commented out.)
AutomatonIsSound ==
  (LogIsRead /\ CaughtByAutomaton(NumValues, indices)) =>
    ~LinearizableStack(Operations(log))
=============================================================================
