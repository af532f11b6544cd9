------------------------------- MODULE Tester -------------------------------
(***************************************************************************)
(* What the exhaustive and the random tester have in common: two monitors  *)
(* are run on a generated history and their answers compared               *)
(* (src/tool/include/execution.hpp).                                       *)
(***************************************************************************)
EXTENDS Generator

CONSTANTS
  MaxThr,         \* the generator's max_conc
  AlgAnswer,      \* the answers of two monitors: history -> "lin", "viol" or
  CmpAnswer       \* "crash"

VARIABLES
  size,        \* how many processes there are
  n_elements,  \* "Number of values"
  at           \* process -> where it is in main()

Processes == 0 .. size - 1

Finished == \A p \in Processes : at[p] = "finished"

\* try_history: the second monitor is asked only if the first has not crashed.
TryHistory(h) ==
  IF "crash" \in {AlgAnswer[h], CmpAnswer[h]} THEN "MonitorCrash"
  ELSE IF AlgAnswer[h] # CmpAnswer[h] THEN "Mismatch"
  ELSE IF AlgAnswer[h] = "lin" THEN "MatchLin" ELSE "MatchViol"

AllHistories(n) == Prepended(n, MaxThr, <<0>>)
=============================================================================
