---------------------------- MODULE RandomTester ----------------------------
(***************************************************************************)
(* src/tool/random/src/main.cpp: every process, the root included, tests   *)
(* its share of random histories; then the root gathers those that went    *)
(* wrong, as one array of indices, cuts it into histories and writes them. *)
(***************************************************************************)
EXTENDS Tester, FiniteSetsExt

CONSTANTS
  Drawn,         \* bound: what create_single may give for a size
  NumHistories   \* "Number of tests"

VARIABLES
  drawn,                        \* process -> the histories it has tested
  my_mismatches, my_crashes,    \* process -> their indices, one after another
  mismatch_files, crash_files   \* what the root writes

randVars == <<size, n_elements, at, drawn, my_mismatches, my_crashes,
              mismatch_files, crash_files>>

RandomInit(sizes, lengths) ==
  /\ size \in sizes /\ n_elements \in lengths
  /\ at = [p \in Processes |-> "draw"]
  /\ drawn = [p \in Processes |-> <<>>]
  /\ my_mismatches = [p \in Processes |-> <<>>]
  /\ my_crashes = [p \in Processes |-> <<>>]
  /\ mismatch_files = <<>> /\ crash_files = <<>>

NumSelf(p) ==
  NumHistories \div size + (IF p < NumHistories % size THEN 1 ELSE 0)

Draw(p) ==
  /\ at[p] = "draw" /\ Len(drawn[p]) < NumSelf(p)
  /\ \E h \in Drawn[n_elements] :
       LET Add(to, r) == IF TryHistory(h) = r THEN [to EXCEPT ![p] = @ \o h] ELSE to
       IN  /\ drawn' = [drawn EXCEPT ![p] = Append(@, h)]
           /\ my_mismatches' = Add(my_mismatches, "Mismatch")
           /\ my_crashes' = Add(my_crashes, "MonitorCrash")
  /\ UNCHANGED <<size, n_elements, at, mismatch_files, crash_files>>

EnterGather(p) ==
  /\ at[p] = "draw" /\ Len(drawn[p]) = NumSelf(p)
  /\ at' = [at EXCEPT ![p] = "gather"]
  /\ UNCHANGED <<size, n_elements, drawn, my_mismatches, my_crashes,
                 mismatch_files, crash_files>>

\* The start of each process's part of the root's array.
Displs(mine) == [p \in Processes |-> MapThenSumSet(LAMBDA q : Len(mine[q]), 0 .. p - 1)]

\* MPI_Gatherv: each process's part goes to its place.
Gathered(mine, displs) ==
  [k \in 1 .. MapThenSumSet(LAMBDA q : Len(mine[q]), Processes) |->
     LET p == CHOOSE q \in Processes : k - displs[q] \in DOMAIN mine[q]
     IN  mine[p][k - displs[p]]]

\* Mutant of Files: the array is taken to end one index earlier.
FilesShort(array) ==
  [i \in 1 .. (Len(array) - 1) \div (4 * n_elements) |->
     SubSeq(array, (i - 1) * 4 * n_elements + 1, i * 4 * n_elements)]

Files(array) ==
  [i \in 1 .. Len(array) \div (4 * n_elements) |->
     SubSeq(array, (i - 1) * 4 * n_elements + 1, i * 4 * n_elements)]

Gather ==
  /\ \A p \in Processes : at[p] = "gather"
  /\ mismatch_files' = Files(Gathered(my_mismatches, Displs(my_mismatches)))
  /\ crash_files' = Files(Gathered(my_crashes, Displs(my_crashes)))
  /\ at' = [p \in Processes |-> "finished"]
  /\ UNCHANGED <<size, n_elements, drawn, my_mismatches, my_crashes>>

RandomNext == Gather \/ \E p \in Processes : Draw(p) \/ EnterGather(p)
=============================================================================
