------------------------------ MODULE Testers ------------------------------
(***************************************************************************)
(* The programs exhaustive, automata_checker and random, one of which is   *)
(* run, and what they report.                                              *)
(***************************************************************************)
EXTENDS ExhaustiveTester, RandomTester

CONSTANTS
  Sizes,    \* program -> numbers of processes
  Lengths   \* numbers of values of a history

ASSUME ProgramsAssumption ==
  /\ DOMAIN Sizes \subseteq {"exhaustive", "automata_checker", "random"}
  /\ \A p \in DOMAIN Sizes : Sizes[p] \subseteq Nat \ {0}

\* Every beginning starts with the first value: there is at least one value.
ASSUME LengthsAssumption == Lengths \subseteq Nat \ {0}

VARIABLE program

testVars == <<exhVars, fails, randVars, program>>

\* The variables of the program that is not run.
NoExhaustive ==
  /\ gens = {} /\ thread_done = <<>> /\ flag = FALSE
  /\ num_finished = 0 /\ mismatches = 0 /\ crashes = 0 /\ from = 0 /\ left = <<>>
  /\ counter = <<>> /\ linearizable = <<>> /\ violations = <<>>
  /\ toRoot = <<>> /\ toWorker = <<>> /\ tested = <<>>
NoRandom ==
  /\ drawn = <<>> /\ my_mismatches = <<>> /\ my_crashes = <<>>
  /\ mismatch_files = <<>> /\ crash_files = <<>>

Init ==
  /\ program \in DOMAIN Sizes
  /\ CASE program = "exhaustive" ->
            ExhaustiveInit(Sizes[program], Lengths) /\ fails = 0 /\ NoRandom
       [] program = "automata_checker" -> CheckerInit(Sizes[program], Lengths) /\ NoRandom
       [] program = "random" ->
            RandomInit(Sizes[program], Lengths) /\ fails = 0 /\ NoExhaustive

ExhaustiveOnly == <<rootVars, workerVars, toRoot, toWorker>>
RandomOnly == <<drawn, my_mismatches, my_crashes, mismatch_files, crash_files>>

Next ==
  /\ \/ program = "exhaustive" /\ ExhaustiveNext /\ UNCHANGED <<fails, RandomOnly>>
     \/ program = "automata_checker" /\ CheckerNext /\ UNCHANGED RandomOnly
     \/ program = "random" /\ RandomNext /\ UNCHANGED <<fails, ExhaustiveOnly>>
  /\ UNCHANGED program

Spec == Init /\ [][Next]_testVars

\* As long as any process can go on, one does.  That is enough: every step but
\* an empty probe brings the programs nearer to their end.
FairSpec == Spec /\ WF_testVars(Next)

----------------------------------------------------------------------------

Exhausting == program # "random" /\ Workers # {} /\ Finished

\* When exhaustive or the automata checker ends, every history of the given size, on at most MaxThr
\* threads at a time, was tested, and none twice: the beginnings handed out
\* divide them, and no worker is sent home early.
EveryHistoryOnce == Exhausting => \A h \in DOMAIN tested : tested[h] = 1

\* What it reports adds up: the total is the number of histories, and each is
\* linearizable, a violation, a mismatch or a crash; the failures are those
\* that the automaton catches and both monitors accept.
TotalsAddUp ==
  Exhausting =>
    LET Sum(f) == MapThenSumSet(LAMBDA w : f[w], Workers)
    IN  /\ num_finished = Cardinality(DOMAIN tested)
        /\ num_finished = Sum(linearizable) + Sum(violations) + mismatches + crashes
        /\ fails = (IF program = "exhaustive" THEN 0
                    ELSE Cardinality({h \in DOMAIN tested : IsFailure(h)}))

\* The root leaves its loop only when it has received all that was sent to it,
\* and no worker is left waiting for an answer.
NothingUnreceived ==
  (program # "random" /\ at[0] \in {"reduce", "finished"}) =>
    \A w \in Workers : toRoot[w] = <<>> /\ toWorker[w] = <<>> /\ at[w] \notin {"answer", "data"}

\* random tests as many histories as it was told, and writes exactly those
\* with a mismatch and those with a crash, process after process.
FilesAreExact ==
  (program = "random" /\ Finished) =>
    LET With(r) == FlattenSeq([k \in 1 .. size |->
                     SelectSeq(drawn[k - 1], LAMBDA h : TryHistory(h) = r)])
    IN  /\ MapThenSumSet(LAMBDA p : Len(drawn[p]), Processes) = NumHistories
        /\ mismatch_files = With("Mismatch") /\ crash_files = With("MonitorCrash")

\* No process waits for ever, whether the sends wait or not.
AllFinish == <>Finished
=============================================================================
