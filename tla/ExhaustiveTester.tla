-------------------------- MODULE ExhaustiveTester --------------------------
(***************************************************************************)
(* src/tool/exhaustive/src/main.cpp: process 0, the root, hands beginnings *)
(* of histories to the others on request; they test all histories that     *)
(* begin so and tell the root how many there were and which went wrong.    *)
(*                                                                         *)
(* MPI keeps the order of the messages between two processes.  A send may  *)
(* return at once or only when its message is received, as MPI likes; a    *)
(* probe may miss a message that is still under way.                       *)
(***************************************************************************)
EXTENDS Tester, Automaton

CONSTANT CountEvery  \* a worker reports its count so often, 10000 in the code

VARIABLES
  gens,              \* the beginnings that are not yet handed out
  thread_done, flag, num_finished, mismatches, crashes,  \* of the root
  from,              \* the worker to which it is about to send a beginning, or 0
  left,              \* worker -> the histories its generator has still to give
  counter, linearizable, violations,                               \* of the workers
  toRoot, toWorker,  \* worker -> the messages under way
  tested             \* history -> how often it was tested, a history variable

rootVars   == <<gens, thread_done, flag, num_finished, mismatches, crashes, from>>
workerVars == <<left, counter, linearizable, violations, tested>>
exhVars == <<size, n_elements, rootVars, workerVars, at, toRoot, toWorker>>

Workers == 1 .. size - 1

\* "Make more than needed": two for each pair of workers, if there are so many.
Beginnings(s, n) == CreateInits(n, (s - 1) * (s - 1) * 2, MaxThr)

ExhaustiveInit(sizes, lengths) ==
  /\ size \in sizes /\ n_elements \in lengths
  /\ gens = Beginnings(size, n_elements)
  /\ thread_done = [w \in Workers |-> FALSE] /\ flag = FALSE
  /\ num_finished = 0 /\ mismatches = 0 /\ crashes = 0 /\ from = 0
  /\ left = [w \in Workers |-> {}]
  /\ counter = [w \in Workers |-> 0]
  /\ linearizable = [w \in Workers |-> 0] /\ violations = [w \in Workers |-> 0]
  /\ at = [p \in Processes |-> IF p = 0 THEN "loop" ELSE "test"]
  /\ toRoot = [w \in Workers |-> <<>>] /\ toWorker = [w \in Workers |-> <<>>]
  /\ tested = [h \in AllHistories(n_elements) |-> 0]

----------------------------------------------------------------------------

\* waits: the sender waits until the message is received.
Message(tag, body, waits) == [tag |-> tag, body |-> body, waits |-> waits]

Waiting(channel) == \E k \in DOMAIN channel : channel[k].waits

Send(channel, tag, body) ==
  {Append(channel, Message(tag, body, waits)) : waits \in BOOLEAN}

----------------------------------------------------------------------------
(* The root. *)

RootRuns == \A w \in Workers : ~Waiting(toWorker[w])

\* Mutant of Looping: one worker that is done is enough.
LoopingAny == at[0] = "loop" /\ ~(flag = FALSE /\ \E w \in Workers : thread_done[w])

Looping == at[0] = "loop" /\ ~(flag = FALSE /\ \A w \in Workers : thread_done[w])

ProbeNothing ==
  /\ Looping /\ RootRuns
  /\ flag' = FALSE
  /\ UNCHANGED <<size, n_elements, gens, thread_done, num_finished,
                 mismatches, crashes, from, workerVars, at, toRoot, toWorker>>

\* The first message of w is found and received.
Receive(w, tag) ==
  /\ Looping /\ RootRuns
  /\ toRoot[w] # <<>> /\ Head(toRoot[w]).tag = tag
  /\ flag' = TRUE
  /\ toRoot' = [toRoot EXCEPT ![w] = Tail(@)]
  /\ UNCHANGED <<size, n_elements, gens, workerVars>>

ReceiveCount(w) ==
  /\ Receive(w, "COUNT")
  /\ num_finished' = num_finished + Head(toRoot[w]).body
  /\ UNCHANGED <<thread_done, mismatches, crashes, from, at, toWorker>>

ReceiveDone(w) ==
  /\ Receive(w, "STATUS") /\ Head(toRoot[w]).body = "DONE"
  /\ thread_done' = [thread_done EXCEPT ![w] = TRUE]
  /\ UNCHANGED <<num_finished, mismatches, crashes, from, at, toWorker>>

\* Mutants of ReceiveRequest: no answer when all is handed out; the last
\* beginning is never handed out.
ReceiveRequestSilent(w) ==
  /\ Receive(w, "STATUS") /\ Head(toRoot[w]).body = "REQUEST"
  /\ \E answered \in Send(toWorker[w], "STATUS", "REQUEST") :
       toWorker' = [toWorker EXCEPT ![w] = IF gens # {} THEN answered ELSE @]
  /\ IF gens # {} THEN from' = w /\ at' = [at EXCEPT ![0] = "data"]
     ELSE UNCHANGED <<from, at>>
  /\ UNCHANGED <<thread_done, num_finished, mismatches, crashes>>
ReceiveRequestEarly(w) ==
  /\ Receive(w, "STATUS") /\ Head(toRoot[w]).body = "REQUEST"
  /\ \E answered \in Send(toWorker[w], "STATUS",
                          IF Cardinality(gens) > 1 THEN "REQUEST" ELSE "DONE") :
       toWorker' = [toWorker EXCEPT ![w] = answered]
  /\ IF Cardinality(gens) > 1 THEN from' = w /\ at' = [at EXCEPT ![0] = "data"]
     ELSE UNCHANGED <<from, at>>
  /\ UNCHANGED <<thread_done, num_finished, mismatches, crashes>>

\* interrupted is always false: main() installs the handler that would set it
\* on SIGINT for SIGTERM only.
ReceiveRequest(w) ==
  /\ Receive(w, "STATUS") /\ Head(toRoot[w]).body = "REQUEST"
  /\ \E answered \in Send(toWorker[w], "STATUS",
                          IF gens # {} THEN "REQUEST" ELSE "DONE") :
       toWorker' = [toWorker EXCEPT ![w] = answered]
  /\ IF gens # {} THEN from' = w /\ at' = [at EXCEPT ![0] = "data"]
     ELSE UNCHANGED <<from, at>>
  /\ UNCHANGED <<thread_done, num_finished, mismatches, crashes>>

SendData(w) ==
  /\ at[0] = "data" /\ from = w /\ RootRuns
  /\ LET init == CHOOSE g \in gens : TRUE
     IN  /\ \E sent \in Send(toWorker[w], "DATA", init) :
              toWorker' = [toWorker EXCEPT ![w] = sent]
         /\ gens' = gens \ {init}
  /\ from' = 0
  /\ at' = [at EXCEPT ![0] = "loop"]
  /\ UNCHANGED <<size, n_elements, thread_done, flag, num_finished,
                 mismatches, crashes, workerVars, toRoot>>

\* The history is written to a file.
ReceiveMismatch(w) ==
  /\ Receive(w, "MISMATCH")
  /\ mismatches' = mismatches + 1
  /\ UNCHANGED <<thread_done, num_finished, crashes, from, at, toWorker>>

ReceiveCrash(w) ==
  /\ Receive(w, "CRASH")
  /\ crashes' = crashes + 1
  /\ UNCHANGED <<thread_done, num_finished, mismatches, from, at, toWorker>>

LeaveLoop ==
  /\ at[0] = "loop" /\ ~Looping /\ RootRuns
  /\ at' = [at EXCEPT ![0] = "reduce"]
  /\ UNCHANGED <<size, n_elements, rootVars, workerVars, toRoot, toWorker>>

----------------------------------------------------------------------------
(* The workers. *)

WorkerRuns(w) == ~Waiting(toRoot[w])

SendToRoot(w, tag, body) ==
  \E sent \in Send(toRoot[w], tag, body) : toRoot' = [toRoot EXCEPT ![w] = sent]

\* At first, and when the generator has given all its histories.
Request(w) ==
  /\ at[w] = "test" /\ left[w] = {} /\ WorkerRuns(w)
  /\ SendToRoot(w, "STATUS", "REQUEST")
  /\ at' = [at EXCEPT ![w] = "answer"]
  /\ UNCHANGED <<size, n_elements, rootVars, workerVars, toWorker>>

ReceiveAnswer(w) ==
  /\ at[w] = "answer" /\ WorkerRuns(w)
  /\ toWorker[w] # <<>> /\ Head(toWorker[w]).tag = "STATUS"
  /\ at' = [at EXCEPT ![w] = IF Head(toWorker[w]).body = "DONE" THEN "count" ELSE "data"]
  /\ toWorker' = [toWorker EXCEPT ![w] = Tail(@)]
  /\ UNCHANGED <<size, n_elements, rootVars, workerVars, toRoot>>

ReceiveData(w) ==
  /\ at[w] = "data"
  /\ toWorker[w] # <<>> /\ Head(toWorker[w]).tag = "DATA"
  /\ left' = [left EXCEPT ![w] = Prepended(n_elements, MaxThr, Head(toWorker[w]).body)]
  /\ at' = [at EXCEPT ![w] = "test"]
  /\ toWorker' = [toWorker EXCEPT ![w] = Tail(@)]
  /\ UNCHANGED <<size, n_elements, rootVars, counter, linearizable, violations,
                 tested, toRoot>>

\* Mutant of CountTested: the counter is not set back.
CountTestedOn(w) ==
  LET report == (counter[w] + 1) % CountEvery = 0
  IN  /\ IF report THEN SendToRoot(w, "COUNT", counter[w] + 1) ELSE UNCHANGED toRoot
      /\ counter' = [counter EXCEPT ![w] = @ + 1]

\* counter++, and from time to time the count is reported.
CountTested(w) ==
  LET report == (counter[w] + 1) % CountEvery = 0
  IN  /\ IF report THEN SendToRoot(w, "COUNT", counter[w] + 1) ELSE UNCHANGED toRoot
      /\ counter' = [counter EXCEPT ![w] = IF report THEN 0 ELSE @ + 1]

\* One history is tested; told gives what the root is told of each before it
\* is counted.
TestTelling(w, told) ==
  /\ at[w] = "test" /\ left[w] # {} /\ WorkerRuns(w)
  /\ LET h == CHOOSE g \in left[w] : TRUE
         Add(totals, r) == [totals EXCEPT ![w] = @ + (IF TryHistory(h) = r THEN 1 ELSE 0)]
     IN  /\ IF told[h] # "nothing"
            THEN /\ SendToRoot(w, told[h], h)
                 /\ at' = [at EXCEPT ![w] = "tested"]
                 /\ UNCHANGED counter
            ELSE CountTested(w) /\ UNCHANGED at
         /\ linearizable' = Add(linearizable, "MatchLin")
         /\ violations' = Add(violations, "MatchViol")
         /\ tested' = [tested EXCEPT ![h] = @ + 1]
         /\ left' = [left EXCEPT ![w] = @ \ {h}]
  /\ UNCHANGED <<size, n_elements, rootVars, toWorker>>

WentWrong(h) ==
  CASE TryHistory(h) = "Mismatch" -> "MISMATCH"
    [] TryHistory(h) = "MonitorCrash" -> "CRASH"
    [] OTHER -> "nothing"

Test(w) == TestTelling(w, [h \in left[w] |-> WentWrong(h)])

Count(w) ==
  /\ at[w] = "tested" /\ WorkerRuns(w)
  /\ CountTested(w)
  /\ at' = [at EXCEPT ![w] = "test"]
  /\ UNCHANGED <<size, n_elements, rootVars, left, linearizable, violations,
                 tested, toWorker>>

SendCount(w) ==
  /\ at[w] = "count"
  /\ SendToRoot(w, "COUNT", counter[w])
  /\ at' = [at EXCEPT ![w] = "status"]
  /\ UNCHANGED <<size, n_elements, rootVars, workerVars, toWorker>>

SendDone(w) ==
  /\ at[w] = "status" /\ WorkerRuns(w)
  /\ SendToRoot(w, "STATUS", "DONE")
  /\ at' = [at EXCEPT ![w] = "sent"]
  /\ UNCHANGED <<size, n_elements, rootVars, workerVars, toWorker>>

EnterReduce(w) ==
  /\ at[w] = "sent" /\ WorkerRuns(w)
  /\ at' = [at EXCEPT ![w] = "reduce"]
  /\ UNCHANGED <<size, n_elements, rootVars, workerVars, toRoot, toWorker>>

\* MPI_Reduce and MPI_Finalize: every process is there.
Finish ==
  /\ \A p \in Processes : at[p] = "reduce"
  /\ at' = [p \in Processes |-> "finished"]
  /\ UNCHANGED <<size, n_elements, rootVars, workerVars, toRoot, toWorker>>

----------------------------------------------------------------------------

RootReceives(w) ==
  ReceiveCount(w) \/ ReceiveDone(w) \/ ReceiveRequest(w) \/ ReceiveMismatch(w) \/ ReceiveCrash(w)

WorkerTalks(w) ==
  \/ Request(w) \/ ReceiveAnswer(w) \/ ReceiveData(w) \/ Count(w)
  \/ SendCount(w) \/ SendDone(w) \/ EnterReduce(w)

ExhaustiveNext ==
  \/ ProbeNothing \/ LeaveLoop \/ Finish
  \/ \E w \in Workers : RootReceives(w) \/ SendData(w) \/ WorkerTalks(w) \/ Test(w)

----------------------------------------------------------------------------
(***************************************************************************)
(* The program src/tool/automata_checker/src/main.cpp: the exhaustive      *)
(* tester over again, which also runs the automaton on every history and   *)
(* tells the root of those that it catches though both monitors find them  *)
(* linearizable.                                                           *)
(***************************************************************************)
VARIABLE fails  \* of the root

CheckerInit(sizes, lengths) == ExhaustiveInit(sizes, lengths) /\ fails = 0

IsFailure(h) == TryHistory(h) = "MatchLin" /\ CaughtByAutomaton(n_elements, h)

ReceiveFail(w) ==
  /\ Receive(w, "AUTOMATA_FAIL")
  /\ fails' = fails + 1
  /\ UNCHANGED <<thread_done, num_finished, mismatches, crashes, from, at, toWorker>>

\* The loop of the root.
CheckerRoot ==
  \/ \E w \in Workers : ReceiveFail(w)
  \/ /\ \/ ProbeNothing \/ LeaveLoop
        \/ \E w \in Workers : RootReceives(w) \/ SendData(w)
     /\ UNCHANGED fails

CheckerTest(w) ==
  TestTelling(w, [h \in left[w] |->
                    IF IsFailure(h) THEN "AUTOMATA_FAIL" ELSE WentWrong(h)])

\* The loop of a worker, and its farewell.
CheckerWorker(w) == (CheckerTest(w) \/ WorkerTalks(w)) /\ UNCHANGED fails

CheckerNext ==
  \/ CheckerRoot
  \/ \E w \in Workers : CheckerWorker(w)
  \/ Finish /\ UNCHANGED fails
=============================================================================
