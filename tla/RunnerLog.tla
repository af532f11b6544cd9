------------------------------ MODULE RunnerLog ------------------------------
(***************************************************************************)
(* From the threads to the verdict: the log that the runner recorded of a  *)
(* correct stack goes through write_file and read_log                      *)
(* (src/tool/events/src/io.cpp) to the verifier.  The values are written   *)
(* as names, so the log needs simplification.                              *)
(***************************************************************************)
EXTENDS Recorder, Linearize

runnerVars == <<recorderVars, vars>>

Init == RecorderInit /\ LinearizeInit

Record == stage = "input" /\ RecorderNext /\ UNCHANGED vars

HandOver ==
  /\ stage = "input"
  /\ Recorded
  /\ log' = evts
  /\ stage' = "simplify"
  /\ UNCHANGED <<recorderVars, events, verdict, monitorVars>>

Next == Record \/ HandOver \/ (Run /\ UNCHANGED recorderVars)

Spec == Init /\ [][Next]_runnerVars

\* A correct stack is never accused: unless the clock gave two equal readings,
\* the verifier answers OK to what the runner recorded.
NeverAccused == (stage = "done" /\ ~tied) => verdict = "ok"

\* The runner's lists: equally long, equally many adds, and list_valid.
RunnerLists ==
  {p \in [Threads -> {l \in [1 .. NumOps -> {1, -1}] : list_valid(l)}] :
     \A t, u \in Threads :
       Cardinality({i \in DOMAIN p[t] : p[t][i] = 1})
         = Cardinality({i \in DOMAIN p[u] : p[u][i] = 1})}
=============================================================================
