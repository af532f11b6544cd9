--------------------------- MODULE MCTreiberStack ---------------------------
(***************************************************************************)
(* Small instances of TreiberStack: what clients call.                     *)
(***************************************************************************)
EXTENDS TreiberStack, FiniteSetsExt

AddsOf(list) == Cardinality({i \in DOMAIN list : list[i] = 1})

CONSTANT MaxCalls  \* bound: of all threads together

\* The addresses suffice: new never fails.
Served(p) == MapThenSumSet(LAMBDA t : AddsOf(p[t]), Threads) <= Cardinality(Nodes)

\* Any client of ADTImpl.
Lists == UNION {[1 .. n -> {1, -1}] : n \in 0 .. NumOps}

\* Which thread has which list makes no difference: of the programs that
\* differ in that only, the one whose longest lists come first and, among the
\* equally long, those with most adds.
Weight(list) == Len(list) * (NumOps + 1) + AddsOf(list)
AnyPrograms ==
  {p \in [Threads -> Lists] :
     /\ Served(p)
     /\ MapThenSumSet(LAMBDA t : Len(p[t]), Threads) <= MaxCalls
     /\ \A t, u \in Threads : t < u => Weight(p[t]) >= Weight(p[u])}

\* The runner's lists: equally long, equally many adds, and list_valid.
RunnerPrograms ==
  {p \in [Threads -> {l \in [1 .. NumOps -> {1, -1}] : list_valid(l)}] :
     Served(p) /\ \A t, u \in Threads : AddsOf(p[t]) = AddsOf(p[u])}
=============================================================================
