------------------------- MODULE MCImplementations -------------------------
(***************************************************************************)
(* Small instances of Implementations: what the threads call.              *)
(***************************************************************************)
EXTENDS Implementations, FiniteSetsExt

CONSTANTS MaxCallsOfTwo, MaxCallsOfThree

Lists == UNION {[1 .. n -> {1, -1}] : n \in 0 .. NumOps}

LengthOf(p) == MapThenSumSet(LAMBDA t : Len(p[t]), Threads)

SomePrograms == {p \in [Threads -> Lists] : LengthOf(p) <= MaxCallsOfTwo}

\* Where an operation goes to meet another only after it has failed on the
\* stack, two meet only if a third has made both fail.
SomeCalls(file) ==
  {p \in SomePrograms :
     IF file \in {"elim_backoff", "backoffelim"}
     THEN LengthOf(p) <= MaxCallsOfThree /\ \A t \in Threads : p[t] # <<>>
     ELSE /\ p[2] = <<>>
          /\ file \in {"tsstack", "tsstack_unlin"} => LengthOf(p) <= MaxCallsOfThree}
=============================================================================
