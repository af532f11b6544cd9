--------------------------- MODULE Implementation ---------------------------
(***************************************************************************)
(* What the implementations under test have in common: the interface       *)
(* ADTImpl (src/tool/include/impl.h) and the threads that call it.  An     *)
(* implementation is a module that says what its constructor leaves in     *)
(* mem and what the steps of its add and rmv are.                          *)
(*                                                                         *)
(* A step is one access to the shared memory, or one that makes several    *)
(* if at most one of them is to memory that others write.  A return is     *)
(* part of the last step: to return earlier is what makes an answer        *)
(* hardest to explain.                                                     *)
(*                                                                         *)
(* explanations and flaws are history variables that no guard reads.       *)
(***************************************************************************)
EXTENDS RunnerThreads

CONSTANTS
  Null,    \* nullptr
  Garbage  \* what may be read from memory that was deleted

\* Objects are numbered from 1.
ASSUME PointersAssumption == Null \notin Nat /\ Garbage \notin Nat

VARIABLES
  mem,           \* ADTImpl::state and adt: a record
  pc,            \* thread -> where it is in add or rmv
  loc,           \* thread -> its local variables: a record
  explanations,  \* see Explanations
  flaws,         \* what the code did that it should not have done
  crashed,       \* the program was aborted or has run into nullptr
  destroyed      \* ~ADTImpl has run

implVars ==
  <<clientVars, mem, pc, loc, explanations, flaws, crashed, destroyed>>

Object == INSTANCE Explanations

NoLocals == [none |-> Null]

\* ADTImpl(tid_t num_threads): start is what it makes of mem.
ImplementationInit(start) ==
  /\ mem = start
  /\ pc = [t \in Threads |-> "idle"]
  /\ loc = [t \in Threads |-> NoLocals]
  /\ explanations = Object!NothingHappened
  /\ flaws = {} /\ crashed = FALSE /\ destroyed = FALSE

Go(t, place, m, l) ==
  /\ mem' = m
  /\ pc' = [pc EXCEPT ![t] = place]
  /\ loc' = [loc EXCEPT ![t] = l]

CallAdd(t, place, m, l) ==
  /\ pc[t] = "idle" /\ ClientAdd(t)
  /\ Go(t, place, m, l)
  /\ explanations' = Object!AfterCall(explanations, t, "add", NextValue(t))
  /\ UNCHANGED <<flaws, crashed, destroyed>>

CallRmv(t, place, m, l) ==
  /\ pc[t] = "idle" /\ ClientRmv(t)
  /\ Go(t, place, m, l)
  /\ explanations' = Object!AfterCall(explanations, t, "rmv", NoVal)
  /\ UNCHANGED <<flaws, crashed, destroyed>>

\* A step inside add or rmv; found names what is wrong with it, if anything.
FlawedStep(t, place, m, l, found) ==
  /\ Go(t, place, m, l)
  /\ flaws' = flaws \cup found
  /\ UNCHANGED <<clientVars, explanations, crashed, destroyed>>

Step(t, place, m, l) == FlawedStep(t, place, m, l, {})

FlawedReturn(t, m, answer, found) ==
  /\ Go(t, "idle", m, NoLocals)
  /\ explanations' = Object!AfterReturn(mem.adt, explanations, t, answer)
  /\ flaws' = flaws \cup found
  /\ UNCHANGED <<clientVars, crashed, destroyed>>

Return(t, m, answer) == FlawedReturn(t, m, answer, {})

\* A failed assertion, or nullptr dereferenced.
Crash(found) ==
  /\ crashed' = TRUE
  /\ flaws' = flaws \cup found
  /\ UNCHANGED <<clientVars, mem, pc, loc, explanations, destroyed>>

\* ~ADTImpl, called by main() when every thread is joined; m is what it
\* leaves of the memory.
FlawedDestroy(m, found) ==
  /\ ~destroyed
  /\ \A t \in Threads : pc[t] = "idle" /\ prog[t] = <<>>
  /\ destroyed' = TRUE
  /\ mem' = m
  /\ flaws' = flaws \cup found
  /\ UNCHANGED <<clientVars, pc, loc, explanations, crashed>>

----------------------------------------------------------------------------
(***************************************************************************)
(* The heap.  Objects are numbered as new makes them.  deleted gives for   *)
(* each deleted object how many there were then: the address of an object  *)
(* may be that of one deleted before it was made.                          *)
(***************************************************************************)

Fresh(field) == Cardinality(DOMAIN field) + 1

Delete(deleted, n, field) == With(deleted, n, Cardinality(DOMAIN field))

\* What a read of the field of n may yield.
Read(field, deleted, n) ==
  {field[n]} \cup (IF Has(deleted, n) THEN {Garbage, Null} ELSE {})

\* Whether a pointer may equal the one that is expected: pointers to different
\* objects may, if one was deleted before the other was made.
Equal(deleted, pointer, expected) ==
  IF pointer = expected THEN {TRUE}
  ELSE IF \E n, m \in {pointer, expected} \ {Null, Garbage} :
            n # m /\ Has(deleted, n) /\ deleted[n] < m
       THEN BOOLEAN ELSE {FALSE}

\* If they were found equal: to different objects?
Reused(pointer, expected) ==
  IF pointer = expected THEN {} ELSE {"address used again"}

\* The objects that a walk along next from first meets.
Reached(next, first) ==
  LET after[k \in 0 .. Cardinality(DOMAIN next)] ==
        IF k = 0 THEN {first} \ {Null}
        ELSE after[k - 1] \cup ({next[n] : n \in after[k - 1]} \ {Null})
  IN  after[Cardinality(DOMAIN next)]

\* A destructor that deletes the list from first on, one node after another.
DestroyList(first) ==
  LET met == Reached(mem.next, first)
  IN  FlawedDestroy([mem EXCEPT !.deleted =
                       [n \in DOMAIN @ \cup met |-> Cardinality(DOMAIN mem.next)]],
                    IF met \cap DOMAIN mem.deleted = {} THEN {} ELSE {"deleted twice"})
=============================================================================
