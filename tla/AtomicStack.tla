---------------------------- MODULE AtomicStack ----------------------------
(***************************************************************************)
(* What a stack behind ADTImpl (src/tool/include/impl.h) promises: add and *)
(* rmv take effect at one instant between their call and their return.     *)
(* The behaviours of this module are the linearizable executions that the  *)
(* verifier accepts; the implementations are shown to refine it.           *)
(***************************************************************************)
EXTENDS Sequences

CONSTANTS Threads, Values, NoVal

VARIABLES
  stack,  \* the values, the top first
  phase,  \* thread -> "idle", "add" or "rmv" (called), "done" (took effect)
  arg,    \* thread -> the value it adds
  res     \* thread -> what its rmv answers, NoVal for empty

vars == <<stack, phase, arg, res>>

Init ==
  /\ stack = <<>>
  /\ phase = [t \in Threads |-> "idle"]
  /\ arg = [t \in Threads |-> NoVal]
  /\ res = [t \in Threads |-> NoVal]

CallAdd(t, v) ==
  /\ phase[t] = "idle"
  /\ phase' = [phase EXCEPT ![t] = "add"]
  /\ arg' = [arg EXCEPT ![t] = v]
  /\ UNCHANGED <<stack, res>>

CallRmv(t) ==
  /\ phase[t] = "idle"
  /\ phase' = [phase EXCEPT ![t] = "rmv"]
  /\ UNCHANGED <<stack, arg, res>>

Add(t) ==
  /\ phase[t] = "add"
  /\ stack' = <<arg[t]>> \o stack
  /\ phase' = [phase EXCEPT ![t] = "done"]
  /\ UNCHANGED <<arg, res>>

Rmv(t) ==
  /\ phase[t] = "rmv"
  /\ stack # <<>>
  /\ res' = [res EXCEPT ![t] = Head(stack)]
  /\ stack' = Tail(stack)
  /\ phase' = [phase EXCEPT ![t] = "done"]
  /\ UNCHANGED arg

RmvEmpty(t) ==
  /\ phase[t] = "rmv"
  /\ stack = <<>>
  /\ res' = [res EXCEPT ![t] = NoVal]
  /\ phase' = [phase EXCEPT ![t] = "done"]
  /\ UNCHANGED <<stack, arg>>

Return(t) ==
  /\ phase[t] = "done"
  /\ phase' = [phase EXCEPT ![t] = "idle"]
  /\ arg' = [arg EXCEPT ![t] = NoVal]
  /\ res' = [res EXCEPT ![t] = NoVal]
  /\ UNCHANGED stack

Next ==
  \E t \in Threads :
    \/ \E v \in Values : CallAdd(t, v)
    \/ CallRmv(t) \/ Add(t) \/ Rmv(t) \/ RmvEmpty(t) \/ Return(t)

Spec == Init /\ [][Next]_vars
=============================================================================
