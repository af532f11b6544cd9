---------------------------- MODULE LockedObjects ----------------------------
(***************************************************************************)
(* The implementations with one mutex: src/tool/impl/coarse_stack.cpp and  *)
(* its copy serial.cpp, a vector; src/tool/impl/coarse_queue.cpp, a list   *)
(* with a dummy node.  What is done under the mutex is one step.           *)
(***************************************************************************)
EXTENDS Implementation

CONSTANT Unlocked  \* the mutex is free

----------------------------------------------------------------------------
(* coarse_stack: vec, the top last. *)

StackStart == [adt |-> "stack", mut |-> Unlocked, vec |-> <<>>]

Lock(t) ==
  /\ pc[t] = "lock" /\ mem.mut = Unlocked
  /\ Step(t, loc[t].body, [mem EXCEPT !.mut = t], loc[t])

CallPush(t) == CallAdd(t, "lock", mem, [body |-> "push", val |-> NextValue(t)])
CallPop(t) == CallRmv(t, "lock", mem, [body |-> "pop"])

Push(t) ==
  /\ pc[t] = "push"
  /\ Return(t, [mem EXCEPT !.mut = Unlocked, !.vec = Append(@, loc[t].val)], NoVal)

Pop(t) ==
  /\ pc[t] = "pop"
  /\ LET n == Len(mem.vec)
     IN  IF n = 0 THEN Return(t, [mem EXCEPT !.mut = Unlocked], NoVal)
         ELSE Return(t, [mem EXCEPT !.mut = Unlocked,
                                    !.vec = SubSeq(@, 1, n - 1)], mem.vec[n])

StackStep(t) == CallPush(t) \/ CallPop(t) \/ Lock(t) \/ Push(t) \/ Pop(t)

----------------------------------------------------------------------------
(* coarse_queue *)

QueueStart ==
  [adt |-> "queue", mut |-> Unlocked, head |-> 1, tail |-> 1,
   next |-> <<Null>>, v |-> <<NoVal>>, deleted |-> EmptyMap]

CallEnq(t) == CallAdd(t, "lock", mem, [body |-> "enq", val |-> NextValue(t)])
CallDeq(t) == CallRmv(t, "lock", mem, [body |-> "deq"])

\* With the assertion that the last node has no successor.
Enq(t) ==
  /\ pc[t] = "enq"
  /\ LET n == Fresh(mem.next)
     IN  IF mem.next[mem.tail] # Null THEN Crash({"assert(next == nullptr)"})
         ELSE Return(t, [mem EXCEPT !.mut = Unlocked,
                                    !.v = Append(@, loc[t].val),
                                    !.next = Append([@ EXCEPT ![mem.tail] = n], Null),
                                    !.tail = n], NoVal)

\* Mutants of Deq: the value is taken from the dummy node; the new dummy is
\* deleted.
DeqDummy(t) ==
  /\ pc[t] = "deq"
  /\ IF mem.head = mem.tail THEN Return(t, [mem EXCEPT !.mut = Unlocked], NoVal)
     ELSE Return(t, [mem EXCEPT !.mut = Unlocked,
                                !.head = mem.next[mem.head],
                                !.deleted = Delete(@, mem.head, mem.next)],
                 mem.v[mem.head])
DeqDeleteNext(t) ==
  /\ pc[t] = "deq"
  /\ LET next == mem.next[mem.head]
     IN  IF mem.head = mem.tail THEN Return(t, [mem EXCEPT !.mut = Unlocked], NoVal)
         ELSE Return(t, [mem EXCEPT !.mut = Unlocked,
                                    !.head = next,
                                    !.deleted = Delete(@, next, mem.next)],
                     mem.v[next])

Deq(t) ==
  /\ pc[t] = "deq"
  /\ LET next == mem.next[mem.head]
     IN  IF mem.head = mem.tail THEN Return(t, [mem EXCEPT !.mut = Unlocked], NoVal)
         ELSE Return(t, [mem EXCEPT !.mut = Unlocked,
                                    !.head = next,
                                    !.deleted = Delete(@, mem.head, mem.next)],
                     mem.v[next])

QueueStep(t) == CallEnq(t) \/ CallDeq(t) \/ Lock(t) \/ Enq(t) \/ Deq(t)

DestroyQueue == DestroyList(mem.head)
=============================================================================
