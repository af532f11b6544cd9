------------------------------ MODULE MSQueue ------------------------------
(***************************************************************************)
(* The queue of Michael and Scott, src/tool/impl/msqueue.cpp: a list with  *)
(* a dummy node, whose tail pointer may lag behind.  rmv deletes the old   *)
(* dummy at once, although others may still read it.                       *)
(***************************************************************************)
EXTENDS Implementation

Start ==
  [adt |-> "queue", head |-> 1, tail |-> 1, next |-> <<Null>>,
   data |-> <<NoVal>>, deleted |-> EmptyMap]

----------------------------------------------------------------------------
(* add *)

CallEnq(t) ==
  LET n == Fresh(mem.next)
  IN  CallAdd(t, "enq_tail", [mem EXCEPT !.next = Append(@, Null),
                                         !.data = Append(@, NextValue(t))],
              [n |-> n, tail |-> Null, next |-> Null])

EnqTail(t) ==
  /\ pc[t] = "enq_tail"
  /\ Step(t, "enq_next", mem, [loc[t] EXCEPT !.tail = mem.tail])

EnqNext(t) ==
  /\ pc[t] = "enq_next"
  /\ \E next \in Read(mem.next, mem.deleted, loc[t].tail) :
       Step(t, "enq_check", mem, [loc[t] EXCEPT !.next = next])

\* tail == S->tail
EnqCheck(t) ==
  /\ pc[t] = "enq_check"
  /\ \E same \in Equal(mem.deleted, mem.tail, loc[t].tail) :
       IF ~same THEN Step(t, "enq_tail", mem, loc[t])
       ELSE FlawedStep(t, IF loc[t].next = Null THEN "enq_link" ELSE "enq_help",
                       mem, loc[t], Reused(mem.tail, loc[t].tail))

EnqLink(t) ==
  /\ pc[t] = "enq_link"
  /\ \E next \in Read(mem.next, mem.deleted, loc[t].tail) :
       IF next = Null
       THEN FlawedStep(t, "enq_swing", [mem EXCEPT !.next[loc[t].tail] = loc[t].n],
                       loc[t], IF Has(mem.deleted, loc[t].tail)
                               THEN {"deleted node written"} ELSE {})
       ELSE Step(t, "enq_tail", mem, loc[t])

\* Whatever the outcome, add returns.
EnqSwing(t) ==
  /\ pc[t] = "enq_swing"
  /\ \E same \in Equal(mem.deleted, mem.tail, loc[t].tail) :
       IF same THEN FlawedReturn(t, [mem EXCEPT !.tail = loc[t].n], NoVal,
                                 Reused(mem.tail, loc[t].tail))
       ELSE Return(t, mem, NoVal)

\* Move tail on for another thread, and start again.
Help(t, again) ==
  \E same \in Equal(mem.deleted, mem.tail, loc[t].tail) :
    IF same THEN FlawedStep(t, again, [mem EXCEPT !.tail = loc[t].next], loc[t],
                            Reused(mem.tail, loc[t].tail))
    ELSE Step(t, again, mem, loc[t])

EnqHelp(t) == pc[t] = "enq_help" /\ Help(t, "enq_tail")

----------------------------------------------------------------------------
(* rmv *)

CallDeq(t) ==
  CallRmv(t, "deq_head", mem,
          [head |-> Null, tail |-> Null, next |-> Null, vl |-> NoVal])

DeqHead(t) ==
  /\ pc[t] = "deq_head"
  /\ Step(t, "deq_tail", mem, [loc[t] EXCEPT !.head = mem.head])

DeqTail(t) ==
  /\ pc[t] = "deq_tail"
  /\ Step(t, "deq_next", mem, [loc[t] EXCEPT !.tail = mem.tail])

DeqNext(t) ==
  /\ pc[t] = "deq_next"
  /\ \E next \in Read(mem.next, mem.deleted, loc[t].head) :
       Step(t, "deq_check", mem, [loc[t] EXCEPT !.next = next])

\* Mutant of DeqCheck: head is not read again.
DeqCheckNothing(t) ==
  /\ pc[t] = "deq_check"
  /\ IF loc[t].head = loc[t].tail /\ loc[t].next = Null THEN Return(t, mem, NoVal)
     ELSE Step(t, IF loc[t].head = loc[t].tail THEN "deq_help" ELSE "deq_data",
               mem, loc[t])

\* head == S->head; the queue is empty if the dummy had no successor.
DeqCheck(t) ==
  /\ pc[t] = "deq_check"
  /\ \E same \in Equal(mem.deleted, mem.head, loc[t].head) :
       LET found == Reused(mem.head, loc[t].head)
       IN  IF ~same THEN Step(t, "deq_head", mem, loc[t])
           ELSE IF loc[t].head # loc[t].tail
           THEN FlawedStep(t, "deq_data", mem, loc[t], found)
           ELSE IF loc[t].next = Null
           THEN FlawedReturn(t, mem, NoVal, found)
           ELSE FlawedStep(t, "deq_help", mem, loc[t], found)

DeqHelp(t) == pc[t] = "deq_help" /\ Help(t, "deq_head")

DeqData(t) ==
  /\ pc[t] = "deq_data"
  /\ IF loc[t].next \in {Null, Garbage} THEN Crash({"wild pointer"})
     ELSE \E vl \in Read(mem.data, mem.deleted, loc[t].next) :
            Step(t, "deq_cas", mem, [loc[t] EXCEPT !.vl = vl])

\* The exchange and, if it succeeds, delete head.
DeqCas(t) ==
  /\ pc[t] = "deq_cas"
  /\ \E same \in Equal(mem.deleted, mem.head, loc[t].head) :
       IF same
       THEN FlawedReturn(t, [mem EXCEPT !.head = loc[t].next,
                                        !.deleted = Delete(@, mem.head, mem.next)],
                         loc[t].vl, Reused(mem.head, loc[t].head))
       ELSE Step(t, "deq_head", mem, loc[t])

Destroy == DestroyList(mem.head)

QueueStep(t) ==
  \/ CallEnq(t) \/ EnqTail(t) \/ EnqNext(t) \/ EnqCheck(t) \/ EnqLink(t)
  \/ EnqSwing(t) \/ EnqHelp(t)
  \/ CallDeq(t) \/ DeqHead(t) \/ DeqTail(t) \/ DeqNext(t) \/ DeqCheck(t)
  \/ DeqHelp(t) \/ DeqData(t) \/ DeqCas(t)
=============================================================================
