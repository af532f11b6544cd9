------------------------------ MODULE HWQueue ------------------------------
(***************************************************************************)
(* src/tool/impl/hwqueue.cpp: an array of pointers, all nullptr at first.  *)
(* enq takes the next index and stores its value there; deq goes through   *)
(* the array, again and again, until it finds one.  A pointer is given to  *)
(* one thread only, so the model stores the value.                         *)
(***************************************************************************)
EXTENDS Implementation

CONSTANT Size  \* of the array, 30000 in the code

Start == [adt |-> "queue", items |-> [i \in 0 .. Size - 1 |-> Null], loc |-> 0]

CallEnq(t) == CallAdd(t, "fetch_add", mem, [itm |-> NextValue(t)])

FetchAdd(t) ==
  /\ pc[t] = "fetch_add"
  /\ Step(t, "store", [mem EXCEPT !.loc = @ + 1], [itm |-> loc[t].itm, idx |-> mem.loc])

Store(t) ==
  /\ pc[t] = "store"
  /\ IF loc[t].idx < Size
     THEN Return(t, [mem EXCEPT !.items[loc[t].idx] = loc[t].itm], NoVal)
     ELSE FlawedReturn(t, mem, NoVal, {"index beyond the array"})

\* handedOut remembers how many indices were given when this pass began.
CallDeq(t) == CallRmv(t, "exchange", mem, [i |-> 0, handedOut |-> 0])

\* Mutant of Exchange: a load.
ExchangeLoad(t) ==
  /\ pc[t] = "exchange"
  /\ LET i == loc[t].i
         handedOut == IF i = 0 THEN mem.loc ELSE loc[t].handedOut
     IN  IF mem.items[i] = Null
         THEN Step(t, "exchange", mem, [i |-> (i + 1) % Size, handedOut |-> handedOut])
         ELSE FlawedReturn(t, mem, mem.items[i],
                           IF i < handedOut THEN {} ELSE {"item newer than the pass"})

Exchange(t) ==
  /\ pc[t] = "exchange"
  /\ LET i == loc[t].i
         handedOut == IF i = 0 THEN mem.loc ELSE loc[t].handedOut
     IN  IF mem.items[i] = Null
         THEN Step(t, "exchange", mem, [i |-> (i + 1) % Size, handedOut |-> handedOut])
         ELSE FlawedReturn(t, [mem EXCEPT !.items[i] = Null], mem.items[i],
                           IF i < handedOut THEN {} ELSE {"item newer than the pass"})

QueueStep(t) ==
  CallEnq(t) \/ FetchAdd(t) \/ Store(t) \/ CallDeq(t) \/ Exchange(t)
=============================================================================
