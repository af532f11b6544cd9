--------------------------- MODULE ExchangerStack ---------------------------
(***************************************************************************)
(* src/tool/impl/elim_backoff.cpp: Treiber's stack whose operations, when  *)
(* they fail to exchange top, meet in an exchanger: a push that meets a    *)
(* pop hands it its value.  An exchanger is an atomic pair of a pointer to *)
(* an item and a stamp.  The code has eight and visits one at random; the  *)
(* model has one, where two threads meet most.  Time is not modelled: a    *)
(* timeout may come whenever the clock is looked at.                       *)
(***************************************************************************)
EXTENDS Implementation

CONSTANT MaxItems  \* bound: how many items are offered in a run

Slot(ptr, stamp) == [ptr |-> ptr, stamp |-> stamp]
EmptySlot == Slot(Null, "EMPTY")

Start ==
  [adt |-> "stack", top |-> Null,
   value |-> <<>>, next |-> <<>>, deleted |-> EmptyMap,
   slot |-> EmptySlot,
   item |-> <<>>, deletedItems |-> EmptyMap]

Locals(n, y) ==
  [n |-> n, y |-> y, m |-> Null, output |-> Null, x |-> EmptySlot, sr |-> EmptySlot]

----------------------------------------------------------------------------
(* push and try_push *)

CallPush(t) ==
  LET n == Fresh(mem.next)
  IN  CallAdd(t, "push_top", [mem EXCEPT !.value = Append(@, NextValue(t)),
                                         !.next  = Append(@, Null)],
              Locals(n, NextValue(t)))

\* m = top.load(); input->next = m: nobody else sees the node.
PushTop(t) ==
  /\ pc[t] = "push_top"
  /\ Step(t, "push_cas", [mem EXCEPT !.next[loc[t].n] = mem.top],
          [loc[t] EXCEPT !.m = mem.top])

PushCas(t) ==
  /\ pc[t] = "push_cas"
  /\ \E same \in Equal(mem.deleted, mem.top, loc[t].m) :
       IF same THEN FlawedReturn(t, [mem EXCEPT !.top = loc[t].n], NoVal,
                                 Reused(mem.top, loc[t].m))
       ELSE Step(t, "visit", mem, loc[t])

----------------------------------------------------------------------------
(* pop and try_pop *)

CallPop(t) == CallRmv(t, "pop_top", mem, Locals(Null, NoVal))

PopTop(t) ==
  /\ pc[t] = "pop_top"
  /\ IF mem.top = Null THEN Return(t, mem, NoVal)
     ELSE Step(t, "pop_next", mem, [loc[t] EXCEPT !.output = mem.top])

PopNext(t) ==
  /\ pc[t] = "pop_next"
  /\ \E m \in Read(mem.next, mem.deleted, loc[t].output) :
       Step(t, "pop_cas", mem, [loc[t] EXCEPT !.m = m])

\* Mutant of PopCas: what failed is taken for done.
PopCasBlind(t) ==
  /\ pc[t] = "pop_cas"
  /\ Return(t, [mem EXCEPT !.top = loc[t].m], mem.value[loc[t].output])

\* The exchange; if it succeeds, value and node are the thread's own.
PopCas(t) ==
  /\ pc[t] = "pop_cas"
  /\ LET n == loc[t].output
     IN  \E same \in Equal(mem.deleted, mem.top, n) :
           IF same
           THEN FlawedReturn(t, [mem EXCEPT !.top = loc[t].m,
                                            !.deleted = Delete(@, mem.top, mem.next)],
                             mem.value[mem.top], Reused(mem.top, n))
           ELSE Step(t, "visit", mem, loc[t])

----------------------------------------------------------------------------
(* Exchanger::exchange *)

\* The exchange gave r, or a timeout: a push that got no value has met a pop,
\* a pop that got a value has met a push; any other starts again.
Again(t) == IF loc[t].n # Null THEN "push_top" ELSE "pop_top"

Exchanged(t, m, r, found) ==
  IF loc[t].n # Null /\ r = NoVal
  THEN FlawedReturn(t, [m EXCEPT !.deleted = Delete(@, loc[t].n, mem.next)], NoVal, found)
  ELSE IF loc[t].n = Null /\ r # NoVal
  THEN FlawedReturn(t, m, r, found)
  ELSE FlawedStep(t, Again(t), m, loc[t], found)

Timeout(t) == Step(t, Again(t), mem, loc[t])

Visit(t) ==
  /\ pc[t] = "visit"
  /\ \/ Timeout(t)
     \/ LET x == mem.slot
        IN  /\ Len(mem.item) < MaxItems
            /\ Step(t, CASE x.stamp = "EMPTY" -> "addA"
                          [] x.stamp = "WAITING" -> "addB"
                          [] OTHER -> "visit",
                    mem, [loc[t] EXCEPT !.x = x])

\* new res_t(y), and the exchange of the slot.
Offer(t, stamp, success) ==
  LET p  == Fresh(mem.item)
      sr == Slot(p, stamp)
      m  == [mem EXCEPT !.item = Append(@, loc[t].y)]
  IN  IF mem.slot = loc[t].x
      THEN Step(t, success, [m EXCEPT !.slot = sr], [loc[t] EXCEPT !.sr = sr])
      ELSE Step(t, "visit", m, loc[t])

\* The first of the two: offer, and wait for the slot to be BUSY.
AddA(t) == pc[t] = "addA" /\ Offer(t, "WAITING", "wait")

Wait(t) ==
  /\ pc[t] = "wait"
  /\ \/ Step(t, "withdraw", mem, loc[t])
     \/ mem.slot.stamp # "BUSY" /\ Step(t, "wait", mem, loc[t])
     \/ mem.slot.stamp = "BUSY" /\ Step(t, "removeB", mem, [loc[t] EXCEPT !.sr = mem.slot])

Withdraw(t) ==
  /\ pc[t] = "withdraw"
  /\ IF mem.slot = loc[t].sr
     THEN Step(t, Again(t), [mem EXCEPT !.slot = EmptySlot], loc[t])
     ELSE Step(t, "wait", mem, loc[t])

RemoveB(t) ==
  /\ pc[t] = "removeB"
  /\ Step(t, "read_item", [mem EXCEPT !.slot = EmptySlot], loc[t])

\* *sr.val, which its owner may have deleted: then the memory may hold any
\* item that was put there since.
ReadItem(t) ==
  /\ pc[t] = "read_item"
  /\ LET p == loc[t].sr.ptr
     IN  IF ~Has(mem.deletedItems, p) THEN Exchanged(t, mem, mem.item[p], {})
         ELSE \E r \in {mem.item[q] : q \in {p} \cup (mem.deletedItems[p] + 1 .. Len(mem.item))} :
                Exchanged(t, mem, r, {"item read after delete"})

\* The second: answer the offer, delete the item that was given to the other,
\* take the other's.
AddB(t) == pc[t] = "addB" /\ Offer(t, "BUSY", "delete_item")

DeleteItem(t) ==
  /\ pc[t] = "delete_item"
  /\ Step(t, "take_item",
          [mem EXCEPT !.deletedItems = Delete(@, loc[t].sr.ptr, mem.item)], loc[t])

TakeItem(t) ==
  /\ pc[t] = "take_item"
  /\ LET p == loc[t].x.ptr
     IN  Exchanged(t, [mem EXCEPT !.deletedItems = Delete(@, p, mem.item)], mem.item[p], {})

\* ~State
Destroy == DestroyList(mem.top)

StackStep(t) ==
  \/ CallPush(t) \/ PushTop(t) \/ PushCas(t)
  \/ CallPop(t) \/ PopTop(t) \/ PopNext(t) \/ PopCas(t)
  \/ Visit(t) \/ AddA(t) \/ Wait(t) \/ Withdraw(t) \/ RemoveB(t) \/ ReadItem(t)
  \/ AddB(t) \/ DeleteItem(t) \/ TakeItem(t)
=============================================================================
