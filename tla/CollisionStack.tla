--------------------------- MODULE CollisionStack ---------------------------
(***************************************************************************)
(* src/tool/impl/backoffelim.cpp: an operation that fails to exchange top  *)
(* announces its ThreadInfo in location and collides with another as in    *)
(* ElimBackoffStack.  A ThreadInfo belongs to one call and is not deleted; *)
(* a removal deletes the cell it was given.                                *)
(***************************************************************************)
EXTENDS Implementation

Start ==
  [adt |-> "stack", ptop |-> Null,
   pnext |-> <<>>, pdata |-> <<>>, deleted |-> EmptyMap,
   info |-> <<>>,  \* ThreadInfo -> id, op, cell
   location |-> [t \in Threads |-> Null],
   collision |-> Null]  \* EMPTY is Null; one position, size is threads / 2

\* new ThreadInfo(thread, op, new Cell(data)).
Call(t, op, data) ==
  [mem EXCEPT !.pnext = Append(@, Null), !.pdata = Append(@, data),
              !.info  = Append(@, [id |-> t, op |-> op, cell |-> Fresh(mem.pnext)])]

Locals == [p |-> Len(mem.info) + 1, mtop |-> Null, mnext |-> Null, him |-> Null, q |-> Null]

CallPush(t) == CallAdd(t, "stack_top", Call(t, "PUSH", NextValue(t)), Locals)
CallPop(t) == CallRmv(t, "stack_top", Call(t, "POP", Null), Locals)

Me(t) == mem.info[loc[t].p]

\* The call is done: rmv reads the value from its cell and deletes the cell.
Finish(t, m, cell, found) ==
  IF Me(t).op = "PUSH" THEN FlawedReturn(t, m, NoVal, found)
  ELSE IF cell = Null THEN Crash({"assert(p->cell != nullptr)"})
  ELSE \E v \in Read(m.pdata, m.deleted, cell) :
         FlawedReturn(t, [m EXCEPT !.deleted = Delete(@, cell, m.pnext)],
                      IF v = Null THEN NoVal ELSE v,
                      found \cup IF Has(m.deleted, cell) THEN {"cell deleted twice"} ELSE {})

----------------------------------------------------------------------------
(* TryPerformStackOp *)

StackTop(t) ==
  /\ pc[t] = "stack_top"
  /\ IF Me(t).op = "PUSH"
     THEN Step(t, "push_cas", [mem EXCEPT !.pnext[Me(t).cell] = mem.ptop],
               [loc[t] EXCEPT !.mtop = mem.ptop])
     ELSE IF mem.ptop = Null THEN Finish(t, mem, Null, {})
     ELSE Step(t, "pop_next", mem, [loc[t] EXCEPT !.mtop = mem.ptop])

PushCas(t) ==
  /\ pc[t] = "push_cas"
  /\ \E same \in Equal(mem.deleted, mem.ptop, loc[t].mtop) :
       IF same THEN Finish(t, [mem EXCEPT !.ptop = Me(t).cell], Null,
                           Reused(mem.ptop, loc[t].mtop))
       ELSE Step(t, "locate", mem, loc[t])

PopNext(t) ==
  /\ pc[t] = "pop_next"
  /\ \E mnext \in Read(mem.pnext, mem.deleted, loc[t].mtop) :
       Step(t, "pop_cas", mem, [loc[t] EXCEPT !.mnext = mnext])

PopCas(t) ==
  /\ pc[t] = "pop_cas"
  /\ \E same \in Equal(mem.deleted, mem.ptop, loc[t].mtop) :
       IF same THEN Finish(t, [mem EXCEPT !.ptop = loc[t].mnext], mem.ptop,
                           Reused(mem.ptop, loc[t].mtop))
       ELSE Step(t, "locate", mem, loc[t])

----------------------------------------------------------------------------
(* LesOP *)

Locate(t) ==
  /\ pc[t] = "locate"
  /\ Step(t, "collide", [mem EXCEPT !.location[t] = loc[t].p], loc[t])

\* The load and the loop: an exchange of the number left behind.
Collide(t) ==
  /\ pc[t] = "collide"
  /\ Step(t, IF mem.collision = Null THEN "leave" ELSE "look",
          [mem EXCEPT !.collision = t], [loc[t] EXCEPT !.him = mem.collision])

Look(t) ==
  /\ pc[t] = "look"
  /\ LET q == mem.location[loc[t].him]
     IN  Step(t, IF /\ q # Null
                    /\ mem.info[q].id = loc[t].him /\ mem.info[q].op # Me(t).op
                 THEN "claim" ELSE "leave", mem, [loc[t] EXCEPT !.q = q])


\* The exchange that takes the announcement back; if it fails, another has
\* collided, and FinishCollision reads location[0].
TakeBack(t, next) ==
  IF mem.location[t] = loc[t].p
  THEN Step(t, next, [mem EXCEPT !.location[t] = Null], loc[t])
  ELSE IF Me(t).op = "PUSH" THEN Finish(t, mem, Null, {})
  ELSE Step(t, "finish_collision", mem, loc[t])

Claim(t) == pc[t] = "claim" /\ TakeBack(t, "try_collision")
Leave(t) == pc[t] = "leave" /\ TakeBack(t, "stack_top")

FinishCollision(t) ==
  /\ pc[t] = "finish_collision"
  /\ LET m     == mem.location[0]
         found == IF m = mem.location[t] THEN {} ELSE {"location of another thread"}
     IN  IF m = Null THEN Crash(found)
         ELSE Finish(t, [mem EXCEPT !.location[t] = Null], mem.info[m].cell, found)

TryCollision(t) ==
  /\ pc[t] = "try_collision"
  /\ LET q == loc[t].q
         u == mem.info[q].id
     IN  IF mem.location[u] # q THEN Step(t, "stack_top", mem, loc[t])
         ELSE IF Me(t).op = "PUSH"
         THEN Finish(t, [mem EXCEPT !.location[u] = loc[t].p], Null, {})
         ELSE Finish(t, [mem EXCEPT !.location[u] = Null, !.location[t] = Null],
                     mem.info[q].cell, {})

StackStep(t) ==
  \/ CallPush(t) \/ CallPop(t)
  \/ StackTop(t) \/ PushCas(t) \/ PopNext(t) \/ PopCas(t)
  \/ Locate(t) \/ Collide(t) \/ Look(t) \/ Claim(t) \/ Leave(t)
  \/ FinishCollision(t) \/ TryCollision(t)
=============================================================================
