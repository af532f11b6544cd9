-------------------------- MODULE ElimBackoffStack --------------------------
(***************************************************************************)
(* src/tool/impl/elimbackoff.cpp, after Hendler, Shavit and Yerushalmi:    *)
(* before each attempt at the stack an operation announces itself in       *)
(* operations_ and location_, leaves its number in collision_ and, if it   *)
(* finds another's number there, tries to collide with it.  Threads are    *)
(* numbered from 0, and 0 is also the mark EMPTY.  Nodes are not deleted.  *)
(*                                                                         *)
(* opcode and data of an operation are written in one step.  due is a      *)
(* history variable: the value that a removal must be given by the         *)
(* insertion it collided with.                                             *)
(***************************************************************************)
EXTENDS Implementation

\* val_t(int): what true and false are converted to, a value of no thread.
BoolValue(b) == <<-1, IF b THEN 1 ELSE 0>>

EMPTY == 0

Start ==
  [adt |-> "stack", top |-> Null, next |-> <<>>, data |-> <<>>,
   operations |-> [t \in Threads |-> [opcode |-> "none", data |-> NoVal]],
   location |-> [t \in Threads |-> EMPTY],
   collision |-> EMPTY,  \* one position: size_collision_ is threads / 2
   due |-> [t \in Threads |-> NoVal]]

Locals(opcode, item) ==
  [opcode |-> opcode, item |-> item, n |-> Null, old |-> Null, first |-> TRUE,
   him |-> EMPTY, other |-> EMPTY]

CallPush(t) == CallAdd(t, "post", mem, Locals("OPush", NextValue(t)))
CallPop(t) == CallRmv(t, "post", mem, Locals("OPop", NoVal))

----------------------------------------------------------------------------
(* backoff *)

Post(t) ==
  /\ pc[t] = "post"
  /\ Step(t, "locate",
          [mem EXCEPT !.operations[t] = [opcode |-> loc[t].opcode, data |-> loc[t].item]],
          loc[t])

Locate(t) ==
  /\ pc[t] = "locate"
  /\ Step(t, "collide", [mem EXCEPT !.location[t] = t], loc[t])

\* The load and the loop: an exchange of the number left behind.
Collide(t) ==
  /\ pc[t] = "collide"
  /\ Step(t, IF mem.collision = EMPTY THEN "leave" ELSE "look",
          [mem EXCEPT !.collision = t], [loc[t] EXCEPT !.him = mem.collision])

Look(t) ==
  /\ pc[t] = "look"
  /\ Step(t, "check", mem, [loc[t] EXCEPT !.other = mem.location[loc[t].him]])

Check(t) ==
  /\ pc[t] = "check"
  /\ Step(t, IF /\ loc[t].other = loc[t].him
                /\ mem.operations[loc[t].other].opcode # loc[t].opcode
             THEN "claim" ELSE "leave", mem, loc[t])

\* backoff returns true: the operation is done.  pop says so at its first
\* attempt with "return true".
Eliminated(t, m, item, found) ==
  IF loc[t].opcode = "OPush" THEN FlawedReturn(t, m, NoVal, found)
  ELSE IF loc[t].first
  THEN FlawedReturn(t, m, BoolValue(TRUE), found \cup {"truth value as answer"})
  ELSE FlawedReturn(t, m, item, found)

\* The first exchange of backoff, and the last: to take the announcement back.
Claim(t) ==
  /\ pc[t] = "claim"
  /\ IF mem.location[t] = t
     THEN Step(t, "try_collision", [mem EXCEPT !.location[t] = EMPTY], loc[t])
     ELSE IF loc[t].opcode = "OPush" THEN Eliminated(t, mem, NoVal, {})
     ELSE Step(t, "fetch", mem, loc[t])


NotEliminated(t, m) ==
  Step(t, "stack", m, [loc[t] EXCEPT !.first = FALSE, !.him = EMPTY, !.other = EMPTY])

Leave(t) ==
  /\ pc[t] = "leave"
  /\ IF mem.location[t] = t
     THEN NotEliminated(t, [mem EXCEPT !.location[t] = EMPTY])
     ELSE IF loc[t].opcode = "OPush" THEN Eliminated(t, mem, NoVal, {})
     ELSE Step(t, "fetch", mem, loc[t])

\* try_collision.  The other may have begun another operation meanwhile.
TryCollision(t) ==
  /\ pc[t] = "try_collision"
  /\ LET other == loc[t].other
         found == IF mem.operations[other].opcode = loc[t].opcode
                  THEN {"met its own kind"} ELSE {}
     IN  IF mem.location[other] # other THEN NotEliminated(t, mem)
         ELSE IF loc[t].opcode = "OPush"
         THEN Eliminated(t, [mem EXCEPT !.location[other] = t,
                                        !.due[other] = loc[t].item], NoVal, found)
         ELSE FlawedStep(t, "grab",
                         [mem EXCEPT !.location[other] = EMPTY,
                                     !.due[t] = mem.operations[other].data],
                         loc[t], found)

\* The data of the other's operation, unless it has announced a new one.
TakeData(t, m, other) ==
  LET item == mem.operations[other].data
  IN  Eliminated(t, m, item, IF item = mem.due[t] THEN {} ELSE {"operation overwritten"})

Grab(t) == pc[t] = "grab" /\ TakeData(t, mem, loc[t].other)

\* Collided with by a push, which left its number in location_.
Fetch(t) ==
  /\ pc[t] = "fetch"
  /\ TakeData(t, [mem EXCEPT !.location[t] = EMPTY], mem.location[t])

----------------------------------------------------------------------------
(* The stack. *)

\* push: the node is made at the first attempt.
PushTop(t) ==
  /\ pc[t] = "stack" /\ loc[t].opcode = "OPush"
  /\ LET made == loc[t].n # Null
         n    == IF made THEN loc[t].n ELSE Fresh(mem.next)
     IN  Step(t, "push_cas",
              IF made THEN [mem EXCEPT !.next[n] = mem.top]
              ELSE [mem EXCEPT !.next = Append(@, mem.top),
                               !.data = Append(@, loc[t].item)],
              [loc[t] EXCEPT !.n = n, !.old = mem.top])

PushCas(t) ==
  /\ pc[t] = "push_cas"
  /\ IF mem.top = loc[t].old THEN Return(t, [mem EXCEPT !.top = loc[t].n], NoVal)
     ELSE Step(t, "post", mem, loc[t])

PopTop(t) ==
  /\ pc[t] = "stack" /\ loc[t].opcode = "OPop"
  /\ IF mem.top = Null
     THEN FlawedReturn(t, mem, BoolValue(FALSE), {"truth value as answer"})
     ELSE Step(t, "pop_cas", mem, [loc[t] EXCEPT !.old = mem.top])

\* top_old->next does not change once the node can be seen.
PopCas(t) ==
  /\ pc[t] = "pop_cas"
  /\ LET old == loc[t].old
     IN  IF mem.top = old THEN Return(t, [mem EXCEPT !.top = mem.next[old]], mem.data[old])
         ELSE Step(t, "post", mem, loc[t])

StackStep(t) ==
  \/ CallPush(t) \/ CallPop(t)
  \/ Post(t) \/ Locate(t) \/ Collide(t) \/ Look(t) \/ Check(t) \/ Claim(t)
  \/ Leave(t) \/ TryCollision(t) \/ Grab(t) \/ Fetch(t)
  \/ PushTop(t) \/ PushCas(t) \/ PopTop(t) \/ PopCas(t)
=============================================================================
