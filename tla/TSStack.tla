------------------------------ MODULE TSStack ------------------------------
(***************************************************************************)
(* The timestamped stack, src/tool/impl/tsstack.cpp: a list for each       *)
(* thread, to which only that thread adds; a removal looks for the node    *)
(* with the highest timestamp and marks it.  tsstack_unlin.cpp differs in  *)
(* the counter of timestamps, which is not atomic.  Nothing is deleted.    *)
(*                                                                         *)
(* A step of a walk reads the mark and the next of one node: a mark stays, *)
(* and the next of a marked node only comes to skip more marked nodes.     *)
(***************************************************************************)
EXTENDS Implementation

\* Threads of the implementation are numbered from 0; node t + 1 is the
\* sentinel of thread t's list, its own successor.
Start(atomic) ==
  LET sentinels == [n \in 1 .. Cardinality(Threads) |-> n]
  IN  [adt |-> "stack", atomic |-> atomic, gts |-> 1,
       top  |-> [t \in Threads |-> t + 1],
       data |-> [n \in DOMAIN sentinels |-> NoVal],
       ts   |-> [n \in DOMAIN sentinels |-> 0],
       next |-> sentinels,
       mark |-> [n \in DOMAIN sentinels |-> TRUE]]

\* What comes after get_ts.
AfterTs(t) == IF "v" \in DOMAIN loc[t] THEN "link" ELSE "top"

\* get_ts: an atomic increment, or a read and a write.
GetTs(t) ==
  /\ pc[t] = "get_ts" /\ mem.atomic
  /\ Step(t, AfterTs(t), [mem EXCEPT !.gts = @ + 1], [loc[t] EXCEPT !.ts = mem.gts])

GetTsRead(t) ==
  /\ pc[t] = "get_ts" /\ ~mem.atomic
  /\ Step(t, "write_ts", mem, [loc[t] EXCEPT !.ts = mem.gts])

GetTsWrite(t) ==
  /\ pc[t] = "write_ts"
  /\ FlawedStep(t, AfterTs(t), [mem EXCEPT !.gts = loc[t].ts + 1], loc[t],
                IF mem.gts = loc[t].ts THEN {} ELSE {"counted twice"})

----------------------------------------------------------------------------
(* SPPool::insert *)

CallPush(t) ==
  CallAdd(t, "get_ts", mem, [v |-> NextValue(t), ts |-> 0])


\* The node, which no other thread sees yet; n->next = top.
Link(t) ==
  /\ pc[t] = "link"
  /\ LET n == Fresh(mem.next)
     IN  Step(t, "publish", [mem EXCEPT !.data = Append(@, loc[t].v),
                                        !.ts   = Append(@, loc[t].ts),
                                        !.next = Append(@, mem.top[t]),
                                        !.mark = Append(@, FALSE)],
              [n |-> n, answer |-> NoVal])

\* From n, whose removed successors are to be skipped; then answer.
WalkFrom(m, n, answer) == [n |-> n, x |-> m.next[n], answer |-> answer]

Published(n) ==
  n \notin {loc[u].n : u \in {w \in Threads : pc[w] = "publish"}}

\* top = n
Publish(t) ==
  /\ pc[t] = "publish"
  /\ LET n == loc[t].n
     IN  FlawedStep(t, "walk", [mem EXCEPT !.top[t] = n], WalkFrom(mem, n, NoVal),
                    IF \A m \in DOMAIN mem.ts : Published(m) => mem.ts[m] <= mem.ts[n]
                    THEN {} ELSE {"published after a younger node"})

Walk(t) ==
  /\ pc[t] = "walk"
  /\ LET x == loc[t].x
     IN  IF mem.next[x] # x /\ mem.mark[x]
         THEN Step(t, "walk", mem, [loc[t] EXCEPT !.x = mem.next[x]])
         ELSE Step(t, "skip", mem, loc[t])

Skip(t) ==
  /\ pc[t] = "skip"
  /\ Return(t, [mem EXCEPT !.next[loc[t].n] = loc[t].x], loc[t].answer)

----------------------------------------------------------------------------
(* Pop, tryRem and SPPool::get_youngest *)

\* tryRem from its beginning: no youngest node, no list known to be empty.
\* seen is the top of each list that was looked at.
Try(ts) ==
  [ts |-> ts, i |-> 0, res |-> Null, yng |-> Null, pool |-> 0, seen |-> EmptyMap]

CallPop(t) == CallRmv(t, "get_ts", mem, Try(0))

Top(t) ==
  /\ pc[t] = "top"
  /\ LET top == mem.top[loc[t].i]
     IN  Step(t, "youngest", mem,
              [loc[t] EXCEPT !.seen = With(@, loc[t].i, top), !.res = top])

LastPool == Cardinality(Threads) - 1

Remove(t, l) == Step(t, "mark", mem, l)

\* One list is done: go on with the next one, or with the youngest node, or
\* with the second look at the lists if there is none.
NextPool(t, l) ==
  IF l.i < LastPool THEN Step(t, "top", mem, [l EXCEPT !.i = @ + 1])
  ELSE IF l.yng # Null THEN Remove(t, l)
  ELSE Step(t, "recheck", mem, [l EXCEPT !.i = 0])

\* Mutant of Youngest: of the lists' nodes the oldest is taken.
YoungestOldest(t) ==
  /\ pc[t] = "youngest"
  /\ LET l == loc[t] IN
     \/ /\ ~mem.mark[l.res]
        /\ NextPool(t, IF l.yng = Null \/ mem.ts[l.yng] > mem.ts[l.res]
                       THEN [l EXCEPT !.yng = l.res, !.pool = l.i] ELSE l)
     \/ /\ mem.mark[l.res]
        /\ IF mem.next[l.res] = l.res THEN NextPool(t, l)
           ELSE Step(t, "youngest", mem, [l EXCEPT !.res = mem.next[l.res]])

Youngest(t) ==
  /\ pc[t] = "youngest"
  /\ LET l     == loc[t]
         taken == [l EXCEPT !.yng = l.res, !.pool = l.i]
     IN  IF ~mem.mark[l.res]
         THEN IF l.ts < mem.ts[l.res] THEN Remove(t, taken)
              ELSE NextPool(t, IF l.yng = Null \/ mem.ts[l.yng] < mem.ts[l.res]
                               THEN taken ELSE l)
         ELSE IF mem.next[l.res] = l.res THEN NextPool(t, l)
         ELSE Step(t, "youngest", mem, [l EXCEPT !.res = mem.next[l.res]])

Recheck(t) ==
  /\ pc[t] = "recheck"
  /\ LET l == loc[t]
     IN  IF mem.top[l.i] # l.seen[l.i] THEN Step(t, "top", mem, Try(l.ts))
         ELSE IF l.i < LastPool THEN Step(t, "recheck", mem, [l EXCEPT !.i = @ + 1])
         ELSE Return(t, mem, NoVal)

----------------------------------------------------------------------------
(* SPPool::remove *)

\* The exchange on the mark decides who has the node.
Mark(t) ==
  /\ pc[t] = "mark"
  /\ LET l == loc[t]
     IN  IF mem.mark[l.yng] THEN Step(t, "top", mem, Try(l.ts))
         ELSE Step(t, "cas_top", [mem EXCEPT !.mark[l.yng] = TRUE],
                   [n |-> l.yng, pool |-> l.pool, oldTop |-> l.seen[l.pool]])

CasTop(t) ==
  /\ pc[t] = "cas_top"
  /\ LET l == loc[t]
         m == IF mem.top[l.pool] = l.oldTop THEN [mem EXCEPT !.top[l.pool] = l.n]
              ELSE mem
     IN  IF l.oldTop # l.n THEN Step(t, "link_top", m, l)
         ELSE Step(t, "walk", m, WalkFrom(m, l.n, m.data[l.n]))

LinkTop(t) ==
  /\ pc[t] = "link_top"
  /\ LET l == loc[t]
         m == [mem EXCEPT !.next[l.oldTop] = l.n]
     IN  Step(t, "walk", m, WalkFrom(m, l.n, m.data[l.n]))

StackStep(t) ==
  \/ GetTs(t) \/ GetTsRead(t) \/ GetTsWrite(t)
  \/ CallPush(t) \/ Link(t) \/ Publish(t) \/ Walk(t) \/ Skip(t)
  \/ CallPop(t) \/ Top(t) \/ Youngest(t) \/ Recheck(t)
  \/ Mark(t) \/ CasTop(t) \/ LinkTop(t)
=============================================================================
