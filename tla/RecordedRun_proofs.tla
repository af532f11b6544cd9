------------------------- MODULE RecordedRun_proofs -------------------------
(***************************************************************************)
(* The verdicts of the stack monitor, for logs of any length: a history    *)
(* printed OK is linearizable, and a linearizable one is printed OK if it  *)
(* is simplified or no push overlaps the pop of its value.                 *)
(***************************************************************************)
EXTENDS RecordedRun, Verifier_proofs

----------------------------------------------------------------------------
(* add_event(). *)

\* What the monitor knows of the events F that it has been given.
FeedInv(F) ==
  /\ CallsOK(F, lastEvt, open)
  /\ AccountsFor(F, values, empties)
  /\ DOMAIN unmatched = {}
  /\ empties \in Seq(AtomSet)
  /\ \A v \in values : v.add \in AtomSet /\ v.rmv \in AtomSet

\* add_event(), if it does not end the run.
LEMMA FeedGoesOn ==
  ASSUME NEW F, NEW e, EventsOK(F \cup {e}), \A m \in F : m.ts < e.ts,
         FeedInv(F), AddEvent(e), result' = "feeding"
  PROVE  FeedInv(F \cup {e})'
<1>1. CASE CallEvent(e)
  <2>1. ~(Has(lastEvt, e.thread) /\ lastEvt[e.thread] # "return")
    BY <1>1 DEF CallEvent, Raise
  <2>2. /\ lastEvt' = With(lastEvt, e.thread, e.type)
        /\ open' = With(open, e.thread, e)
        /\ UNCHANGED <<values, empties, unmatched>>
    BY <1>1, <2>1 DEF CallEvent
  <2>3. e.type # "return" /\ (e.thread \in DOMAIN lastEvt => lastEvt[e.thread] = "return")
    BY <1>1, <2>1 DEF CallEvent, Has
  <2>4. CallsOK(F \cup {e}, lastEvt', open')
    BY <2>2, <2>3, CallsAfterCall DEF FeedInv
  <2>5. AccountsFor(F \cup {e}, values', empties')
    BY <2>2, <2>3, AccountAfterCall DEF FeedInv
  <2>. QED
    BY <2>2, <2>4, <2>5 DEF FeedInv
<1>2. CASE ReturnEvent(e)
  <2>1. ~(~Has(lastEvt, e.thread) \/ lastEvt[e.thread] = "return") /\ e.type = "return"
    BY <1>2 DEF ReturnEvent, Raise
  <2>2. e.thread \in DOMAIN lastEvt /\ lastEvt[e.thread] # "return" /\ e.val = NoVal
    BY <2>1 DEF Has, EventsOK, EventOK
  <2>. PICK c : c = open[e.thread]
    OBVIOUS
  <2>. PICK i : i = Closed(c.ts, e.ts)
    OBVIOUS
  <2>. DEFINE known == {w \in values : w.val = c.val}
              Done == /\ lastEvt' = With(lastEvt, e.thread, "return")
                      /\ open' = Without(open, e.thread)
  <2>3. \/ c.type = "push" /\ RetPush(c, i) /\ Done
        \/ c.type = "pop" /\ c.val = NoVal /\ RetPopEmpty(i) /\ Done
        \/ c.type = "pop" /\ c.val # NoVal /\ \E w \in known : w.rmv = End /\ RetPopKnown(w, i) /\ Done
    BY <1>2, <2>1, <2>2 DEF ReturnEvent, Raise
  <2>4. CallsOK(F \cup {e}, With(lastEvt, e.thread, "return"), Without(open, e.thread))
        /\ IsLast(F, c) /\ c.type # "return" /\ c.thread = e.thread
    <3>1. CallsOK(F, lastEvt, open)
      BY DEF FeedInv
    <3>2. e.type = "return" /\ e.thread \in DOMAIN lastEvt /\ lastEvt[e.thread] # "return"
      BY <2>1, <2>2
    <3>3. CallsOK(F \cup {e}, With(lastEvt, e.thread, "return"), Without(open, e.thread))
      BY <3>1, <3>2, CallsAfterReturn
    <3>. QED
      BY <3>1, <3>2, <3>3 DEF CallsOK
  <2>5. CallsOK(F \cup {e}, lastEvt', open')
    BY <2>3, <2>4
  <2>6. AtReturn(F, e, c, i, OpFrom(c, e))
    BY <2>1, <2>4, ReturnIs
  <2>7. i \in AtomSet /\ End \in AtomSet /\ ~Overlaps(End, i)
    <3>1. c.ts \in Nat /\ e.ts \in Nat /\ c.ts < POSINF - 2 /\ e.ts < POSINF - 2
      BY <2>6 DEF AtReturn, EventOK
    <3>. QED
      BY <2>6, <3>1, EndIs DEF AtReturn, Closed, Atom, AtomSet, Timestamps, NEGINF, End
  <2>8. CASE c.type = "push" /\ RetPush(c, i)
    <3>1. /\ DOMAIN unmatched' = {} /\ empties' = empties
          /\ values' = values \cup {CoverVal(c.val, i, End)}
      BY <2>7, <2>8 DEF RetPush, Has, Without, FeedInv
    <3>2. AccountsFor(F \cup {e}, values', empties')
      BY <2>1, <2>4, <2>8, <3>1, AccountAfterPush DEF FeedInv
    <3>. QED
      BY <2>5, <2>7, <3>1, <3>2 DEF FeedInv, CoverVal
  <2>9. CASE c.type = "pop" /\ c.val = NoVal /\ RetPopEmpty(i)
    <3>1. unmatched' = unmatched /\ empties' = Append(empties, i) /\ values' = values
      BY <2>9 DEF RetPopEmpty
    <3>2. AccountsFor(F \cup {e}, values', empties')
      BY <2>1, <2>4, <2>9, <3>1, AccountAfterEmpty DEF FeedInv
    <3>3. empties' \in Seq(AtomSet)
      BY <2>7, <3>1 DEF FeedInv
    <3>. QED
      BY <2>5, <3>1, <3>2, <3>3 DEF FeedInv
  <2>10. CASE c.type = "pop" /\ c.val # NoVal /\ \E w \in known : w.rmv = End /\ RetPopKnown(w, i)
    <3>. PICK w \in known : w.rmv = End /\ RetPopKnown(w, i)
      BY <2>10
    <3>0. w \in values /\ w.val = c.val
      OBVIOUS
    <3>1. unmatched' = unmatched /\ empties' = empties
      BY DEF RetPopKnown
    <3>2. CASE Overlaps(i, w.add)
      <4>1. values' = values \ {w}
        BY <3>2 DEF RetPopKnown
      <4>2. AccountsFor(F \cup {e}, values', empties')
        BY <2>1, <2>4, <2>10, <3>0, <3>1, <3>2, <4>1, AccountAfterPair DEF FeedInv
      <4>. QED
        BY <2>5, <3>1, <4>1, <4>2 DEF FeedInv
    <3>3. CASE ~Overlaps(i, w.add)
      <4>1. values' = (values \ {w}) \cup {[w EXCEPT !.rmv = i]}
        BY <3>3 DEF RetPopKnown
      <4>2. AccountsFor(F \cup {e}, values', empties')
        BY <2>1, <2>4, <2>10, <3>0, <3>1, <3>3, <4>1, AccountAfterPop DEF FeedInv
      <4>3. [w EXCEPT !.rmv = i].add \in AtomSet /\ [w EXCEPT !.rmv = i].rmv \in AtomSet
        <5>1. w = [val |-> w.val, add |-> w.add, rmv |-> w.rmv] /\ w.add \in AtomSet
          BY <3>0 DEF FeedInv, AccountsFor, CoverVal
        <5>. QED
          BY <2>7, <5>1
      <4>. QED
        BY <2>5, <3>1, <4>1, <4>2, <4>3 DEF FeedInv
    <3>. QED
      BY <3>2, <3>3
  <2>. QED
    BY <2>3, <2>8, <2>9, <2>10
<1>. QED
  BY <1>1, <1>2 DEF AddEvent

\* Fed with events that are paired and clean, add_event() raises nothing.
LEMMA FeedAccepts ==
  ASSUME NEW F, NEW e, NEW G, IsNext(F, e, G), EventsOK(G), Paired(G), Clean(Ops(G)),
         FeedInv(F), AddEvent(e)
  PROVE  result' = "feeding"
<1>1. CallsOK(F, lastEvt, open) /\ AccountsFor(F, values, empties) /\ result = "feeding"
  BY DEF FeedInv, AddEvent
<1>2. CASE CallEvent(e)
  <2>1. e.type # "return"
    BY <1>2 DEF CallEvent
  <2>2. ~(Has(lastEvt, e.thread) /\ lastEvt[e.thread] # "return")
    BY <1>1, <2>1, CallIsAccepted DEF Has
  <2>. QED
    BY <1>1, <1>2, <2>2 DEF CallEvent
<1>3. CASE ReturnEvent(e)
  <2>1. e.type = "return" /\ e.val = NoVal
    BY <1>3 DEF ReturnEvent, IsNext, EventsOK, EventOK
  <2>2. /\ e.thread \in DOMAIN lastEvt /\ lastEvt[e.thread] # "return"
        /\ Matches(G, open[e.thread], e)
    BY <1>1, <2>1, ReturnIsAccepted
  <2>. PICK c : c = open[e.thread]
    OBVIOUS
  <2>. PICK known : known = {w \in values : w.val = c.val}
    OBVIOUS
  <2>3. CASE ~(c.type = "pop" /\ c.val # NoVal)
    BY <1>1, <1>3, <2>1, <2>2, <2>3 DEF ReturnEvent, Has
  <2>4. CASE c.type = "pop" /\ c.val # NoVal
    <3>1. known # {} /\ \A w \in known : w.rmv = End
      BY <1>1, <2>2, <2>4, ValueIsKnown
    <3>. QED
      BY <1>1, <1>3, <2>1, <2>2, <2>4, <3>1 DEF ReturnEvent, Has
  <2>. QED
    BY <2>3, <2>4
<1>. QED
  BY <1>2, <1>3 DEF AddEvent

----------------------------------------------------------------------------
(* The log. *)

LogEvents == [type : {"push", "pop", "return"}, thread : Nat, val : Nat \cup {NoVal}, ts : Nat]

\* The positions of events of some types.
InLog(l, types) == {k \in DOMAIN l : l[k].type \in types}

CallTypes == AddTypes \cup RmvTypes

\* Every event has its position as its time.
TypesOfLog(l, pend, kd) ==
  /\ l \in Seq(LogEvents) /\ kd \in Kinds
  /\ \A k \in DOMAIN l : l[k].ts = k

\* Every operation has a call and at most one return, after it.
ThreadsOfLog(l, pend) ==
  /\ \A k \in DOMAIN l : l[k].thread < Cardinality(InLog(l, CallTypes))
  /\ \A j, k \in InLog(l, {"push", "pop"}) : l[j].thread = l[k].thread => j = k
  /\ \A j, k \in InLog(l, {"return"}) : l[j].thread = l[k].thread => j = k
  /\ \A k \in InLog(l, {"return"}) :
       l[k].thread \notin DOMAIN pend
       /\ \E j \in InLog(l, {"push", "pop"}) : j < k /\ l[j].thread = l[k].thread
  /\ \A u \in DOMAIN pend :
       \E j \in InLog(l, {"push", "pop"}) : l[j].thread = u /\ l[j].type = pend[u]
  /\ \A j \in InLog(l, {"push", "pop"}) :
       l[j].thread \in DOMAIN pend
       \/ \E k \in InLog(l, {"return"}) : j < k /\ l[k].thread = l[j].thread

\* Added values are new, removed ones are named at the call or at the return.
ValuesOfLog(l, kd) ==
  /\ \A k \in InLog(l, {"push"}) : l[k].val \in Nat /\ l[k].val < Cardinality(InLog(l, {"push"}))
  /\ \A j, k \in InLog(l, {"push"}) : l[j].val = l[k].val => j = k
  /\ \A k \in InLog(l, {"pop"}) : l[k].val # NoVal => ~kd.needsSimpl
  /\ \A k \in InLog(l, {"return"}) : l[k].val # NoVal =>
       kd.needsSimpl /\ \E j \in InLog(l, {"pop"}) : j < k /\ l[j].thread = l[k].thread
  /\ ~kd.duplicates => \A j, k \in InLog(l, {"pop", "return"}) :
       l[j].val = l[k].val /\ l[j].val # NoVal => j = k

\* The length of the log is bounded.
SizeOfLog(l, pend, kd) ==
  /\ IsFiniteSet(DOMAIN pend)
  /\ Cardinality(InLog(l, {"push"})) <= kd.adds /\ Cardinality(InLog(l, {"pop"})) <= kd.removals
  /\ Cardinality(InLog(l, CallTypes)) =
       Cardinality(InLog(l, {"push"})) + Cardinality(InLog(l, {"pop"}))
  /\ Len(l) + Cardinality(DOMAIN pend) = 2 * Cardinality(InLog(l, CallTypes))

LogOK(l, pend, kd) ==
  /\ TypesOfLog(l, pend, kd) /\ ThreadsOfLog(l, pend)
  /\ ValuesOfLog(l, kd) /\ SizeOfLog(l, pend, kd)

\* One event more.
OneMore(q, l, e, n) ==
  /\ n \in Nat /\ n = Len(l) /\ Len(q) = n + 1 /\ DOMAIN l = 1 .. n /\ DOMAIN q = 1 .. n + 1
  /\ q[n + 1] = e /\ \A k \in DOMAIN l : k \in 1 .. n /\ k \in DOMAIN q /\ k < n + 1 /\ q[k] = l[k]
  /\ n + 1 \in DOMAIN q /\ \A k \in DOMAIN q : k \in DOMAIN l \/ k = n + 1

LEMMA LogGrows ==
  ASSUME NEW l \in Seq(LogEvents), NEW e \in LogEvents
  PROVE  /\ Append(l, e) \in Seq(LogEvents)
         /\ OneMore(Append(l, e), l, e, Len(l))
<1>. PICK S : S = LogEvents
  OBVIOUS
<1>. PICK n \in Nat : n = Len(l)
  OBVIOUS
<1>1. l \in Seq(S) /\ e \in S
  OBVIOUS
<1>. PICK q : q = Append(l, e)
  OBVIOUS
<1>2. q \in Seq(S) /\ Len(q) = n + 1 /\ q[n + 1] = e /\ \A k \in 1 .. n : q[k] = l[k]
  BY <1>1, AppendedLast
<1>3. DOMAIN l = 1 .. n /\ DOMAIN q = 1 .. n + 1
  BY <1>1, <1>2
<1>4. \A k \in 1 .. n : k \in 1 .. n + 1 /\ k < n + 1
  OBVIOUS
<1>5. \A k \in 1 .. n + 1 : k \in 1 .. n \/ k = n + 1
  OBVIOUS
<1>6. n + 1 \in 1 .. n + 1
  OBVIOUS
<1>. QED
  BY <1>2, <1>3, <1>4, <1>5, <1>6 DEF OneMore

LEMMA InLogGrows ==
  ASSUME NEW q, NEW l, NEW e, NEW n, OneMore(q, l, e, n), NEW types
  PROVE  /\ IsFiniteSet(InLog(l, types)) /\ Cardinality(InLog(l, types)) \in Nat
         /\ e.type \in types =>
              /\ InLog(q, types) = InLog(l, types) \cup {n + 1}
              /\ Cardinality(InLog(q, types)) = Cardinality(InLog(l, types)) + 1
         /\ e.type \notin types => InLog(q, types) = InLog(l, types)
<1>1. /\ DOMAIN l = 1 .. n /\ n \in Nat /\ q[n + 1] = e
      /\ \A k \in DOMAIN l : k \in DOMAIN q /\ k < n + 1 /\ q[k] = l[k]
      /\ n + 1 \in DOMAIN q /\ \A k \in DOMAIN q : k \in DOMAIN l \/ k = n + 1
  BY DEF OneMore
<1>2. IsFiniteSet(InLog(l, types))
  <2>1. IsFiniteSet(1 .. n)
    BY <1>1, FS_Interval
  <2>2. InLog(l, types) \subseteq 1 .. n
    BY <1>1 DEF InLog
  <2>. QED
    BY <2>1, <2>2, FS_Subset
<1>3. n + 1 \notin InLog(l, types)
  BY <1>1 DEF InLog
<1>4. ASSUME e.type \in types
      PROVE  InLog(q, types) = InLog(l, types) \cup {n + 1}
  BY <1>1, <1>4 DEF InLog
<1>5. ASSUME e.type \notin types
      PROVE  InLog(q, types) = InLog(l, types)
  BY <1>1, <1>5 DEF InLog
<1>. QED
  BY <1>2, <1>3, <1>4, <1>5, FS_AddElement, FS_CardinalityType

\* An operation is called.
LEMMA LogAfterCall ==
  ASSUME NEW l, NEW pend, NEW kd, LogOK(l, pend, kd), NEW type \in {"push", "pop"},
         NEW v \in Nat \cup {NoVal}, NEW u, u = Cardinality(InLog(l, CallTypes)),
         type = "push" => v = Cardinality(InLog(l, {"push"})) /\ v < kd.adds,
         type = "pop" => /\ Cardinality(InLog(l, {"pop"})) < kd.removals
                         /\ v # NoVal => ~kd.needsSimpl,
         type = "pop" /\ ~kd.duplicates => \A k \in InLog(l, {"pop", "return"}) : l[k].val # v \/ v = NoVal,
         NoVal \notin Nat, \A x \in Kinds : x.adds \in Nat /\ x.removals \in Nat
  PROVE  LogOK(Append(l, Event(type, u, v, Len(l) + 1)), With(pend, u, type), kd)
<1>. PICK n \in Nat : n = Len(l)
  BY DEF LogOK, TypesOfLog
<1>. PICK e : e = Event(type, u, v, n + 1)
  OBVIOUS
<1>. PICK q : q = Append(l, e)
  OBVIOUS
<1>. PICK p : p = With(pend, u, type)
  OBVIOUS
<1>0. e.type = type /\ e.thread = u /\ e.val = v /\ e.ts = n + 1
  BY DEF Event
<1>. DEFINE C(t) == Cardinality(InLog(l, t))
<1>1. l \in Seq(LogEvents) /\ kd \in Kinds
  BY DEF LogOK, TypesOfLog
<1>2. u \in Nat
  <2>1. IsFiniteSet(InLog(l, CallTypes))
    <3>1. IsFiniteSet(1 .. n) /\ DOMAIN l = 1 .. n
      BY <1>1, FS_Interval
    <3>2. InLog(l, CallTypes) \subseteq 1 .. n
      BY <3>1 DEF InLog
    <3>. QED
      BY <3>1, <3>2, FS_Subset
  <2>. QED
    BY <2>1, FS_CardinalityType
<1>3. e \in LogEvents
  BY <1>2 DEF Event, LogEvents
<1>4. q \in Seq(LogEvents) /\ OneMore(q, l, e, n)
  BY <1>1, <1>3, LogGrows
<1>5. /\ DOMAIN l = 1 .. n /\ DOMAIN q = 1 .. n + 1 /\ q[n + 1] = e /\ Len(q) = n + 1
      /\ \A k \in DOMAIN l : k \in DOMAIN q /\ k < n + 1 /\ q[k] = l[k]
      /\ n + 1 \in DOMAIN q /\ \A k \in DOMAIN q : k \in DOMAIN l \/ k = n + 1
  BY <1>4 DEF OneMore
<1>6. \A t : /\ C(t) \in Nat
             /\ e.type \in t => InLog(q, t) = InLog(l, t) \cup {n + 1} /\ Cardinality(InLog(q, t)) = C(t) + 1
             /\ e.type \notin t => InLog(q, t) = InLog(l, t)
  BY <1>4, InLogGrows
<1>7. \A t : \A k \in InLog(l, t) : k \in DOMAIN l /\ k < n + 1 /\ q[k] = l[k] /\ l[k].type \in t
  BY <1>5 DEF InLog
<1>8. /\ e.type \in CallTypes /\ e.type \in {"push", "pop"} /\ e.type \notin {"return"}
      /\ InLog(q, {"push", "pop"}) = InLog(l, {"push", "pop"}) \cup {n + 1}
      /\ InLog(q, {"return"}) = InLog(l, {"return"})
      /\ Cardinality(InLog(q, CallTypes)) = u + 1
  <2>1. e.type \in CallTypes /\ e.type \in {"push", "pop"} /\ e.type \notin {"return"}
    BY <1>0 DEF CallTypes, AddTypes, RmvTypes
  <2>. QED
    BY <1>6, <2>1
<1>. HIDE DEF C
<1>9. DOMAIN p = DOMAIN pend \cup {u} /\ p[u] = type /\ \A t \in DOMAIN pend : t # u => p[t] = pend[t]
  BY DEF With
<1>10. \A k \in DOMAIN l : l[k].thread < u /\ l[k].thread # u
  <2>1. \A k \in DOMAIN l : l[k].thread < u /\ l[k] \in LogEvents
    BY <1>1 DEF LogOK, ThreadsOfLog
  <2>. QED
    BY <1>2, <2>1 DEF LogEvents
<1>11. u \notin DOMAIN pend
  <2>. SUFFICES ASSUME u \in DOMAIN pend PROVE FALSE
    OBVIOUS
  <2>1. \E j \in InLog(l, {"push", "pop"}) : l[j].thread = u
    BY DEF LogOK, ThreadsOfLog
  <2>. QED
    BY <1>7, <1>10, <2>1
<1>12. TypesOfLog(q, p, kd)
  BY <1>0, <1>1, <1>4, <1>5 DEF LogOK, TypesOfLog
<1>13. ThreadsOfLog(q, p)
  <2>1. \A k \in DOMAIN q : q[k].thread < Cardinality(InLog(q, CallTypes))
    <3>0. \A k \in DOMAIN l : l[k] \in LogEvents
      BY <1>1
    <3>1. \A k \in DOMAIN l : l[k].thread \in Nat
      BY <3>0 DEF LogEvents
    <3>2. \A k \in DOMAIN l : l[k].thread < u + 1
      BY <1>2, <1>10, <3>1
    <3>. QED
      BY <1>0, <1>2, <1>5, <1>8, <3>2
  <2>2. \A j, k \in InLog(q, {"push", "pop"}) : q[j].thread = q[k].thread => j = k
    <3>. SUFFICES ASSUME NEW j \in InLog(q, {"push", "pop"}), NEW k \in InLog(q, {"push", "pop"}),
                         q[j].thread = q[k].thread
                  PROVE  j = k
      OBVIOUS
    <3>1. CASE j \in InLog(l, {"push", "pop"}) /\ k \in InLog(l, {"push", "pop"})
      BY <1>7, <3>1 DEF LogOK, ThreadsOfLog
    <3>2. \A i \in InLog(l, {"push", "pop"}) : q[i].thread # q[n + 1].thread
      BY <1>0, <1>5, <1>7, <1>10
    <3>. QED
      BY <1>8, <3>1, <3>2
  <2>3. \A j, k \in InLog(q, {"return"}) : q[j].thread = q[k].thread => j = k
    BY <1>7, <1>8 DEF LogOK, ThreadsOfLog
  <2>4. ASSUME NEW k \in InLog(q, {"return"})
        PROVE  /\ q[k].thread \notin DOMAIN p
               /\ \E j \in InLog(q, {"push", "pop"}) : j < k /\ q[j].thread = q[k].thread
    <3>1. k \in InLog(l, {"return"}) /\ q[k] = l[k] /\ l[k].thread # u
      BY <1>7, <1>8, <1>10
    <3>2. PICK j \in InLog(l, {"push", "pop"}) : j < k /\ l[j].thread = l[k].thread
      BY <3>1 DEF LogOK, ThreadsOfLog
    <3>3. l[k].thread \notin DOMAIN pend
      BY <3>1 DEF LogOK, ThreadsOfLog
    <3>4. j \in InLog(q, {"push", "pop"}) /\ q[j] = l[j]
      BY <1>7, <1>8
    <3>. QED
      BY <1>9, <3>1, <3>2, <3>3, <3>4
  <2>5. ASSUME NEW t \in DOMAIN p
        PROVE  \E j \in InLog(q, {"push", "pop"}) : q[j].thread = t /\ q[j].type = p[t]
    <3>1. CASE t = u
      BY <1>0, <1>5, <1>8, <1>9, <3>1
    <3>2. CASE t \in DOMAIN pend
      <4>1. PICK j \in InLog(l, {"push", "pop"}) : l[j].thread = t /\ l[j].type = pend[t]
        BY <3>2 DEF LogOK, ThreadsOfLog
      <4>2. p[t] = pend[t]
        BY <1>9, <1>11, <3>2
      <4>. QED
        BY <1>7, <1>8, <4>1, <4>2
    <3>. QED
      BY <1>9, <3>1, <3>2
  <2>6. ASSUME NEW j \in InLog(q, {"push", "pop"})
        PROVE  \/ q[j].thread \in DOMAIN p
               \/ \E k \in InLog(q, {"return"}) : j < k /\ q[k].thread = q[j].thread
    <3>1. CASE j = n + 1
      BY <1>0, <1>5, <1>9, <3>1
    <3>2. CASE j \in InLog(l, {"push", "pop"}) /\ l[j].thread \in DOMAIN pend
      BY <1>7, <1>9, <3>2
    <3>3. CASE j \in InLog(l, {"push", "pop"}) /\ \E k \in InLog(l, {"return"}) : j < k /\ l[k].thread = l[j].thread
      BY <1>7, <1>8, <3>3
    <3>. QED
      BY <1>8, <3>1, <3>2, <3>3 DEF LogOK, ThreadsOfLog
  <2>. QED
    BY <2>1, <2>2, <2>3, <2>4, <2>5, <2>6 DEF ThreadsOfLog
<1>14. CASE type = "push"
  <2>1. /\ e.type \in {"push"} /\ e.type \notin {"pop"} /\ e.type \notin {"pop", "return"}
    BY <1>0, <1>14
  <2>2. /\ InLog(q, {"push"}) = InLog(l, {"push"}) \cup {n + 1}
        /\ InLog(q, {"pop"}) = InLog(l, {"pop"})
        /\ InLog(q, {"pop", "return"}) = InLog(l, {"pop", "return"})
        /\ Cardinality(InLog(q, {"push"})) = v + 1 /\ v \in Nat
    BY <1>6, <1>14, <2>1 DEF C
  <2>3. \A k \in InLog(q, {"push"}) : q[k].val \in Nat /\ q[k].val < v + 1
    <3>1. \A k \in InLog(l, {"push"}) : l[k].val \in Nat /\ l[k].val < v
      BY <1>14 DEF LogOK, ValuesOfLog
    <3>. QED
      BY <1>0, <1>5, <1>7, <2>2, <3>1
  <2>4. \A j, k \in InLog(q, {"push"}) : q[j].val = q[k].val => j = k
    <3>1. \A k \in InLog(l, {"push"}) : l[k].val # v
      BY <1>14, <2>2 DEF LogOK, ValuesOfLog
    <3>. SUFFICES ASSUME NEW j \in InLog(q, {"push"}), NEW k \in InLog(q, {"push"}), q[j].val = q[k].val
                  PROVE  j = k
      OBVIOUS
    <3>2. CASE j \in InLog(l, {"push"}) /\ k \in InLog(l, {"push"})
      BY <1>7, <3>2 DEF LogOK, ValuesOfLog
    <3>3. \A i \in InLog(l, {"push"}) : q[i].val # q[n + 1].val
      BY <1>0, <1>5, <1>7, <3>1
    <3>. QED
      BY <2>2, <3>2, <3>3
  <2>5. /\ \A k \in InLog(q, {"pop"}) : q[k].val # NoVal => ~kd.needsSimpl
        /\ \A k \in InLog(q, {"return"}) : q[k].val # NoVal =>
             kd.needsSimpl /\ \E j \in InLog(q, {"pop"}) : j < k /\ q[j].thread = q[k].thread
        /\ ~kd.duplicates => \A j, k \in InLog(q, {"pop", "return"}) :
             q[j].val = q[k].val /\ q[j].val # NoVal => j = k
    BY <1>7, <1>8, <2>2 DEF LogOK, ValuesOfLog
  <2>6. ValuesOfLog(q, kd)
    <3>1. \A k \in InLog(q, {"push"}) :
            q[k].val \in Nat /\ q[k].val < Cardinality(InLog(q, {"push"}))
      BY <2>2, <2>3
    <3>. QED
      BY <2>4, <2>5, <3>1 DEF ValuesOfLog
  <2>7. SizeOfLog(q, p, kd)
    <3>0. C({"pop"}) \in Nat /\ kd.adds \in Nat
      BY <1>1, <1>6
    <3>1. IsFiniteSet(DOMAIN p) /\ Cardinality(DOMAIN p) = Cardinality(DOMAIN pend) + 1
          /\ Cardinality(DOMAIN pend) \in Nat
      BY <1>9, <1>11, FS_AddElement, FS_CardinalityType DEF LogOK, SizeOfLog
    <3>. PICK a \in Nat : a = C({"push"})
      BY <1>6
    <3>. PICK b \in Nat : b = C({"pop"})
      BY <1>6
    <3>. PICK d \in Nat : d = Cardinality(DOMAIN pend)
      BY <3>1
    <3>2. a = v /\ a < kd.adds /\ b <= kd.removals /\ u = a + b /\ n + d = 2 * u
      BY <1>14 DEF LogOK, SizeOfLog, C
    <3>3. /\ Cardinality(InLog(q, {"push"})) = a + 1 /\ Cardinality(InLog(q, {"pop"})) = b
          /\ Cardinality(InLog(q, CallTypes)) = u + 1 /\ Len(q) = n + 1
          /\ Cardinality(DOMAIN p) = d + 1
      BY <1>5, <1>8, <2>2, <3>1, <3>2 DEF C
    <3>4. a + 1 <= kd.adds /\ u + 1 = (a + 1) + b /\ (n + 1) + (d + 1) = 2 * (u + 1)
      BY ONLY <1>2, <3>0, <3>2, n \in Nat, a \in Nat, b \in Nat, d \in Nat
    <3>. QED
      BY <3>1, <3>2, <3>3, <3>4 DEF SizeOfLog
  <2>. QED
    BY <1>12, <1>13, <2>6, <2>7 DEF LogOK
<1>15. CASE type = "pop"
  <2>1. /\ e.type \in {"pop"} /\ e.type \notin {"push"} /\ e.type \in {"pop", "return"}
    BY <1>0, <1>15
  <2>2. /\ InLog(q, {"pop"}) = InLog(l, {"pop"}) \cup {n + 1}
        /\ InLog(q, {"push"}) = InLog(l, {"push"})
        /\ InLog(q, {"pop", "return"}) = InLog(l, {"pop", "return"}) \cup {n + 1}
        /\ Cardinality(InLog(q, {"pop"})) = Cardinality(InLog(l, {"pop"})) + 1
    BY <1>6, <2>1 DEF C
  <2>3. /\ \A k \in InLog(q, {"push"}) :
             q[k].val \in Nat /\ q[k].val < Cardinality(InLog(q, {"push"}))
        /\ \A j, k \in InLog(q, {"push"}) : q[j].val = q[k].val => j = k
    BY <1>7, <2>2 DEF LogOK, ValuesOfLog
  <2>4. \A k \in InLog(q, {"pop"}) : q[k].val # NoVal => ~kd.needsSimpl
    BY <1>0, <1>5, <1>7, <1>15, <2>2 DEF LogOK, ValuesOfLog
  <2>5. ASSUME NEW k \in InLog(q, {"return"}), q[k].val # NoVal
        PROVE  kd.needsSimpl /\ \E j \in InLog(q, {"pop"}) : j < k /\ q[j].thread = q[k].thread
    <3>1. k \in InLog(l, {"return"}) /\ q[k] = l[k]
      BY <1>7, <1>8
    <3>2. kd.needsSimpl /\ \E j \in InLog(l, {"pop"}) : j < k /\ l[j].thread = l[k].thread
      BY <2>5, <3>1 DEF LogOK, ValuesOfLog
    <3>3. PICK j \in InLog(l, {"pop"}) : j < k /\ l[j].thread = l[k].thread
      BY <3>2
    <3>4. j \in InLog(q, {"pop"}) /\ q[j] = l[j]
      BY <1>7, <2>2
    <3>. QED
      BY <3>1, <3>2, <3>3, <3>4
  <2>6. ASSUME ~kd.duplicates, NEW j \in InLog(q, {"pop", "return"}), NEW k \in InLog(q, {"pop", "return"}),
               q[j].val = q[k].val, q[j].val # NoVal
        PROVE  j = k
    <3>1. CASE j \in InLog(l, {"pop", "return"}) /\ k \in InLog(l, {"pop", "return"})
      BY <1>7, <2>6, <3>1 DEF LogOK, ValuesOfLog
    <3>2. \A i \in InLog(l, {"pop", "return"}) : q[i].val = q[n + 1].val => q[i].val = NoVal
      BY <1>0, <1>5, <1>7, <1>15, <2>6
    <3>. QED
      BY <2>2, <2>6, <3>1, <3>2
  <2>7. ValuesOfLog(q, kd)
    BY <2>3, <2>4, <2>5, <2>6 DEF ValuesOfLog
  <2>8. SizeOfLog(q, p, kd)
    <3>0. C({"push"}) \in Nat /\ C({"pop"}) \in Nat /\ kd.removals \in Nat
      BY <1>1, <1>6
    <3>1. IsFiniteSet(DOMAIN p) /\ Cardinality(DOMAIN p) = Cardinality(DOMAIN pend) + 1
          /\ Cardinality(DOMAIN pend) \in Nat
      BY <1>9, <1>11, FS_AddElement, FS_CardinalityType DEF LogOK, SizeOfLog
    <3>. PICK a \in Nat : a = C({"push"})
      BY <1>6
    <3>. PICK b \in Nat : b = C({"pop"})
      BY <1>6
    <3>. PICK d \in Nat : d = Cardinality(DOMAIN pend)
      BY <3>1
    <3>2. a <= kd.adds /\ b < kd.removals /\ u = a + b /\ n + d = 2 * u
      BY <1>15 DEF LogOK, SizeOfLog, C
    <3>3. /\ Cardinality(InLog(q, {"push"})) = a /\ Cardinality(InLog(q, {"pop"})) = b + 1
          /\ Cardinality(InLog(q, CallTypes)) = u + 1 /\ Len(q) = n + 1
          /\ Cardinality(DOMAIN p) = d + 1
      BY <1>5, <1>8, <2>2, <3>1, <3>2 DEF C
    <3>4. b + 1 <= kd.removals /\ u + 1 = a + (b + 1) /\ (n + 1) + (d + 1) = 2 * (u + 1)
      BY ONLY <1>2, <3>0, <3>2, n \in Nat, a \in Nat, b \in Nat, d \in Nat
    <3>. QED
      BY <3>1, <3>2, <3>3, <3>4 DEF SizeOfLog
  <2>. QED
    BY <1>12, <1>13, <2>7, <2>8 DEF LogOK
<1>. QED
  BY <1>14, <1>15

\* An operation returns.
LEMMA LogAfterReturn ==
  ASSUME NEW l, NEW pend, NEW kd, LogOK(l, pend, kd), NEW u \in DOMAIN pend,
         NEW v \in Nat \cup {NoVal}, v # NoVal => kd.needsSimpl /\ pend[u] = "pop",
         v # NoVal /\ ~kd.duplicates => \A k \in InLog(l, {"pop", "return"}) : l[k].val # v
  PROVE  LogOK(Append(l, Event("return", u, v, Len(l) + 1)), Without(pend, u), kd)
<1>. PICK n \in Nat : n = Len(l)
  BY DEF LogOK, TypesOfLog
<1>. PICK e : e = Event("return", u, v, n + 1)
  OBVIOUS
<1>. PICK q : q = Append(l, e)
  OBVIOUS
<1>. PICK p : p = Without(pend, u)
  OBVIOUS
<1>0. e.type = "return" /\ e.thread = u /\ e.val = v /\ e.ts = n + 1
  BY DEF Event
<1>1. l \in Seq(LogEvents) /\ kd \in Kinds /\ \A k \in DOMAIN l : l[k] \in LogEvents
  BY DEF LogOK, TypesOfLog
<1>2. PICK c \in InLog(l, {"push", "pop"}) : l[c].thread = u /\ l[c].type = pend[u]
  BY DEF LogOK, ThreadsOfLog
<1>3. c \in DOMAIN l /\ u \in Nat
  BY <1>1, <1>2 DEF InLog, LogEvents
<1>. e \in LogEvents
  BY <1>3 DEF Event, LogEvents
<1>4. q \in Seq(LogEvents) /\ OneMore(q, l, e, n)
  BY <1>1, LogGrows
<1>5. /\ DOMAIN l = 1 .. n /\ DOMAIN q = 1 .. n + 1 /\ q[n + 1] = e /\ Len(q) = n + 1
      /\ \A k \in DOMAIN l : k \in DOMAIN q /\ k < n + 1 /\ q[k] = l[k]
      /\ n + 1 \in DOMAIN q /\ \A k \in DOMAIN q : k \in DOMAIN l \/ k = n + 1
  BY <1>4 DEF OneMore
<1>6. \A t : /\ e.type \in t => InLog(q, t) = InLog(l, t) \cup {n + 1}
             /\ e.type \notin t => InLog(q, t) = InLog(l, t)
  BY <1>4, InLogGrows
<1>7. \A t : \A k \in InLog(l, t) : k \in DOMAIN l /\ k < n + 1 /\ q[k] = l[k] /\ l[k].type \in t
  BY <1>5 DEF InLog
<1>8. /\ InLog(q, CallTypes) = InLog(l, CallTypes) /\ InLog(q, {"push"}) = InLog(l, {"push"})
      /\ InLog(q, {"pop"}) = InLog(l, {"pop"}) /\ InLog(q, {"push", "pop"}) = InLog(l, {"push", "pop"})
      /\ InLog(q, {"return"}) = InLog(l, {"return"}) \cup {n + 1}
      /\ InLog(q, {"pop", "return"}) = InLog(l, {"pop", "return"}) \cup {n + 1}
  <2>1. /\ e.type \notin CallTypes /\ e.type \notin {"push"} /\ e.type \notin {"pop"}
        /\ e.type \notin {"push", "pop"} /\ e.type \in {"return"} /\ e.type \in {"pop", "return"}
    BY <1>0 DEF CallTypes, AddTypes, RmvTypes
  <2>. QED
    BY <1>6, <2>1
<1>9. DOMAIN p = DOMAIN pend \ {u} /\ \A t \in DOMAIN p : p[t] = pend[t]
  BY DEF Without
<1>10. TypesOfLog(q, p, kd)
  BY <1>0, <1>1, <1>4, <1>5 DEF LogOK, TypesOfLog
<1>11. ThreadsOfLog(q, p)
  <2>1. \A k \in DOMAIN q : q[k].thread < Cardinality(InLog(q, CallTypes))
    <3>1. \A k \in DOMAIN l : l[k].thread < Cardinality(InLog(l, CallTypes))
      BY DEF LogOK, ThreadsOfLog
    <3>. QED
      BY <1>0, <1>2, <1>3, <1>5, <1>8, <3>1
  <2>2. \A j, k \in InLog(q, {"push", "pop"}) : q[j].thread = q[k].thread => j = k
    BY <1>7, <1>8 DEF LogOK, ThreadsOfLog
  <2>3. ASSUME NEW j \in InLog(q, {"return"}), NEW k \in InLog(q, {"return"}), q[j].thread = q[k].thread
        PROVE  j = k
    <3>1. CASE j \in InLog(l, {"return"}) /\ k \in InLog(l, {"return"})
      BY <1>7, <2>3, <3>1 DEF LogOK, ThreadsOfLog
    <3>2. \A i \in InLog(l, {"return"}) : q[i].thread # q[n + 1].thread
      BY <1>0, <1>5, <1>7 DEF LogOK, ThreadsOfLog
    <3>. QED
      BY <1>8, <2>3, <3>1, <3>2
  <2>4. ASSUME NEW k \in InLog(q, {"return"})
        PROVE  /\ q[k].thread \notin DOMAIN p
               /\ \E j \in InLog(q, {"push", "pop"}) : j < k /\ q[j].thread = q[k].thread
    <3>1. CASE k = n + 1
      BY <1>0, <1>2, <1>5, <1>7, <1>8, <1>9, <3>1
    <3>2. CASE k \in InLog(l, {"return"})
      <4>1. PICK j \in InLog(l, {"push", "pop"}) : j < k /\ l[j].thread = l[k].thread
        BY <3>2 DEF LogOK, ThreadsOfLog
      <4>2. l[k].thread \notin DOMAIN pend
        BY <3>2 DEF LogOK, ThreadsOfLog
      <4>3. j \in InLog(q, {"push", "pop"}) /\ q[j] = l[j] /\ q[k] = l[k]
        BY <1>7, <1>8, <3>2, <4>1
      <4>. QED
        BY <1>9, <4>1, <4>2, <4>3
    <3>. QED
      BY <1>8, <3>1, <3>2
  <2>5. ASSUME NEW t \in DOMAIN p
        PROVE  \E j \in InLog(q, {"push", "pop"}) : q[j].thread = t /\ q[j].type = p[t]
    <3>1. PICK j \in InLog(l, {"push", "pop"}) : l[j].thread = t /\ l[j].type = pend[t]
      BY <1>9 DEF LogOK, ThreadsOfLog
    <3>. QED
      BY <1>7, <1>8, <1>9, <3>1
  <2>6. ASSUME NEW j \in InLog(q, {"push", "pop"})
        PROVE  \/ q[j].thread \in DOMAIN p
               \/ \E k \in InLog(q, {"return"}) : j < k /\ q[k].thread = q[j].thread
    <3>1. j \in InLog(l, {"push", "pop"}) /\ q[j] = l[j] /\ j < n + 1
      BY <1>7, <1>8
    <3>2. CASE l[j].thread = u
      <4>1. n + 1 \in InLog(q, {"return"}) /\ q[n + 1].thread = q[j].thread
        BY <1>0, <1>5, <1>8, <3>1, <3>2
      <4>. QED
        BY <3>1, <4>1
    <3>3. CASE l[j].thread \in DOMAIN pend /\ l[j].thread # u
      BY <1>9, <3>1, <3>3
    <3>4. CASE \E k \in InLog(l, {"return"}) : j < k /\ l[k].thread = l[j].thread
      <4>1. PICK k \in InLog(l, {"return"}) : j < k /\ l[k].thread = l[j].thread
        BY <3>4
      <4>. QED
        BY <1>7, <1>8, <3>1, <4>1
    <3>. QED
      BY <3>1, <3>2, <3>3, <3>4 DEF LogOK, ThreadsOfLog
  <2>. QED
    BY <2>1, <2>2, <2>3, <2>4, <2>5, <2>6 DEF ThreadsOfLog
<1>12. ValuesOfLog(q, kd)
  <2>1. /\ \A k \in InLog(q, {"push"}) :
             q[k].val \in Nat /\ q[k].val < Cardinality(InLog(q, {"push"}))
        /\ \A j, k \in InLog(q, {"push"}) : q[j].val = q[k].val => j = k
        /\ \A k \in InLog(q, {"pop"}) : q[k].val # NoVal => ~kd.needsSimpl
    BY <1>7, <1>8 DEF LogOK, ValuesOfLog
  <2>2. ASSUME NEW k \in InLog(q, {"return"}), q[k].val # NoVal
        PROVE  kd.needsSimpl /\ \E j \in InLog(q, {"pop"}) : j < k /\ q[j].thread = q[k].thread
    <3>1. CASE k = n + 1
      <4>1. kd.needsSimpl /\ pend[u] = "pop"
        BY <1>0, <1>5, <2>2, <3>1
      <4>2. c \in InLog(l, {"pop"}) /\ c < n + 1 /\ q[c] = l[c]
        BY <1>2, <1>5, <1>7, <4>1 DEF InLog
      <4>3. c \in InLog(q, {"pop"}) /\ q[c].thread = u /\ q[k].thread = u
        BY <1>0, <1>2, <1>5, <1>8, <3>1, <4>2
      <4>4. c < k /\ q[c].thread = q[k].thread
        BY <3>1, <4>2, <4>3
      <4>. QED
        BY <4>1, <4>3, <4>4
    <3>2. CASE k \in InLog(l, {"return"})
      <4>1. q[k] = l[k]
        BY <1>7, <3>2
      <4>2. kd.needsSimpl /\ \E j \in InLog(l, {"pop"}) : j < k /\ l[j].thread = l[k].thread
        BY <2>2, <3>2, <4>1 DEF LogOK, ValuesOfLog
      <4>3. PICK j \in InLog(l, {"pop"}) : j < k /\ l[j].thread = l[k].thread
        BY <4>2
      <4>4. j \in InLog(q, {"pop"}) /\ q[j] = l[j]
        BY <1>7, <1>8
      <4>. QED
        BY <4>1, <4>2, <4>3, <4>4
    <3>. QED
      BY <1>8, <3>1, <3>2
  <2>3. ASSUME ~kd.duplicates, NEW j \in InLog(q, {"pop", "return"}), NEW k \in InLog(q, {"pop", "return"}),
               q[j].val = q[k].val, q[j].val # NoVal
        PROVE  j = k
    <3>1. CASE j \in InLog(l, {"pop", "return"}) /\ k \in InLog(l, {"pop", "return"})
      BY <1>7, <2>3, <3>1 DEF LogOK, ValuesOfLog
    <3>2. \A i \in InLog(l, {"pop", "return"}) : q[i].val = q[n + 1].val => q[i].val = NoVal
      BY <1>0, <1>5, <1>7, <2>3
    <3>. QED
      BY <1>8, <2>3, <3>1, <3>2
  <2>. QED
    BY <2>1, <2>2, <2>3 DEF ValuesOfLog
<1>13. SizeOfLog(q, p, kd)
  <2>1. IsFiniteSet(DOMAIN p) /\ Cardinality(DOMAIN p) = Cardinality(DOMAIN pend) - 1
        /\ Cardinality(DOMAIN pend) \in Nat
    BY <1>9, FS_RemoveElement, FS_CardinalityType DEF LogOK, SizeOfLog
  <2>. PICK d \in Nat : d = Cardinality(DOMAIN pend)
    BY <2>1
  <2>2. n + d = 2 * Cardinality(InLog(l, CallTypes))
    BY DEF LogOK, SizeOfLog
  <2>3. (n + 1) + (d - 1) = n + d
    OBVIOUS
  <2>. QED
    BY <1>5, <1>8, <2>1, <2>2, <2>3 DEF LogOK, SizeOfLog
<1>. QED
  BY <1>10, <1>11, <1>12, <1>13 DEF LogOK

LEMMA NoLogYet ==
  ASSUME NEW kd \in Kinds, \A x \in Kinds : x.adds \in Nat /\ x.removals \in Nat
  PROVE  LogOK(<< >>, EmptyMap, kd)
<1>1. \A t : InLog(<< >>, t) = {}
  BY DEF InLog
<1>2. DOMAIN EmptyMap = {} /\ IsFiniteSet({}) /\ Cardinality({}) = 0
  BY FS_EmptySet DEF EmptyMap
<1>3. kd.adds \in Nat /\ kd.removals \in Nat
  OBVIOUS
<1>. PICK l : l = << >>
  OBVIOUS
<1>. PICK p : p = EmptyMap
  OBVIOUS
<1>4. l \in Seq(LogEvents) /\ Len(l) = 0 /\ DOMAIN l = {} /\ DOMAIN p = {} /\ \A t : InLog(l, t) = {}
  BY <1>1, <1>2
<1>5. TypesOfLog(l, p, kd) /\ ThreadsOfLog(l, p) /\ ValuesOfLog(l, kd)
  BY <1>4 DEF TypesOfLog, ThreadsOfLog, ValuesOfLog
<1>6. SizeOfLog(l, p, kd)
  <2>1. \A t : Cardinality(InLog(l, t)) = 0
    BY <1>2, <1>4
  <2>2. Cardinality(DOMAIN p) = 0 /\ IsFiniteSet(DOMAIN p)
    BY <1>2
  <2>. QED
    BY <1>3, <1>4, <2>1, <2>2 DEF SizeOfLog
<1>. QED
  BY <1>5, <1>6 DEF LogOK

LEMMA OperationsOf ==
  ASSUME NEW l, Alternates(l), NEW o
  PROVE  o \in Operations(l) <=>
           \E k, r \in DOMAIN l : IsReturnOf(l, k, r) /\ o = RecordedOp(l, k, r)
<1>. DEFINE Follows(k, j) == /\ l[j].thread = l[k].thread /\ l[j].type = "return"
                          /\ \A m \in k + 1 .. j - 1 : l[m].thread # l[k].thread
            ret(k) == CHOOSE j \in k + 1 .. Len(l) : Follows(k, j)
            C == {i \in DOMAIN l : l[i].type # "return"}
<1>0. Len(l) \in Nat /\ DOMAIN l = 1 .. Len(l)
  BY DEF Alternates
<1>1. ASSUME NEW k \in C, NEW j
      PROVE  j \in k + 1 .. Len(l) /\ Follows(k, j) <=> IsReturnOf(l, k, j)
  <2>1. k \in 1 .. Len(l) /\ l[k].type # "return"
    BY <1>0
  <2>2. j \in k + 1 .. Len(l) <=> j \in 1 .. Len(l) /\ k < j
    BY <1>0, <2>1
  <2>3. ASSUME j \in k + 1 .. Len(l)
        PROVE  \A m : m \in k + 1 .. j - 1 <=> m \in 1 .. Len(l) /\ k < m /\ m < j
    BY <1>0, <2>1, <2>3
  <2>. QED
    BY <1>0, <2>1, <2>2, <2>3 DEF IsReturnOf
<1>. HIDE DEF Follows
<1>2. ASSUME NEW k \in C
      PROVE  IsReturnOf(l, k, ret(k)) /\ \A r : IsReturnOf(l, k, r) => r = ret(k)
  <2>1. \E r \in DOMAIN l : IsReturnOf(l, k, r)
    BY DEF Alternates
  <2>2. \E j \in k + 1 .. Len(l) : Follows(k, j)
    BY <1>1, <2>1
  <2>. PICK r : r = ret(k)
    OBVIOUS
  <2>3. r \in k + 1 .. Len(l) /\ Follows(k, r)
    BY <2>2
  <2>4. IsReturnOf(l, k, r)
    BY <1>1, <2>3
  <2>. QED
    BY <2>4, OneReturnOf
<1>3. Operations(l) = {RecordedOp(l, k, ret(k)) : k \in C}
  BY DEF Operations, RecordedOp, Follows
<1>. HIDE DEF ret
<1>4. ASSUME o \in Operations(l)
      PROVE  \E k, r \in DOMAIN l : IsReturnOf(l, k, r) /\ o = RecordedOp(l, k, r)
  <2>. PICK k \in C : o = RecordedOp(l, k, ret(k))
    BY <1>3, <1>4
  <2>1. IsReturnOf(l, k, ret(k))
    BY <1>2
  <2>2. ret(k) \in DOMAIN l /\ k \in DOMAIN l
    BY <2>1 DEF IsReturnOf
  <2>. QED
    BY <2>1, <2>2
<1>5. ASSUME NEW k \in DOMAIN l, NEW r \in DOMAIN l, IsReturnOf(l, k, r), o = RecordedOp(l, k, r)
      PROVE  o \in Operations(l)
  <2>1. k \in C
    BY <1>5 DEF IsReturnOf
  <2>2. r = ret(k)
    BY <1>2, <1>5, <2>1
  <2>. QED
    BY <1>3, <1>5, <2>1, <2>2
<1>. QED
  BY <1>4, <1>5

LEMMA OperationsAre ==
  ASSUME NEW l, Complete(l), NEW o
  PROVE  o \in Operations(l) <=>
           \E k, r \in DOMAIN l : IsReturnOf(l, k, r) /\ o = RecordedOp(l, k, r)
BY CompleteAlternates, OperationsOf

\* The operations of events that are in order and all have their returns.
LEMMA OperationsOfEvents ==
  ASSUME NEW es, (\E S : es \in Seq(S)), TimesInOrder(es), Paired(EventSet(es)),
         \A e \in EventSet(es) : e.type = "return" => e.val = NoVal
  PROVE  Operations(es) = Ops(EventSet(es))
<1>0. Len(es) \in Nat /\ DOMAIN es = 1 .. Len(es)
  <2>. PICK S : es \in Seq(S)
    OBVIOUS
  <2>. QED
    OBVIOUS
<1>1. \A k \in DOMAIN es : es[k] \in EventSet(es)
  BY DEF EventSet
<1>2. ASSUME NEW k \in DOMAIN es, es[k].type # "return"
      PROVE  \E r \in DOMAIN es : IsReturnOf(es, k, r)
  <2>. PICK x \in EventSet(es) : Matches(EventSet(es), es[k], x)
    BY <1>1, <1>2 DEF Paired
  <2>. PICK c : c = es[k]
    OBVIOUS
  <2>. PICK j \in DOMAIN es, r \in DOMAIN es : IsReturnOf(es, j, r) /\ c = es[j]
    BY EventsMatch
  <2>1. j = k
    <3>1. j \in Nat /\ k \in Nat /\ es[j].ts = es[k].ts /\ es[j].ts \in Nat
      BY DEF TimesInOrder
    <3>2. (j < k => es[j].ts < es[k].ts) /\ (k < j => es[k].ts < es[j].ts)
      BY DEF TimesInOrder
    <3>. QED
      BY <3>1, <3>2
  <2>. QED
    BY <2>1
<1>3. Alternates(es)
  BY <1>0, <1>2 DEF Alternates
<1>4. ASSUME NEW k, NEW r, IsReturnOf(es, k, r)
      PROVE  RecordedOp(es, k, r) = OpFrom(es[k], es[r])
  <2>1. r \in DOMAIN es /\ es[r].type = "return"
    BY <1>4 DEF IsReturnOf
  <2>2. es[r].val = NoVal
    BY <1>1, <2>1
  <2>. QED
    BY <2>2 DEF RecordedOp, OpFrom
<1>5. ASSUME NEW o \in Operations(es)
      PROVE  o \in Ops(EventSet(es))
  <2>. PICK k \in DOMAIN es, r \in DOMAIN es : IsReturnOf(es, k, r) /\ o = RecordedOp(es, k, r)
    BY <1>3, OperationsOf
  <2>. PICK c, x : c = es[k] /\ x = es[r]
    OBVIOUS
  <2>1. Matches(EventSet(es), c, x) /\ c \in EventSet(es) /\ x \in EventSet(es)
    BY <1>1, EventsMatch
  <2>2. o = OpFrom(c, x)
    BY <1>4
  <2>. QED
    BY <2>1, <2>2, OpsIs
<1>6. ASSUME NEW o \in Ops(EventSet(es))
      PROVE  o \in Operations(es)
  <2>. PICK c, x : Matches(EventSet(es), c, x) /\ o = OpFrom(c, x)
    BY OpsIs
  <2>. PICK k \in DOMAIN es, r \in DOMAIN es : IsReturnOf(es, k, r) /\ c = es[k] /\ x = es[r]
    BY EventsMatch
  <2>1. o = RecordedOp(es, k, r)
    BY <1>4
  <2>. QED
    BY <1>3, <2>1, OperationsOf
<1>. QED
  BY <1>5, <1>6

\* A log is complete when no operation is pending.
LEMMA LogIsComplete ==
  ASSUME NEW l, NEW pend, NEW kd, LogOK(l, pend, kd), DOMAIN pend = {}
  PROVE  Complete(l)
<1>1. /\ Len(l) \in Nat /\ DOMAIN l = 1 .. Len(l) /\ \A k \in DOMAIN l : l[k].ts = k
      /\ \A k \in DOMAIN l : l[k] \in LogEvents
  BY DEF LogOK, TypesOfLog
<1>2. \A k \in DOMAIN l : l[k].type \in {"push", "pop", "return"}
  BY <1>1 DEF LogEvents
<1>3. \A k \in DOMAIN l : /\ l[k].type = "return" => k \in InLog(l, {"return"})
                          /\ l[k].type # "return" => k \in InLog(l, {"push", "pop"})
  BY <1>2 DEF InLog
<1>4. /\ \A k \in InLog(l, {"return"}) : k \in DOMAIN l /\ l[k].type = "return"
      /\ \A k \in InLog(l, {"push", "pop"}) : k \in DOMAIN l /\ l[k].type # "return"
  BY DEF InLog
<1>5. ASSUME NEW k \in DOMAIN l, NEW r \in DOMAIN l, l[k].type # "return", l[r].type = "return",
             l[k].thread = l[r].thread, k < r
      PROVE  IsReturnOf(l, k, r)
  <2>1. \A m \in DOMAIN l : l[m].thread = l[k].thread => m = k \/ m = r
    BY <1>3, <1>5 DEF LogOK, ThreadsOfLog
  <2>. QED
    BY <1>1, <1>5, <2>1 DEF IsReturnOf
<1>6. ASSUME NEW k \in DOMAIN l, l[k].type # "return"
      PROVE  \E r \in DOMAIN l : IsReturnOf(l, k, r)
  <2>. PICK r \in InLog(l, {"return"}) : k < r /\ l[r].thread = l[k].thread
    BY <1>3, <1>6 DEF LogOK, ThreadsOfLog
  <2>. QED
    BY <1>4, <1>5, <1>6
<1>7. ASSUME NEW r \in DOMAIN l, l[r].type = "return"
      PROVE  \E k \in DOMAIN l : IsReturnOf(l, k, r)
  <2>. PICK k \in InLog(l, {"push", "pop"}) : k < r /\ l[k].thread = l[r].thread
    BY <1>3, <1>7 DEF LogOK, ThreadsOfLog
  <2>. QED
    BY <1>4, <1>5, <1>7
<1>. QED
  BY <1>1, <1>2, <1>6, <1>7 DEF Complete

LEMMA LogIsShort ==
  ASSUME NEW l, NEW pend, NEW kd, LogOK(l, pend, kd), TimesFit(kd)
  PROVE  \A k \in DOMAIN l : k \in Nat /\ 0 < k /\ k < POSINF - 2
<1>. PICK n \in Nat : n = Len(l)
  BY DEF LogOK, TypesOfLog
<1>1. DOMAIN l = 1 .. n
  BY DEF LogOK, TypesOfLog
<1>2. \A t : Cardinality(InLog(l, t)) \in Nat
  <2>. TAKE t
  <2>1. IsFiniteSet(1 .. n) /\ InLog(l, t) \subseteq 1 .. n
    BY <1>1, FS_Interval DEF InLog
  <2>. QED
    BY <2>1, FS_Subset, FS_CardinalityType
<1>. PICK a \in Nat, b \in Nat, d \in Nat : a = Cardinality(InLog(l, {"push"}))
         /\ b = Cardinality(InLog(l, {"pop"})) /\ d = Cardinality(DOMAIN pend)
  BY <1>2, FS_CardinalityType DEF LogOK, SizeOfLog
<1>3. a <= kd.adds /\ b <= kd.removals /\ n + d = 2 * (a + b)
  BY DEF LogOK, SizeOfLog
<1>. PICK x \in Nat, y \in Nat : x = kd.adds /\ y = kd.removals
  BY DEF TimesFit
<1>4. a <= x /\ b <= y /\ 2 * (x + y) < POSINF - 2 /\ n + d = 2 * (a + b) /\ POSINF \in Nat
  BY <1>3, PosInfAssumption DEF TimesFit
<1>5. n < POSINF - 2
  BY ONLY <1>4, n \in Nat, a \in Nat, b \in Nat, d \in Nat, x \in Nat, y \in Nat
<1>6. \A k \in 1 .. n : k \in Nat /\ 0 < k /\ k < POSINF - 2
  BY ONLY <1>4, <1>5, n \in Nat
<1>. QED
  BY <1>1, <1>6

LEMMA FiniteOperations ==
  ASSUME NEW l, Complete(l)
  PROVE  IsFiniteSet(Operations(l))
<1>. PICK D : D = DOMAIN l
  OBVIOUS
<1>1. IsFiniteSet(D)
  BY FiniteEvents
<1>. PICK S : S = D \X D
  OBVIOUS
<1>. PICK f : f = [x \in S |-> RecordedOp(l, x[1], x[2])]
  OBVIOUS
<1>2. IsFiniteSet(S)
  BY <1>1, FS_Product
<1>3. IsFiniteSet({f[x] : x \in S})
  BY <1>2, FiniteImage
<1>4. \A o \in Operations(l) : o \in {f[x] : x \in S}
  <2>. TAKE o \in Operations(l)
  <2>. PICK k \in D, r \in D : o = RecordedOp(l, k, r)
    BY OperationsAre
  <2>1. <<k, r>> \in S /\ f[<<k, r>>] = o
    OBVIOUS
  <2>. QED
    BY <2>1
<1>. QED
  BY <1>3, <1>4, FS_Subset

\* The log itself, when every removal names its value at the call.
LEMMA LogAsGiven ==
  ASSUME NEW l, NEW pend, NEW kd, LogOK(l, pend, kd), DOMAIN pend = {}, TimesFit(kd),
         ~kd.needsSimpl, NoVal \notin Nat
  PROVE  GivenOK(l, Operations(l)) /\ Ops(EventSet(l)) = Operations(l)
<1>1. Complete(l) /\ l \in Seq(LogEvents)
  BY LogIsComplete DEF LogOK, TypesOfLog
<1>2. \A k \in DOMAIN l : k \in Nat /\ 0 < k /\ k < POSINF - 2 /\ l[k].ts = k
  BY <1>1, LogIsShort DEF Complete
<1>3. \A k \in DOMAIN l : l[k].type = "return" => l[k].val = NoVal
  BY DEF LogOK, ValuesOfLog, InLog
<1>4. /\ \A k \in DOMAIN l : l[k].type = "push" => l[k].val \in Nat
      /\ \A j, k \in DOMAIN l : l[j].type = "push" /\ l[k].type = "push" /\ l[j].val = l[k].val => j = k
  BY DEF LogOK, ValuesOfLog, InLog
<1>5. EventsOK(EventSet(l))
  <2>1. IsFiniteSet(EventSet(l))
    BY <1>1, FiniteEvents
  <2>2. \A k \in DOMAIN l : EventOK(l[k])
    BY <1>1, <1>2, <1>3, <1>4 DEF EventOK, Complete
  <2>. QED
    BY <1>2, <1>4, <2>1, <2>2 DEF EventsOK, EventSet
<1>6. Paired(EventSet(l))
  BY <1>1, CompleteIsPaired
<1>7. Ops(EventSet(l)) = Operations(l)
  <2>1. \A k, r : IsReturnOf(l, k, r) => RecordedOp(l, k, r) = OpFrom(l[k], l[r])
    BY <1>3 DEF RecordedOp, OpFrom, IsReturnOf
  <2>2. \A o : o \in Ops(EventSet(l)) <=> o \in Operations(l)
    BY <1>1, <2>1, CompleteOps, OperationsAre
  <2>. QED
    BY <2>2
<1>8. \A j, k \in DOMAIN l : j < k => l[j].ts < l[k].ts
  BY <1>2
<1>. QED
  BY <1>1, <1>5, <1>6, <1>7, <1>8 DEF GivenOK

----------------------------------------------------------------------------
(* simplify(). *)

LEMMA FreeThreadIs ==
  ASSUME NEW A \in SUBSET Nat, IsFiniteSet(A)
  PROVE  FreeThread(A) \in Nat /\ FreeThread(A) \notin A
<1>. PICK c \in Nat : c = Cardinality(A)
  BY FS_CardinalityType
<1>. DEFINE U == {t \in 0 .. c : t \notin A}
<1>1. U # {}
  <2>. SUFFICES ASSUME U = {} PROVE FALSE
    OBVIOUS
  <2>1. 0 .. c \subseteq A
    OBVIOUS
  <2>2. Cardinality(0 .. c) <= Cardinality(A)
    BY <2>1, FS_Subset
  <2>3. Cardinality(0 .. c) = c + 1
    <3>1. 0 \in Int /\ c \in Int /\ c - 0 + 1 = c + 1 /\ ~(0 > c)
      OBVIOUS
    <3>. QED
      BY <3>1, FS_Interval
  <2>. QED
    BY <2>2, <2>3
<1>. PICK m \in U : \A k \in U : m <= k
  <2>1. U \subseteq Nat
    OBVIOUS
  <2>. HIDE DEF U
  <2>. QED
    BY <1>1, <2>1, LeastNatural
<1>2. m \in 0 .. Cardinality(A) /\ m \notin A /\ \A u \in 0 .. m - 1 : u \in A
  <2>. SUFFICES ASSUME NEW u \in 0 .. m - 1 PROVE u \in A
    OBVIOUS
  <2>1. u \in 0 .. c /\ ~(m <= u)
    OBVIOUS
  <2>. QED
    BY <2>1
<1>. PICK t : t = FreeThread(A)
  OBVIOUS
<1>3. t \in 0 .. Cardinality(A) /\ t \notin A
  BY <1>2 DEF FreeThread
<1>. QED
  BY <1>3

\* A complete log whose removals name their values, all different, at the
\* return.
ToSimplify(l) ==
  /\ Complete(l) /\ l \in Seq(LogEvents)
  /\ \A j, k \in DOMAIN l : l[j].thread = l[k].thread =>
       j = k \/ IsReturnOf(l, j, k) \/ IsReturnOf(l, k, j)
  /\ \A k \in DOMAIN l : l[k].type = "push" => l[k].val \in Nat
  /\ \A j, k \in DOMAIN l : l[j].type = "push" /\ l[k].type = "push" /\ l[j].val = l[k].val => j = k
  /\ \A k \in DOMAIN l : l[k].type = "pop" => l[k].val = NoVal
  /\ \A k, r : IsReturnOf(l, k, r) /\ l[r].val # NoVal => l[k].type = "pop"
  /\ \A j, k \in DOMAIN l : l[j].type = "return" /\ l[k].type = "return"
                            /\ l[j].val = l[k].val /\ l[j].val # NoVal => j = k

LEMMA LogToSimplify ==
  ASSUME NEW l, NEW pend, NEW kd, LogOK(l, pend, kd), DOMAIN pend = {},
         kd.needsSimpl, ~kd.duplicates
  PROVE  ToSimplify(l)
<1>1. Complete(l) /\ l \in Seq(LogEvents)
  BY LogIsComplete DEF LogOK, TypesOfLog
<1>2. /\ \A k \in DOMAIN l : l[k].type = "push" => l[k].val \in Nat
      /\ \A j, k \in DOMAIN l : l[j].type = "push" /\ l[k].type = "push" /\ l[j].val = l[k].val => j = k
      /\ \A k \in DOMAIN l : l[k].type = "pop" => l[k].val = NoVal
      /\ \A j, k \in DOMAIN l : l[j].type = "return" /\ l[k].type = "return"
                                /\ l[j].val = l[k].val /\ l[j].val # NoVal => j = k
  BY DEF LogOK, ValuesOfLog, InLog
<1>3. /\ \A j, k \in DOMAIN l : l[j].type # "return" /\ l[k].type # "return"
                                /\ l[j].thread = l[k].thread => j = k
      /\ \A j, k \in DOMAIN l : l[j].type = "return" /\ l[k].type = "return"
                                /\ l[j].thread = l[k].thread => j = k
  BY <1>1 DEF LogOK, ThreadsOfLog, InLog, Complete
<1>4. ASSUME NEW j \in DOMAIN l, NEW k \in DOMAIN l, l[j].thread = l[k].thread
      PROVE  j = k \/ IsReturnOf(l, j, k) \/ IsReturnOf(l, k, j)
  <2>1. ASSUME NEW a \in DOMAIN l, NEW b \in DOMAIN l, l[a].type # "return", l[b].type = "return",
               l[a].thread = l[b].thread
        PROVE  IsReturnOf(l, a, b)
    <3>. PICK r \in DOMAIN l : IsReturnOf(l, a, r)
      BY <1>1, <2>1 DEF Complete
    <3>1. l[r].type = "return" /\ l[r].thread = l[a].thread
      BY DEF IsReturnOf
    <3>2. r = b
      BY <1>3, <2>1, <3>1
    <3>. QED
      BY <3>2
  <2>. QED
    BY <1>3, <1>4, <2>1
<1>5. ASSUME NEW k, NEW r, IsReturnOf(l, k, r), l[r].val # NoVal
      PROVE  l[k].type = "pop"
  <2>1. k \in DOMAIN l /\ l[k].type # "return" /\ l[k].thread = l[r].thread /\ r \in InLog(l, {"return"})
    BY <1>5 DEF IsReturnOf, InLog
  <2>. PICK j \in InLog(l, {"pop"}) : l[j].thread = l[r].thread
    BY <1>5, <2>1 DEF LogOK, ValuesOfLog
  <2>2. j \in DOMAIN l /\ l[j].type = "pop" /\ l[j].type # "return"
    BY DEF InLog
  <2>3. j = k
    BY <1>3, <2>1, <2>2
  <2>. QED
    BY <2>2, <2>3
<1>. QED
  BY <1>1, <1>2, <1>4, <1>5 DEF ToSimplify

LEMMA RunningAfterCall ==
  ASSUME NEW l, ToSimplify(l), NEW n \in Nat, n + 1 \in DOMAIN l, l[n + 1].type # "return"
  PROVE  /\ \A k : IsRunning(l, n + 1, k) <=> k = n + 1 \/ IsRunning(l, n, k)
         /\ \A k, r : ~IsReturnOf(l, k, n + 1)
         /\ \A m \in 1 .. n : l[m].thread # l[n + 1].thread
<1>1. \A k \in 1 .. n + 1 : k \in DOMAIN l /\ k \in Nat
  BY DEF ToSimplify, Complete
<1>2. \A k : ~IsReturnOf(l, k, n + 1)
  BY DEF IsReturnOf
<1>3. ASSUME NEW m \in 1 .. n
      PROVE  l[m].thread # l[n + 1].thread
  <2>1. m \in DOMAIN l /\ m # n + 1 /\ ~(n + 1 < m)
    BY <1>1
  <2>2. ~IsReturnOf(l, n + 1, m)
    BY <2>1 DEF IsReturnOf
  <2>. QED
    BY <1>2, <2>1, <2>2 DEF ToSimplify
<1>4. IsRunning(l, n + 1, n + 1)
  BY DEF IsRunning
<1>5. \A m : m \in 1 .. n + 1 <=> m \in 1 .. n \/ m = n + 1
  OBVIOUS
<1>6. \A k \in 1 .. n : k # n + 1 /\ k < n + 1
  OBVIOUS
<1>7. ASSUME NEW k, IsRunning(l, n, k)
      PROVE  IsRunning(l, n + 1, k)
  BY <1>3, <1>5, <1>7 DEF IsRunning
<1>8. ASSUME NEW k, IsRunning(l, n + 1, k), k # n + 1
      PROVE  IsRunning(l, n, k)
  BY <1>5, <1>8 DEF IsRunning
<1>. QED
  BY <1>2, <1>3, <1>4, <1>7, <1>8

LEMMA RunningAfterReturn ==
  ASSUME NEW l, ToSimplify(l), NEW n \in Nat, n + 1 \in DOMAIN l, NEW k, IsReturnOf(l, k, n + 1)
  PROVE  /\ IsRunning(l, n, k)
         /\ \A j : IsRunning(l, n + 1, j) <=> IsRunning(l, n, j) /\ j # k
<1>1. \A j \in 1 .. n + 1 : j \in DOMAIN l /\ j \in Nat
  BY DEF ToSimplify, Complete
<1>2. k \in DOMAIN l /\ k < n + 1 /\ l[k].type # "return" /\ l[n + 1].type = "return"
      /\ l[k].thread = l[n + 1].thread /\ k \in Nat /\ k > 0
  BY DEF IsReturnOf, ToSimplify, Complete
<1>3. \A m : m \in 1 .. n + 1 <=> m \in 1 .. n \/ m = n + 1
  OBVIOUS
<1>4. k \in 1 .. n
  BY <1>2
<1>5. IsRunning(l, n, k)
  <2>1. \A m \in 1 .. n : k < m => m < n + 1 /\ m \in DOMAIN l
    BY <1>1
  <2>. QED
    BY <1>2, <1>4, <2>1 DEF IsRunning, IsReturnOf
<1>6. ASSUME NEW j, IsRunning(l, n + 1, j)
      PROVE  IsRunning(l, n, j) /\ j # k
  <2>1. j # n + 1 /\ j # k
    BY <1>2, <1>6 DEF IsRunning
  <2>. QED
    BY <1>3, <1>6, <2>1 DEF IsRunning
<1>7. ASSUME NEW j, IsRunning(l, n, j), j # k
      PROVE  IsRunning(l, n + 1, j)
  <2>1. j \in 1 .. n /\ l[j].type # "return" /\ j \in DOMAIN l
    BY <1>1, <1>7 DEF IsRunning
  <2>2. ~IsReturnOf(l, j, k) /\ ~IsReturnOf(l, k, j)
    BY <1>2, <2>1 DEF IsReturnOf
  <2>3. l[j].thread # l[n + 1].thread
    BY <1>2, <1>7, <2>1, <2>2 DEF ToSimplify
  <2>. QED
    BY <1>3, <1>7, <2>3 DEF IsRunning
<1>. QED
  BY <1>5, <1>6, <1>7

SimplifiedEvents ==
  [type : {"push", "pop", "return"}, thread : Nat, val : (Nat \X Nat) \cup {NoVal}, ts : Nat]

SimplState(s) ==
  s = [out |-> s.out, failed |-> s.failed, active |-> s.active, remap |-> s.remap,
       popmap |-> s.popmap, maxi |-> s.maxi, valmap |-> s.valmap]

\* After n events: the same calls and returns under new threads.
OutOK(l, n, s) ==
  /\ SimplState(s) /\ s.failed = FALSE
  /\ s.out \in Seq(SimplifiedEvents) /\ Len(s.out) = n
  /\ \A k \in 1 .. n : /\ s.out[k].type = l[k].type /\ s.out[k].ts = k
                       /\ l[k].type = "return" => s.out[k].val = NoVal
  /\ \A k, r \in 1 .. n : IsReturnOf(l, k, r) => IsReturnOf(s.out, k, r)

\* Running calls have threads of their own.
RemapOK(l, n, s) ==
  /\ s.active \in SUBSET Nat /\ IsFiniteSet(s.active)
  /\ \A k \in 1 .. n : IsRunning(l, n, k) =>
       /\ l[k].thread \in DOMAIN s.remap /\ s.remap[l[k].thread] = s.out[k].thread
       /\ s.out[k].thread \in s.active
       /\ \A m \in 1 .. n : k < m => s.out[m].thread # s.out[k].thread

\* Entries of popmap are removals without a value, among them the running.
PopmapOK(l, n, s) ==
  /\ \A t \in DOMAIN s.popmap :
       /\ s.popmap[t] \in 0 .. n
       /\ s.popmap[t] # 0 => s.out[s.popmap[t]].val = NoVal /\ s.out[s.popmap[t]].thread = t
  /\ \A k \in 1 .. n : IsRunning(l, n, k) /\ l[k].type = "pop" =>
       s.out[k].thread \in DOMAIN s.popmap /\ s.popmap[s.out[k].thread] = k

\* Added values have different names.
ValmapOK(l, n, s) ==
  /\ \A t \in DOMAIN s.maxi : s.maxi[t] \in Nat
  /\ \A k \in 1 .. n : l[k].type = "push" =>
       /\ l[k].val \in DOMAIN s.valmap /\ s.valmap[l[k].val] = s.out[k].val
       /\ \E t \in DOMAIN s.maxi, i \in Nat :
            t \in Nat /\ s.out[k].val = <<t, i>> /\ i < s.maxi[t]
  /\ \A x \in DOMAIN s.valmap : \E k \in 1 .. n : l[k].type = "push" /\ l[k].val = x
  /\ \A j, k \in 1 .. n : l[j].type = "push" /\ l[k].type = "push" /\ s.out[j].val = s.out[k].val
                            => j = k

\* The removal of a value has the name of the value.
AnswersOK(l, n, s) ==
  \A k, r \in 1 .. n : IsReturnOf(l, k, r) /\ l[k].type = "pop" =>
    \/ l[r].val = NoVal /\ s.out[k].val = NoVal
    \/ \E j \in 1 .. n : /\ l[j].type = "push" /\ l[j].val = l[r].val /\ l[r].val # NoVal
                         /\ s.out[k].val = s.out[j].val /\ j < r

SimplifyOK(l, n, s) ==
  /\ OutOK(l, n, s) /\ RemapOK(l, n, s) /\ PopmapOK(l, n, s)
  /\ ValmapOK(l, n, s) /\ AnswersOK(l, n, s)

\* Returns match as before when only values change and an event is added.
LEMMA ReturnsKept ==
  ASSUME NEW n \in Nat, NEW o, NEW w, DOMAIN o = 1 .. n, DOMAIN w = 1 .. n + 1,
         \A k \in 1 .. n : w[k].type = o[k].type /\ w[k].thread = o[k].thread,
         NEW k, NEW r, IsReturnOf(o, k, r)
  PROVE  IsReturnOf(w, k, r)
<1>1. \A m \in DOMAIN w : m < r => m \in DOMAIN o
  BY DEF IsReturnOf
<1>. QED
  BY <1>1 DEF IsReturnOf

\* One event more, and perhaps other values on calls.
SameEvents(l, n, o, w) ==
  /\ w \in Seq(SimplifiedEvents) /\ Len(w) = n + 1
  /\ \A k \in 1 .. n : /\ w[k].type = o[k].type /\ w[k].thread = o[k].thread
                       /\ w[k].ts = o[k].ts
                       /\ l[k].type = "return" => w[k].val = o[k].val

NextEvent(l, n, w) ==
  /\ w[n + 1].type = l[n + 1].type /\ w[n + 1].ts = n + 1
  /\ l[n + 1].type = "return" => w[n + 1].val = NoVal
  /\ \A k : IsReturnOf(l, k, n + 1) => IsReturnOf(w, k, n + 1)

LEMMA OutAfter ==
  ASSUME NEW l, NEW n \in Nat, NEW s, OutOK(l, n, s),
         NEW q, SimplState(q), q.failed = FALSE,
         SameEvents(l, n, s.out, q.out), NextEvent(l, n, q.out)
  PROVE  OutOK(l, n + 1, q)
<1>0. \A k \in 1 .. n + 1 : k \in 1 .. n \/ k = n + 1
  OBVIOUS
<1>1. DOMAIN s.out = 1 .. n /\ DOMAIN q.out = 1 .. n + 1
  BY DEF OutOK, SameEvents
<1>2. \A k \in 1 .. n + 1 : /\ q.out[k].type = l[k].type /\ q.out[k].ts = k
                            /\ l[k].type = "return" => q.out[k].val = NoVal
  BY <1>0 DEF OutOK, SameEvents, NextEvent
<1>3. ASSUME NEW k \in 1 .. n + 1, NEW r \in 1 .. n + 1, IsReturnOf(l, k, r)
      PROVE  IsReturnOf(q.out, k, r)
  <2>1. CASE r = n + 1
    BY <1>3, <2>1 DEF NextEvent
  <2>2. CASE r # n + 1
    <3>1. r \in 1 .. n /\ k < r
      BY <1>3, <2>2 DEF IsReturnOf
    <3>2. k \in 1 .. n
      BY <3>1
    <3>3. IsReturnOf(s.out, k, r)
      BY <1>3, <3>1, <3>2 DEF OutOK
    <3>. QED
      BY <1>1, <3>3, ReturnsKept DEF SameEvents
  <2>. QED
    BY <2>1, <2>2
<1>. QED
  BY <1>2, <1>3 DEF OutOK, SameEvents

\* The call x was added.
CallAdded(l, n, s, x, q) ==
  /\ OutOK(l, n + 1, q) /\ RemapOK(l, n + 1, q)
  /\ q.out[n + 1] = x /\ \A k \in 1 .. n : q.out[k] = s.out[k]

\* A call goes to a free thread.
LEMMA CallSimplified ==
  ASSUME NEW l, ToSimplify(l), NEW n \in Nat, n + 1 \in DOMAIN l, l[n + 1].type # "return",
         NEW s, OutOK(l, n, s), RemapOK(l, n, s),
         NEW x \in SimplifiedEvents, x.type = l[n + 1].type, x.ts = n + 1,
         x.thread = FreeThread(s.active),
         NEW q, SimplState(q), q.failed = FALSE, q.out = Append(s.out, x),
         q.active = s.active \cup {x.thread}, q.remap = With(s.remap, l[n + 1].thread, x.thread)
  PROVE  CallAdded(l, n, s, x, q)
<1>1. x.thread \in Nat /\ x.thread \notin s.active
  BY FreeThreadIs DEF RemapOK
<1>2. /\ q.out \in Seq(SimplifiedEvents) /\ Len(q.out) = n + 1 /\ q.out[n + 1] = x
      /\ \A k \in 1 .. n : q.out[k] = s.out[k]
  BY AppendedLast DEF OutOK
<1>3. /\ \A k : IsRunning(l, n + 1, k) <=> k = n + 1 \/ IsRunning(l, n, k)
      /\ \A k, r : ~IsReturnOf(l, k, n + 1)
      /\ \A m \in 1 .. n : l[m].thread # l[n + 1].thread
  BY RunningAfterCall
<1>4. OutOK(l, n + 1, q)
  <2>1. SameEvents(l, n, s.out, q.out)
    BY <1>2 DEF SameEvents
  <2>2. NextEvent(l, n, q.out)
    BY <1>2, <1>3 DEF NextEvent
  <2>. QED
    BY <2>1, <2>2, OutAfter
<1>5. \A m : m \in 1 .. n + 1 => m \in 1 .. n \/ m = n + 1
  OBVIOUS
<1>6. /\ DOMAIN q.remap = DOMAIN s.remap \cup {l[n + 1].thread}
      /\ q.remap[l[n + 1].thread] = x.thread
      /\ \A t \in DOMAIN s.remap : t # l[n + 1].thread => q.remap[t] = s.remap[t]
  BY DEF With
<1>7. ASSUME NEW k \in 1 .. n + 1, IsRunning(l, n + 1, k)
      PROVE  /\ l[k].thread \in DOMAIN q.remap /\ q.remap[l[k].thread] = q.out[k].thread
             /\ q.out[k].thread \in q.active
             /\ \A m \in 1 .. n + 1 : k < m => q.out[m].thread # q.out[k].thread
  <2>1. CASE k = n + 1
    <3>1. \A m \in 1 .. n + 1 : ~(n + 1 < m)
      OBVIOUS
    <3>. QED
      BY <1>2, <1>6, <2>1, <3>1
  <2>2. CASE IsRunning(l, n, k) /\ k # n + 1
    <3>1. k \in 1 .. n
      BY <2>2 DEF IsRunning
    <3>2. /\ l[k].thread \in DOMAIN s.remap /\ s.remap[l[k].thread] = s.out[k].thread
          /\ s.out[k].thread \in s.active
          /\ \A m \in 1 .. n : k < m => s.out[m].thread # s.out[k].thread
      BY <2>2, <3>1 DEF RemapOK
    <3>3. l[k].thread # l[n + 1].thread /\ q.out[k] = s.out[k]
      BY <1>2, <1>3, <3>1
    <3>4. \A m \in 1 .. n + 1 : k < m => q.out[m].thread # q.out[k].thread
      BY <1>1, <1>2, <1>5, <3>2, <3>3
    <3>. QED
      BY <1>6, <3>2, <3>3, <3>4
  <2>. QED
    BY <1>3, <1>7, <2>1, <2>2
<1>8. q.active \in SUBSET Nat /\ IsFiniteSet(q.active)
  BY <1>1, FS_AddElement DEF RemapOK
<1>9. RemapOK(l, n + 1, q)
  BY <1>7, <1>8 DEF RemapOK
<1>. QED
  BY <1>2, <1>4, <1>9 DEF CallAdded

\* A return frees the thread of its call.
LEMMA ReturnSimplified ==
  ASSUME NEW l, ToSimplify(l), NEW n \in Nat, n + 1 \in DOMAIN l, NEW c, IsReturnOf(l, c, n + 1),
         NEW s, OutOK(l, n, s), RemapOK(l, n, s),
         NEW q, SimplState(q), q.failed = FALSE, SameEvents(l, n, s.out, q.out),
         q.out[n + 1] = Event("return", s.remap[l[n + 1].thread], NoVal, n + 1),
         q.active = s.active \ {s.remap[l[n + 1].thread]}, q.remap = Without(s.remap, l[n + 1].thread)
  PROVE  OutOK(l, n + 1, q) /\ RemapOK(l, n + 1, q)
<1>1. /\ IsRunning(l, n, c)
      /\ \A j : IsRunning(l, n + 1, j) <=> IsRunning(l, n, j) /\ j # c
  BY RunningAfterReturn
<1>. PICK thr : thr = s.remap[l[n + 1].thread]
  OBVIOUS
<1>2. /\ c \in 1 .. n /\ l[c].thread = l[n + 1].thread /\ thr = s.out[c].thread
      /\ l[n + 1].type = "return" /\ l[c].type # "return"
      /\ \A m \in 1 .. n : c < m => s.out[m].thread # thr
  BY <1>1 DEF RemapOK, IsReturnOf, IsRunning
<1>3. /\ q.out[n + 1].type = "return" /\ q.out[n + 1].thread = thr
      /\ q.out[n + 1].val = NoVal /\ q.out[n + 1].ts = n + 1
  BY DEF Event
<1>4. DOMAIN q.out = 1 .. n + 1 /\ n + 1 \in 1 .. n + 1 /\ c \in 1 .. n + 1 /\ c < n + 1
  BY <1>2 DEF SameEvents
<1>5. \A m : m \in 1 .. n + 1 => m \in 1 .. n \/ m = n + 1
  OBVIOUS
<1>6. IsReturnOf(q.out, c, n + 1)
  <2>1. \A m \in DOMAIN q.out : c < m /\ m < n + 1 => q.out[m].thread # thr
    BY <1>2, <1>4, <1>5 DEF SameEvents
  <2>2. q.out[c].type # "return" /\ q.out[c].thread = thr
    BY <1>2 DEF OutOK, SameEvents
  <2>. QED
    BY <1>3, <1>4, <2>1, <2>2 DEF IsReturnOf
<1>7. \A k : IsReturnOf(l, k, n + 1) => k = c
  BY OneReturn DEF ToSimplify
<1>8. OutOK(l, n + 1, q)
  <2>1. NextEvent(l, n, q.out)
    BY <1>2, <1>3, <1>6, <1>7 DEF NextEvent
  <2>. QED
    BY <2>1, OutAfter
<1>9. /\ DOMAIN q.remap = DOMAIN s.remap \ {l[n + 1].thread}
      /\ \A t \in DOMAIN q.remap : q.remap[t] = s.remap[t]
  BY DEF Without
<1>10. ASSUME NEW k \in 1 .. n + 1, IsRunning(l, n + 1, k)
      PROVE  /\ l[k].thread \in DOMAIN q.remap /\ q.remap[l[k].thread] = q.out[k].thread
             /\ q.out[k].thread \in q.active
             /\ \A m \in 1 .. n + 1 : k < m => q.out[m].thread # q.out[k].thread
  <2>1. IsRunning(l, n, k) /\ k # c /\ k \in 1 .. n
    BY <1>1, <1>10 DEF IsRunning
  <2>2. /\ l[k].thread \in DOMAIN s.remap /\ s.remap[l[k].thread] = s.out[k].thread
        /\ s.out[k].thread \in s.active
        /\ \A m \in 1 .. n : k < m => s.out[m].thread # s.out[k].thread
    BY <2>1 DEF RemapOK
  <2>3. l[k].thread # l[n + 1].thread
    <3>1. k < n + 1 /\ n + 1 \in 1 .. n + 1
      BY <2>1
    <3>. QED
      BY <1>10, <3>1 DEF IsRunning
  <2>4. s.out[k].thread # thr
    <3>1. k < c \/ c < k
      BY <1>2, <2>1
    <3>. QED
      BY <1>2, <2>1, <2>2, <3>1
  <2>5. \A m \in 1 .. n + 1 : k < m => q.out[m].thread # q.out[k].thread
    BY <1>3, <1>5, <2>1, <2>2, <2>4 DEF SameEvents
  <2>. QED
    BY <1>9, <2>1, <2>2, <2>3, <2>4, <2>5 DEF SameEvents
<1>11. q.active \in SUBSET Nat /\ IsFiniteSet(q.active)
  BY FS_Subset DEF RemapOK
<1>. QED
  BY <1>8, <1>10, <1>11 DEF RemapOK

\* The state as a record.
St(o, f, a, r, p, m, v) ==
  [out |-> o, failed |-> f, active |-> a, remap |-> r, popmap |-> p, maxi |-> m, valmap |-> v]

LEMMA FieldsOf ==
  ASSUME NEW o, NEW f, NEW a, NEW r, NEW p, NEW m, NEW v, NEW s, s = St(o, f, a, r, p, m, v)
  PROVE  /\ s.out = o /\ s.failed = f /\ s.active = a /\ s.remap = r /\ s.popmap = p
         /\ s.maxi = m /\ s.valmap = v /\ SimplState(s)
BY DEF St, SimplState

NextIndex(s, thr) == IF thr \in DOMAIN s.maxi THEN s.maxi[thr] ELSE 0

IsAdded(s, e, q) ==
  LET thr == FreeThread(s.active)
      idx == NextIndex(s, thr)
  IN  q = St(Append(s.out, Event(e.type, thr, <<thr, idx>>, e.ts)), s.failed,
             s.active \cup {thr}, With(s.remap, e.thread, thr), s.popmap,
             With(s.maxi, thr, idx + 1), With(s.valmap, e.val, <<thr, idx>>))

LEMMA AddIs ==
  ASSUME NEW s, SimplState(s), NEW e
  PROVE  IsAdded(s, e, SimplifyAdd(s, e))
<1>. PICK thr : thr = FreeThread(s.active)
  OBVIOUS
<1>. PICK idx : idx = NextIndex(s, thr)
  OBVIOUS
<1>0. s = St(s.out, s.failed, s.active, s.remap, s.popmap, s.maxi, s.valmap)
  BY DEF SimplState, St
<1>. DEFINE a == s.active \cup {thr}
            r == With(s.remap, e.thread, thr)
            m == With(s.maxi, thr, idx + 1)
            v == With(s.valmap, e.val, <<thr, idx>>)
            o == Append(s.out, Event(e.type, thr, <<thr, idx>>, e.ts))
<1>1. SimplifyAdd(s, e) = [[[[[s EXCEPT !.active = a] EXCEPT !.remap = r] EXCEPT !.maxi = m]
                              EXCEPT !.valmap = v] EXCEPT !.out = o]
  BY DEF SimplifyAdd, NextIndex
<1>. HIDE DEF a, r, m, v, o
<1>. PICK x1 : x1 = [s EXCEPT !.active = a]
  OBVIOUS
<1>2. x1 = St(s.out, s.failed, a, s.remap, s.popmap, s.maxi, s.valmap)
  BY <1>0 DEF St
<1>. PICK x2 : x2 = [x1 EXCEPT !.remap = r]
  OBVIOUS
<1>3. x2 = St(s.out, s.failed, a, r, s.popmap, s.maxi, s.valmap)
  BY <1>2 DEF St
<1>. PICK x3 : x3 = [x2 EXCEPT !.maxi = m]
  OBVIOUS
<1>4. x3 = St(s.out, s.failed, a, r, s.popmap, m, s.valmap)
  BY <1>3 DEF St
<1>. PICK x4 : x4 = [x3 EXCEPT !.valmap = v]
  OBVIOUS
<1>5. x4 = St(s.out, s.failed, a, r, s.popmap, m, v)
  BY <1>4 DEF St
<1>. PICK x5 : x5 = [x4 EXCEPT !.out = o]
  OBVIOUS
<1>6. x5 = St(o, s.failed, a, r, s.popmap, m, v)
  BY <1>5 DEF St
<1>. QED
  BY <1>1, <1>6 DEF a, r, m, v, o, IsAdded

IsRemoved(s, e, q) ==
  LET thr == FreeThread(s.active)
  IN  q = St(Append(s.out, Event(e.type, thr, e.val, e.ts)), s.failed, s.active \cup {thr},
             With(s.remap, e.thread, thr), With(s.popmap, thr, Len(s.out) + 1), s.maxi, s.valmap)

LEMMA RmvIs ==
  ASSUME NEW s, SimplState(s), NEW e
  PROVE  IsRemoved(s, e, SimplifyRmv(s, e))
<1>. PICK thr : thr = FreeThread(s.active)
  OBVIOUS
<1>0. s = St(s.out, s.failed, s.active, s.remap, s.popmap, s.maxi, s.valmap)
  BY DEF SimplState, St
<1>. DEFINE a == s.active \cup {thr}
            r == With(s.remap, e.thread, thr)
            p == With(s.popmap, thr, Len(s.out) + 1)
            o == Append(s.out, Event(e.type, thr, e.val, e.ts))
<1>1. SimplifyRmv(s, e) = [[[[s EXCEPT !.active = a] EXCEPT !.remap = r] EXCEPT !.popmap = p]
                             EXCEPT !.out = o]
  BY DEF SimplifyRmv
<1>. HIDE DEF a, r, p, o
<1>. PICK x1 : x1 = [s EXCEPT !.active = a]
  OBVIOUS
<1>2. x1 = St(s.out, s.failed, a, s.remap, s.popmap, s.maxi, s.valmap)
  BY <1>0 DEF St
<1>. PICK x2 : x2 = [x1 EXCEPT !.remap = r]
  OBVIOUS
<1>3. x2 = St(s.out, s.failed, a, r, s.popmap, s.maxi, s.valmap)
  BY <1>2 DEF St
<1>. PICK x3 : x3 = [x2 EXCEPT !.popmap = p]
  OBVIOUS
<1>4. x3 = St(s.out, s.failed, a, r, p, s.maxi, s.valmap)
  BY <1>3 DEF St
<1>. PICK x4 : x4 = [x3 EXCEPT !.out = o]
  OBVIOUS
<1>5. x4 = St(o, s.failed, a, r, p, s.maxi, s.valmap)
  BY <1>4 DEF St
<1>. QED
  BY <1>1, <1>5 DEF a, r, p, o, IsRemoved

\* A return without a value, and one with.
ReturnedFrom(s, e, thr) ==
  [[s EXCEPT !.active = s.active \ {thr}] EXCEPT !.remap = Without(s.remap, e.thread)]

LEMMA ReturnedFromIs ==
  ASSUME NEW s, SimplState(s), NEW e, NEW thr
  PROVE  ReturnedFrom(s, e, thr) = St(s.out, s.failed, s.active \ {thr},
                                      Without(s.remap, e.thread), s.popmap, s.maxi, s.valmap)
<1>0. s = St(s.out, s.failed, s.active, s.remap, s.popmap, s.maxi, s.valmap)
  BY DEF SimplState, St
<1>. PICK a, r : a = s.active \ {thr} /\ r = Without(s.remap, e.thread)
  OBVIOUS
<1>. PICK x1 : x1 = [s EXCEPT !.active = a]
  OBVIOUS
<1>1. x1 = St(s.out, s.failed, a, s.remap, s.popmap, s.maxi, s.valmap)
  BY <1>0 DEF St
<1>. PICK x2 : x2 = [x1 EXCEPT !.remap = r]
  OBVIOUS
<1>2. x2 = St(s.out, s.failed, a, r, s.popmap, s.maxi, s.valmap)
  BY <1>1 DEF St
<1>. QED
  BY <1>2 DEF ReturnedFrom

IsEmptyReturn(s, e, q) ==
  LET thr == s.remap[e.thread]
  IN  q = St(Append(s.out, Event("return", thr, NoVal, e.ts)), s.failed, s.active \ {thr},
             Without(s.remap, e.thread), s.popmap, s.maxi, s.valmap)

IsAnswer(s, e, c, q) ==
  LET thr == s.remap[e.thread]
  IN  q = IF e.val \notin DOMAIN s.valmap THEN [s EXCEPT !.failed = TRUE]
          ELSE St(Append([s.out EXCEPT ![c].val = s.valmap[e.val]],
                         Event("return", thr, NoVal, e.ts)),
                  s.failed, s.active \ {thr}, Without(s.remap, e.thread),
                  [s.popmap EXCEPT ![thr] = 0], s.maxi, s.valmap)

LEMMA ReturnIsEmpty ==
  ASSUME NEW s, SimplState(s), NEW e, NEW thr, thr = s.remap[e.thread],
         \/ ~(thr \in DOMAIN s.popmap /\ s.popmap[thr] > 0)
         \/ s.out[s.popmap[thr]].val = NoVal /\ e.val = NoVal
  PROVE  IsEmptyReturn(s, e, SimplifyReturn(s, e))
<1>. PICK q : q = ReturnedFrom(s, e, thr)
  OBVIOUS
<1>. PICK a : a = s.active \ {thr}
  OBVIOUS
<1>. PICK r : r = Without(s.remap, e.thread)
  OBVIOUS
<1>1. q = St(s.out, s.failed, a, r, s.popmap, s.maxi, s.valmap)
  BY ReturnedFromIs
<1>2. q.out = s.out
  BY <1>1, FieldsOf
<1>3. SimplifyReturn(s, e) = [q EXCEPT !.out = Append(q.out, Event("return", thr, NoVal, e.ts))]
  BY DEF SimplifyReturn, ReturnedFrom
<1>. PICK o : o = Append(s.out, Event("return", thr, NoVal, e.ts))
  OBVIOUS
<1>. PICK w : w = [q EXCEPT !.out = o]
  OBVIOUS
<1>4. w = St(o, s.failed, a, r, s.popmap, s.maxi, s.valmap)
  BY ONLY <1>1, w = [q EXCEPT !.out = o] DEF St
<1>5. SimplifyReturn(s, e) = w
  BY <1>2, <1>3
<1>. QED
  BY <1>4, <1>5 DEF IsEmptyReturn

LEMMA ReturnIsAnswer ==
  ASSUME NEW s, SimplState(s), NEW e, NEW thr, thr = s.remap[e.thread],
         thr \in DOMAIN s.popmap, NEW c, c = s.popmap[thr], c > 0,
         s.out[c].val = NoVal, e.val # NoVal
  PROVE  IsAnswer(s, e, c, SimplifyReturn(s, e))
<1>. PICK q : q = ReturnedFrom(s, e, thr)
  OBVIOUS
<1>. PICK a : a = s.active \ {thr}
  OBVIOUS
<1>. PICK r : r = Without(s.remap, e.thread)
  OBVIOUS
<1>1. q = St(s.out, s.failed, a, r, s.popmap, s.maxi, s.valmap)
  BY ReturnedFromIs
<1>2. q.out = s.out /\ q.popmap = s.popmap
  BY <1>1, FieldsOf
<1>3. CASE e.val \notin DOMAIN s.valmap
  BY <1>3 DEF SimplifyReturn, IsAnswer
<1>4. CASE e.val \in DOMAIN s.valmap
  <2>. PICK o : o = Append([s.out EXCEPT ![c].val = s.valmap[e.val]],
                           Event("return", thr, NoVal, e.ts))
    OBVIOUS
  <2>. PICK p : p = [s.popmap EXCEPT ![thr] = 0]
    OBVIOUS
  <2>1. SimplifyReturn(s, e) =
          [[q EXCEPT !.out = Append([q.out EXCEPT ![c].val = s.valmap[e.val]],
                                    Event("return", thr, NoVal, e.ts))]
             EXCEPT !.popmap[thr] = 0]
    BY <1>4 DEF SimplifyReturn, ReturnedFrom
  <2>. PICK w : w = [q EXCEPT !.out = o]
    OBVIOUS
  <2>2. w = St(o, s.failed, a, r, s.popmap, s.maxi, s.valmap)
    BY ONLY <1>1, w = [q EXCEPT !.out = o] DEF St
  <2>3. SimplifyReturn(s, e) = [w EXCEPT !.popmap[thr] = 0] /\ w.popmap = s.popmap
    <3>1. SimplifyReturn(s, e) = [w EXCEPT !.popmap[thr] = 0]
      BY <1>2, <2>1
    <3>2. w.popmap = s.popmap
      BY ONLY <2>2 DEF St
    <3>. QED
      BY <3>1, <3>2
  <2>4. [w EXCEPT !.popmap[thr] = 0] = [w EXCEPT !.popmap = p]
    BY <2>3
  <2>. PICK x : x = [w EXCEPT !.popmap = p]
    OBVIOUS
  <2>5. x = St(o, s.failed, a, r, p, s.maxi, s.valmap)
    BY ONLY <2>2, x = [w EXCEPT !.popmap = p] DEF St
  <2>6. SimplifyReturn(s, e) = St(o, s.failed, a, r, p, s.maxi, s.valmap)
    BY ONLY <2>3, <2>4, <2>5, x = [w EXCEPT !.popmap = p]
  <2>. QED
    BY <1>4, <2>6 DEF IsAnswer
<1>. QED
  BY <1>3, <1>4

LEMMA AddSimplified ==
  ASSUME NEW l, ToSimplify(l), NEW n \in Nat, n + 1 \in DOMAIN l, l[n + 1].type = "push",
         NEW s, SimplifyOK(l, n, s), NEW q, q = SimplifyAdd(s, l[n + 1])
  PROVE  SimplifyOK(l, n + 1, q)
<1>0. \A k, i \in 1 .. n + 1 : i # n + 1 /\ k < i => i \in 1 .. n /\ k \in 1 .. n
  OBVIOUS
<1>. PICK e : e = l[n + 1]
  OBVIOUS
<1>. PICK thr : thr = FreeThread(s.active)
  OBVIOUS
<1>. PICK idx : idx = NextIndex(s, thr)
  OBVIOUS
<1>. PICK x : x = Event(e.type, thr, <<thr, idx>>, e.ts)
  OBVIOUS
<1>1. e.type = "push" /\ e.ts = n + 1 /\ e.val \in Nat
  BY DEF ToSimplify, Complete
<1>2. thr \in Nat /\ idx \in Nat
  BY FreeThreadIs DEF SimplifyOK, RemapOK, ValmapOK, NextIndex
<1>3. /\ x.type = "push" /\ x.thread = thr /\ x.val = <<thr, idx>> /\ x.ts = n + 1
      /\ x \in SimplifiedEvents
  BY <1>1, <1>2 DEF Event, SimplifiedEvents
<1>4. SimplState(s) /\ s.failed = FALSE
  BY DEF SimplifyOK, OutOK
<1>. PICK r, m, v : /\ r = With(s.remap, e.thread, thr) /\ m = With(s.maxi, thr, idx + 1)
                    /\ v = With(s.valmap, e.val, <<thr, idx>>)
  OBVIOUS
<1>. PICK o, a : o = Append(s.out, x) /\ a = s.active \cup {thr}
  OBVIOUS
<1>5. q = St(o, FALSE, a, r, s.popmap, m, v)
  <2>1. IsAdded(s, e, q)
    BY <1>4, AddIs
  <2>. QED
    BY <1>4, <2>1 DEF IsAdded
<1>6. /\ SimplState(q) /\ q.failed = FALSE /\ q.out = Append(s.out, x)
      /\ q.active = s.active \cup {thr} /\ q.remap = r /\ q.popmap = s.popmap
      /\ q.maxi = m /\ q.valmap = v
  <2>1. /\ q.out = o /\ q.failed = FALSE /\ q.active = a /\ q.remap = r
        /\ q.popmap = s.popmap /\ q.maxi = m /\ q.valmap = v /\ SimplState(q)
    BY ONLY <1>5 DEF St, SimplState
  <2>. QED
    BY <2>1
<1>7. /\ OutOK(l, n + 1, q) /\ RemapOK(l, n + 1, q)
      /\ q.out[n + 1] = x /\ \A k \in 1 .. n : q.out[k] = s.out[k]
  <2>1. l[n + 1].type # "return" /\ x.type = l[n + 1].type /\ OutOK(l, n, s) /\ RemapOK(l, n, s)
    BY <1>3 DEF SimplifyOK
  <2>2. CallAdded(l, n, s, x, q)
    BY <1>3, <1>6, <2>1, CallSimplified
  <2>. QED
    BY <2>2 DEF CallAdded
<1>8. /\ \A k : IsRunning(l, n + 1, k) <=> k = n + 1 \/ IsRunning(l, n, k)
      /\ \A k, i : ~IsReturnOf(l, k, n + 1)
  BY RunningAfterCall
<1>9. \A k \in 1 .. n + 1 : k \in 1 .. n \/ k = n + 1
  OBVIOUS
<1>10. PopmapOK(l, n + 1, q)
  <2>1. \A i \in 0 .. n : i \in 0 .. n + 1 /\ (i # 0 => i \in 1 .. n)
    OBVIOUS
  <2>2. /\ \A t \in DOMAIN s.popmap :
             /\ s.popmap[t] \in 0 .. n
             /\ s.popmap[t] # 0 => s.out[s.popmap[t]].val = NoVal /\ s.out[s.popmap[t]].thread = t
        /\ \A k \in 1 .. n : IsRunning(l, n, k) /\ l[k].type = "pop" =>
             s.out[k].thread \in DOMAIN s.popmap /\ s.popmap[s.out[k].thread] = k
    BY DEF PopmapOK, SimplifyOK
  <2>3. ASSUME NEW t \in DOMAIN q.popmap
        PROVE  /\ q.popmap[t] \in 0 .. n + 1
               /\ q.popmap[t] # 0 => q.out[q.popmap[t]].val = NoVal /\ q.out[q.popmap[t]].thread = t
    <3>1. t \in DOMAIN s.popmap /\ q.popmap = s.popmap
      BY <1>6
    <3>. PICK c : c = s.popmap[t]
      OBVIOUS
    <3>2. c \in 0 .. n /\ (c # 0 => s.out[c].val = NoVal /\ s.out[c].thread = t)
      BY <2>2, <3>1
    <3>3. c # 0 => q.out[c] = s.out[c]
      BY <1>7, <2>1, <3>2
    <3>4. c \in 0 .. n + 1
      BY <2>1, <3>2
    <3>. QED
      BY ONLY <3>1, <3>2, <3>3, <3>4, c = s.popmap[t]
  <2>4. ASSUME NEW k \in 1 .. n + 1, IsRunning(l, n + 1, k), l[k].type = "pop"
        PROVE  q.out[k].thread \in DOMAIN q.popmap /\ q.popmap[q.out[k].thread] = k
    <3>1. k \in 1 .. n /\ IsRunning(l, n, k)
      BY <1>1, <1>8, <1>9, <2>4
    <3>. QED
      BY <1>6, <1>7, <2>2, <2>4, <3>1
  <2>. QED
    BY <2>3, <2>4 DEF PopmapOK
<1>11. ValmapOK(l, n + 1, q)
  <2>1. /\ DOMAIN m = DOMAIN s.maxi \cup {thr} /\ m[thr] = idx + 1
        /\ \A t \in DOMAIN s.maxi : t # thr => m[t] = s.maxi[t]
        /\ DOMAIN v = DOMAIN s.valmap \cup {e.val} /\ v[e.val] = <<thr, idx>>
        /\ \A y \in DOMAIN s.valmap : y # e.val => v[y] = s.valmap[y]
    BY DEF With
  <2>2. \A t \in DOMAIN m : m[t] \in Nat
    BY <1>2, <2>1 DEF SimplifyOK, ValmapOK
  <2>3. ASSUME NEW k \in 1 .. n, l[k].type = "push"
        PROVE  /\ l[k].val \in DOMAIN v /\ v[l[k].val] = q.out[k].val
               /\ \E t \in DOMAIN m, i \in Nat : t \in Nat /\ q.out[k].val = <<t, i>> /\ i < m[t]
               /\ q.out[k].val # <<thr, idx>>
    <3>1. k \in DOMAIN l /\ k # n + 1 /\ n + 1 \in DOMAIN l
      BY DEF ToSimplify, Complete
    <3>2. l[k].val # e.val
      BY <1>1, <2>3, <3>1 DEF ToSimplify
    <3>3. l[k].val \in DOMAIN s.valmap /\ s.valmap[l[k].val] = s.out[k].val
      BY <2>3 DEF SimplifyOK, ValmapOK
    <3>. PICK t \in DOMAIN s.maxi, i \in Nat : t \in Nat /\ s.out[k].val = <<t, i>> /\ i < s.maxi[t]
      BY <2>3 DEF SimplifyOK, ValmapOK
    <3>4. s.maxi[t] \in Nat
      BY DEF SimplifyOK, ValmapOK
    <3>5. t = thr => i < idx
      BY DEF NextIndex
    <3>6. t \in DOMAIN m /\ i < m[t]
      BY <1>2, <2>1, <3>4, <3>5
    <3>7. <<t, i>> # <<thr, idx>>
      BY <1>2, <3>5
    <3>. QED
      BY <1>7, <2>1, <3>2, <3>3, <3>6, <3>7
  <2>4. /\ l[n + 1].val \in DOMAIN v /\ v[l[n + 1].val] = q.out[n + 1].val
        /\ \E t \in DOMAIN m, i \in Nat : t \in Nat /\ q.out[n + 1].val = <<t, i>> /\ i < m[t]
    <3>1. l[n + 1].val = e.val /\ q.out[n + 1].val = <<thr, idx>> /\ idx < m[thr] /\ thr \in DOMAIN m
      <4>1. l[n + 1].val = e.val /\ q.out[n + 1].val = <<thr, idx>>
        BY <1>3, <1>7
      <4>2. idx < m[thr] /\ thr \in DOMAIN m
        BY ONLY <1>2, <2>1
      <4>. QED
        BY <4>1, <4>2
    <3>. QED
      BY <1>2, <2>1, <3>1
  <2>5. \A y \in DOMAIN v : \E k \in 1 .. n + 1 : l[k].type = "push" /\ l[k].val = y
    <3>. TAKE y \in DOMAIN v
    <3>1. CASE y = e.val
      <4>1. n + 1 \in 1 .. n + 1
        OBVIOUS
      <4>. QED
        BY <1>1, <3>1, <4>1
    <3>2. CASE y \in DOMAIN s.valmap
      <4>. PICK k \in 1 .. n : l[k].type = "push" /\ l[k].val = y
        BY <3>2 DEF SimplifyOK, ValmapOK
      <4>1. k \in 1 .. n + 1
        OBVIOUS
      <4>. QED
        BY <4>1
    <3>. QED
      BY <2>1, <3>1, <3>2
  <2>6. ASSUME NEW j \in 1 .. n + 1, NEW k \in 1 .. n + 1, l[j].type = "push", l[k].type = "push",
               q.out[j].val = q.out[k].val
        PROVE  j = k
    <3>1. CASE j \in 1 .. n /\ k \in 1 .. n
      <4>1. s.out[j].val = s.out[k].val
        BY <1>7, <2>6, <3>1
      <4>. QED
        BY <2>6, <3>1, <4>1 DEF SimplifyOK, ValmapOK
    <3>2. q.out[n + 1].val = <<thr, idx>>
      BY <1>3, <1>7
    <3>3. CASE j = n + 1 /\ k \in 1 .. n
      BY <2>3, <2>6, <3>2, <3>3
    <3>4. CASE k = n + 1 /\ j \in 1 .. n
      BY <2>3, <2>6, <3>2, <3>4
    <3>. QED
      BY <1>9, <3>1, <3>3, <3>4
  <2>7. \A k \in 1 .. n + 1 : l[k].type = "push" =>
          /\ l[k].val \in DOMAIN v /\ v[l[k].val] = q.out[k].val
          /\ \E t \in DOMAIN m, i \in Nat : t \in Nat /\ q.out[k].val = <<t, i>> /\ i < m[t]
    <3>. SUFFICES ASSUME NEW k \in 1 .. n + 1, l[k].type = "push"
                  PROVE  /\ l[k].val \in DOMAIN v /\ v[l[k].val] = q.out[k].val
                         /\ \E t \in DOMAIN m, i \in Nat :
                              t \in Nat /\ q.out[k].val = <<t, i>> /\ i < m[t]
      OBVIOUS
    <3>1. CASE k \in 1 .. n
      BY <2>3, <3>1
    <3>2. CASE k = n + 1
      BY <2>4, <3>2
    <3>. QED
      BY <1>9, <3>1, <3>2
  <2>8. q.maxi = m /\ q.valmap = v
    BY <1>6
  <2>. QED
    BY ONLY <2>2, <2>5, <2>6, <2>7, <2>8 DEF ValmapOK
<1>12. AnswersOK(l, n + 1, q)
  <2>. SUFFICES ASSUME NEW k \in 1 .. n + 1, NEW i \in 1 .. n + 1, IsReturnOf(l, k, i), l[k].type = "pop"
                PROVE  \/ l[i].val = NoVal /\ q.out[k].val = NoVal
                       \/ \E j \in 1 .. n + 1 :
                            /\ l[j].type = "push" /\ l[j].val = l[i].val /\ l[i].val # NoVal
                            /\ q.out[k].val = q.out[j].val /\ j < i
    BY DEF AnswersOK
  <2>1. i \in 1 .. n /\ k \in 1 .. n
    <3>1. i # n + 1 /\ k < i
      BY <1>8 DEF IsReturnOf
    <3>. QED
      BY <1>0, <3>1
  <2>2. \A j \in 1 .. n : j \in 1 .. n + 1
    OBVIOUS
  <2>3. \/ l[i].val = NoVal /\ s.out[k].val = NoVal
        \/ \E j \in 1 .. n : /\ l[j].type = "push" /\ l[j].val = l[i].val /\ l[i].val # NoVal
                             /\ s.out[k].val = s.out[j].val /\ j < i
    BY <2>1 DEF SimplifyOK, AnswersOK
  <2>. QED
    BY <1>7, <2>1, <2>2, <2>3
<1>. QED
  BY <1>7, <1>10, <1>11, <1>12 DEF SimplifyOK

\* The names of added values stay with another kind of event.
LEMMA ValmapStays ==
  ASSUME NEW l, NEW n \in Nat, NEW s, ValmapOK(l, n, s),
         NEW q, q.maxi = s.maxi, q.valmap = s.valmap,
         \A k \in 1 .. n : k \in 1 .. n + 1,
         \A k \in 1 .. n + 1 : l[k].type = "push" => k \in 1 .. n /\ q.out[k] = s.out[k]
  PROVE  ValmapOK(l, n + 1, q)
<1>1. /\ \A t \in DOMAIN s.maxi : s.maxi[t] \in Nat
      /\ \A k \in 1 .. n : l[k].type = "push" =>
           /\ l[k].val \in DOMAIN s.valmap /\ s.valmap[l[k].val] = s.out[k].val
           /\ \E t \in DOMAIN s.maxi, i \in Nat :
                t \in Nat /\ s.out[k].val = <<t, i>> /\ i < s.maxi[t]
      /\ \A y \in DOMAIN s.valmap : \E k \in 1 .. n : l[k].type = "push" /\ l[k].val = y
      /\ \A j, k \in 1 .. n : l[j].type = "push" /\ l[k].type = "push"
                                /\ s.out[j].val = s.out[k].val => j = k
  BY DEF ValmapOK
<1>2. \A y \in DOMAIN s.valmap : \E k \in 1 .. n + 1 : l[k].type = "push" /\ l[k].val = y
  BY <1>1
<1>3. \A k \in 1 .. n + 1 : l[k].type = "push" =>
        /\ l[k].val \in DOMAIN s.valmap /\ s.valmap[l[k].val] = q.out[k].val
        /\ \E t \in DOMAIN s.maxi, i \in Nat :
             t \in Nat /\ q.out[k].val = <<t, i>> /\ i < s.maxi[t]
  BY <1>1
<1>4. \A j, k \in 1 .. n + 1 : l[j].type = "push" /\ l[k].type = "push"
                                /\ q.out[j].val = q.out[k].val => j = k
  BY <1>1
<1>. QED
  BY <1>1, <1>2, <1>3, <1>4 DEF ValmapOK

LEMMA RmvSimplified ==
  ASSUME NEW l, ToSimplify(l), NEW n \in Nat, n + 1 \in DOMAIN l, l[n + 1].type = "pop",
         NEW s, SimplifyOK(l, n, s), NEW q, q = SimplifyRmv(s, l[n + 1])
  PROVE  SimplifyOK(l, n + 1, q)
<1>0. \A k, i \in 1 .. n + 1 : i # n + 1 /\ k < i => i \in 1 .. n /\ k \in 1 .. n
  OBVIOUS
<1>. PICK e : e = l[n + 1]
  OBVIOUS
<1>. PICK thr : thr = FreeThread(s.active)
  OBVIOUS
<1>. PICK x : x = Event(e.type, thr, e.val, e.ts)
  OBVIOUS
<1>1. e.type = "pop" /\ e.ts = n + 1 /\ e.val = NoVal
  BY DEF ToSimplify, Complete
<1>2. thr \in Nat /\ thr \notin s.active /\ Len(s.out) = n
  BY FreeThreadIs DEF SimplifyOK, RemapOK, OutOK
<1>3. /\ x.type = "pop" /\ x.thread = thr /\ x.val = NoVal /\ x.ts = n + 1
      /\ x \in SimplifiedEvents
  BY <1>1, <1>2 DEF Event, SimplifiedEvents
<1>4. SimplState(s) /\ s.failed = FALSE
  BY DEF SimplifyOK, OutOK
<1>. PICK r, p : r = With(s.remap, e.thread, thr) /\ p = With(s.popmap, thr, n + 1)
  OBVIOUS
<1>. PICK o, a : o = Append(s.out, x) /\ a = s.active \cup {thr}
  OBVIOUS
<1>5. q = St(o, FALSE, a, r, p, s.maxi, s.valmap)
  <2>1. IsRemoved(s, e, q)
    BY <1>4, RmvIs
  <2>. QED
    BY <1>2, <1>4, <2>1 DEF IsRemoved
<1>6. /\ SimplState(q) /\ q.failed = FALSE /\ q.out = Append(s.out, x)
      /\ q.active = s.active \cup {thr} /\ q.remap = r /\ q.popmap = p
      /\ q.maxi = s.maxi /\ q.valmap = s.valmap
  <2>1. /\ q.out = o /\ q.failed = FALSE /\ q.active = a /\ q.remap = r
        /\ q.popmap = p /\ q.maxi = s.maxi /\ q.valmap = s.valmap /\ SimplState(q)
    BY ONLY <1>5 DEF St, SimplState
  <2>. QED
    BY <2>1
<1>7. /\ OutOK(l, n + 1, q) /\ RemapOK(l, n + 1, q)
      /\ q.out[n + 1] = x /\ \A k \in 1 .. n : q.out[k] = s.out[k]
  <2>1. l[n + 1].type # "return" /\ x.type = l[n + 1].type /\ OutOK(l, n, s) /\ RemapOK(l, n, s)
    BY <1>3 DEF SimplifyOK
  <2>2. CallAdded(l, n, s, x, q)
    BY <1>3, <1>6, <2>1, CallSimplified
  <2>. QED
    BY <2>2 DEF CallAdded
<1>8. /\ \A k : IsRunning(l, n + 1, k) <=> k = n + 1 \/ IsRunning(l, n, k)
      /\ \A k, i : ~IsReturnOf(l, k, n + 1)
  BY RunningAfterCall
<1>9. \A k \in 1 .. n + 1 : k \in 1 .. n \/ k = n + 1
  OBVIOUS
<1>10. PopmapOK(l, n + 1, q)
  <2>1. \A i \in 0 .. n : i \in 0 .. n + 1 /\ (i # 0 => i \in 1 .. n)
    OBVIOUS
  <2>2. /\ DOMAIN p = DOMAIN s.popmap \cup {thr} /\ p[thr] = n + 1
        /\ \A t \in DOMAIN s.popmap : t # thr => p[t] = s.popmap[t]
    BY DEF With
  <2>3. ASSUME NEW t \in DOMAIN p
        PROVE  /\ p[t] \in 0 .. n + 1
               /\ p[t] # 0 => q.out[p[t]].val = NoVal /\ q.out[p[t]].thread = t
    <3>1. CASE t = thr
      BY <1>3, <1>7, <2>2, <3>1
    <3>2. CASE t \in DOMAIN s.popmap /\ t # thr
      <4>1. /\ s.popmap[t] \in 0 .. n
            /\ s.popmap[t] # 0 => s.out[s.popmap[t]].val = NoVal /\ s.out[s.popmap[t]].thread = t
        BY <3>2 DEF SimplifyOK, PopmapOK
      <4>. QED
        BY <1>7, <2>1, <2>2, <3>2, <4>1
    <3>. QED
      BY <2>2, <3>1, <3>2
  <2>4. ASSUME NEW k \in 1 .. n + 1, IsRunning(l, n + 1, k), l[k].type = "pop"
        PROVE  q.out[k].thread \in DOMAIN p /\ p[q.out[k].thread] = k
    <3>1. CASE k = n + 1
      BY <1>3, <1>7, <2>2, <3>1
    <3>2. CASE k # n + 1
      <4>1. k \in 1 .. n /\ IsRunning(l, n, k)
        BY <1>8, <1>9, <2>4, <3>2
      <4>2. /\ s.out[k].thread \in DOMAIN s.popmap /\ s.popmap[s.out[k].thread] = k
            /\ s.out[k].thread \in s.active
        BY <2>4, <4>1 DEF SimplifyOK, PopmapOK, RemapOK
      <4>. QED
        BY <1>2, <1>7, <2>2, <4>1, <4>2
    <3>. QED
      BY <3>1, <3>2
  <2>5. q.popmap = p
    BY <1>6
  <2>. QED
    BY ONLY <2>3, <2>4, <2>5 DEF PopmapOK
<1>11. ValmapOK(l, n + 1, q)
  <2>1. \A k \in 1 .. n + 1 : l[k].type = "push" => k \in 1 .. n /\ q.out[k] = s.out[k]
    BY <1>1, <1>7, <1>9
  <2>2. \A k \in 1 .. n : k \in 1 .. n + 1
    OBVIOUS
  <2>3. ValmapOK(l, n, s) /\ q.maxi = s.maxi /\ q.valmap = s.valmap
    BY <1>6 DEF SimplifyOK
  <2>. QED
    BY <2>1, <2>2, <2>3, ValmapStays
<1>12. AnswersOK(l, n + 1, q)
  <2>. SUFFICES ASSUME NEW k \in 1 .. n + 1, NEW i \in 1 .. n + 1, IsReturnOf(l, k, i), l[k].type = "pop"
                PROVE  \/ l[i].val = NoVal /\ q.out[k].val = NoVal
                       \/ \E j \in 1 .. n + 1 :
                            /\ l[j].type = "push" /\ l[j].val = l[i].val /\ l[i].val # NoVal
                            /\ q.out[k].val = q.out[j].val /\ j < i
    BY DEF AnswersOK
  <2>1. i \in 1 .. n /\ k \in 1 .. n
    <3>1. i # n + 1 /\ k < i
      BY <1>8 DEF IsReturnOf
    <3>. QED
      BY <1>0, <3>1
  <2>2. \A j \in 1 .. n : j \in 1 .. n + 1
    OBVIOUS
  <2>3. \/ l[i].val = NoVal /\ s.out[k].val = NoVal
        \/ \E j \in 1 .. n : /\ l[j].type = "push" /\ l[j].val = l[i].val /\ l[i].val # NoVal
                             /\ s.out[k].val = s.out[j].val /\ j < i
    BY <2>1 DEF SimplifyOK, AnswersOK
  <2>. QED
    BY <1>7, <2>1, <2>2, <2>3
<1>. QED
  BY <1>7, <1>10, <1>11, <1>12 DEF SimplifyOK

\* The call of a return, and what the two passes know of it.
LEMMA CallOfReturn ==
  ASSUME NEW l, ToSimplify(l), NEW n \in Nat, n + 1 \in DOMAIN l, l[n + 1].type = "return"
  PROVE  \E c \in 1 .. n : IsReturnOf(l, c, n + 1) /\ IsRunning(l, n, c)
<1>. PICK c : IsReturnOf(l, c, n + 1)
  BY DEF ToSimplify, Complete
<1>1. IsRunning(l, n, c)
  BY RunningAfterReturn
<1>. QED
  BY <1>1 DEF IsRunning

LEMMA EmptySimplified ==
  ASSUME NEW l, ToSimplify(l), NEW n \in Nat, n + 1 \in DOMAIN l, l[n + 1].type = "return",
         NEW s, SimplifyOK(l, n, s), l[n + 1].val = NoVal,
         NEW q, q = SimplifyReturn(s, l[n + 1])
  PROVE  SimplifyOK(l, n + 1, q)
<1>0. /\ \A k, i \in 1 .. n + 1 : i # n + 1 /\ k < i => i \in 1 .. n /\ k \in 1 .. n
      /\ \A k \in 1 .. n : k \in 1 .. n + 1
      /\ \A k \in 1 .. n + 1 : k \in 1 .. n \/ k = n + 1
      /\ \A i \in 0 .. n : i \in 0 .. n + 1 /\ (i # 0 => i \in 1 .. n) /\ (i > 0 => i # 0)
  OBVIOUS
<1>. PICK c \in 1 .. n : IsReturnOf(l, c, n + 1) /\ IsRunning(l, n, c)
  BY CallOfReturn
<1>1. /\ l[c].thread = l[n + 1].thread /\ l[c].type # "return" /\ l[c].type \in {"push", "pop"}
      /\ l[n + 1].ts = n + 1 /\ c \in DOMAIN l
  <2>1. c \in DOMAIN l /\ l \in Seq(LogEvents)
    BY DEF ToSimplify, Complete, IsReturnOf
  <2>2. l[c] \in LogEvents
    BY <2>1
  <2>3. l[c].type \in {"push", "pop", "return"}
    BY <2>2 DEF LogEvents
  <2>. QED
    BY <2>1, <2>3 DEF ToSimplify, Complete, IsReturnOf
<1>2. SimplState(s) /\ s.failed = FALSE /\ Len(s.out) = n /\ s.out \in Seq(SimplifiedEvents)
  BY DEF SimplifyOK, OutOK
<1>. PICK thr : thr = s.remap[l[n + 1].thread]
  OBVIOUS
<1>3. thr = s.out[c].thread
  BY <1>1 DEF SimplifyOK, RemapOK
<1>4. /\ \A t \in DOMAIN s.popmap :
           /\ s.popmap[t] \in 0 .. n
           /\ s.popmap[t] # 0 => s.out[s.popmap[t]].val = NoVal /\ s.out[s.popmap[t]].thread = t
      /\ \A k \in 1 .. n : IsRunning(l, n, k) /\ l[k].type = "pop" =>
           s.out[k].thread \in DOMAIN s.popmap /\ s.popmap[s.out[k].thread] = k
  BY DEF SimplifyOK, PopmapOK
<1>5. \/ ~(thr \in DOMAIN s.popmap /\ s.popmap[thr] > 0)
      \/ s.out[s.popmap[thr]].val = NoVal /\ l[n + 1].val = NoVal
  BY <1>0, <1>4
<1>. PICK o, a, r : /\ o = Append(s.out, Event("return", thr, NoVal, n + 1))
                    /\ a = s.active \ {thr} /\ r = Without(s.remap, l[n + 1].thread)
  OBVIOUS
<1>6. q = St(o, FALSE, a, r, s.popmap, s.maxi, s.valmap)
  <2>1. IsEmptyReturn(s, l[n + 1], q)
    BY <1>2, <1>5, ReturnIsEmpty
  <2>. QED
    BY <1>1, <1>2, <2>1 DEF IsEmptyReturn
<1>7. /\ q.out = o /\ q.failed = FALSE /\ q.active = a /\ q.remap = r
      /\ q.popmap = s.popmap /\ q.maxi = s.maxi /\ q.valmap = s.valmap /\ SimplState(q)
  BY ONLY <1>6 DEF St, SimplState
<1>8. /\ q.out[n + 1] = Event("return", thr, NoVal, n + 1)
      /\ q.out \in Seq(SimplifiedEvents) /\ Len(q.out) = n + 1
      /\ \A k \in 1 .. n : q.out[k] = s.out[k]
  <2>1. s.out[c] \in SimplifiedEvents
    BY <1>2
  <2>2. Event("return", thr, NoVal, n + 1) \in SimplifiedEvents
    BY <1>3, <2>1 DEF SimplifiedEvents, Event
  <2>. QED
    BY <1>2, <1>7, <2>2, AppendedLast
<1>9. OutOK(l, n + 1, q) /\ RemapOK(l, n + 1, q)
  <2>1. SameEvents(l, n, s.out, q.out)
    BY <1>8 DEF SameEvents
  <2>2. OutOK(l, n, s) /\ RemapOK(l, n, s)
    BY DEF SimplifyOK
  <2>3. /\ q.active = s.active \ {s.remap[l[n + 1].thread]}
        /\ q.remap = Without(s.remap, l[n + 1].thread)
        /\ q.out[n + 1] = Event("return", s.remap[l[n + 1].thread], NoVal, n + 1)
    BY <1>7, <1>8
  <2>. QED
    BY <1>7, <2>1, <2>2, <2>3, ReturnSimplified
<1>10. \A j : IsRunning(l, n + 1, j) <=> IsRunning(l, n, j) /\ j # c
  BY RunningAfterReturn
<1>11. PopmapOK(l, n + 1, q)
  <2>1. ASSUME NEW t \in DOMAIN q.popmap
        PROVE  /\ q.popmap[t] \in 0 .. n + 1
               /\ q.popmap[t] # 0 => q.out[q.popmap[t]].val = NoVal /\ q.out[q.popmap[t]].thread = t
    <3>1. t \in DOMAIN s.popmap /\ q.popmap = s.popmap
      BY <1>7
    <3>. PICK i : i = s.popmap[t]
      OBVIOUS
    <3>2. i \in 0 .. n /\ (i # 0 => s.out[i].val = NoVal /\ s.out[i].thread = t)
      BY <1>4, <3>1
    <3>3. i # 0 => q.out[i] = s.out[i]
      BY <1>0, <1>8, <3>2
    <3>4. i \in 0 .. n + 1
      BY <1>0, <3>2
    <3>. QED
      BY ONLY <3>1, <3>2, <3>3, <3>4, i = s.popmap[t]
  <2>2. ASSUME NEW k \in 1 .. n + 1, IsRunning(l, n + 1, k), l[k].type = "pop"
        PROVE  q.out[k].thread \in DOMAIN q.popmap /\ q.popmap[q.out[k].thread] = k
    <3>1. k \in 1 .. n /\ IsRunning(l, n, k)
      BY <1>10, <2>2 DEF IsRunning
    <3>. QED
      BY <1>4, <1>7, <1>8, <2>2, <3>1
  <2>. QED
    BY ONLY <2>1, <2>2 DEF PopmapOK
<1>12. ValmapOK(l, n + 1, q)
  <2>1. \A k \in 1 .. n + 1 : l[k].type = "push" => k \in 1 .. n /\ q.out[k] = s.out[k]
    BY <1>0, <1>8
  <2>2. ValmapOK(l, n, s) /\ q.maxi = s.maxi /\ q.valmap = s.valmap
    BY <1>7 DEF SimplifyOK
  <2>. QED
    BY <1>0, <2>1, <2>2, ValmapStays
<1>13. AnswersOK(l, n + 1, q)
  <2>. SUFFICES ASSUME NEW k \in 1 .. n + 1, NEW i \in 1 .. n + 1, IsReturnOf(l, k, i), l[k].type = "pop"
                PROVE  \/ l[i].val = NoVal /\ q.out[k].val = NoVal
                       \/ \E j \in 1 .. n + 1 :
                            /\ l[j].type = "push" /\ l[j].val = l[i].val /\ l[i].val # NoVal
                            /\ q.out[k].val = q.out[j].val /\ j < i
    BY DEF AnswersOK
  <2>1. CASE i # n + 1
    <3>1. i \in 1 .. n /\ k \in 1 .. n
      BY <1>0, <2>1 DEF IsReturnOf
    <3>2. \/ l[i].val = NoVal /\ s.out[k].val = NoVal
          \/ \E j \in 1 .. n : /\ l[j].type = "push" /\ l[j].val = l[i].val /\ l[i].val # NoVal
                               /\ s.out[k].val = s.out[j].val /\ j < i
      BY <3>1 DEF SimplifyOK, AnswersOK
    <3>. QED
      BY <1>0, <1>8, <3>1, <3>2
  <2>2. CASE i = n + 1
    <3>1. IsRunning(l, n, k) /\ k \in 1 .. n
      <4>1. IsReturnOf(l, k, n + 1)
        BY <2>2
      <4>2. IsRunning(l, n, k)
        BY <4>1, RunningAfterReturn
      <4>. QED
        BY <4>2 DEF IsRunning
    <3>2. s.popmap[s.out[k].thread] = k /\ s.out[k].thread \in DOMAIN s.popmap /\ k # 0
      BY <1>4, <3>1
    <3>3. s.out[k].val = NoVal
      BY <1>4, <3>2
    <3>. QED
      BY <1>8, <2>2, <3>1, <3>3
  <2>. QED
    BY <2>1, <2>2
<1>. QED
  BY <1>9, <1>11, <1>12, <1>13 DEF SimplifyOK

\* Some removal returns a value before an insertion of it is called.
RmvBeforeAdd(l) ==
  \E k, r : /\ IsReturnOf(l, k, r) /\ l[k].type = "pop" /\ l[r].val # NoVal
            /\ \A j \in DOMAIN l : l[j].type = "push" /\ l[j].val = l[r].val => j > r

FailedOrOK(l, n, s) == (s.failed = TRUE /\ RmvBeforeAdd(l)) \/ SimplifyOK(l, n, s)

LEMMA AnswerSimplified ==
  ASSUME NEW l, ToSimplify(l), NEW n \in Nat, n + 1 \in DOMAIN l, l[n + 1].type = "return",
         NEW s, SimplifyOK(l, n, s), l[n + 1].val # NoVal,
         NEW q, q = SimplifyReturn(s, l[n + 1])
  PROVE  FailedOrOK(l, n + 1, q)
<1>0. /\ \A k, i \in 1 .. n + 1 : i # n + 1 /\ k < i => i \in 1 .. n /\ k \in 1 .. n
      /\ \A k \in 1 .. n : k \in 1 .. n + 1 /\ k > 0 /\ k # 0
      /\ \A k \in 1 .. n + 1 : k \in 1 .. n \/ k = n + 1
      /\ \A i \in 0 .. n : i \in 0 .. n + 1 /\ (i # 0 => i \in 1 .. n)
      /\ 0 \in 0 .. n + 1
  OBVIOUS
<1>. PICK c \in 1 .. n : IsReturnOf(l, c, n + 1) /\ IsRunning(l, n, c)
  BY CallOfReturn
<1>1. /\ l[c].thread = l[n + 1].thread /\ l[c].type = "pop" /\ l[n + 1].ts = n + 1 /\ c \in DOMAIN l
  BY DEF ToSimplify, Complete, IsReturnOf
<1>2. SimplState(s) /\ s.failed = FALSE /\ Len(s.out) = n /\ s.out \in Seq(SimplifiedEvents)
  BY DEF SimplifyOK, OutOK
<1>. PICK e : e = l[n + 1]
  OBVIOUS
<1>. PICK thr : thr = s.remap[e.thread]
  OBVIOUS
<1>3. thr = s.out[c].thread
  BY <1>1 DEF SimplifyOK, RemapOK
<1>4. /\ \A t \in DOMAIN s.popmap :
           /\ s.popmap[t] \in 0 .. n
           /\ s.popmap[t] # 0 => s.out[s.popmap[t]].val = NoVal /\ s.out[s.popmap[t]].thread = t
      /\ \A k \in 1 .. n : IsRunning(l, n, k) /\ l[k].type = "pop" =>
           s.out[k].thread \in DOMAIN s.popmap /\ s.popmap[s.out[k].thread] = k
  BY DEF SimplifyOK, PopmapOK
<1>5. thr \in DOMAIN s.popmap /\ c = s.popmap[thr] /\ c > 0 /\ s.out[c].val = NoVal
  <2>1. thr \in DOMAIN s.popmap /\ c = s.popmap[thr]
    BY <1>1, <1>3, <1>4
  <2>. QED
    BY <1>0, <1>4, <2>1
<1>6. IsAnswer(s, e, c, q)
  BY <1>2, <1>5, ReturnIsAnswer
<1>7. SUFFICES ASSUME e.val \in DOMAIN s.valmap
               PROVE  SimplifyOK(l, n + 1, q)
  <2>. SUFFICES ASSUME e.val \notin DOMAIN s.valmap
                PROVE  FailedOrOK(l, n + 1, q)
    BY DEF FailedOrOK
  <2>1. q = [s EXCEPT !.failed = TRUE]
    BY <1>6 DEF IsAnswer
  <2>2. q.failed = TRUE
    BY ONLY <1>2, <2>1 DEF SimplState
  <2>3. ASSUME NEW j \in DOMAIN l, l[j].type = "push", l[j].val = e.val
        PROVE  j > n + 1
    <3>1. j \notin 1 .. n
      BY <2>3 DEF SimplifyOK, ValmapOK
    <3>2. j # n + 1 /\ j \in Nat /\ j > 0
      BY <2>3 DEF ToSimplify, Complete
    <3>. QED
      BY <3>1, <3>2
  <2>4. RmvBeforeAdd(l)
    BY <1>1, <2>3 DEF RmvBeforeAdd
  <2>. QED
    BY <2>2, <2>4 DEF FailedOrOK
<1>. PICK j \in 1 .. n : l[j].type = "push" /\ l[j].val = e.val
  BY <1>7 DEF SimplifyOK, ValmapOK
<1>. PICK x : x = s.valmap[e.val]
  OBVIOUS
<1>8. x = s.out[j].val /\ j # c
  BY <1>1 DEF SimplifyOK, ValmapOK
<1>9. s.out[j] \in SimplifiedEvents /\ s.out[c] \in SimplifiedEvents
  BY <1>2
<1>10. x \in (Nat \X Nat) \cup {NoVal} /\ thr \in Nat
  BY <1>3, <1>8, <1>9 DEF SimplifiedEvents
<1>. PICK u, w : u = [s.out[c] EXCEPT !.val = x] /\ w = [s.out EXCEPT ![c] = u]
  OBVIOUS
<1>11. /\ u.type = s.out[c].type /\ u.thread = s.out[c].thread /\ u.ts = s.out[c].ts /\ u.val = x
       /\ u \in SimplifiedEvents
  BY <1>9, <1>10 DEF SimplifiedEvents
<1>12. /\ w \in Seq(SimplifiedEvents) /\ Len(w) = n /\ w[c] = u
       /\ \A k \in 1 .. n : k # c => w[k] = s.out[k]
  BY <1>2, <1>11
<1>. PICK o, a, r, p : /\ o = Append(w, Event("return", thr, NoVal, n + 1))
                       /\ a = s.active \ {thr} /\ r = Without(s.remap, e.thread)
                       /\ p = [s.popmap EXCEPT ![thr] = 0]
  OBVIOUS
<1>13. q = St(o, FALSE, a, r, p, s.maxi, s.valmap)
  <2>1. w = [s.out EXCEPT ![c].val = s.valmap[e.val]]
    BY DEF St
  <2>. QED
    BY <1>1, <1>2, <1>6, <1>7, <2>1 DEF IsAnswer
<1>14. /\ q.out = o /\ q.failed = FALSE /\ q.active = a /\ q.remap = r
       /\ q.popmap = p /\ q.maxi = s.maxi /\ q.valmap = s.valmap /\ SimplState(q)
  BY ONLY <1>13 DEF St, SimplState
<1>15. /\ q.out[n + 1] = Event("return", thr, NoVal, n + 1)
       /\ q.out \in Seq(SimplifiedEvents) /\ Len(q.out) = n + 1
       /\ q.out[c] = u
       /\ \A k \in 1 .. n : k # c => q.out[k] = s.out[k]
  <2>1. Event("return", thr, NoVal, n + 1) \in SimplifiedEvents
    BY <1>10 DEF SimplifiedEvents, Event
  <2>2. /\ o[n + 1] = Event("return", thr, NoVal, n + 1)
        /\ o \in Seq(SimplifiedEvents) /\ Len(o) = n + 1
        /\ \A k \in 1 .. n : o[k] = w[k]
    BY <1>12, <2>1, AppendedLast
  <2>. QED
    BY <1>12, <1>14, <2>2
<1>16. OutOK(l, n + 1, q) /\ RemapOK(l, n + 1, q)
  <2>1. SameEvents(l, n, s.out, q.out)
    <3>1. ASSUME NEW k \in 1 .. n
          PROVE  /\ q.out[k].type = s.out[k].type /\ q.out[k].thread = s.out[k].thread
                 /\ q.out[k].ts = s.out[k].ts
                 /\ l[k].type = "return" => q.out[k].val = s.out[k].val
      <4>1. CASE k = c
        BY <1>1, <1>11, <1>15, <4>1
      <4>2. CASE k # c
        BY <1>15, <4>2
      <4>. QED
        BY <4>1, <4>2
    <3>. QED
      BY <1>15, <3>1 DEF SameEvents
  <2>2. OutOK(l, n, s) /\ RemapOK(l, n, s)
    BY DEF SimplifyOK
  <2>3. /\ q.active = s.active \ {s.remap[l[n + 1].thread]}
        /\ q.remap = Without(s.remap, l[n + 1].thread)
        /\ q.out[n + 1] = Event("return", s.remap[l[n + 1].thread], NoVal, n + 1)
    BY <1>14, <1>15
  <2>. QED
    BY <1>14, <2>1, <2>2, <2>3, ReturnSimplified
<1>17. \A k : IsRunning(l, n + 1, k) <=> IsRunning(l, n, k) /\ k # c
  BY RunningAfterReturn
<1>18. PopmapOK(l, n + 1, q)
  <2>1. DOMAIN p = DOMAIN s.popmap /\ p[thr] = 0 /\ \A t \in DOMAIN s.popmap : t # thr => p[t] = s.popmap[t]
    BY <1>5
  <2>2. ASSUME NEW t \in DOMAIN q.popmap
        PROVE  /\ q.popmap[t] \in 0 .. n + 1
               /\ q.popmap[t] # 0 => q.out[q.popmap[t]].val = NoVal /\ q.out[q.popmap[t]].thread = t
    <3>1. t \in DOMAIN s.popmap /\ q.popmap = p
      BY <1>14, <2>1
    <3>2. CASE t = thr
      BY <1>0, <2>1, <3>1, <3>2
    <3>3. CASE t # thr
      <4>. PICK i : i = s.popmap[t]
        OBVIOUS
      <4>1. i \in 0 .. n /\ (i # 0 => s.out[i].val = NoVal /\ s.out[i].thread = t)
        BY <1>4, <3>1
      <4>2. i # 0 => q.out[i] = s.out[i]
        BY <1>0, <1>3, <1>15, <3>3, <4>1
      <4>3. i \in 0 .. n + 1 /\ q.popmap[t] = i
        BY <1>0, <2>1, <3>1, <3>3, <4>1
      <4>. QED
        BY ONLY <4>1, <4>2, <4>3
    <3>. QED
      BY <3>2, <3>3
  <2>3. ASSUME NEW k \in 1 .. n + 1, IsRunning(l, n + 1, k), l[k].type = "pop"
        PROVE  q.out[k].thread \in DOMAIN q.popmap /\ q.popmap[q.out[k].thread] = k
    <3>1. k \in 1 .. n /\ IsRunning(l, n, k) /\ k # c
      BY <1>17, <2>3 DEF IsRunning
    <3>2. s.out[k].thread \in DOMAIN s.popmap /\ s.popmap[s.out[k].thread] = k
      BY <1>4, <2>3, <3>1
    <3>3. s.out[k].thread # thr
      BY <1>5, <3>1, <3>2
    <3>. QED
      BY <1>14, <1>15, <2>1, <3>1, <3>2, <3>3
  <2>. QED
    BY ONLY <2>2, <2>3 DEF PopmapOK
<1>19. ValmapOK(l, n + 1, q)
  <2>1. \A k \in 1 .. n + 1 : l[k].type = "push" => k \in 1 .. n /\ q.out[k] = s.out[k]
    BY <1>0, <1>1, <1>15
  <2>2. ValmapOK(l, n, s) /\ q.maxi = s.maxi /\ q.valmap = s.valmap
    BY <1>14 DEF SimplifyOK
  <2>3. \A k \in 1 .. n : k \in 1 .. n + 1
    BY <1>0
  <2>. QED
    BY <2>1, <2>2, <2>3, ValmapStays
<1>20. AnswersOK(l, n + 1, q)
  <2>. SUFFICES ASSUME NEW k \in 1 .. n + 1, NEW i \in 1 .. n + 1, IsReturnOf(l, k, i), l[k].type = "pop"
                PROVE  \/ l[i].val = NoVal /\ q.out[k].val = NoVal
                       \/ \E m \in 1 .. n + 1 :
                            /\ l[m].type = "push" /\ l[m].val = l[i].val /\ l[i].val # NoVal
                            /\ q.out[k].val = q.out[m].val /\ m < i
    BY DEF AnswersOK
  <2>1. CASE i # n + 1
    <3>1. i \in 1 .. n /\ k \in 1 .. n /\ k < i /\ l[i].thread = l[k].thread
      BY <1>0, <2>1 DEF IsReturnOf
    <3>2. k # c
      BY <3>1 DEF IsRunning
    <3>3. \/ l[i].val = NoVal /\ s.out[k].val = NoVal
          \/ \E m \in 1 .. n : /\ l[m].type = "push" /\ l[m].val = l[i].val /\ l[i].val # NoVal
                               /\ s.out[k].val = s.out[m].val /\ m < i
      BY <3>1 DEF SimplifyOK, AnswersOK
    <3>4. q.out[k] = s.out[k] /\ \A m \in 1 .. n : l[m].type = "push" => q.out[m] = s.out[m]
      BY <1>1, <1>15, <3>1, <3>2
    <3>. QED
      BY <1>0, <3>3, <3>4
  <2>2. CASE i = n + 1
    <3>1. k = c
      <4>1. k \in DOMAIN l /\ l[k].thread = l[c].thread
        BY <1>1, <2>2 DEF IsReturnOf
      <4>2. ~IsReturnOf(l, k, c) /\ ~IsReturnOf(l, c, k)
        BY <1>1 DEF IsReturnOf
      <4>. QED
        BY <1>1, <4>1, <4>2 DEF ToSimplify
    <3>2. q.out[k].val = q.out[j].val
      BY <1>8, <1>11, <1>15, <3>1
    <3>. QED
      BY <1>0, <2>2, <3>2
  <2>. QED
    BY <2>1, <2>2
<1>. QED
  BY <1>16, <1>18, <1>19, <1>20 DEF SimplifyOK

\* simplify() either fails or leaves the same history under other names.
LEMMA SimplifyGoesOn ==
  ASSUME NEW l, ToSimplify(l), NEW n \in Nat, n + 1 \in DOMAIN l,
         NEW s, SimplifyOK(l, n, s), NEW q, q = SimplifyEvent(s, l[n + 1])
  PROVE  FailedOrOK(l, n + 1, q)
<1>1. s.failed = FALSE
  BY DEF SimplifyOK, OutOK
<1>2. l[n + 1].type \in {"push", "pop", "return"}
  <2>1. l[n + 1] \in LogEvents
    BY DEF ToSimplify
  <2>. QED
    BY <2>1 DEF LogEvents
<1>3. CASE l[n + 1].type = "push"
  <2>1. q = SimplifyAdd(s, l[n + 1])
    BY <1>1, <1>3 DEF SimplifyEvent, AddTypes
  <2>. QED
    BY <1>3, <2>1, AddSimplified DEF FailedOrOK
<1>4. CASE l[n + 1].type = "pop"
  <2>1. q = SimplifyRmv(s, l[n + 1])
    BY <1>1, <1>4 DEF SimplifyEvent, AddTypes, RmvTypes
  <2>. QED
    BY <1>4, <2>1, RmvSimplified DEF FailedOrOK
<1>5. CASE l[n + 1].type = "return"
  <2>1. q = SimplifyReturn(s, l[n + 1])
    BY <1>1, <1>5 DEF SimplifyEvent, AddTypes, RmvTypes
  <2>2. CASE l[n + 1].val = NoVal
    BY <1>5, <2>1, <2>2, EmptySimplified DEF FailedOrOK
  <2>3. CASE l[n + 1].val # NoVal
    BY <1>5, <2>1, <2>3, AnswerSimplified
  <2>. QED
    BY <2>2, <2>3
<1>. QED
  BY <1>2, <1>3, <1>4, <1>5

LEMMA SimplifyStarts ==
  ASSUME NEW l
  PROVE  SimplifyOK(l, 0, SimplifyInit)
<1>. PICK s : s = SimplifyInit
  OBVIOUS
<1>1. /\ SimplState(s) /\ s.failed = FALSE /\ s.out = << >> /\ s.active = {}
      /\ s.popmap = EmptyMap /\ s.maxi = EmptyMap /\ s.valmap = EmptyMap
  BY DEF SimplifyInit, SimplState
<1>2. \A k : k \notin 1 .. 0
  OBVIOUS
<1>3. OutOK(l, 0, s)
  BY <1>1, <1>2 DEF OutOK
<1>4. RemapOK(l, 0, s)
  BY <1>1, <1>2, FS_EmptySet DEF RemapOK
<1>5. PopmapOK(l, 0, s) /\ ValmapOK(l, 0, s) /\ AnswersOK(l, 0, s)
  BY <1>1, <1>2 DEF PopmapOK, ValmapOK, AnswersOK, EmptyMap
<1>. QED
  BY <1>3, <1>4, <1>5 DEF SimplifyOK

LEMMA Simplified ==
  ASSUME NEW l, ToSimplify(l), NEW n \in Nat, DOMAIN l = 1 .. n,
         NEW s, s = FoldLeft(SimplifyEvent, SimplifyInit, l)
  PROVE  FailedOrOK(l, n, s)
<1>. PICK w : w = [pass |-> "simplify", skip |-> {}]
  OBVIOUS
<1>. PICK f : PassStates(f, w, SimplifyInit, l, n, f[n]) /\ s = f[n]
  BY SimplifyBySteps
<1>1. f[0] = SimplifyInit /\ \A k \in 1 .. n : f[k] = SimplifyEvent(f[k - 1], l[k])
  BY DEF PassStates, TurnOf
<1>. DEFINE X == {k \in Nat : k <= n => FailedOrOK(l, k, f[k])}
<1>2. 0 \in X
  BY <1>1, SimplifyStarts DEF FailedOrOK
<1>3. ASSUME NEW k \in Nat, k \in X
      PROVE  k + 1 \in X
  <2>. SUFFICES ASSUME k + 1 <= n
                PROVE  FailedOrOK(l, k + 1, f[k + 1])
    OBVIOUS
  <2>1. k + 1 \in 1 .. n /\ (k + 1) - 1 = k /\ k <= n
    OBVIOUS
  <2>2. f[k + 1] = SimplifyEvent(f[k], l[k + 1])
    BY <1>1, <2>1
  <2>3. CASE f[k].failed = TRUE /\ RmvBeforeAdd(l)
    BY <2>2, <2>3 DEF SimplifyEvent, FailedOrOK
  <2>4. CASE SimplifyOK(l, k, f[k])
    BY <2>1, <2>2, <2>4, SimplifyGoesOn
  <2>. QED
    BY <1>3, <2>1, <2>3, <2>4 DEF FailedOrOK
<1>. HIDE DEF X
<1>4. \A k \in Nat : k \in X
  BY <1>2, <1>3, NatSetInduction
<1>5. n \in X
  BY <1>4
<1>6. FailedOrOK(l, n, f[n])
  BY <1>5 DEF X
<1>. QED
  BY <1>6

\* "Rmv before Add" is said only of a history that cannot be ordered.
LEMMA RmvBeforeAddIsWrong ==
  ASSUME NEW l, ToSimplify(l), RmvBeforeAdd(l), NoVal \notin Nat
  PROVE  ~Orders(Operations(l), << >>)
<1>. SUFFICES ASSUME Orders(Operations(l), << >>)
              PROVE  FALSE
  OBVIOUS
<1>. PICK T : T = Operations(l)
  OBVIOUS
<1>1. Complete(l)
  BY DEF ToSimplify
<1>2. \A o : o \in T <=> \E k, r \in DOMAIN l : IsReturnOf(l, k, r) /\ o = RecordedOp(l, k, r)
  BY <1>1, OperationsAre
<1>3. \A k, r : IsReturnOf(l, k, r) =>
        /\ k \in DOMAIN l /\ r \in DOMAIN l /\ l[k].ts = k /\ l[r].ts = r /\ k \in Nat /\ r \in Nat
        /\ l[k].type # "return" /\ l[r].type = "return"
        /\ l[k].type = "push" => l[k].val # NoVal
        /\ l[k].type = "pop" => l[k].val = NoVal
  BY <1>1 DEF IsReturnOf, ToSimplify, Complete
<1>4. \A k, r : /\ RecordedOp(l, k, r).type = l[k].type
                /\ l[k].val # NoVal => RecordedOp(l, k, r).val = l[k].val
                /\ l[k].val = NoVal => RecordedOp(l, k, r).val = l[r].val
                /\ RecordedOp(l, k, r).call = l[k].ts /\ RecordedOp(l, k, r).ret = l[r].ts
  BY DEF RecordedOp
<1>5. IsFiniteSet(T)
  BY <1>1, FiniteOperations
<1>6. ASSUME NEW o \in T, NEW q \in T, o.type = "push", q.type = "push", o.val = q.val
      PROVE  o = q
  <2>. PICK k \in DOMAIN l, r \in DOMAIN l : IsReturnOf(l, k, r) /\ o = RecordedOp(l, k, r)
    BY <1>2
  <2>. PICK j \in DOMAIN l, i \in DOMAIN l : IsReturnOf(l, j, i) /\ q = RecordedOp(l, j, i)
    BY <1>2
  <2>1. l[k].type = "push" /\ l[j].type = "push" /\ l[k].val = l[j].val
    BY <1>3, <1>4, <1>6
  <2>2. k = j
    BY <2>1 DEF ToSimplify
  <2>3. r = i
    BY <1>1, <2>2, OneReturn
  <2>. QED
    BY <2>2, <2>3
<1>. PICK k, r : /\ IsReturnOf(l, k, r) /\ l[k].type = "pop" /\ l[r].val # NoVal
                 /\ \A j \in DOMAIN l : l[j].type = "push" /\ l[j].val = l[r].val => j > r
  BY DEF RmvBeforeAdd
<1>. PICK x : x = RecordedOp(l, k, r)
  OBVIOUS
<1>7. x \in T /\ x.type = "pop" /\ x.val = l[r].val /\ x.val # NoVal /\ x.ret = r
  BY <1>2, <1>3, <1>4
<1>8. HasPush(T, << >>, x)
  <2>. PICK V : V = ValuesIn(T)
    OBVIOUS
  <2>1. Orders(T, << >>)
    OBVIOUS
  <2>2. \A y \in T : y.type = "pop" /\ y.val # NoVal => HasPush(T, << >>, y)
    BY ONLY <1>5, <1>6, <2>1, V = ValuesIn(T), PopsHavePushes
  <2>. QED
    BY <1>7, <2>2
<1>9. ~IsOn(x.val, << >>)
  BY DEF IsOn
<1>. PICK p \in T : p.type = "push" /\ p.val = x.val /\ x.ret >= p.call
  BY <1>8, <1>9 DEF HasPush
<1>. PICK j \in DOMAIN l, i \in DOMAIN l : IsReturnOf(l, j, i) /\ p = RecordedOp(l, j, i)
  BY <1>2
<1>10. l[j].type = "push" /\ l[j].val = l[r].val /\ r >= j
  BY <1>3, <1>4, <1>7
<1>11. j > r /\ j \in Nat /\ r \in Nat
  BY <1>3, <1>10
<1>. QED
  BY <1>10, <1>11

\* The value of the call at k in the log, whose return is at r[k].
ValueIn(l, r, k) == IF l[k].val # NoVal THEN l[k].val ELSE l[r[k]].val

ReturnsAt(l, r) == \A k \in DOMAIN l : l[k].type # "return" => IsReturnOf(l, k, r[k])

IsComplete(l, n, o) == Complete(o) /\ DOMAIN o = 1 .. n

LEMMA SimplifiedIsComplete ==
  ASSUME NEW l, Complete(l), NEW n \in Nat, DOMAIN l = 1 .. n,
         NEW s, OutOK(l, n, s)
  PROVE  IsComplete(l, n, s.out)
<1>. PICK o : o = s.out
  OBVIOUS
<1>1. /\ Len(o) = n /\ DOMAIN o = 1 .. n
      /\ \A k \in 1 .. n : o[k].type = l[k].type /\ o[k].ts = k
      /\ \A k, r \in 1 .. n : IsReturnOf(l, k, r) => IsReturnOf(o, k, r)
  BY DEF OutOK
<1>2. Complete(o)
  BY <1>1 DEF Complete
<1>. QED
  BY <1>1, <1>2 DEF IsComplete

\* An operation with a value has the name of the insertion of that value.
NamedBy(l, r, o, k, j) ==
  /\ j \in DOMAIN l /\ l[j].type = "push"
  /\ ValueIn(l, r, j) = ValueIn(l, r, k) /\ o[j].val = o[k].val

LEMMA SimplifiedNames ==
  ASSUME NEW l, ToSimplify(l), NEW n \in Nat, DOMAIN l = 1 .. n,
         NEW s, SimplifyOK(l, n, s), NoVal \notin Nat, NoVal \notin Nat \X Nat,
         NEW r, ReturnsAt(l, r), NEW k \in DOMAIN l, l[k].type # "return"
  PROVE  \/ ValueIn(l, r, k) = NoVal /\ s.out[k].val = NoVal
         \/ ValueIn(l, r, k) # NoVal /\ s.out[k].val # NoVal /\ \E j : NamedBy(l, r, s.out, k, j)
<1>1. l[k].type \in {"push", "pop"}
  BY DEF ToSimplify, Complete
<1>2. \A j \in DOMAIN l : l[j].type = "push" =>
        l[j].val # NoVal /\ ValueIn(l, r, j) = l[j].val /\ s.out[j].val # NoVal
  <2>. SUFFICES ASSUME NEW j \in DOMAIN l, l[j].type = "push"
                PROVE  l[j].val # NoVal /\ ValueIn(l, r, j) = l[j].val /\ s.out[j].val # NoVal
    OBVIOUS
  <2>1. l[j].val # NoVal
    BY DEF ToSimplify
  <2>2. \E t \in DOMAIN s.maxi, i \in Nat : t \in Nat /\ s.out[j].val = <<t, i>> /\ i < s.maxi[t]
    BY DEF SimplifyOK, ValmapOK
  <2>3. s.out[j].val \in Nat \X Nat
    BY <2>2
  <2>4. s.out[j].val # NoVal
    BY <2>3
  <2>. QED
    BY <2>1, <2>4 DEF ValueIn
<1>3. CASE l[k].type = "push"
  <2>1. NamedBy(l, r, s.out, k, k)
    BY <1>3 DEF NamedBy
  <2>. QED
    BY <1>2, <1>3, <2>1
<1>4. CASE l[k].type = "pop"
  <2>1. IsReturnOf(l, k, r[k]) /\ r[k] \in 1 .. n
    BY DEF ReturnsAt, IsReturnOf
  <2>2. ValueIn(l, r, k) = l[r[k]].val
    BY <1>4 DEF ToSimplify, ValueIn
  <2>3. \/ l[r[k]].val = NoVal /\ s.out[k].val = NoVal
        \/ \E j \in 1 .. n : /\ l[j].type = "push" /\ l[j].val = l[r[k]].val /\ l[r[k]].val # NoVal
                             /\ s.out[k].val = s.out[j].val
    BY <1>4, <2>1 DEF SimplifyOK, AnswersOK
  <2>4. CASE \E j \in 1 .. n : /\ l[j].type = "push" /\ l[j].val = l[r[k]].val /\ l[r[k]].val # NoVal
                               /\ s.out[k].val = s.out[j].val
    <3>. PICK j \in 1 .. n : /\ l[j].type = "push" /\ l[j].val = l[r[k]].val /\ l[r[k]].val # NoVal
                             /\ s.out[k].val = s.out[j].val
      BY <2>4
    <3>1. NamedBy(l, r, s.out, k, j)
      BY <1>2, <2>2 DEF NamedBy
    <3>. QED
      BY <1>2, <2>2, <3>1
  <2>. QED
    BY <2>2, <2>3, <2>4
<1>. QED
  BY <1>1, <1>3, <1>4

LEMMA SameNames ==
  ASSUME NEW l, ToSimplify(l), NEW n \in Nat, DOMAIN l = 1 .. n,
         NEW s, SimplifyOK(l, n, s), NoVal \notin Nat, NoVal \notin Nat \X Nat,
         NEW r, ReturnsAt(l, r), NEW j \in DOMAIN l, NEW k \in DOMAIN l,
         l[j].type # "return", l[k].type # "return"
  PROVE  /\ ValueIn(l, r, k) = NoVal <=> s.out[k].val = NoVal
         /\ ValueIn(l, r, j) = ValueIn(l, r, k) <=> s.out[j].val = s.out[k].val
<1>1. \A i \in DOMAIN l : l[i].type # "return" =>
        \/ ValueIn(l, r, i) = NoVal /\ s.out[i].val = NoVal
        \/ ValueIn(l, r, i) # NoVal /\ s.out[i].val # NoVal /\ \E m : NamedBy(l, r, s.out, i, m)
  BY SimplifiedNames
<1>2. \A a, b \in DOMAIN l : l[a].type = "push" /\ l[b].type = "push" =>
        /\ ValueIn(l, r, a) = ValueIn(l, r, b) => a = b
        /\ s.out[a].val = s.out[b].val => a = b
  <2>1. \A a \in DOMAIN l : l[a].type = "push" => ValueIn(l, r, a) = l[a].val
    BY DEF ToSimplify, ValueIn
  <2>2. \A a, b \in DOMAIN l : l[a].type = "push" /\ l[b].type = "push" /\ l[a].val = l[b].val => a = b
    BY DEF ToSimplify
  <2>3. \A a, b \in DOMAIN l : l[a].type = "push" /\ l[b].type = "push"
                               /\ s.out[a].val = s.out[b].val => a = b
    BY DEF SimplifyOK, ValmapOK
  <2>. QED
    BY <2>1, <2>2, <2>3
<1>3. ASSUME s.out[j].val # NoVal, s.out[k].val # NoVal
      PROVE  ValueIn(l, r, j) = ValueIn(l, r, k) <=> s.out[j].val = s.out[k].val
  <2>. PICK a : NamedBy(l, r, s.out, j, a)
    BY <1>1, <1>3
  <2>. PICK b : NamedBy(l, r, s.out, k, b)
    BY <1>1, <1>3
  <2>. QED
    BY <1>2 DEF NamedBy
<1>. QED
  BY <1>1, <1>3

\* What simplify() hands on.
LEMMA SimplifiedLog ==
  ASSUME NEW l, ToSimplify(l), NEW n \in Nat, DOMAIN l = 1 .. n, n < POSINF - 2,
         NEW s, SimplifyOK(l, n, s), NoVal \notin Nat, NoVal \notin Nat \X Nat
  PROVE  /\ GivenOK(s.out, Operations(l)) /\ Complete(s.out) /\ OneOfEach(s.out)
         /\ PushesFirst(s.out)
<1>. PICK o : o = s.out
  OBVIOUS
<1>1. /\ o \in Seq(SimplifiedEvents) /\ DOMAIN o = 1 .. n /\ Complete(o) /\ Complete(l)
      /\ \A k \in 1 .. n : /\ o[k].type = l[k].type /\ o[k].ts = k
                           /\ l[k].type = "return" => o[k].val = NoVal
      /\ \A k, i \in 1 .. n : IsReturnOf(l, k, i) => IsReturnOf(o, k, i)
  <2>1. Complete(l) /\ OutOK(l, n, s)
    BY DEF ToSimplify, SimplifyOK
  <2>2. IsComplete(l, n, s.out)
    BY <2>1, SimplifiedIsComplete
  <2>. QED
    BY <2>1, <2>2 DEF IsComplete, OutOK
<1>2. \A k \in 1 .. n : k \in Nat /\ 0 < k /\ k < POSINF - 2
  BY PosInfAssumption
<1>. PICK r : ReturnsAt(l, r)
  <2>. DEFINE q == [k \in DOMAIN l |-> CHOOSE i \in DOMAIN l : IsReturnOf(l, k, i)]
  <2>1. ReturnsAt(l, q)
    BY <1>1 DEF Complete, ReturnsAt
  <2>. QED
    BY <2>1
<1>. DEFINE K == {k \in DOMAIN l : l[k].type # "return"}
            f == [k \in K |-> RecordedOp(l, k, r[k])]
            g == [k \in K |-> OpFrom(o[k], o[r[k]])]
<1>3. \A k \in K : k \in 1 .. n /\ r[k] \in 1 .. n /\ IsReturnOf(l, k, r[k]) /\ IsReturnOf(o, k, r[k])
  BY <1>1 DEF ReturnsAt, IsReturnOf
<1>4. \A j, k \in K :
        /\ ValueIn(l, r, k) = NoVal <=> o[k].val = NoVal
        /\ ValueIn(l, r, j) = ValueIn(l, r, k) <=> o[j].val = o[k].val
  BY SameNames
<1>5. \A k \in K : /\ f[k].type = l[k].type /\ f[k].val = ValueIn(l, r, k)
                   /\ f[k].call = k /\ f[k].ret = r[k]
                   /\ g[k].type = l[k].type /\ g[k].val = o[k].val
                   /\ g[k].call = k /\ g[k].ret = r[k]
  <2>. TAKE k \in K
  <2>1. l[k].ts = k /\ l[r[k]].ts = r[k] /\ o[k].ts = k /\ o[r[k]].ts = r[k] /\ o[k].type = l[k].type
    BY <1>1, <1>3 DEF Complete
  <2>2. f[k] = RecordedOp(l, k, r[k]) /\ g[k] = OpFrom(o[k], o[r[k]])
    OBVIOUS
  <2>. QED
    BY <2>1, <2>2 DEF RecordedOp, OpFrom, ValueIn
<1>6. SameButNames(K, f, g) /\ SameButNames(K, g, f)
  <2>. HIDE DEF K, f, g
  <2>. QED
    BY <1>4, <1>5 DEF SameButNames
<1>7. Operations(l) = {f[k] : k \in K}
  <2>1. \A x : x \in Operations(l) <=> \E k, i \in DOMAIN l : IsReturnOf(l, k, i) /\ x = RecordedOp(l, k, i)
    BY <1>1, OperationsAre
  <2>2. \A k, i \in DOMAIN l : IsReturnOf(l, k, i) => k \in K /\ i = r[k]
    BY <1>1, <1>3, OneReturn DEF IsReturnOf
  <2>3. \A k \in K : r[k] \in DOMAIN l /\ f[k] = RecordedOp(l, k, r[k])
    BY <1>3
  <2>. HIDE DEF f
  <2>4. \A x : x \in Operations(l) <=> \E k \in K : x = f[k]
    BY <1>3, <2>1, <2>2, <2>3
  <2>. QED
    BY <2>4
<1>8. Ops(EventSet(o)) = {g[k] : k \in K}
  <2>1. \A x : x \in Ops(EventSet(o)) <=> \E k, i \in DOMAIN o : IsReturnOf(o, k, i) /\ x = OpFrom(o[k], o[i])
    BY <1>1, CompleteOps
  <2>2. ASSUME NEW k, NEW i, IsReturnOf(o, k, i)
        PROVE  k \in K /\ i = r[k]
    <3>1. k \in K
      BY <1>1, <2>2 DEF IsReturnOf
    <3>2. IsReturnOf(o, k, r[k])
      BY <1>3, <3>1
    <3>. HIDE DEF K
    <3>. QED
      BY <1>1, <2>2, <3>1, <3>2, OneReturn
  <2>3. \A k \in K : r[k] \in DOMAIN o /\ g[k] = OpFrom(o[k], o[r[k]])
    BY <1>1, <1>3
  <2>. HIDE DEF g
  <2>4. \A x : x \in Ops(EventSet(o)) <=> \E k \in K : x = g[k]
    BY <1>1, <1>3, <2>1, <2>2, <2>3
  <2>. QED
    BY <2>4
<1>9. Orders(Ops(EventSet(o)), << >>) <=> Orders(Operations(l), << >>)
  <2>1. IsFiniteSet(K)
    BY <1>1, FiniteEvents, FS_Subset
  <2>. HIDE DEF K, f, g
  <2>. QED
    BY <1>6, <1>7, <1>8, <2>1, Renaming
<1>10. \A k \in K : l[k].type = "push" => o[k].val # NoVal
  BY <1>1, <1>4 DEF ToSimplify, ValueIn
<1>11. OneOfEach(o)
  <2>1. ASSUME NEW j \in DOMAIN o, NEW k \in DOMAIN o, o[j].type = o[k].type, o[j].val = o[k].val,
               o[j].val # NoVal
        PROVE  j = k
    <3>1. j \in K /\ k \in K /\ l[j].type = l[k].type
      BY <1>1, <2>1
    <3>2. ValueIn(l, r, j) = ValueIn(l, r, k) /\ ValueIn(l, r, j) # NoVal
      BY <1>4, <2>1, <3>1
    <3>3. l[j].type \in {"push", "pop"}
      BY <1>1, <3>1 DEF Complete
    <3>4. CASE l[j].type = "push"
      BY <3>1, <3>2, <3>4 DEF ToSimplify, ValueIn
    <3>5. CASE l[j].type = "pop"
      <4>1. ValueIn(l, r, j) = l[r[j]].val /\ ValueIn(l, r, k) = l[r[k]].val
        BY <3>1, <3>5 DEF ToSimplify, ValueIn
      <4>2. r[j] = r[k]
        <5>1. /\ r[j] \in DOMAIN l /\ r[k] \in DOMAIN l
              /\ l[r[j]].type = "return" /\ l[r[k]].type = "return"
          BY <1>3, <3>1 DEF IsReturnOf
        <5>. QED
          BY <3>2, <4>1, <5>1 DEF ToSimplify
      <4>3. IsReturnOf(l, j, r[j]) /\ IsReturnOf(l, k, r[j])
        BY <1>3, <3>1, <4>2
      <4>. QED
        BY <1>1, <4>3, OneReturn
    <3>. QED
      BY <3>3, <3>4, <3>5
  <2>. QED
    BY <1>1, <2>1 DEF OneOfEach
<1>12. EventsOK(EventSet(o))
  <2>1. IsFiniteSet(EventSet(o))
    BY <1>1, FiniteEvents
  <2>2. \A k \in DOMAIN o : EventOK(o[k])
    BY <1>1, <1>2, <1>10 DEF EventOK, Complete
  <2>3. \A j, k \in DOMAIN o : o[j].type = "push" /\ o[k].type = "push" /\ o[j].val = o[k].val => j = k
    BY <2>2, <1>11 DEF OneOfEach, EventOK
  <2>. QED
    BY <1>1, <2>1, <2>2, <2>3 DEF EventsOK, EventSet
<1>13. GivenOK(o, Operations(l))
  <2>1. Paired(EventSet(o))
    BY <1>1, CompleteIsPaired
  <2>2. \A j, k \in DOMAIN o : j < k => o[j].ts < o[k].ts
    BY <1>1
  <2>. QED
    BY <1>1, <1>9, <1>12, <2>1, <2>2 DEF GivenOK
<1>14. PushesFirst(o)
  <2>1. ASSUME NEW k, NEW i, IsReturnOf(o, k, i), o[k].type = "pop", o[k].val # NoVal
        PROVE  \E j \in DOMAIN o : o[j].type = "push" /\ o[j].val = o[k].val /\ j < i
    <3>1. k \in DOMAIN l /\ l[k].type = "pop"
      BY <1>1, <2>1 DEF IsReturnOf
    <3>2. IsReturnOf(l, k, r[k]) /\ IsReturnOf(o, k, r[k])
      BY <1>3, <3>1
    <3>3. i = r[k] /\ i \in 1 .. n /\ k \in 1 .. n
      BY <1>1, <1>3, <2>1, <3>1, <3>2, OneReturn
    <3>4. AnswersOK(l, n, s)
      BY DEF SimplifyOK
    <3>. PICK j \in 1 .. n : l[j].type = "push" /\ o[k].val = o[j].val /\ j < i
      BY <2>1, <3>1, <3>2, <3>3, <3>4 DEF AnswersOK
    <3>. QED
      BY <1>1
  <2>. QED
    BY <2>1 DEF PushesFirst
<1>. QED
  BY <1>1, <1>11, <1>13, <1>14

\* What the monitor is given is clean if it is simplified, else it is the log.
Answers(E, l, kd) ==
  IF kd.needsSimpl THEN Clean(Ops(E)) ELSE Ops(E) = Operations(l)

\* What the monitor is given is right for the log, whatever its kind.
Given(l, kd) == IF kd.needsSimpl THEN SimplifyHistory(l, "stack").events ELSE l

LEMMA LogIsGiven ==
  ASSUME NEW l, NEW pend, NEW kd, LogOK(l, pend, kd), DOMAIN pend = {}, TimesFit(kd),
         kd.needsSimpl => ~kd.duplicates, NoVal \notin Nat, NoVal \notin Nat \X Nat,
         kd.needsSimpl => ~SimplifyHistory(l, "stack").failed
  PROVE  /\ GivenOK(Given(l, kd), Operations(l))
         /\ Answers(EventSet(Given(l, kd)), l, kd)
<1>1. CASE ~kd.needsSimpl
  <2>1. GivenOK(l, Operations(l)) /\ Ops(EventSet(l)) = Operations(l)
    BY <1>1, LogAsGiven
  <2>. QED
    BY <1>1, <2>1 DEF Given, Answers
<1>2. CASE kd.needsSimpl
  <2>1. ToSimplify(l)
    BY <1>2, LogToSimplify
  <2>. PICK n \in Nat : n = Len(l) /\ DOMAIN l = 1 .. n
    BY <2>1 DEF ToSimplify, Complete
  <2>. PICK s : s = FoldLeft(SimplifyEvent, SimplifyInit, l)
    OBVIOUS
  <2>. PICK h : h = SimplifyHistory(l, "stack")
    OBVIOUS
  <2>2. h = [failed |-> s.failed, events |-> IF s.failed THEN << >> ELSE Preprocess(s.out)]
    BY DEF SimplifyHistory
  <2>3. h.failed = s.failed /\ h.events = IF s.failed THEN << >> ELSE Preprocess(s.out)
    BY ONLY <2>2
  <2>4. ~s.failed
    BY <1>2, <2>3
  <2>5. s.failed # TRUE
    BY <2>4
  <2>6. SimplifyOK(l, n, s)
    BY <2>1, <2>5, Simplified DEF FailedOrOK
  <2>7. n < POSINF - 2
    <3>1. \A k \in DOMAIN l : k \in Nat /\ 0 < k /\ k < POSINF - 2
      BY LogIsShort
    <3>2. CASE n = 0
      <4>. PICK a \in Nat, b \in Nat : a = kd.adds /\ b = kd.removals /\ 2 * (a + b) < POSINF - 2
        BY DEF TimesFit
      <4>1. POSINF \in Nat
        BY PosInfAssumption
      <4>. QED
        BY ONLY <3>2, <4>1, 2 * (a + b) < POSINF - 2, a \in Nat, b \in Nat
    <3>3. CASE n # 0
      <4>1. n \in DOMAIN l
        BY <3>3
      <4>. QED
        BY <3>1, <4>1
    <3>. QED
      BY <3>2, <3>3
  <2>8. /\ GivenOK(s.out, Operations(l)) /\ Complete(s.out) /\ OneOfEach(s.out)
        /\ PushesFirst(s.out)
    BY <2>1, <2>6, <2>7, SimplifiedLog
  <2>9. GivenOK(Preprocess(s.out), Operations(l)) /\ Clean(Ops(EventSet(Preprocess(s.out))))
    BY <2>8, DroppedIsGiven
  <2>10. Given(l, kd) = Preprocess(s.out)
    BY <1>2, <2>3, <2>4 DEF Given
  <2>. PICK w : w = Preprocess(s.out)
    OBVIOUS
  <2>11. Clean(Ops(EventSet(w)))
    BY ONLY <2>9, w = Preprocess(s.out)
  <2>12. Answers(EventSet(w), l, kd)
    BY ONLY <1>2, <2>11 DEF Answers
  <2>. QED
    BY ONLY <2>9, <2>10, <2>12, w = Preprocess(s.out)
<1>. QED
  BY <1>1, <1>2

\* RmvBeforeAdd is thrown only for a log that cannot be ordered.
LEMMA FailedIsWrong ==
  ASSUME NEW l, NEW pend, NEW kd, LogOK(l, pend, kd), DOMAIN pend = {}, NoVal \notin Nat,
         kd.needsSimpl /\ ~kd.duplicates, SimplifyHistory(l, "stack").failed
  PROVE  ~Orders(Operations(l), << >>)
<1>1. ToSimplify(l)
  BY LogToSimplify
<1>. PICK n \in Nat : n = Len(l) /\ DOMAIN l = 1 .. n
  BY <1>1 DEF ToSimplify, Complete
<1>. PICK s : s = FoldLeft(SimplifyEvent, SimplifyInit, l)
  OBVIOUS
<1>. PICK h : h = SimplifyHistory(l, "stack")
  OBVIOUS
<1>2. h = [failed |-> s.failed, events |-> IF s.failed THEN << >> ELSE Preprocess(s.out)]
  BY DEF SimplifyHistory
<1>3. h.failed = s.failed
  BY ONLY <1>2
<1>4. FailedOrOK(l, n, s)
  BY <1>1, Simplified
<1>5. RmvBeforeAdd(l)
  BY <1>3, <1>4 DEF FailedOrOK, SimplifyOK, OutOK
<1>. QED
  BY <1>1, <1>5, RmvBeforeAddIsWrong

----------------------------------------------------------------------------
(* The run. *)

\* The monitor has been given the events F and is yet to be given es.
ToFeed(F, es, ops) ==
  /\ \E S : es \in Seq(S)
  /\ \A j, k \in DOMAIN es : j < k => es[j].ts < es[k].ts
  /\ \A m \in F : \A k \in DOMAIN es : m.ts < es[k].ts
  /\ EventsOK(F \cup EventSet(es)) /\ Paired(F \cup EventSet(es))
  /\ Orders(Ops(F \cup EventSet(es)), << >>) <=> Orders(ops, << >>)

LEMMA FeedStarts ==
  ASSUME NEW es, NEW ops, GivenOK(es, ops)
  PROVE  ToFeed({}, es, ops)
<1>1. {} \cup EventSet(es) = EventSet(es)
  OBVIOUS
<1>. QED
  BY <1>1 DEF GivenOK, ToFeed

LEMMA FeedNext ==
  ASSUME NEW F, NEW es, NEW ops, ToFeed(F, es, ops), es # << >>
  PROVE  /\ EventsOK(F \cup {Head(es)}) /\ \A m \in F : m.ts < Head(es).ts
         /\ IsNext(F, Head(es), F \cup EventSet(es))
         /\ (F \cup {Head(es)}) \cup EventSet(Tail(es)) = F \cup EventSet(es)
         /\ ToFeed(F \cup {Head(es)}, Tail(es), ops)
<1>. PICK S : es \in Seq(S)
  BY DEF ToFeed
<1>. PICK n \in Nat : n = Len(es)
  OBVIOUS
<1>. PICK h, q : h = Head(es) /\ q = Tail(es)
  OBVIOUS
<1>1. n # 0 /\ DOMAIN es = 1 .. n /\ h = es[1]
  BY EmptySeq
<1>2. q \in Seq(S) /\ Len(q) = n - 1 /\ \A k \in 1 .. n - 1 : q[k] = es[k + 1]
  BY <1>1, HeadTailProperties
<1>3. DOMAIN q = 1 .. n - 1
  BY <1>2
<1>4. /\ 1 \in 1 .. n
      /\ \A k \in 1 .. n - 1 : k + 1 \in 1 .. n /\ 1 < k + 1
      /\ \A k \in 1 .. n : k = 1 \/ \E i \in 1 .. n - 1 : k = i + 1
      /\ \A j, k \in 1 .. n - 1 : j < k => j + 1 < k + 1
  <2>1. ASSUME NEW k \in 1 .. n, k # 1
        PROVE  \E i \in 1 .. n - 1 : k = i + 1
    <3>1. k - 1 \in 1 .. n - 1 /\ k = (k - 1) + 1
      BY <2>1
    <3>. QED
      BY <3>1
  <2>. QED
    BY <1>1, <2>1
<1>5. EventSet(es) = {h} \cup EventSet(q)
  <2>1. \A k \in DOMAIN es : es[k] \in {h} \cup EventSet(q)
    <3>. TAKE k \in DOMAIN es
    <3>1. CASE k = 1
      BY <1>1, <3>1
    <3>2. CASE k # 1
      <4>. PICK i \in 1 .. n - 1 : k = i + 1
        BY <1>1, <1>4, <3>2
      <4>. QED
        BY <1>2, <1>3 DEF EventSet
    <3>. QED
      BY <3>1, <3>2
  <2>2. h \in EventSet(es)
    BY <1>1, <1>4 DEF EventSet
  <2>3. \A k \in DOMAIN q : q[k] \in EventSet(es)
    BY <1>1, <1>2, <1>3, <1>4 DEF EventSet
  <2>. QED
    BY <2>1, <2>2, <2>3 DEF EventSet
<1>6. F \cup EventSet(es) = (F \cup {h}) \cup EventSet(q)
  BY <1>5
<1>7. EventsOK(F \cup {h})
  <2>1. F \cup {h} \subseteq F \cup EventSet(es)
    BY <1>5
  <2>2. EventsOK(F \cup EventSet(es))
    BY DEF ToFeed
  <2>3. IsFiniteSet(F \cup {h})
    BY <2>1, <2>2, FS_Subset DEF EventsOK
  <2>. QED
    BY <2>1, <2>2, <2>3 DEF EventsOK
<1>8. \A m \in F : m.ts < h.ts
  BY <1>1, <1>4 DEF ToFeed
<1>9. \A j, k \in DOMAIN q : j < k => q[j].ts < q[k].ts
  BY <1>1, <1>2, <1>3, <1>4 DEF ToFeed
<1>10. \A m \in F \cup {h} : \A k \in DOMAIN q : m.ts < q[k].ts
  BY <1>1, <1>2, <1>3, <1>4 DEF ToFeed
<1>11. ToFeed(F \cup {h}, q, ops)
  <2>1. \E T : q \in Seq(T)
    BY <1>2
  <2>. QED
    BY <2>1, <1>6, <1>9, <1>10 DEF ToFeed
<1>12. IsNext(F, h, F \cup EventSet(es))
  <2>1. ASSUME NEW m \in EventSet(q)
        PROVE  m.ts > h.ts
    <3>. PICK k \in DOMAIN q : m = q[k]
      BY DEF EventSet
    <3>1. h.ts < m.ts
      BY <1>10
    <3>2. h.ts \in Nat /\ m.ts \in Nat
      BY <1>5 DEF ToFeed, EventsOK, EventOK
    <3>. QED
      BY <3>1, <3>2
  <2>. QED
    BY <1>5, <1>8, <2>1 DEF IsNext
<1>. QED
  BY <1>6, <1>7, <1>8, <1>11, <1>12

\* A history without pairs that overlap is clean if it can be ordered.
LEMMA OverlapFreeIsClean ==
  ASSUME NEW T, IsFiniteSet(T), Timed(T), OverlapFree(T), Orders(T, << >>),
         \A o, q \in T : o.type = "push" /\ q.type = "push" /\ o.val = q.val => o = q
  PROVE  Clean(T)
<1>. SUFFICES ASSUME NEW p \in T, p.type = "pop", p.val # NoVal
              PROVE  /\ \E o \in T : o.type = "push" /\ o.val = p.val /\ o.ret <= p.ret
                     /\ \A q \in T : Pops(q, p.val) => q = p
  BY DEF Clean
<1>. PICK V : V = ValuesIn(T)
  OBVIOUS
<1>1. HasPush(T, << >>, p)
  <2>1. ValuesIn(T) \subseteq V
    OBVIOUS
  <2>. QED
    BY <2>1, PopsHavePushes
<1>2. ~IsOn(p.val, << >>)
  BY DEF IsOn
<1>. PICK o \in T : o.type = "push" /\ o.val = p.val /\ p.ret >= o.call
  BY <1>1, <1>2 DEF HasPush
<1>3. o.ret < p.call \/ p.ret < o.call
  BY DEF OverlapFree, Adds, Removals
<1>4. o.ret <= p.ret
  BY <1>3 DEF Timed
<1>. QED
  BY <1>1, <1>4 DEF HasPush

\* So is one that removes nothing that is missing.
LEMMA NoneMissingIsClean ==
  ASSUME NEW T, Timed(T), ~RemovesMissing(T)
  PROVE  Clean(T)
<1>1. \A o, q \in T : o.type = q.type /\ o.val = q.val /\ o.val # NoVal => o = q
  BY DEF RemovesMissing, Differentiated
<1>2. ASSUME NEW p \in T, p.type = "pop", p.val # NoVal
      PROVE  \E o \in T : o.type = "push" /\ o.val = p.val /\ o.ret <= p.ret
  <2>. PICK o \in T : o.type = "push" /\ o.val = p.val /\ ~(o.ret > p.ret)
    BY <1>2 DEF RemovesMissing, Removals, Adds
  <2>1. o.ret <= p.ret
    BY DEF Timed
  <2>. QED
    BY <2>1
<1>. QED
  BY <1>1, <1>2 DEF Clean, Pops

\* A log that is not to be simplified is clean if nothing in it overlaps and
\* it can be ordered, or if it removes nothing that is missing.
LEMMA LogIsClean ==
  ASSUME NEW l, NEW pend, NEW kd, LogOK(l, pend, kd), DOMAIN pend = {}, TimesFit(kd),
         ~kd.needsSimpl, NoVal \notin Nat
  PROVE  /\ OverlapFree(Operations(l)) /\ Orders(Operations(l), << >>) => Clean(Operations(l))
         /\ ~RemovesMissing(Operations(l)) => Clean(Operations(l))
<1>. PICK E : E = EventSet(l)
  OBVIOUS
<1>. PICK T : T = Operations(l)
  OBVIOUS
<1>1. GivenOK(l, T) /\ Ops(E) = T
  BY LogAsGiven
<1>2. EventsOK(E)
  BY <1>1 DEF GivenOK
<1>3. IsFiniteSet(T) /\ Timed(T)
  BY <1>1, <1>2, OpsAreFinite
<1>4. \A o, q \in T : o.type = "push" /\ q.type = "push" /\ o.val = q.val => o = q
  BY <1>1, <1>2, PushesDiffer
<1>. QED
  BY <1>3, <1>4, OverlapFreeIsClean, NoneMissingIsClean

\* Nothing is left to feed.
LEMMA Fed ==
  ASSUME NEW F, NEW ops, ToFeed(F, << >>, ops), NEW vs, NEW es, AccountsFor(F, vs, es)
  PROVE  /\ Orders(OpsOf(vs) \cup {EmptyPopOf(es[k]) : k \in DOMAIN es}, << >>)
              <=> Orders(ops, << >>)
         /\ TimesApart(OpsOf(vs) \cup {EmptyPopOf(es[k]) : k \in DOMAIN es})
<1>1. EventSet(<< >>) = {}
  BY DEF EventSet
<1>2. F \cup EventSet(<< >>) = F
  BY <1>1
<1>3. EventsOK(F) /\ (Orders(Ops(F), << >>) <=> Orders(ops, << >>))
  BY <1>2 DEF ToFeed
<1>4. TimesApart(Ops(F))
  <2>. SUFFICES ASSUME NEW o \in Ops(F), NEW p \in Ops(F), o.call = p.ret
                PROVE  FALSE
    BY DEF TimesApart
  <2>. PICK c \in F, d \in F : Matches(F, c, d) /\ o = OpFrom(c, d)
    BY OpsIs
  <2>. PICK a \in F, b \in F : Matches(F, a, b) /\ p = OpFrom(a, b)
    BY OpsIs
  <2>1. c.ts = b.ts
    BY OpFromIs
  <2>2. c = b
    BY <1>3, <2>1 DEF EventsOK
  <2>. QED
    BY <2>2 DEF Matches
<1>5. OpsOf(vs) \cup {EmptyPopOf(es[k]) : k \in DOMAIN es} \subseteq Ops(F)
  BY DEF AccountsFor
<1>. QED
  BY <1>3, <1>4, <1>5, AccountIsExact DEF TimesApart

LEMMA NothingFed ==
  ASSUME MonitorInit
  PROVE  FeedInv({})
<1>1. /\ DOMAIN lastEvt = {} /\ DOMAIN open = {} /\ DOMAIN unmatched = {}
      /\ values = {} /\ empties = << >>
  BY DEF MonitorInit, EmptyMap
<1>2. CallsOK({}, lastEvt, open)
  BY <1>1 DEF CallsOK
<1>3. Ops({}) = {}
  BY DEF Ops, Matches
<1>4. AccountsFor({}, values, empties)
  <2>1. ValuesOK({})
    BY FS_EmptySet DEF ValuesOK
  <2>2. EmptiesOK(<< >>)
    BY DEF EmptiesOK
  <2>3. OpsOf({}) = {}
    BY DEF OpsOf
  <2>. QED
    BY <1>1, <1>3, <2>1, <2>2, <2>3 DEF AccountsFor
<1>. QED
  BY <1>1, <1>2, <1>4 DEF FeedInv

\* The operations of the values can be ordered if ops can.
NoneAdded(vs, ops) ==
  /\ TimesApart(OpsOf(vs))
  /\ Orders(ops, << >>) => Orders(OpsOf(vs), << >>)

LEMMA NoneAddedToPart ==
  ASSUME NEW vs, ValuesOK(vs), NEW ops, NoneAdded(vs, ops), NEW w \in SUBSET vs
  PROVE  NoneAdded(w, ops)
<1>1. OpsOf(w) \subseteq OpsOf(vs)
  BY DEF OpsOf
<1>2. Orders(OpsOf(vs), << >>) => Orders(OpsOf(w), << >>)
  <2>1. OpsOf(vs) \cup {} = OpsOf(vs) /\ IsFiniteSet({}) /\ \A o \in {} : EmptyPop(o)
    BY FS_EmptySet
  <2>. QED
    BY <2>1, PartCanBeOrdered
<1>. QED
  BY <1>1, <1>2 DEF NoneAdded, TimesApart

LEMMA NoneAddedAtStart ==
  ASSUME NEW vs, ValuesOK(vs), NEW E, IsFiniteSet(E), \A o \in E : EmptyPop(o),
         TimesApart(OpsOf(vs) \cup E), NEW ops,
         Orders(ops, << >>) => Orders(OpsOf(vs) \cup E, << >>)
  PROVE  NoneAdded(vs, ops)
<1>1. Orders(OpsOf(vs) \cup E, << >>) => Orders(OpsOf(vs), << >>)
  <2>1. vs \in SUBSET vs
    OBVIOUS
  <2>. QED
    BY <2>1, PartCanBeOrdered
<1>. QED
  BY <1>1 DEF NoneAdded, TimesApart

\* step() finds no violation in a part.
LEMMA PartIsAccepted ==
  ASSUME NEW vs, ValuesOK(vs), NEW ops, NoneAdded(vs, ops), Orders(ops, << >>), NEW w \in SUBSET vs
  PROVE  ~Step(History(w, << >>)).violation
<1>1. NoneAdded(w, ops) /\ ValuesOK(w)
  BY NoneAddedToPart, PartOK
<1>2. EmptiesOK(<< >>)
  BY DEF EmptiesOK
<1>. PICK T : T = OpsOf(w)
  OBVIOUS
<1>3. T \cup {EmptyPopOf(<< >>[k]) : k \in DOMAIN << >>} = T
  OBVIOUS
<1>4. TimesApart(T) /\ Orders(T, << >>)
  BY <1>1 DEF NoneAdded
<1>. QED
  BY <1>1, <1>2, <1>3, <1>4, StepIsComplete

\* No value is in the history whose insertion and removal overlap.
LEMMA ValuesAreSimple ==
  ASSUME NEW vs, ValuesOK(vs)
  PROVE  Simple(vs)
<1>. SUFFICES ASSUME NEW v \in vs, Overlaps(v.add, v.rmv)
              PROVE  FALSE
  BY DEF Simple
<1>1. v.add.ub \in Nat /\ v.rmv.lb \in Nat /\ v.add.ub < v.rmv.lb
  BY DEF ValuesOK, ValueOK
<1>. QED
  BY <1>1 DEF Overlaps

\* What holds of the monitor's data from the first event to the last answer.
DisjointParts(parts, vs) ==
  /\ parts \in Seq(PartsOf(vs))
  /\ \A j, k \in DOMAIN parts : j # k => parts[j].values \cap parts[k].values = {}

HistoryInv ==
  /\ ValuesOK(values) /\ \A v \in values : v.add \in AtomSet /\ v.rmv \in AtomSet
  /\ empties \in Seq(AtomSet)
  /\ DOMAIN open \subseteq DOMAIN lastEvt
  /\ IsFiniteSet(DOMAIN open) /\ nConc = Cardinality(DOMAIN open) /\ maxConc \in Nat
  /\ DisjointParts(remaining, values)

\* add_event() raises an exception or changes the history only.
LEMMA AddEventEnds ==
  ASSUME NEW e, AddEvent(e)
  PROVE  /\ remaining' = remaining
         /\ result' \in {"feeding", "violation", "error"}
         /\ result' # "feeding" => UNCHANGED <<lastEvt, nConc, maxConc, historyVars, remaining>>
<1>1. CASE CallEvent(e)
  BY <1>1 DEF AddEvent, CallEvent, Raise
<1>2. CASE ReturnEvent(e)
  <2>1. CASE ~Has(lastEvt, e.thread) \/ lastEvt[e.thread] = "return"
    BY <1>2, <2>1 DEF ReturnEvent, Raise
  <2>2. CASE ~(~Has(lastEvt, e.thread) \/ lastEvt[e.thread] = "return")
    <3>1. \/ Raise("error") \/ Raise("violation")
          \/ UNCHANGED <<maxConc, remaining, result>>
      BY <1>2, <2>2 DEF ReturnEvent
    <3>. QED
      BY <3>1 DEF Raise, AddEvent
  <2>. QED
    BY <2>1, <2>2
<1>. QED
  BY <1>1, <1>2 DEF AddEvent

\* The operations in progress are counted.
LEMMA AddEventCounts ==
  ASSUME NEW F, FeedInv(F), NEW e, AddEvent(e), IsFiniteSet(DOMAIN open),
         nConc = Cardinality(DOMAIN open), maxConc \in Nat, result' = "feeding"
  PROVE  (IsFiniteSet(DOMAIN open) /\ nConc = Cardinality(DOMAIN open) /\ maxConc \in Nat)'
<1>. PICK d : d = DOMAIN open
  OBVIOUS
<1>. PICK n \in Nat : n = nConc
  BY FS_CardinalityType
<1>0. n + 1 \in Nat
  OBVIOUS
<1>1. CallsOK(F, lastEvt, open)
  BY DEF FeedInv
<1>2. CASE CallEvent(e)
  <2>1. ~(Has(lastEvt, e.thread) /\ lastEvt[e.thread] # "return")
    BY <1>2 DEF CallEvent, Raise
  <2>2. /\ open' = With(open, e.thread, e) /\ nConc' = n + 1
        /\ maxConc' = n + 1 \/ maxConc' = maxConc
    BY <1>2, <2>1 DEF CallEvent
  <2>3. e.thread \notin d
    BY <1>1, <2>1 DEF CallsOK, Has
  <2>4. DOMAIN open' = d \cup {e.thread}
    BY <2>2 DEF With
  <2>5. IsFiniteSet(d \cup {e.thread}) /\ Cardinality(d \cup {e.thread}) = n + 1
    BY <2>3, FS_AddElement
  <2>. QED
    BY <1>0, <2>2, <2>4, <2>5
<1>3. CASE ReturnEvent(e)
  <2>1. ~(~Has(lastEvt, e.thread) \/ lastEvt[e.thread] = "return")
    BY <1>3 DEF ReturnEvent, Raise
  <2>2. /\ open' = Without(open, e.thread) /\ nConc' = n - 1
        /\ maxConc' = maxConc
    BY <1>3, <2>1 DEF ReturnEvent, Raise
  <2>3. e.thread \in d
    BY <1>1, <2>1 DEF CallsOK, Has
  <2>4. DOMAIN open' = d \ {e.thread}
    BY <2>2 DEF Without
  <2>5. IsFiniteSet(d \ {e.thread}) /\ Cardinality(d \ {e.thread}) = n - 1
    BY <2>3, FS_RemoveElement
  <2>. QED
    BY <2>2, <2>4, <2>5
<1>. QED
  BY <1>2, <1>3 DEF AddEvent

\* add_event(), whether it ends the run or not.
LEMMA HistoryFed ==
  ASSUME NEW F, NEW e, EventsOK(F \cup {e}), \A m \in F : m.ts < e.ts,
         FeedInv(F), AddEvent(e), HistoryInv, remaining = << >>
  PROVE  HistoryInv'
<1>1. CASE result' = "feeding"
  <2>1. FeedInv(F \cup {e})'
    BY <1>1, FeedGoesOn
  <2>2. (IsFiniteSet(DOMAIN open) /\ nConc = Cardinality(DOMAIN open) /\ maxConc \in Nat)'
    BY <1>1, AddEventCounts DEF HistoryInv
  <2>3. (DOMAIN open \subseteq DOMAIN lastEvt)'
    BY <2>1 DEF FeedInv, CallsOK
  <2>4. remaining' = << >>
    BY AddEventEnds
  <2>5. DisjointParts(<< >>, values')
    BY DEF DisjointParts
  <2>6. (ValuesOK(values))'
    BY <2>1 DEF FeedInv, AccountsFor
  <2>. QED
    BY <2>1, <2>2, <2>3, <2>4, <2>5, <2>6 DEF FeedInv, HistoryInv
<1>2. CASE result' # "feeding"
  BY <1>2, AddEventEnds DEF HistoryInv, historyVars
<1>. QED
  BY <1>1, <1>2

\* do_linearization.
LEMMA HistoryStarts ==
  ASSUME HistoryInv, EmptiesOK(empties), StartLinearization
  PROVE  HistoryInv'
<1>. PICK lr : lr = Step(History(values, empties))
  OBVIOUS
<1>1. CASE result' # "linearizing"
  <2>1. UNCHANGED <<lastEvt, nConc, maxConc, historyVars, remaining>>
    BY <1>1 DEF StartLinearization, Raise
  <2>. QED
    BY <2>1 DEF HistoryInv, historyVars
<1>2. CASE result' = "linearizing"
  <2>1. /\ ~lr.violation /\ remaining' = lr.remaining
        /\ values' = IF empties = << >> THEN MinmaxPrune(values) ELSE values
        /\ UNCHANGED <<lastEvt, nConc, maxConc, open, empties>>
    BY <1>2 DEF StartLinearization, Raise
  <2>2. ValuesOK(values)
    BY DEF HistoryInv
  <2>3. /\ RightParts(values, empties, lr.remaining)
        /\ empties = << >> => lr.remaining \in Seq(PartsOf(MinmaxPrune(values)))
    BY <2>1, <2>2, StepIsRight
  <2>4. values' \subseteq values
    BY <2>1, <2>2, PruneIsSound
  <2>5. ValuesOK(values')
    BY <2>2, <2>4, PartOK
  <2>6. DisjointParts(remaining', values')
    BY <2>1, <2>3 DEF DisjointParts, RightParts
  <2>. QED
    BY <2>1, <2>4, <2>5, <2>6 DEF HistoryInv
<1>. QED
  BY <1>1, <1>2

LEMMA HistoryGoesOn ==
  ASSUME HistoryInv, LinearizeNext
  PROVE  HistoryInv'
<1>. PICK lr : lr = Step(Last(remaining))
  OBVIOUS
<1>1. CASE lr.violation
  <2>1. UNCHANGED <<lastEvt, nConc, maxConc, historyVars, remaining>>
    BY <1>1 DEF LinearizeNext, Raise
  <2>. QED
    BY <2>1 DEF HistoryInv, historyVars
<1>2. CASE ~lr.violation
  <2>1. /\ remaining # << >> /\ remaining' = lr.remaining \o Front(remaining)
        /\ UNCHANGED <<lastEvt, nConc, maxConc, historyVars>>
    BY <1>2 DEF LinearizeNext, Raise
  <2>2. DisjointParts(remaining, values) /\ ValuesOK(values)
    BY DEF HistoryInv
  <2>3. Worklist(remaining, values, {})
    BY <2>2, OrdersIs DEF Worklist, DisjointParts
  <2>4. Worklist(lr.remaining \o Front(remaining), values, {})
    BY <1>2, <2>1, <2>2, <2>3, WorklistGoesOn
  <2>5. DisjointParts(lr.remaining \o Front(remaining), values)
    BY <2>4 DEF Worklist, DisjointParts
  <2>6. values' = values
    BY <2>1 DEF historyVars
  <2>7. DisjointParts(remaining', values')
    BY <2>1, <2>5, <2>6
  <2>. QED
    BY <2>1, <2>7 DEF HistoryInv, historyVars
<1>. QED
  BY <1>1, <1>2

\* A log that is fed as it is and that the monitor may not answer with OK.
Unclean(kd, ops) == ~kd.needsSimpl /\ ~Clean(ops)

\* The invariant: the log is one of the recording, the monitor knows the
\* events it was given, and its worklist can be ordered if and only if the
\* log can.
StageInv ==
  /\ stage \in {"input", "simplify", "feed", "linearize", "done"}
  /\ verdict \in {"none", "ok", "violation", "error"}
  /\ result \in {"feeding", "linearizing", "ok", "violation", "error"}
  /\ stage # "done" => verdict = "none"
  /\ stage \in {"input", "simplify"} => MonitorInit
  /\ stage # "input" => DOMAIN pending = {}
  /\ stage = "simplify" => kind.needsSimpl
  /\ stage = "feed" =>
       /\ result = "feeding" /\ remaining = << >>
       /\ \E F : /\ FeedInv(F) /\ ToFeed(F, events, Operations(log))
                /\ Answers(F \cup EventSet(events), log, kind)
  /\ stage = "linearize" =>
       /\ result = "linearizing"
       /\ Worklist(remaining, values, Operations(log)) /\ NoneAdded(values, Operations(log))
  /\ stage = "done" =>
       /\ verdict # "none"
       /\ verdict = "ok" => Orders(Operations(log), << >>)
       /\ verdict = "error" => Unclean(kind, Operations(log))
       /\ verdict = "violation" => ~Orders(Operations(log), << >>) \/ Unclean(kind, Operations(log))

RunInv == LogOK(log, pending, kind) /\ HistoryInv /\ StageInv

\* The implementation removes no value twice, or names it at the call.
CarefulKinds == \A k \in Kinds : k.needsSimpl => ~k.duplicates

LEMMA KindsFit ==
  /\ \A k \in Kinds : k.adds \in Nat /\ k.removals \in Nat /\ TimesFit(k)
  /\ \A k \in Kinds : k.needsSimpl \in BOOLEAN /\ k.duplicates \in BOOLEAN
  /\ NoVal \notin Nat /\ NoVal \notin Nat \X Nat
BY KindsAssumption, OptValAssumption DEF TimesFit

LEMMA NoHistoryYet ==
  ASSUME MonitorInit
  PROVE  HistoryInv
<1>1. /\ DOMAIN lastEvt = {} /\ DOMAIN open = {} /\ values = {} /\ empties = << >>
      /\ remaining = << >> /\ nConc = 0 /\ maxConc = 0
  BY DEF MonitorInit, EmptyMap
<1>2. ValuesOK({}) /\ IsFiniteSet({}) /\ Cardinality({}) = 0
  BY FS_EmptySet DEF ValuesOK
<1>3. DisjointParts(<< >>, {})
  BY DEF DisjointParts
<1>. QED
  BY <1>1, <1>2, <1>3 DEF HistoryInv

LEMMA RunStarts ==
  ASSUME Init
  PROVE  RunInv
<1>1. MonitorInit /\ stage = "input" /\ verdict = "none" /\ result = "feeding"
  BY DEF Init, LinearizeInit, MonitorInit
<1>2. LogOK(log, pending, kind)
  BY KindsFit, NoLogYet DEF Init, LinearizeInit
<1>3. HistoryInv
  BY <1>1, NoHistoryYet
<1>4. StageInv
  BY <1>1 DEF StageInv
<1>. QED
  BY <1>2, <1>3, <1>4 DEF RunInv

\* An event is recorded.
LEMMA Recording ==
  ASSUME RunInv, stage = "input", LogOK(log', pending', kind),
         UNCHANGED <<kind, stage, events, verdict, monitorVars>>
  PROVE  RunInv'
<1>1. /\ kind' = kind /\ stage' = "input" /\ verdict' = verdict
      /\ UNCHANGED <<lastEvt, nConc, maxConc, open, values, empties, unmatched, remaining, result>>
  BY DEF monitorVars, historyVars
<1>2. MonitorInit /\ HistoryInv /\ verdict = "none"
  BY DEF RunInv, StageInv
<1>3. MonitorInit'
  BY <1>1, <1>2 DEF MonitorInit
<1>4. HistoryInv'
  BY <1>1, <1>2 DEF HistoryInv
<1>5. StageInv'
  <2>1. result' = "feeding"
    BY <1>3 DEF MonitorInit
  <2>. QED
    BY <1>1, <1>2, <1>3, <2>1 DEF StageInv
<1>. QED
  BY <1>1, <1>4, <1>5 DEF RunInv

LEMMA CountsAreNat ==
  ASSUME NEW l, NEW pend, NEW kd, LogOK(l, pend, kd), NEW t
  PROVE  Cardinality(InLog(l, t)) \in Nat
<1>. PICK n \in Nat : n = Len(l)
  BY DEF LogOK, TypesOfLog
<1>1. InLog(l, t) \subseteq 1 .. n
  BY DEF LogOK, TypesOfLog, InLog
<1>2. IsFiniteSet(1 .. n)
  BY FS_Interval
<1>3. IsFiniteSet(InLog(l, t))
  BY <1>1, <1>2, FS_Subset
<1>. QED
  BY <1>3, FS_CardinalityType

\* A value that can be removed.
LEMMA RemovableIs ==
  ASSUME NEW v \in Removable, kind.adds \in Nat, NoVal \notin Nat
  PROVE  /\ v \in Nat /\ v # NoVal
         /\ ~kind.duplicates => \A k \in InLog(log, {"pop", "return"}) : log[k].val # v
<1>1. v \in Nat /\ v # NoVal
  BY DEF Removable
<1>2. ASSUME ~kind.duplicates, NEW k \in InLog(log, {"pop", "return"})
      PROVE  log[k].val # v
  <2>1. v \notin Removed
    BY <1>2 DEF Removable
  <2>2. k \in Calls({"pop", "return"})
    BY <1>2 DEF Calls, InLog
  <2>. QED
    BY <1>1, <2>1, <2>2 DEF Removed
<1>. QED
  BY <1>1, <1>2

LEMMA PushRecorded ==
  ASSUME RunInv, CallPush
  PROVE  RunInv'
<1>. PICK u, v : u = Cardinality(InLog(log, CallTypes)) /\ v = Cardinality(InLog(log, {"push"}))
  OBVIOUS
<1>1. LogOK(log, pending, kind) /\ kind \in Kinds
  BY DEF RunInv, LogOK, TypesOfLog
<1>2. NextUid = u /\ Cardinality(Calls({"push"})) = v
  BY DEF NextUid, Calls, InLog, CallTypes
<1>3. /\ stage = "input" /\ v < kind.adds
      /\ log' = Append(log, Event("push", u, v, Len(log) + 1))
      /\ pending' = With(pending, u, "push")
      /\ UNCHANGED <<kind, stage, events, verdict, monitorVars>>
  BY <1>2 DEF CallPush, Record
<1>4. v \in Nat
  BY <1>1, CountsAreNat
<1>5. LogOK(Append(log, Event("push", u, v, Len(log) + 1)), With(pending, u, "push"), kind)
  <2>1. NoVal \notin Nat /\ \A x \in Kinds : x.adds \in Nat /\ x.removals \in Nat
    BY KindsFit
  <2>2. "push" \in {"push", "pop"} /\ "push" # "pop"
    OBVIOUS
  <2>. QED
    BY <1>1, <1>3, <1>4, <2>1, <2>2, LogAfterCall
<1>. QED
  BY <1>3, <1>5, Recording

LEMMA PopRecorded ==
  ASSUME RunInv, CallPop
  PROVE  RunInv'
<1>. PICK u : u = Cardinality(InLog(log, CallTypes))
  OBVIOUS
<1>1. LogOK(log, pending, kind) /\ kind \in Kinds
  BY DEF RunInv, LogOK, TypesOfLog
<1>2. NextUid = u /\ Calls({"pop"}) = InLog(log, {"pop"})
  BY DEF NextUid, Calls, InLog, CallTypes
<1>. PICK v \in IF kind.needsSimpl THEN {NoVal} ELSE Removable : Record("pop", NextUid, v)
  BY DEF CallPop
<1>3. /\ stage = "input" /\ Cardinality(InLog(log, {"pop"})) < kind.removals
      /\ log' = Append(log, Event("pop", u, v, Len(log) + 1))
      /\ pending' = With(pending, u, "pop")
      /\ UNCHANGED <<kind, stage, events, verdict, monitorVars>>
  BY <1>2 DEF CallPop, Record
<1>4. /\ v \in Nat \cup {NoVal}
      /\ v # NoVal => ~kind.needsSimpl
      /\ ~kind.duplicates => \A k \in InLog(log, {"pop", "return"}) : log[k].val # v \/ v = NoVal
  <2>1. CASE kind.needsSimpl
    BY <2>1
  <2>2. CASE ~kind.needsSimpl
    BY <1>1, <2>2, KindsFit, RemovableIs
  <2>. QED
    BY <2>1, <2>2
<1>5. LogOK(Append(log, Event("pop", u, v, Len(log) + 1)), With(pending, u, "pop"), kind)
  <2>1. NoVal \notin Nat /\ \A x \in Kinds : x.adds \in Nat /\ x.removals \in Nat
    BY KindsFit
  <2>2. "pop" \in {"push", "pop"} /\ "push" # "pop"
    OBVIOUS
  <2>. QED
    BY <1>1, <1>3, <1>4, <2>1, <2>2, LogAfterCall
<1>. QED
  BY <1>3, <1>5, Recording

LEMMA ReturnRecorded ==
  ASSUME RunInv, NEW u \in DOMAIN pending, Return(u) \/ ReturnValue(u)
  PROVE  RunInv'
<1>1. LogOK(log, pending, kind) /\ kind \in Kinds
  BY DEF RunInv, LogOK, TypesOfLog
<1>2. \E v \in Nat \cup {NoVal} :
        /\ log' = Append(log, Event("return", u, v, Len(log) + 1))
        /\ v # NoVal => kind.needsSimpl /\ pending[u] = "pop"
        /\ v # NoVal /\ ~kind.duplicates => \A k \in InLog(log, {"pop", "return"}) : log[k].val # v
  <2>1. CASE Return(u)
    BY <2>1 DEF Return, Record
  <2>2. CASE ReturnValue(u)
    <3>. PICK v \in Removable : Record("return", u, v)
      BY <2>2 DEF ReturnValue
    <3>1. /\ v \in Nat /\ v # NoVal
          /\ ~kind.duplicates => \A k \in InLog(log, {"pop", "return"}) : log[k].val # v
      BY <1>1, KindsFit, RemovableIs
    <3>2. log' = Append(log, Event("return", u, v, Len(log) + 1))
      BY DEF Record
    <3>3. kind.needsSimpl /\ pending[u] = "pop"
      BY <2>2 DEF ReturnValue
    <3>. QED
      BY <3>1, <3>2, <3>3
  <2>. QED
    BY <2>1, <2>2
<1>. PICK v \in Nat \cup {NoVal} :
        /\ log' = Append(log, Event("return", u, v, Len(log) + 1))
        /\ v # NoVal => kind.needsSimpl /\ pending[u] = "pop"
        /\ v # NoVal /\ ~kind.duplicates => \A k \in InLog(log, {"pop", "return"}) : log[k].val # v
  BY <1>2
<1>3. /\ stage = "input" /\ pending' = Without(pending, u)
      /\ UNCHANGED <<kind, stage, events, verdict, monitorVars>>
  BY DEF Return, ReturnValue
<1>4. LogOK(Append(log, Event("return", u, v, Len(log) + 1)), Without(pending, u), kind)
  BY <1>1, LogAfterReturn
<1>. QED
  BY <1>3, <1>4, Recording

LEMMA LogRead ==
  ASSUME RunInv, EndOfLog
  PROVE  RunInv'
<1>1. /\ LogOK(log, pending, kind) /\ kind \in Kinds /\ HistoryInv /\ MonitorInit
      /\ verdict = "none"
  BY DEF RunInv, StageInv, LogOK, TypesOfLog, EndOfLog
<1>2. /\ log' = log /\ pending' = pending /\ kind' = kind /\ verdict' = verdict
      /\ UNCHANGED <<lastEvt, nConc, maxConc, open, values, empties, unmatched, remaining, result>>
  BY DEF EndOfLog, monitorVars, historyVars
<1>3. DOMAIN pending = {}
  BY DEF EndOfLog, EmptyMap
<1>4. MonitorInit' /\ HistoryInv'
  BY <1>1, <1>2 DEF MonitorInit, HistoryInv
<1>5. result' = "feeding" /\ remaining' = << >>
  BY <1>4 DEF MonitorInit
<1>6. CASE kind.needsSimpl
  <2>1. stage' = "simplify"
    BY <1>6 DEF EndOfLog
  <2>2. StageInv'
    BY <1>1, <1>2, <1>3, <1>4, <1>5, <1>6, <2>1 DEF StageInv
  <2>. QED
    BY <1>1, <1>2, <1>4, <2>2 DEF RunInv
<1>7. CASE ~kind.needsSimpl
  <2>1. stage' = "feed" /\ events' = log
    BY <1>7 DEF EndOfLog
  <2>2. TimesFit(kind) /\ NoVal \notin Nat
    BY <1>1, KindsFit
  <2>3. GivenOK(log, Operations(log)) /\ Ops(EventSet(log)) = Operations(log)
    BY <1>1, <1>3, <1>7, <2>2, LogAsGiven
  <2>4. ToFeed({}, log, Operations(log)) /\ Answers({} \cup EventSet(log), log, kind)
    BY <1>7, <2>3, FeedStarts DEF Answers
  <2>5. FeedInv({})'
    <3>1. FeedInv({})
      BY <1>1, NothingFed
    <3>. QED
      BY <1>2, <3>1 DEF FeedInv
  <2>6. \E F : /\ FeedInv(F)' /\ ToFeed(F, events', Operations(log'))
               /\ Answers(F \cup EventSet(events'), log', kind')
    BY <1>2, <2>1, <2>4, <2>5
  <2>7. StageInv'
    BY <1>1, <1>2, <1>3, <1>5, <2>1, <2>6 DEF StageInv
  <2>. QED
    BY <1>1, <1>2, <1>4, <2>7 DEF RunInv
<1>. QED
  BY <1>6, <1>7

LEMMA LogSimplified ==
  ASSUME RunInv, SimplifyLog, CarefulKinds, UNCHANGED <<kind, pending>>
  PROVE  RunInv'
<1>1. /\ LogOK(log, pending, kind) /\ kind \in Kinds /\ HistoryInv /\ MonitorInit
      /\ verdict = "none" /\ DOMAIN pending = {} /\ kind.needsSimpl
  BY DEF RunInv, StageInv, LogOK, TypesOfLog, SimplifyLog
<1>2. /\ log' = log /\ pending' = pending /\ kind' = kind
      /\ UNCHANGED <<lastEvt, nConc, maxConc, open, values, empties, unmatched, remaining, result>>
  BY DEF SimplifyLog, monitorVars, historyVars
<1>3. MonitorInit' /\ HistoryInv'
  BY <1>1, <1>2 DEF MonitorInit, HistoryInv
<1>4. result' = "feeding" /\ remaining' = << >>
  BY <1>3 DEF MonitorInit
<1>. PICK s : s = SimplifyHistory(log, "stack")
  OBVIOUS
<1>5. CASE s.failed
  <2>1. stage' = "done" /\ verdict' = "violation"
    BY <1>5 DEF SimplifyLog
  <2>2. ~Orders(Operations(log), << >>)
    BY <1>1, <1>5, KindsFit, FailedIsWrong DEF CarefulKinds
  <2>3. ~Orders(Operations(log'), << >>)
    BY <1>2, <2>2
  <2>4. StageInv'
    BY <1>1, <1>2, <1>4, <2>1, <2>3 DEF StageInv
  <2>. QED
    BY <1>1, <1>2, <1>3, <2>4 DEF RunInv
<1>6. CASE ~s.failed
  <2>1. stage' = "feed" /\ verdict' = verdict /\ events' = s.events
    BY <1>6 DEF SimplifyLog
  <2>2. TimesFit(kind) /\ NoVal \notin Nat /\ NoVal \notin Nat \X Nat /\ ~kind.duplicates
    BY <1>1, KindsFit DEF CarefulKinds
  <2>3. /\ GivenOK(Given(log, kind), Operations(log))
        /\ Answers(EventSet(Given(log, kind)), log, kind)
    BY <1>1, <1>6, <2>2, LogIsGiven
  <2>4. Given(log, kind) = s.events /\ {} \cup EventSet(s.events) = EventSet(s.events)
    BY <1>1 DEF Given
  <2>5. ToFeed({}, s.events, Operations(log)) /\ Answers({} \cup EventSet(s.events), log, kind)
    BY <2>3, <2>4, FeedStarts
  <2>6. FeedInv({})'
    <3>1. FeedInv({})
      BY <1>1, NothingFed
    <3>. QED
      BY <1>2, <3>1 DEF FeedInv
  <2>7. \E F : /\ FeedInv(F)' /\ ToFeed(F, events', Operations(log'))
               /\ Answers(F \cup EventSet(events'), log', kind')
    BY <1>2, <2>1, <2>5, <2>6
  <2>8. StageInv'
    BY <1>1, <1>2, <1>4, <2>1, <2>7 DEF StageInv
  <2>. QED
    BY <1>1, <1>2, <1>3, <2>8 DEF RunInv
<1>. QED
  BY <1>5, <1>6

LEMMA EventFed ==
  ASSUME RunInv, FeedEvent, UNCHANGED <<kind, pending>>
  PROVE  RunInv'
<1>1. /\ LogOK(log, pending, kind) /\ HistoryInv /\ stage = "feed" /\ result = "feeding"
      /\ verdict = "none" /\ DOMAIN pending = {} /\ remaining = << >>
  BY DEF RunInv, StageInv, FeedEvent
<1>. PICK F : /\ FeedInv(F) /\ ToFeed(F, events, Operations(log))
              /\ Answers(F \cup EventSet(events), log, kind)
  BY <1>1 DEF RunInv, StageInv
<1>. PICK e : e = Head(events)
  OBVIOUS
<1>2. /\ events # << >> /\ AddEvent(e) /\ events' = Tail(events) /\ Conclude
      /\ log' = log /\ pending' = pending /\ kind' = kind
  BY DEF FeedEvent
<1>3. /\ EventsOK(F \cup {e}) /\ \A m \in F : m.ts < e.ts
      /\ ToFeed(F \cup {e}, events', Operations(log))
      /\ IsNext(F, e, F \cup EventSet(events))
      /\ (F \cup {e}) \cup EventSet(events') = F \cup EventSet(events)
  BY <1>2, FeedNext
<1>4. remaining' = << >> /\ result' \in {"feeding", "violation", "error"}
  BY <1>1, <1>2, AddEventEnds
<1>5. HistoryInv'
  BY <1>1, <1>2, <1>3, HistoryFed
<1>6. CASE result' = "feeding"
  <2>1. FeedInv(F \cup {e})'
    BY <1>2, <1>3, <1>6, FeedGoesOn
  <2>2. stage' = stage /\ verdict' = verdict
    BY <1>2, <1>6 DEF Conclude
  <2>3. \E G : /\ FeedInv(G)' /\ ToFeed(G, events', Operations(log'))
               /\ Answers(G \cup EventSet(events'), log', kind')
    BY <1>2, <1>3, <2>1
  <2>4. StageInv'
    BY <1>1, <1>2, <1>4, <1>6, <2>2, <2>3 DEF StageInv
  <2>. QED
    BY <1>1, <1>2, <1>5, <2>4 DEF RunInv
<1>7. CASE result' # "feeding"
  <2>1. stage' = "done" /\ verdict' = result' /\ verdict' \in {"violation", "error"}
    BY <1>2, <1>4, <1>7 DEF Conclude
  <2>. PICK G : G = F \cup EventSet(events)
    OBVIOUS
  <2>2. EventsOK(G) /\ Paired(G) /\ IsNext(F, e, G)
    BY <1>3 DEF ToFeed
  <2>3. ~Clean(Ops(G))
    BY <1>2, <1>7, <2>2, FeedAccepts
  <2>4. Unclean(kind', Operations(log'))
    BY <1>2, <2>3 DEF Answers, Unclean
  <2>5. StageInv'
    BY <1>1, <1>2, <1>4, <1>7, <2>1, <2>4 DEF StageInv
  <2>. QED
    BY <1>1, <1>2, <1>5, <2>5 DEF RunInv
<1>. QED
  BY <1>6, <1>7

LEMMA LinearizationBegun ==
  ASSUME RunInv, BeginLinearization, UNCHANGED <<kind, pending>>
  PROVE  RunInv'
<1>1. /\ LogOK(log, pending, kind) /\ HistoryInv /\ stage = "feed" /\ result = "feeding"
      /\ verdict = "none" /\ DOMAIN pending = {} /\ remaining = << >>
  BY DEF RunInv, StageInv, BeginLinearization
<1>. PICK F : FeedInv(F) /\ ToFeed(F, events, Operations(log))
  BY <1>1 DEF RunInv, StageInv
<1>2. /\ events = << >> /\ StartLinearization
      /\ log' = log /\ pending' = pending /\ kind' = kind
  BY DEF BeginLinearization
<1>3. EmptiesOK(empties) /\ ValuesOK(values)
  BY DEF FeedInv, AccountsFor
<1>4. HistoryInv'
  BY <1>1, <1>2, <1>3, HistoryStarts
<1>. PICK ops : ops = Operations(log)
  OBVIOUS
<1>. PICK E : E = {EmptyPopOf(empties[k]) : k \in DOMAIN empties}
  OBVIOUS
<1>7. (Orders(OpsOf(values) \cup E, << >>) <=> Orders(ops, << >>))
      /\ TimesApart(OpsOf(values) \cup E)
  <2>1. AccountsFor(F, values, empties) /\ ToFeed(F, << >>, ops)
    BY <1>2 DEF FeedInv
  <2>. QED
    BY <2>1, Fed
<1>8. IsFiniteSet(E) /\ \A o \in E : EmptyPop(o)
  <2>. PICK n \in Nat : n = Len(empties)
    BY <1>3 DEF EmptiesOK
  <2>1. n \in 0 .. Len(empties) /\ DOMAIN empties = 1 .. n
    BY <1>3 DEF EmptiesOK
  <2>2. E = EmptyPops(empties, n)
    BY <2>1 DEF EmptyPops
  <2>. QED
    BY <1>3, <2>1, <2>2, EmptyPopsAre
<1>. PICK lr : lr = Step(History(values, empties))
  OBVIOUS
<1>5. CASE result' = "linearizing"
  <2>1. stage' = "linearize" /\ verdict' = verdict
    BY <1>5 DEF BeginLinearization
  <2>2. /\ ~lr.violation /\ remaining' = lr.remaining
        /\ values' = IF empties = << >> THEN MinmaxPrune(values) ELSE values
    BY <1>2, <1>5 DEF StartLinearization, Raise
  <2>3. RightParts(values, empties, lr.remaining)
    BY <1>3, <2>2, StepIsRight
  <2>4. (\A k \in DOMAIN lr.remaining : Orders(OpsOf(lr.remaining[k].values), << >>))
          => Orders(ops, << >>)
    BY <1>7, <2>3 DEF RightParts
  <2>5. DisjointParts(remaining', values')
    BY <1>4 DEF HistoryInv
  <2>6. Worklist(remaining', values', Operations(log'))
    BY <1>2, <2>2, <2>4, <2>5 DEF Worklist, DisjointParts
  <2>8. NoneAdded(values', Operations(log'))
    <3>. PICK w : w = values'
      OBVIOUS
    <3>1. w \in SUBSET values
      BY <1>3, <2>2, PruneIsSound
    <3>2. NoneAdded(values, ops)
      BY <1>3, <1>7, <1>8, NoneAddedAtStart
    <3>3. NoneAdded(w, ops)
      BY <1>3, <3>1, <3>2, NoneAddedToPart
    <3>. QED
      BY <1>2, <3>3
  <2>7. StageInv'
    BY <1>1, <1>2, <1>5, <2>1, <2>6, <2>8 DEF StageInv
  <2>. QED
    BY <1>1, <1>2, <1>4, <2>7 DEF RunInv
<1>6. CASE result' # "linearizing"
  <2>0. DOMAIN unmatched = {} /\ Simple(values)
    BY <1>3, ValuesAreSimple DEF FeedInv
  <2>1. result' = "violation" /\ lr.violation
    BY <1>2, <1>6, <2>0 DEF StartLinearization, Raise
  <2>2. stage' = "done" /\ verdict' = "violation"
    BY <1>6, <2>1 DEF BeginLinearization, Conclude
  <2>4. ~Orders(Operations(log'), << >>)
    BY <1>2, <1>3, <1>7, <2>1, StepIsComplete
  <2>3. StageInv'
    BY <1>1, <1>2, <2>1, <2>2, <2>4 DEF StageInv
  <2>. QED
    BY <1>1, <1>2, <1>4, <2>3 DEF RunInv
<1>. QED
  BY <1>5, <1>6

LEMMA LinearizationGoesOn ==
  ASSUME RunInv, LinearizeStep, UNCHANGED <<kind, pending>>
  PROVE  RunInv'
<1>1. /\ LogOK(log, pending, kind) /\ HistoryInv /\ stage = "linearize" /\ ValuesOK(values)
      /\ verdict = "none" /\ DOMAIN pending = {} /\ result = "linearizing"
      /\ Worklist(remaining, values, Operations(log)) /\ NoneAdded(values, Operations(log))
  BY DEF RunInv, StageInv, LinearizeStep, HistoryInv
<1>2. /\ Conclude /\ (LinearizeNext \/ FinishLinearization)
      /\ log' = log /\ pending' = pending /\ kind' = kind
  BY DEF LinearizeStep
<1>3. CASE LinearizeNext
  <2>1. HistoryInv'
    BY <1>1, <1>3, HistoryGoesOn
  <2>. PICK lr : lr = Step(Last(remaining))
    OBVIOUS
  <2>2. CASE lr.violation
    <3>1. result' = "violation"
      BY <1>3, <2>2 DEF LinearizeNext, Raise
    <3>2. stage' = "done" /\ verdict' = "violation"
      BY <1>2, <3>1 DEF Conclude
    <3>3. ~Orders(Operations(log), << >>)
      <4>. PICK P : P = PartsOf(values)
        OBVIOUS
      <4>1. remaining \in Seq(P) /\ remaining # << >>
        BY <1>1, <1>3 DEF Worklist, LinearizeNext
      <4>2. Last(remaining) \in P
        BY <4>1, FrontAndLast
      <4>3. \E w \in SUBSET values : Last(remaining) = History(w, << >>)
        BY <4>2 DEF PartsOf, History
      <4>. QED
        BY <1>1, <2>2, <4>3, PartIsAccepted
    <3>4. ~Orders(Operations(log'), << >>)
      BY <1>2, <3>3
    <3>5. StageInv'
      BY <1>1, <1>2, <3>1, <3>2, <3>4 DEF StageInv
    <3>. QED
      BY <1>1, <1>2, <2>1, <3>5 DEF RunInv
  <2>3. CASE ~lr.violation
    <3>1. /\ remaining # << >> /\ remaining' = lr.remaining \o Front(remaining)
          /\ values' = values /\ result' = result
      BY <1>3, <2>3 DEF LinearizeNext, historyVars
    <3>2. Worklist(lr.remaining \o Front(remaining), values, Operations(log))
      BY <1>1, <2>3, <3>1, WorklistGoesOn
    <3>3. Worklist(remaining', values', Operations(log'))
      BY <1>2, <3>1, <3>2
    <3>4. stage' = stage /\ verdict' = verdict
      BY <1>1, <1>2, <3>1 DEF Conclude
    <3>5. NoneAdded(values', Operations(log'))
      BY <1>1, <1>2, <3>1
    <3>6. StageInv'
      BY <1>1, <1>2, <3>1, <3>3, <3>4, <3>5 DEF StageInv
    <3>. QED
      BY <1>1, <1>2, <2>1, <3>6 DEF RunInv
  <2>. QED
    BY <2>2, <2>3
<1>4. CASE FinishLinearization
  <2>1. /\ remaining = << >> /\ result' = "ok"
        /\ UNCHANGED <<lastEvt, nConc, maxConc, open, values, empties, unmatched, remaining>>
    BY <1>4 DEF FinishLinearization, historyVars
  <2>2. stage' = "done" /\ verdict' = "ok"
    BY <1>2, <2>1 DEF Conclude
  <2>3. Orders(Operations(log), << >>)
    <3>1. DOMAIN remaining = {}
      BY <2>1
    <3>. QED
      BY <1>1, <3>1 DEF Worklist
  <2>4. HistoryInv'
    BY <1>1, <2>1 DEF HistoryInv
  <2>5. StageInv'
    BY <1>1, <1>2, <2>1, <2>2, <2>3 DEF StageInv
  <2>. QED
    BY <1>1, <1>2, <2>4, <2>5 DEF RunInv
<1>. QED
  BY <1>2, <1>3, <1>4

LEMMA NothingChanges ==
  ASSUME RunInv, UNCHANGED recVars
  PROVE  RunInv'
<1>1. UNCHANGED <<kind, pending, stage, log, events, verdict, lastEvt, nConc, maxConc,
                  open, values, empties, unmatched, remaining, result>>
  BY DEF recVars, vars, monitorVars, historyVars
<1>2. HistoryInv'
  BY <1>1 DEF RunInv, HistoryInv
<1>3. stage = "feed" => (\E F : /\ FeedInv(F) /\ ToFeed(F, events, Operations(log))
                               /\ Answers(F \cup EventSet(events), log, kind))'
  BY <1>1 DEF RunInv, StageInv, FeedInv
<1>4. StageInv'
  <2>1. (stage \in {"input", "simplify"} => MonitorInit)'
    BY <1>1 DEF RunInv, StageInv, MonitorInit
  <2>. QED
    BY <1>1, <1>3, <2>1 DEF RunInv, StageInv
<1>. QED
  BY <1>1, <1>2, <1>4 DEF RunInv

LEMMA RunGoesOn ==
  ASSUME RunInv, [Next]_recVars, CarefulKinds
  PROVE  RunInv'
<1>1. CASE CallPush
  BY <1>1, PushRecorded
<1>2. CASE CallPop
  BY <1>2, PopRecorded
<1>3. CASE EndOfLog
  BY <1>3, LogRead
<1>4. CASE \E uid \in DOMAIN pending : Return(uid) \/ ReturnValue(uid)
  BY <1>4, ReturnRecorded
<1>5. CASE Run /\ UNCHANGED <<kind, pending>>
  <2>1. CASE SimplifyLog
    BY <1>5, <2>1, LogSimplified
  <2>2. CASE FeedEvent
    BY <1>5, <2>2, EventFed
  <2>3. CASE BeginLinearization
    BY <1>5, <2>3, LinearizationBegun
  <2>4. CASE LinearizeStep
    BY <1>5, <2>4, LinearizationGoesOn
  <2>5. CASE Ended
    <3>1. UNCHANGED recVars
      BY <1>5, <2>5 DEF Ended, recVars
    <3>. QED
      BY <3>1, NothingChanges
  <2>. QED
    BY <1>5, <2>1, <2>2, <2>3, <2>4, <2>5 DEF Run
<1>6. CASE UNCHANGED recVars
  BY <1>6, NothingChanges
<1>. QED
  BY <1>1, <1>2, <1>3, <1>4, <1>5, <1>6 DEF Next

\* A history without empty pops stands for the operations of its values.
LEMMA ItemOperationsIs ==
  ASSUME NEW h, h.empties = << >>
  PROVE  ItemOperations(h) = OpsOf(h.values)
<1>1. DOMAIN h.empties = {}
  OBVIOUS
<1>2. ItemOperations(h) = OpsOf(h.values) \cup {EmptyPopOf(h.empties[k]) : k \in DOMAIN h.empties}
  BY Zenon DEF ItemOperations, OpsOf, PushOf, PopOf, EmptyPopOf
<1>. QED
  BY <1>1, <1>2

LEMMA RunInvariant ==
  ASSUME CarefulKinds
  PROVE  Spec => []RunInv
<1>. QED
  BY RunStarts, RunGoesOn, PTL DEF Spec

(***************************************************************************)
(* A history printed OK is linearizable, however long the log: the events  *)
(* that add_event() has been given and the worklist of do_linearization    *)
(* stand for operations that can be ordered only if those of the log can.  *)
(* What the implementation answers is open, but for this: if the history   *)
(* is to be simplified, no value is removed twice.                         *)
(***************************************************************************)
THEOREM OkHistoriesAreLinearizable ==
  ASSUME \A k \in Kinds : k.needsSimpl => ~k.duplicates
  PROVE  Spec => []OkIsLinearizable
<1>1. ASSUME RunInv PROVE OkIsLinearizable
  <2>. SUFFICES ASSUME stage = "done", verdict = "ok" PROVE LinearizableStack(Operations(log))
    BY DEF OkIsLinearizable
  <2>1. Orders(Operations(log), << >>) /\ DOMAIN pending = {} /\ LogOK(log, pending, kind)
    BY <1>1 DEF RunInv, StageInv
  <2>2. IsFiniteSet(Operations(log))
    BY <2>1, LogIsComplete, FiniteOperations
  <2>. QED
    BY <2>1, <2>2, LinearizableIs
<1>2. RunInv => OkIsLinearizable
  BY <1>1
<1>3. CarefulKinds
  BY DEF CarefulKinds
<1>4. Spec => []RunInv
  BY <1>3, RunInvariant
<1>. QED
  BY <1>2, <1>4, PTL

(***************************************************************************)
(* A split of do_linearization never hands a value to both parts, and no   *)
(* two histories of the worklist hold the same value.                      *)
(***************************************************************************)
THEOREM WorklistStaysDisjoint ==
  ASSUME \A k \in Kinds : k.needsSimpl => ~k.duplicates
  PROVE  Spec => []WorklistIsDisjoint
<1>1. ASSUME RunInv PROVE WorklistIsDisjoint
  <2>1. ValuesOK(values) /\ DisjointParts(remaining, values)
    BY <1>1 DEF RunInv, HistoryInv
  <2>. SUFFICES ASSUME NEW j \in DOMAIN remaining, NEW k \in DOMAIN remaining, j # k,
                       NEW v \in remaining[j].values, NEW w \in remaining[k].values, v.val = w.val
                PROVE  FALSE
    BY DEF WorklistIsDisjoint
  <2>. PICK P : P = PartsOf(values)
    OBVIOUS
  <2>2. remaining[j] \in P /\ remaining[k] \in P
    <3>1. remaining \in Seq(P)
      BY <2>1 DEF DisjointParts
    <3>. QED
      BY <3>1
  <2>3. v \in values /\ w \in values
    BY <2>2 DEF PartsOf
  <2>4. v = w
    BY <2>1, <2>3 DEF ValuesOK
  <2>. QED
    BY <2>1, <2>4 DEF DisjointParts
<1>2. RunInv => WorklistIsDisjoint
  BY <1>1
<1>3. CarefulKinds
  BY DEF CarefulKinds
<1>4. Spec => []RunInv
  BY <1>3, RunInvariant
<1>. QED
  BY <1>2, <1>4, PTL

(***************************************************************************)
(* Types: of the intervals, of the counter of running operations, which    *)
(* the monitor keeps apart from the map of open calls, and of the parts    *)
(* that step() makes, which hold no empty pop.                             *)
(***************************************************************************)
THEOREM RunIsTyped ==
  ASSUME \A k \in Kinds : k.needsSimpl => ~k.duplicates
  PROVE  Spec => []TypeOK
<1>1. ASSUME RunInv PROVE TypeOK
  <2>1. HistoryInv /\ StageInv
    BY <1>1 DEF RunInv
  <2>2. nConc \in Nat /\ maxConc \in Nat
    BY <2>1, FS_CardinalityType DEF HistoryInv
  <2>3. \A k \in DOMAIN empties : empties[k] \in AtomSet
    BY <2>1 DEF HistoryInv
  <2>. PICK P : P = PartsOf(values)
    OBVIOUS
  <2>4. remaining \in Seq(P)
    BY <2>1 DEF HistoryInv, DisjointParts
  <2>5. \A k \in DOMAIN remaining : remaining[k] \in P
    BY <2>4
  <2>6. \A k \in DOMAIN remaining : remaining[k] \in [values : SUBSET values, empties : {<< >>}]
    BY <2>5 DEF PartsOf
  <2>7. /\ DOMAIN open \subseteq DOMAIN lastEvt
        /\ \A v \in values : v.add \in AtomSet /\ v.rmv \in AtomSet
    BY <2>1 DEF HistoryInv
  <2>8. /\ stage \in {"input", "simplify", "feed", "linearize", "done"}
        /\ verdict \in {"none", "ok", "violation", "error"}
        /\ result \in {"feeding", "linearizing", "ok", "violation", "error"}
    BY <2>1 DEF StageInv
  <2>. QED
    BY <2>2, <2>3, <2>6, <2>7, <2>8 DEF TypeOK
<1>2. RunInv => TypeOK
  BY <1>1
<1>3. CarefulKinds
  BY DEF CarefulKinds
<1>4. Spec => []RunInv
  BY <1>3, RunInvariant
<1>. QED
  BY <1>2, <1>4, PTL

(***************************************************************************)
(* The loop invariant of do_linearization: the log is linearizable if and  *)
(* only if every history of the worklist is, whatever the log and however  *)
(* far the loop has come.                                                  *)
(***************************************************************************)
THEOREM WorklistStaysEquivalent ==
  ASSUME \A k \in Kinds : k.needsSimpl => ~k.duplicates
  PROVE  Spec => []WorklistIsEquivalent
<1>1. ASSUME RunInv PROVE WorklistIsEquivalent
  <2>. SUFFICES ASSUME stage = "linearize"
                PROVE  LinearizableStack(Operations(log)) <=>
                         \A k \in DOMAIN remaining : LinearizableStack(ItemOperations(remaining[k]))
    BY DEF WorklistIsEquivalent
  <2>. PICK ops : ops = Operations(log)
    OBVIOUS
  <2>1. /\ Worklist(remaining, values, ops) /\ NoneAdded(values, ops) /\ ValuesOK(values)
        /\ DOMAIN pending = {} /\ LogOK(log, pending, kind)
    BY <1>1 DEF RunInv, StageInv, HistoryInv
  <2>2. LinearizableStack(ops) <=> Orders(ops, << >>)
    BY <2>1, LogIsComplete, FiniteOperations, LinearizableIs
  <2>3. ASSUME NEW k \in DOMAIN remaining
        PROVE  /\ remaining[k].values \in SUBSET values
               /\ LinearizableStack(ItemOperations(remaining[k]))
                    <=> Orders(OpsOf(remaining[k].values), << >>)
    <3>. PICK P : P = PartsOf(values)
      OBVIOUS
    <3>1. remaining \in Seq(P)
      BY <2>1 DEF Worklist
    <3>2. remaining[k] \in P
      BY <3>1
    <3>. PICK h : h = remaining[k]
      OBVIOUS
    <3>3. h.values \in SUBSET values /\ h.empties = << >>
      BY <3>2 DEF PartsOf
    <3>. PICK T : T = OpsOf(h.values)
      OBVIOUS
    <3>4. ItemOperations(h) = T
      BY <3>3, ItemOperationsIs
    <3>5. IsFiniteSet(T)
      BY <2>1, <3>3, PartOK, OpsOfOK
    <3>. QED
      BY <3>3, <3>4, <3>5, LinearizableIs
  <2>4. ASSUME Orders(ops, << >>), NEW k \in DOMAIN remaining
        PROVE  Orders(OpsOf(remaining[k].values), << >>)
    <3>. PICK w : w = remaining[k].values
      OBVIOUS
    <3>1. NoneAdded(w, ops)
      BY <2>1, <2>3, NoneAddedToPart
    <3>. QED
      BY <2>4, <3>1 DEF NoneAdded
  <2>. QED
    BY <2>1, <2>2, <2>3, <2>4 DEF Worklist
<1>2. RunInv => WorklistIsEquivalent
  BY <1>1
<1>3. CarefulKinds
  BY DEF CarefulKinds
<1>4. Spec => []RunInv
  BY <1>3, RunInvariant
<1>. QED
  BY <1>2, <1>4, PTL

\* Two operations of one type and value, in what the monitor is given.
LEMMA GivenIsDifferentiated ==
  ASSUME NEW l, NEW kd, Differentiated(Operations(l)), NEW G, EventsOK(G), Answers(G, l, kd),
         NEW o \in Ops(G), NEW q \in Ops(G), o.type = q.type /\ o.val = q.val /\ o.val # NoVal
  PROVE  o = q
<1>1. CASE kd.needsSimpl
  <2>1. Clean(Ops(G))
    BY <1>1 DEF Answers
  <2>. PICK c \in G, r \in G : Matches(G, c, r) /\ o = OpFrom(c, r)
    BY OpsIs
  <2>2. OpFrom(c, r).type = c.type /\ c.type # "return" /\ c.type \in {"push", "pop", "return"}
    BY OpFromIs DEF Matches, EventsOK, EventOK
  <2>3. CASE o.type = "push"
    BY <2>3, PushesDiffer
  <2>4. CASE o.type = "pop"
    BY <2>1, <2>4 DEF Clean, Pops
  <2>. QED
    BY <2>2, <2>3, <2>4
<1>2. CASE ~kd.needsSimpl
  BY <1>2 DEF Answers, Differentiated
<1>. QED
  BY <1>1, <1>2

\* Nothing is left of the events F that the monitor has been given.
LEMMA NothingKept ==
  ASSUME NEW F, EventsOK(F), NEW last, NEW op, CallsOK(F, last, op), DOMAIN op = {},
         AccountsFor(F, {}, << >>)
  PROVE  /\ \A c \in F : c.type # "return" => \E r \in F : Matches(F, c, r)
         /\ \A o \in Ops(F) : IsPairIn(Ops(F), o.val)
<1>1. \A o \in Ops(F) : o.val = NoVal => EmptyPop(o)
  BY OpsAreFinite
<1>2. {EmptyPopOf(<< >>[k]) : k \in DOMAIN << >>} = {} /\ OpsOf({}) = {}
  BY DEF OpsOf
<1>3. \A o \in Ops(F) : o.val # NoVal
  BY <1>1, <1>2 DEF AccountsFor
<1>4. \A o \in Ops(F) : IsPairIn(Ops(F), o.val)
  BY <1>2, <1>3 DEF AccountsFor
<1>. QED
  BY <1>4 DEF CallsOK

(***************************************************************************)
(* simplify() and preprocess() do not change the answer: what is fed to    *)
(* the monitor is linearizable if and only if the log is, and it stays so  *)
(* while the monitor has kept nothing of what it was given.                *)
(***************************************************************************)
THEOREM SimplifyingIsEquivalent ==
  ASSUME \A k \in Kinds : k.needsSimpl => ~k.duplicates
  PROVE  Spec => []SimplifyIsEquivalent
<1>1. ASSUME RunInv PROVE SimplifyIsEquivalent
  <2>. SUFFICES ASSUME stage = "feed", open = EmptyMap, Differentiated(Operations(log)),
                       values = {}, empties = << >>
                PROVE  LinearizableStack(Operations(log)) <=> LinearizableStack(Operations(events))
    BY DEF SimplifyIsEquivalent
  <2>. PICK ops : ops = Operations(log)
    OBVIOUS
  <2>1. DOMAIN pending = {} /\ LogOK(log, pending, kind)
    BY <1>1 DEF RunInv, StageInv
  <2>. PICK F : /\ FeedInv(F) /\ ToFeed(F, events, ops)
                /\ Answers(F \cup EventSet(events), log, kind)
    BY <1>1 DEF RunInv, StageInv
  <2>. PICK H, G : H = EventSet(events) /\ G = F \cup EventSet(events)
    OBVIOUS
  <2>2. /\ EventsOK(G) /\ Paired(G) /\ G = F \cup H /\ Answers(G, log, kind)
        /\ \A m \in F : \A k \in H : m.ts < k.ts
        /\ Orders(Ops(G), << >>) <=> Orders(ops, << >>)
    BY DEF ToFeed, EventSet
  <2>3. EventsOK(F) /\ EventsOK(H)
    <3>1. F \subseteq G /\ H \subseteq G
      BY <2>2
    <3>. QED
      BY <2>2, <3>1, FS_Subset DEF EventsOK
  <2>4. /\ \A c \in F : c.type # "return" => \E r \in F : Matches(F, c, r)
        /\ \A o \in Ops(F) : IsPairIn(Ops(F), o.val)
    <3>1. CallsOK(F, lastEvt, open) /\ DOMAIN open = {} /\ AccountsFor(F, {}, << >>)
      BY DEF FeedInv, EmptyMap
    <3>. QED
      BY <2>3, <3>1, NothingKept
  <2>5. \A o, q \in Ops(G) : o.type = q.type /\ o.val = q.val /\ o.val # NoVal => o = q
    BY <2>2, GivenIsDifferentiated
  <2>6. Paired(H) /\ (Orders(Ops(G), << >>) <=> Orders(Ops(H), << >>))
    BY ONLY <2>2, <2>4, <2>5, StartLeftOut
  <2>7. Operations(events) = Ops(H)
    <3>1. TimesInOrder(events)
      <4>1. \A k \in DOMAIN events : events[k] \in H /\ k \in Nat
        BY DEF EventSet, ToFeed
      <4>. QED
        BY <2>3, <4>1 DEF TimesInOrder, ToFeed, EventsOK, EventOK
    <3>2. (\E S : events \in Seq(S)) /\ Paired(EventSet(events))
      BY <2>6 DEF ToFeed
    <3>3. \A e \in EventSet(events) : e.type = "return" => e.val = NoVal
      BY <2>3 DEF EventsOK, EventOK
    <3>. QED
      BY <3>1, <3>2, <3>3, OperationsOfEvents
  <2>8. LinearizableStack(ops) <=> Orders(ops, << >>)
    BY <2>1, LogIsComplete, FiniteOperations, LinearizableIs
  <2>9. LinearizableStack(Operations(events)) <=> Orders(Ops(H), << >>)
    <3>. PICK T : T = Ops(H)
      OBVIOUS
    <3>1. IsFiniteSet(T)
      BY <2>3, OpsAreFinite
    <3>. QED
      BY <2>7, <3>1, LinearizableIs
  <2>. QED
    BY <2>2, <2>6, <2>8, <2>9
<1>2. RunInv => SimplifyIsEquivalent
  BY <1>1
<1>3. CarefulKinds
  BY DEF CarefulKinds
<1>4. Spec => []RunInv
  BY <1>3, RunInvariant
<1>. QED
  BY <1>2, <1>4, PTL

(***************************************************************************)
(* A lookup of a missing value, or a history that is not simple where it   *)
(* must be, is out of question in a simplified history, and in another it  *)
(* needs a removal of what is missing.                                     *)
(***************************************************************************)
THEOREM ErrorsHaveCauses ==
  ASSUME \A k \in Kinds : k.needsSimpl => ~k.duplicates
  PROVE  Spec => []NoInternalError
<1>1. ASSUME RunInv PROVE NoInternalError
  <2>1. verdict = "error" => stage = "done"
    BY <1>1 DEF RunInv, StageInv
  <2>. SUFFICES ASSUME stage = "done", verdict = "error"
                PROVE  ~kind.needsSimpl /\ RemovesMissing(Operations(log))
    BY <2>1 DEF NoInternalError
  <2>2. /\ Unclean(kind, Operations(log)) /\ DOMAIN pending = {}
        /\ LogOK(log, pending, kind) /\ kind \in Kinds
    BY <1>1 DEF RunInv, StageInv, LogOK, TypesOfLog
  <2>. QED
    BY <2>2, KindsFit, LogIsClean DEF Unclean
<1>2. RunInv => NoInternalError
  BY <1>1
<1>3. CarefulKinds
  BY DEF CarefulKinds
<1>4. Spec => []RunInv
  BY <1>3, RunInvariant
<1>. QED
  BY <1>2, <1>4, PTL

(***************************************************************************)
(* The other half of the verdict: a linearizable history is answered OK,   *)
(* always if it is simplified, and if it is not, when no push overlaps the *)
(* pop of its value.                                                       *)
(***************************************************************************)
THEOREM LinearizableHistoriesAreOk ==
  ASSUME \A k \in Kinds : k.needsSimpl => ~k.duplicates
  PROVE  Spec => []LinearizableIsOk
<1>1. ASSUME RunInv PROVE LinearizableIsOk
  <2>. SUFFICES ASSUME stage = "done", LinearizableStack(Operations(log)),
                       kind.needsSimpl \/ OverlapFree(Operations(log)), verdict # "ok"
                PROVE  FALSE
    BY DEF LinearizableIsOk
  <2>1. DOMAIN pending = {} /\ LogOK(log, pending, kind) /\ kind \in Kinds
    BY <1>1 DEF RunInv, StageInv, LogOK, TypesOfLog
  <2>2. Orders(Operations(log), << >>)
    <3>1. IsFiniteSet(Operations(log))
      BY <2>1, LogIsComplete, FiniteOperations
    <3>. QED
      BY <3>1, LinearizableIs
  <2>3. Unclean(kind, Operations(log))
    BY <1>1, <2>2 DEF RunInv, StageInv
  <2>. QED
    BY <2>1, <2>2, <2>3, KindsFit, LogIsClean DEF Unclean
<1>2. RunInv => LinearizableIsOk
  BY <1>1
<1>3. CarefulKinds
  BY DEF CarefulKinds
<1>4. Spec => []RunInv
  BY <1>3, RunInvariant
<1>. QED
  BY <1>2, <1>4, PTL

(***************************************************************************)
(* Both halves: where every history is simplified, OK is printed for the   *)
(* linearizable histories and for no other.                                *)
(***************************************************************************)
THEOREM VerdictsAreRight ==
  ASSUME \A k \in Kinds : k.needsSimpl /\ ~k.duplicates
  PROVE  Spec => []VerdictIsRight
<1>1. CarefulKinds
  BY DEF CarefulKinds
<1>2. Spec => []OkIsLinearizable
  BY OkHistoriesAreLinearizable
<1>3. Spec => []LinearizableIsOk
  BY LinearizableHistoriesAreOk
<1>4. Spec => []RunInv
  BY <1>1, RunInvariant
<1>5. ASSUME RunInv, OkIsLinearizable, LinearizableIsOk PROVE VerdictIsRight
  <2>1. kind.needsSimpl
    BY <1>5 DEF RunInv, LogOK, TypesOfLog
  <2>. QED
    BY <1>5, <2>1 DEF VerdictIsRight, OkIsLinearizable, LinearizableIsOk
<1>6. RunInv /\ OkIsLinearizable /\ LinearizableIsOk => VerdictIsRight
  BY <1>5
<1>. QED
  BY <1>2, <1>3, <1>4, <1>6, PTL
=============================================================================
