--------------------------- MODULE Recorder_proofs ---------------------------
(***************************************************************************)
(* Proofs that the recorded log keeps the order of the calls and that it   *)
(* is complete, for any number of threads and operations, whatever lists   *)
(* the threads have, and however the clock advances.                       *)
(***************************************************************************)
EXTENDS Recorder, FiniteSetTheorems, FunctionTheorems, TLAPS

----------------------------------------------------------------------------
(* Operations have identifiers of their own. *)

\* n * b leaves room for n numbers above n * a.
LEMMA MultipleSucc ==
  ASSUME NEW n \in Nat, NEW a \in Nat, NEW b \in Nat, a < b
  PROVE  n * a + n <= n * b
<1>1. PICK d \in Nat : b = a + 1 + d
  BY b - a - 1 \in Nat
<1>2. n * b = n * a + n + n * d
  BY <1>1
<1>3. n * d >= 0
  BY SMT
<1>. QED
  BY <1>2, <1>3

\* The identifiers of a thread lie below those of a later thread.
LEMMA UidApart ==
  ASSUME NEW t \in Threads, NEW u \in Threads, t < u,
         NEW i \in 0 .. NumOps - 1, NEW j \in 0 .. NumOps - 1
  PROVE  Uid(t, i) < Uid(u, j)
<1>1. t \in Nat /\ u \in Nat /\ NumOps \in Nat
  BY ThreadsAssumption, NumOpsAssumption
<1>2. NumOps * t + NumOps <= NumOps * u
  BY <1>1, MultipleSucc
<1>3. NumOps * t \in Nat /\ NumOps * u \in Nat
  BY <1>1
<1>. QED
  BY <1>1, <1>2, <1>3 DEF Uid

\* thread_fn numbers its operations num_ops * tid + i: no two operations have
\* the same identifier.
THEOREM UidIsUnique ==
  ASSUME NEW t \in Threads, NEW u \in Threads,
         NEW i \in 0 .. NumOps - 1, NEW j \in 0 .. NumOps - 1,
         Uid(t, i) = Uid(u, j)
  PROVE  t = u /\ i = j
<1>1. t \in Nat /\ u \in Nat /\ NumOps \in Nat
  BY ThreadsAssumption, NumOpsAssumption
<1>2. Uid(t, i) \in Nat /\ Uid(u, j) \in Nat
  BY <1>1 DEF Uid
<1>3. ~(t < u) /\ ~(u < t)
  BY <1>2, UidApart
<1>4. t = u
  BY <1>1, <1>3
<1>5. NumOps * t \in Nat
  BY <1>1
<1>. QED
  BY <1>1, <1>4, <1>5 DEF Uid

----------------------------------------------------------------------------
(* The inductive invariant. *)

Recordings ==
  [type : {"push", "pop", "return"}, thread : Int, val : Values \cup {NoVal},
   ts : Nat]

RTypeOK ==
  /\ ClientTypeOK
  /\ stack \in Seq(Values)
  /\ phase \in [Threads -> {"idle", "add", "rmv", "done"}]
  /\ arg \in [Threads -> Values \cup {NoVal}]
  /\ res \in [Threads -> Values \cup {NoVal}]
  /\ \A t \in Threads : /\ phase[t] = "add" => arg[t] \in Values
                        /\ phase[t] # "idle" => Calls(t) >= 1
  /\ clock \in Nat
  /\ tied \in BOOLEAN
  /\ \A k \in DOMAIN slots : slots[k] \in Recordings
  /\ evts \in Seq(Recordings)

\* The calls of a thread that have taken effect.
Effective(t) == IF phase[t] \in {"add", "rmv"} THEN Calls(t) - 1 ELSE Calls(t)

\* effect is defined for exactly those.
EffectsKnown ==
  /\ \A t \in Threads : \A i \in 0 .. Effective(t) - 1 : Uid(t, i) \in DOMAIN effect
  /\ \A u \in DOMAIN effect :
       /\ effect[u] \in Nat /\ effect[u] <= clock
       /\ \E t \in Threads : \E i \in 0 .. Effective(t) - 1 : u = Uid(t, i)

\* A call is stamped before, a return after its operation took effect.
StampsEnclose ==
  \A k \in DOMAIN slots :
    /\ slots[k].ts <= clock
    /\ \E t \in Threads : \E i \in 0 .. Calls(t) - 1 : slots[k].thread = Uid(t, i)
    /\ slots[k].type = "return" =>
         /\ slots[k].thread \in DOMAIN effect
         /\ ~tied => effect[slots[k].thread] < slots[k].ts
    /\ (slots[k].type # "return" /\ slots[k].thread \in DOMAIN effect) =>
         slots[k].ts <= effect[slots[k].thread]

\* What is sorted took effect before what is still to be sorted was stamped.
SortedFirst ==
  /\ evts # <<>> => Joined
  /\ \A j \in DOMAIN evts :
       evts[j].type = "return" =>
         /\ evts[j].thread \in DOMAIN effect
         /\ ~tied => \A k \in DOMAIN slots :
                       effect[evts[j].thread] < slots[k].ts

RInv ==
  RTypeOK /\ EffectsKnown /\ StampsEnclose /\ SortedFirst /\ LogKeepsOrder

----------------------------------------------------------------------------
(* What the helpers do, and facts that several steps use. *)

\* Identifiers are numbers.
LEMMA UidIsInt ==
  ASSUME NEW t \in Threads, NEW i \in Int
  PROVE  Uid(t, i) \in Int
<1>1. t \in Nat /\ NumOps \in Nat
  BY ThreadsAssumption, NumOpsAssumption
<1>2. NumOps * t \in Int
  BY <1>1
<1>. QED
  BY <1>2 DEF Uid

\* A thread has made between none and NumOps calls, and no more have taken effect.
LEMMA CallsInRange ==
  ASSUME RTypeOK, NEW t \in Threads
  PROVE  /\ Calls(t) \in 0 .. NumOps
         /\ Effective(t) \in 0 .. NumOps
         /\ Effective(t) <= Calls(t)
<1>1. NumOps \in Nat
  BY NumOpsAssumption
<1>2. prog[t] \in Seq({1, -1}) /\ added[t] \in Nat /\ added[t] + Len(prog[t]) <= NumOps
  BY DEF RTypeOK, ClientTypeOK
<1>3. Len(prog[t]) \in Nat
  BY <1>2
<1>4. Calls(t) \in 0 .. NumOps
  BY <1>1, <1>2, <1>3 DEF Calls
<1>5. phase[t] # "idle" => Calls(t) >= 1
  BY DEF RTypeOK
<1>. QED
  BY <1>1, <1>4, <1>5 DEF Effective

\* A reading never goes back, and goes forward if it ties with none.
LEMMA ClockAdvances ==
  ASSUME RTypeOK, ReadClock
  PROVE  /\ clock \in Nat /\ clock' \in Nat
         /\ clock <= clock'
         /\ tied' \in BOOLEAN
         /\ ~tied' => ~tied /\ clock < clock'
<1>1. PICK d \in ClockSteps : clock' = clock + d /\ tied' = (tied \/ d = 0)
  BY DEF ReadClock
<1>2. d \in Nat /\ clock \in Nat
  BY ClockStepsAssumption DEF RTypeOK
<1>3. clock' \in Nat /\ clock <= clock' /\ (d # 0 => clock < clock')
  BY <1>1, <1>2
<1>4. tied' \in BOOLEAN /\ (~tied' => ~tied /\ d # 0)
  BY <1>1, Zenon
<1>. QED
  BY <1>2, <1>3, <1>4

\* An operation that has not taken effect is not among those that have.
LEMMA NotYetEffective ==
  ASSUME RTypeOK, EffectsKnown, NEW t \in Threads,
         NEW i \in 0 .. NumOps - 1, i >= Effective(t)
  PROVE  Uid(t, i) \notin DOMAIN effect
<1>1. SUFFICES ASSUME Uid(t, i) \in DOMAIN effect
               PROVE  FALSE
  OBVIOUS
<1>2. PICK u \in Threads : \E j \in 0 .. Effective(u) - 1 : Uid(t, i) = Uid(u, j)
  BY <1>1 DEF EffectsKnown
<1>3. PICK j \in 0 .. Effective(u) - 1 : Uid(t, i) = Uid(u, j)
  BY <1>2
<1>4. NumOps \in Nat /\ Effective(u) \in 0 .. NumOps /\ Effective(t) \in 0 .. NumOps
  BY NumOpsAssumption, CallsInRange
<1>5. j \in 0 .. NumOps - 1
  BY <1>4
<1>6. t = u /\ i = j
  BY <1>3, <1>5, UidIsUnique
<1>. QED
  BY <1>4, <1>6

\* While a thread has something to do, nothing has been sorted.
LEMMA NotSortedYet ==
  ASSUME RTypeOK, SortedFirst, NEW t \in Threads, phase[t] # "idle" \/ prog[t] # <<>>
  PROVE  evts = <<>> /\ DOMAIN evts = {}
<1>1. ~Joined
  BY DEF Joined
<1>2. evts = <<>>
  BY <1>1 DEF SortedFirst
<1>. QED
  BY <1>2

----------------------------------------------------------------------------
(* Each step keeps the invariant. *)

\* What CallAdd and CallRmv have in common.
Called(t, type, val) ==
  /\ ReadClock
  /\ phase[t] = "idle" /\ prog[t] # <<>>
  /\ phase' = [phase EXCEPT ![t] = IF type = "push" THEN "add" ELSE "rmv"]
  /\ prog' = [prog EXCEPT ![t] = Tail(@)]
  /\ slots' = With(slots, Slot(t, Calls(t)), Event(type, Uid(t, Calls(t)), val, clock'))
  /\ UNCHANGED <<evts, effect>>

\* A call counts as made, not as taken effect.
LEMMA CalledCounts ==
  ASSUME RTypeOK, NEW t \in Threads, NEW type \in {"push", "pop"}, NEW val, Called(t, type, val)
  PROVE  /\ Calls(t) \in 0 .. NumOps - 1
         /\ Calls(t)' = Calls(t) + 1
         /\ \A u \in Threads \ {t} : Calls(u)' = Calls(u)
         /\ \A u \in Threads : Effective(u)' = Effective(u)
         /\ Effective(t) = Calls(t)
<1>1. NumOps \in Nat /\ prog[t] \in Seq({1, -1}) /\ prog[t] # <<>>
  BY NumOpsAssumption DEF RTypeOK, ClientTypeOK, Called
<1>2. Len(prog[t]) \in Nat \ {0} /\ Len(Tail(prog[t])) = Len(prog[t]) - 1
  BY <1>1
<1>3. Calls(t) \in 0 .. NumOps
  BY CallsInRange
<1>4. /\ DOMAIN prog = Threads /\ DOMAIN phase = Threads
      /\ prog' = [prog EXCEPT ![t] = Tail(@)]
      /\ phase' = [phase EXCEPT ![t] = IF type = "push" THEN "add" ELSE "rmv"]
      /\ phase[t] = "idle"
  BY DEF RTypeOK, ClientTypeOK, Called
<1>5. Calls(t) \in 0 .. NumOps - 1 /\ Calls(t)' = Calls(t) + 1
  BY <1>1, <1>2, <1>3, <1>4 DEF Calls
<1>6. \A u \in Threads \ {t} : Calls(u)' = Calls(u)
  BY <1>4 DEF Calls
<1>7. Effective(t) = Calls(t) /\ Effective(t)' = Calls(t)' - 1
  BY <1>4 DEF Effective
<1>8. \A u \in Threads \ {t} : Effective(u)' = Effective(u)
  BY <1>4, <1>6 DEF Effective
<1>. QED
  BY <1>1, <1>5, <1>6, <1>7, <1>8

\* CallAdd and CallRmv keep the invariant.
LEMMA CalledKeeps ==
  ASSUME RInv, NEW t \in Threads, NEW type \in {"push", "pop"}, NEW val, Called(t, type, val)
  PROVE  EffectsKnown' /\ StampsEnclose' /\ SortedFirst' /\ LogKeepsOrder'
<1>1. RTypeOK /\ EffectsKnown /\ StampsEnclose /\ SortedFirst
  BY DEF RInv
<1>2. ReadClock /\ effect' = effect /\ evts' = evts /\ prog[t] # <<>>
  BY DEF Called
<1>3. /\ clock \in Nat /\ clock' \in Nat /\ clock <= clock'
      /\ ~tied' => ~tied
  BY <1>1, <1>2, ClockAdvances
<1>4. evts = <<>> /\ DOMAIN evts = {}
  BY <1>1, <1>2, NotSortedYet
<1>5. /\ Calls(t) \in 0 .. NumOps - 1
      /\ Calls(t)' = Calls(t) + 1
      /\ \A u \in Threads \ {t} : Calls(u)' = Calls(u)
      /\ \A u \in Threads : Effective(u)' = Effective(u)
      /\ Effective(t) = Calls(t)
  BY <1>1, CalledCounts
<1>6. EffectsKnown'
  <2>1. \A u \in Threads : \A i \in 0 .. Effective(u)' - 1 : Uid(u, i) \in DOMAIN effect'
    BY <1>1, <1>2, <1>5 DEF EffectsKnown
  <2>2. ASSUME NEW u \in DOMAIN effect
        PROVE  /\ effect[u] \in Nat /\ effect[u] <= clock'
               /\ \E w \in Threads : \E i \in 0 .. Effective(w)' - 1 : u = Uid(w, i)
    <3>1. /\ effect[u] \in Nat /\ effect[u] <= clock
          /\ \E w \in Threads : \E i \in 0 .. Effective(w) - 1 : u = Uid(w, i)
      BY <1>1 DEF EffectsKnown
    <3>. QED
      BY <3>1, <1>3, <1>5
  <2>. QED
    BY <2>1, <2>2, <1>2 DEF EffectsKnown, Uid
<1>7. StampsEnclose'
  <2>. DEFINE new == Slot(t, Calls(t))
              e == Event(type, Uid(t, Calls(t)), val, clock')
  <2>1. slots' = With(slots, new, e)
    BY DEF Called
  <2>2. /\ DOMAIN slots' = DOMAIN slots \cup {new}
        /\ slots'[new] = e
        /\ \A k \in DOMAIN slots : k # new => slots'[k] = slots[k]
    <3>. HIDE DEF new, e
    <3>. QED
      BY <2>1 DEF With
  <2>3. e.type = type /\ e.thread = Uid(t, Calls(t)) /\ e.ts = clock'
    BY DEF Event
  <2>4. Uid(t, Calls(t)) \notin DOMAIN effect
    <3>1. Calls(t) >= Effective(t)
      BY <1>5
    <3>. QED
      BY <1>1, <1>5, <3>1, NotYetEffective
  <2>5. /\ e.ts <= clock'
        /\ \E u \in Threads : \E i \in 0 .. Calls(u)' - 1 : e.thread = Uid(u, i)
        /\ e.type # "return"
        /\ e.thread \notin DOMAIN effect
    BY <1>3, <1>5, <2>3, <2>4
  <2>6. ASSUME NEW k \in DOMAIN slots
        PROVE  /\ slots[k].ts <= clock'
               /\ \E u \in Threads : \E i \in 0 .. Calls(u)' - 1 : slots[k].thread = Uid(u, i)
               /\ slots[k].type = "return" =>
                    /\ slots[k].thread \in DOMAIN effect
                    /\ ~tied' => effect[slots[k].thread] < slots[k].ts
               /\ (slots[k].type # "return" /\ slots[k].thread \in DOMAIN effect) =>
                    slots[k].ts <= effect[slots[k].thread]
    <3>1. slots[k].ts \in Nat /\ slots[k].ts <= clock
      BY <1>1 DEF RTypeOK, Recordings, StampsEnclose
    <3>2. PICK u \in Threads : \E i \in 0 .. Calls(u) - 1 : slots[k].thread = Uid(u, i)
      BY <1>1 DEF StampsEnclose
    <3>3. \E i \in 0 .. Calls(u)' - 1 : slots[k].thread = Uid(u, i)
      BY <1>5, <3>2
    <3>4. /\ slots[k].type = "return" =>
               /\ slots[k].thread \in DOMAIN effect
               /\ ~tied => effect[slots[k].thread] < slots[k].ts
          /\ (slots[k].type # "return" /\ slots[k].thread \in DOMAIN effect) =>
               slots[k].ts <= effect[slots[k].thread]
      BY <1>1 DEF StampsEnclose
    <3>. QED
      BY <1>3, <3>1, <3>3, <3>4
  <2>. HIDE DEF new, e
  <2>. QED
    BY <1>2, <2>2, <2>5, <2>6 DEF StampsEnclose, Uid
<1>8. SortedFirst' /\ LogKeepsOrder'
  BY <1>2, <1>4 DEF SortedFirst, LogKeepsOrder
<1>. QED
  BY <1>6, <1>7, <1>8

\* TakeEffect keeps the invariant: the new effect is of an operation that had none.
LEMMA TakeEffectKeeps ==
  ASSUME RInv, NEW t \in Threads, TakeEffect(t)
  PROVE  EffectsKnown' /\ StampsEnclose' /\ SortedFirst' /\ LogKeepsOrder'
<1>. DEFINE uid == Uid(t, Calls(t) - 1)
<1>1. RTypeOK /\ EffectsKnown /\ StampsEnclose /\ SortedFirst
  BY DEF RInv
<1>2. /\ phase[t] \in {"add", "rmv"}
      /\ phase' = [phase EXCEPT ![t] = "done"]
      /\ DOMAIN phase = Threads
      /\ effect' = With(effect, uid, clock)
      /\ prog' = prog /\ clock' = clock /\ slots' = slots /\ evts' = evts /\ tied' = tied
  BY <1>1 DEF TakeEffect, Object!Add, Object!Rmv, Object!RmvEmpty, clientVars, RTypeOK
<1>3. evts = <<>> /\ DOMAIN evts = {}
  BY <1>1, <1>2, NotSortedYet
<1>4. /\ Calls(t) \in Int /\ Calls(t) - 1 \in 0 .. NumOps - 1
      /\ Effective(t) = Calls(t) - 1
  <2>1. NumOps \in Nat /\ Calls(t) \in 0 .. NumOps /\ Calls(t) >= 1
    BY <1>1, <1>2, CallsInRange, NumOpsAssumption DEF RTypeOK
  <2>. QED
    BY <2>1, <1>2 DEF Effective
<1>5. \A u \in Threads : Calls(u)' = Calls(u)
  BY <1>2 DEF Calls
<1>6. /\ Effective(t)' = Effective(t) + 1
      /\ \A u \in Threads \ {t} : Effective(u)' = Effective(u)
  BY <1>2, <1>4, <1>5 DEF Effective
<1>7. uid \notin DOMAIN effect
  BY <1>1, <1>4, NotYetEffective
<1>8. /\ DOMAIN effect' = DOMAIN effect \cup {uid}
      /\ effect'[uid] = clock
      /\ \A u \in DOMAIN effect : effect'[u] = effect[u]
  <2>. HIDE DEF uid
  <2>. QED
    BY <1>2, <1>7 DEF With
<1>9. EffectsKnown'
  <2>1. ASSUME NEW u \in Threads, NEW i \in 0 .. Effective(u)' - 1
        PROVE  Uid(u, i) \in DOMAIN effect'
    <3>1. Effective(u) \in Nat /\ Effective(t) \in Nat
      BY <1>1, CallsInRange, NumOpsAssumption
    <3>2. CASE u = t /\ i = Calls(t) - 1
      BY <3>2, <1>8
    <3>3. CASE ~(u = t /\ i = Calls(t) - 1)
      <4>1. i \in 0 .. Effective(u) - 1
        BY <3>1, <3>3, <1>4, <1>6
      <4>. QED
        BY <4>1, <1>1, <1>8 DEF EffectsKnown
    <3>. QED
      BY <3>2, <3>3
  <2>2. ASSUME NEW u \in DOMAIN effect
        PROVE  /\ effect'[u] \in Nat /\ effect'[u] <= clock
               /\ \E w \in Threads : \E i \in 0 .. Effective(w)' - 1 : u = Uid(w, i)
    <3>1. PICK w \in Threads : \E i \in 0 .. Effective(w) - 1 : u = Uid(w, i)
      BY <1>1 DEF EffectsKnown
    <3>2. Effective(w) \in Nat
      BY <1>1, CallsInRange, NumOpsAssumption
    <3>3. Effective(w)' \in {Effective(w), Effective(w) + 1}
      BY <1>6
    <3>4. \E i \in 0 .. Effective(w)' - 1 : u = Uid(w, i)
      BY <3>1, <3>2, <3>3
    <3>5. effect[u] \in Nat /\ effect[u] <= clock
      BY <1>1 DEF EffectsKnown
    <3>. QED
      BY <3>4, <3>5, <1>8
  <2>3. /\ clock \in Nat /\ clock <= clock
        /\ \E w \in Threads : \E i \in 0 .. Effective(w)' - 1 : uid = Uid(w, i)
    <3>1. clock \in Nat
      BY <1>1 DEF RTypeOK
    <3>2. Calls(t) - 1 \in 0 .. Effective(t)' - 1
      BY <1>4, <1>6
    <3>. QED
      BY <3>1, <3>2
  <2>. HIDE DEF uid
  <2>. QED
    BY <2>1, <2>2, <2>3, <1>2, <1>8 DEF EffectsKnown, Uid
<1>10. StampsEnclose'
  <2>1. ASSUME NEW k \in DOMAIN slots
        PROVE  /\ slots[k].ts <= clock
               /\ \E u \in Threads : \E i \in 0 .. Calls(u)' - 1 : slots[k].thread = Uid(u, i)
               /\ slots[k].type = "return" =>
                    /\ slots[k].thread \in DOMAIN effect'
                    /\ ~tied => effect'[slots[k].thread] < slots[k].ts
               /\ (slots[k].type # "return" /\ slots[k].thread \in DOMAIN effect') =>
                    slots[k].ts <= effect'[slots[k].thread]
    <3>. HIDE DEF uid
    <3>. QED
      BY <1>1, <1>5, <1>8 DEF StampsEnclose
  <2>. QED
    BY <2>1, <1>2 DEF StampsEnclose, Uid
<1>11. SortedFirst' /\ LogKeepsOrder'
  BY <1>2, <1>3 DEF SortedFirst, LogKeepsOrder
<1>. QED
  BY <1>9, <1>10, <1>11

\* Return keeps the invariant: its stamp is after the effect.
LEMMA ReturnKeeps ==
  ASSUME RInv, NEW t \in Threads, Return(t)
  PROVE  EffectsKnown' /\ StampsEnclose' /\ SortedFirst' /\ LogKeepsOrder'
<1>. DEFINE new == Slot(t, Calls(t) - 1) + 1
            e == Event("return", Uid(t, Calls(t) - 1), res[t], clock')
<1>1. RTypeOK /\ EffectsKnown /\ StampsEnclose /\ SortedFirst
  BY DEF RInv
<1>2. /\ ReadClock
      /\ phase[t] = "done"
      /\ phase' = [phase EXCEPT ![t] = "idle"]
      /\ DOMAIN phase = Threads
      /\ slots' = With(slots, new, e)
      /\ prog' = prog /\ evts' = evts /\ effect' = effect
  BY <1>1 DEF Return, Object!Return, clientVars, RTypeOK
<1>3. /\ clock \in Nat /\ clock' \in Nat /\ clock <= clock'
      /\ ~tied' => ~tied /\ clock < clock'
  BY <1>1, <1>2, ClockAdvances
<1>4. evts = <<>> /\ DOMAIN evts = {}
  BY <1>1, <1>2, NotSortedYet
<1>5. \A u \in Threads : Calls(u)' = Calls(u)
  BY <1>2 DEF Calls
<1>6. \A u \in Threads : Effective(u)' = Effective(u)
  BY <1>2, <1>5 DEF Effective
<1>7. Calls(t) - 1 \in 0 .. Calls(t) - 1 /\ Effective(t) = Calls(t)
  <2>1. NumOps \in Nat /\ Calls(t) \in 0 .. NumOps /\ Calls(t) >= 1
    BY <1>1, <1>2, CallsInRange, NumOpsAssumption DEF RTypeOK
  <2>. QED
    BY <2>1, <1>2 DEF Effective
<1>8. /\ e.type = "return" /\ e.thread = Uid(t, Calls(t) - 1) /\ e.ts = clock'
      /\ e.thread \in DOMAIN effect
  BY <1>1, <1>7 DEF Event, EffectsKnown
<1>9. effect[e.thread] \in Nat /\ effect[e.thread] <= clock
  BY <1>1, <1>8 DEF EffectsKnown
<1>10. EffectsKnown'
  <2>1. ASSUME NEW u \in DOMAIN effect
        PROVE  effect[u] \in Nat /\ effect[u] <= clock'
    <3>1. effect[u] \in Nat /\ effect[u] <= clock
      BY <1>1 DEF EffectsKnown
    <3>. QED
      BY <3>1, <1>3
  <2>. HIDE DEF new, e
  <2>. QED
    BY <2>1, <1>1, <1>2, <1>6 DEF EffectsKnown, Uid
<1>11. /\ DOMAIN slots' = DOMAIN slots \cup {new}
       /\ slots'[new] = e
       /\ \A k \in DOMAIN slots : k # new => slots'[k] = slots[k]
  <2>. HIDE DEF new, e
  <2>. QED
    BY <1>2 DEF With
<1>12. StampsEnclose'
  <2>1. /\ e.ts <= clock'
        /\ \E u \in Threads : \E i \in 0 .. Calls(u)' - 1 : e.thread = Uid(u, i)
        /\ ~tied' => effect[e.thread] < e.ts
    <3>1. /\ e.ts <= clock'
          /\ \E u \in Threads : \E i \in 0 .. Calls(u)' - 1 : e.thread = Uid(u, i)
      BY <1>3, <1>5, <1>7, <1>8
    <3>2. ~tied' => effect[e.thread] < e.ts
      <4>. HIDE DEF e
      <4>. QED
        BY <1>3, <1>8, <1>9
    <3>. QED
      BY <3>1, <3>2
  <2>2. ASSUME NEW k \in DOMAIN slots
        PROVE  /\ slots[k].ts <= clock'
               /\ \E u \in Threads : \E i \in 0 .. Calls(u)' - 1 : slots[k].thread = Uid(u, i)
               /\ slots[k].type = "return" =>
                    /\ slots[k].thread \in DOMAIN effect
                    /\ ~tied' => effect[slots[k].thread] < slots[k].ts
               /\ (slots[k].type # "return" /\ slots[k].thread \in DOMAIN effect) =>
                    slots[k].ts <= effect[slots[k].thread]
    <3>1. slots[k].ts \in Nat /\ slots[k].ts <= clock
      BY <1>1 DEF RTypeOK, Recordings, StampsEnclose
    <3>. HIDE DEF new, e
    <3>. QED
      BY <3>1, <1>1, <1>3, <1>5 DEF StampsEnclose
  <2>. HIDE DEF new, e
  <2>. QED
    BY <1>2, <1>8, <1>11, <2>1, <2>2 DEF StampsEnclose, Uid
<1>13. SortedFirst' /\ LogKeepsOrder'
  BY <1>2, <1>4 DEF SortedFirst, LogKeepsOrder
<1>. QED
  BY <1>10, <1>12, <1>13

\* Sort keeps the invariant: the event it takes is the earliest that is left.
LEMMA SortKeeps ==
  ASSUME RInv, Sort
  PROVE  RInv'
<1>1. RTypeOK /\ EffectsKnown /\ StampsEnclose /\ SortedFirst /\ LogKeepsOrder
  BY DEF RInv
<1>2. PICK k \in DOMAIN slots :
        /\ \A j \in DOMAIN slots : slots[k].ts <= slots[j].ts
        /\ evts' = Append(evts, [slots[k] EXCEPT !.ts = Len(evts) + 1])
        /\ slots' = Without(slots, k)
  BY DEF Sort
<1>3. /\ Joined
      /\ UNCHANGED <<prog, added, stack, phase, arg, res, clock, effect, tied>>
  BY DEF Sort, clientVars, objectVars
<1>4. Joined' /\ \A t \in Threads : Calls(t)' = Calls(t) /\ Effective(t)' = Effective(t)
  BY <1>3 DEF Joined, Calls, Effective
<1>5. DOMAIN slots' = DOMAIN slots \ {k} /\ \A j \in DOMAIN slots' : slots'[j] = slots[j]
  BY <1>2 DEF Without
<1>6. slots[k] \in Recordings /\ evts \in Seq(Recordings)
  BY <1>1 DEF RTypeOK
<1>. DEFINE e == [slots[k] EXCEPT !.ts = Len(evts) + 1]
            n == Len(evts)
<1>7. e \in Recordings /\ e.type = slots[k].type /\ e.thread = slots[k].thread
  <2>1. Len(evts) + 1 \in Nat
    BY <1>6
  <2>. QED
    BY <2>1, <1>6 DEF Recordings
<1>8. /\ n \in Nat
      /\ DOMAIN evts = 1 .. n /\ DOMAIN evts' = 1 .. n + 1
      /\ evts' \in Seq(Recordings)
      /\ evts'[n + 1] = e
      /\ \A j \in 1 .. n : evts'[j] = evts[j]
  <2>1. evts' = Append(evts, e)
    BY <1>2
  <2>. HIDE DEF e
  <2>. QED
    BY <2>1, <1>6, <1>7
<1>. HIDE DEF e, n
<1>9. RTypeOK'
  <2>1. ClientTypeOK'
    BY <1>1, <1>3 DEF RTypeOK, ClientTypeOK
  <2>. QED
    BY <2>1, <1>1, <1>3, <1>4, <1>5, <1>8 DEF RTypeOK
<1>10. EffectsKnown'
  BY <1>1, <1>3, <1>4 DEF EffectsKnown, Uid
<1>11. StampsEnclose'
  BY <1>1, <1>3, <1>4, <1>5 DEF StampsEnclose, Uid
<1>12. e.type = "return" =>
         /\ e.thread \in DOMAIN effect
         /\ ~tied => \A j \in DOMAIN slots' : effect[e.thread] < slots'[j].ts
  <2>1. SUFFICES ASSUME e.type = "return"
                 PROVE  /\ e.thread \in DOMAIN effect
                        /\ ~tied => \A j \in DOMAIN slots' : effect[e.thread] < slots'[j].ts
    OBVIOUS
  <2>2. /\ e.thread \in DOMAIN effect
        /\ ~tied => effect[e.thread] < slots[k].ts
    BY <1>1, <1>7, <2>1 DEF StampsEnclose
  <2>3. effect[e.thread] \in Nat
    BY <1>1, <2>2 DEF EffectsKnown
  <2>4. ASSUME ~tied, NEW j \in DOMAIN slots'
        PROVE  effect[e.thread] < slots'[j].ts
    <3>1. slots'[j] = slots[j] /\ slots[j].ts \in Nat /\ slots[k].ts \in Nat
      BY <1>1, <1>5 DEF RTypeOK, Recordings
    <3>2. slots[k].ts <= slots[j].ts
      BY <1>2, <1>5
    <3>. QED
      BY <2>2, <2>3, <2>4, <3>1, <3>2
  <2>. QED
    BY <2>2, <2>4
<1>13. SortedFirst'
  <2>1. ASSUME NEW j \in 1 .. n, evts[j].type = "return"
        PROVE  /\ evts[j].thread \in DOMAIN effect
               /\ ~tied => \A i \in DOMAIN slots' : effect[evts[j].thread] < slots'[i].ts
    BY <1>1, <1>5, <1>8, <2>1 DEF SortedFirst
  <2>2. \A j \in 1 .. n + 1 : j \in 1 .. n \/ j = n + 1
    BY <1>8
  <2>. QED
    BY <1>3, <1>4, <1>8, <1>12, <2>1, <2>2 DEF SortedFirst
<1>14. LogKeepsOrder'
  <2>1. SUFFICES ASSUME ~tied, NEW i \in 1 .. n + 1, NEW j \in 1 .. n + 1,
                        i < j, evts'[i].type = "return", evts'[j].type # "return"
                 PROVE  effect[evts'[i].thread] < effect[evts'[j].thread]
    BY <1>3, <1>8 DEF LogKeepsOrder
  <2>2. i \in 1 .. n /\ evts'[i] = evts[i]
    BY <1>8, <2>1
  <2>3. CASE j \in 1 .. n
    BY <1>1, <1>8, <2>1, <2>2, <2>3 DEF LogKeepsOrder
  <2>4. CASE j = n + 1
    <3>1. effect[evts[i].thread] < slots[k].ts /\ evts[i].thread \in DOMAIN effect
      BY <1>1, <1>2, <1>8, <2>1, <2>2 DEF SortedFirst
    <3>2. e.thread \in DOMAIN effect
      <4>1. PICK t \in Threads : \E x \in 0 .. Calls(t) - 1 : slots[k].thread = Uid(t, x)
        BY <1>1 DEF StampsEnclose
      <4>2. Effective(t) = Calls(t)
        BY <1>3 DEF Joined, Effective
      <4>. QED
        BY <1>1, <1>7, <4>1, <4>2 DEF EffectsKnown
    <3>3. slots[k].ts <= effect[e.thread]
      BY <1>1, <1>7, <1>8, <2>1, <2>4, <3>2 DEF StampsEnclose
    <3>4. /\ effect[evts[i].thread] \in Nat /\ slots[k].ts \in Nat
          /\ effect[e.thread] \in Nat
      BY <1>1, <1>6, <3>1, <3>2 DEF EffectsKnown, Recordings
    <3>. QED
      BY <1>8, <2>2, <2>4, <3>1, <3>3, <3>4
  <2>. QED
    BY <1>8, <2>3, <2>4
<1>. QED
  BY <1>9, <1>10, <1>11, <1>13, <1>14 DEF RInv

\* The index of the value of an add is in range.
LEMMA NextValueIsValue ==
  ASSUME RTypeOK, NEW t \in Threads, prog[t] # <<>>
  PROVE  NextValue(t) \in Values
<1>1. /\ NumOps \in Nat /\ prog[t] \in Seq({1, -1}) /\ added[t] \in Nat
      /\ added[t] + Len(prog[t]) <= NumOps
  BY NumOpsAssumption DEF RTypeOK, ClientTypeOK
<1>2. Len(prog[t]) \in Nat \ {0}
  BY <1>1
<1>3. added[t] \in 0 .. NumOps - 1
  BY <1>1, <1>2
<1>. QED
  BY <1>3 DEF NextValue, Values

\* A recorded event has its type, and so have the slots with it.
LEMMA RecordingKeepsType ==
  ASSUME RTypeOK, NEW k, NEW type \in {"push", "pop", "return"}, NEW t \in Threads,
         NEW i \in Int, NEW val \in Values \cup {NoVal}, clock' \in Nat,
         slots' = With(slots, k, Event(type, Uid(t, i), val, clock'))
  PROVE  \A j \in DOMAIN slots' : slots'[j] \in Recordings
<1>. DEFINE e == Event(type, Uid(t, i), val, clock')
<1>1. e \in Recordings
  BY UidIsInt DEF Event, Recordings
<1>2. \A j \in DOMAIN slots : slots[j] \in Recordings
  BY DEF RTypeOK
<1>. HIDE DEF e
<1>. QED
  BY <1>1, <1>2 DEF With, e

\* CallAdd and CallRmv keep the types, and are what Called says.
LEMMA CallsAreTyped ==
  ASSUME RTypeOK, NEW t \in Threads, CallAdd(t) \/ CallRmv(t)
  PROVE  RTypeOK' /\ \E type \in {"push", "pop"} : \E val : Called(t, type, val)
<1>1. ReadClock /\ phase[t] = "idle" /\ prog[t] # <<>> /\ UNCHANGED <<stack, res, evts, effect>>
  BY DEF CallAdd, CallRmv, Object!CallAdd, Object!CallRmv, ClientAdd, ClientRmv
<1>2. clock \in Nat /\ clock' \in Nat /\ tied' \in BOOLEAN
  BY <1>1, ClockAdvances
<1>3. /\ prog' = [prog EXCEPT ![t] = Tail(@)]
      /\ added' = added \/ added' = [added EXCEPT ![t] = @ + 1]
  BY DEF CallAdd, CallRmv, ClientAdd, ClientRmv
<1>4. NextValue(t) \in Values
  BY <1>1, NextValueIsValue
<1>5. Calls(t) \in 0 .. NumOps
  BY CallsInRange
<1>6. PICK type \in {"push", "pop"}, val \in Values \cup {NoVal} :
        /\ slots' = With(slots, Slot(t, Calls(t)), Event(type, Uid(t, Calls(t)), val, clock'))
        /\ phase' = [phase EXCEPT ![t] = IF type = "push" THEN "add" ELSE "rmv"]
        /\ IF type = "push" THEN arg' = [arg EXCEPT ![t] = NextValue(t)] ELSE arg' = arg
  <2>1. CASE CallAdd(t)
    BY <2>1, <1>4 DEF CallAdd, Object!CallAdd
  <2>2. CASE CallRmv(t)
    BY <2>2 DEF CallRmv, Object!CallRmv
  <2>. QED
    BY <2>1, <2>2
<1>7. Called(t, type, val)
  BY <1>1, <1>3, <1>6 DEF Called
<1>8. /\ Calls(t)' = Calls(t) + 1
      /\ \A u \in Threads \ {t} : Calls(u)' = Calls(u)
  BY <1>7, CalledCounts
<1>9. ClientTypeOK'
  <2>1. /\ prog \in [Threads -> Seq({1, -1})] /\ added \in [Threads -> Nat]
        /\ \A u \in Threads : added[u] + Len(prog[u]) <= NumOps
    BY DEF RTypeOK, ClientTypeOK
  <2>2. Tail(prog[t]) \in Seq({1, -1}) /\ Len(Tail(prog[t])) = Len(prog[t]) - 1 /\ Len(prog[t]) \in Nat
    BY <1>1, <2>1
  <2>3. prog' \in [Threads -> Seq({1, -1})] /\ added' \in [Threads -> Nat]
    <3>1. prog' \in [Threads -> Seq({1, -1})]
      BY <1>3, <2>1, <2>2
    <3>2. added' \in [Threads -> Nat]
      <4>1. added[t] + 1 \in Nat
        BY <2>1
      <4>2. CASE added' = added
        BY <4>2, <2>1
      <4>3. CASE added' = [added EXCEPT ![t] = @ + 1]
        BY <4>1, <4>3, <2>1
      <4>. QED
        BY <1>3, <4>2, <4>3
    <3>. QED
      BY <3>1, <3>2
  <2>4. ASSUME NEW u \in Threads
        PROVE  added'[u] + Len(prog'[u]) <= NumOps
    <3>1. NumOps \in Nat /\ added[u] \in Nat /\ added[u] + Len(prog[u]) <= NumOps
      BY NumOpsAssumption, <2>1
    <3>2. CASE u = t
      <4>1. added'[t] = added[t] \/ added'[t] = added[t] + 1
        BY <1>3, <2>1
      <4>2. Len(prog'[t]) = Len(prog[t]) - 1 /\ Len(prog[t]) \in Nat
        BY <1>3, <2>1, <2>2
      <4>3. added[t] \in Nat /\ added[t] + Len(prog[t]) <= NumOps
        BY <3>1, <3>2
      <4>4. added'[t] + Len(prog'[t]) <= NumOps
        <5>. HIDE <3>2
        <5>. QED
          BY <3>1, <4>1, <4>2, <4>3
      <4>. QED
        BY <3>2, <4>4
    <3>3. CASE u # t
      BY <1>3, <2>1, <3>1, <3>3
    <3>. QED
      BY <3>2, <3>3
  <2>. QED
    BY <2>3, <2>4 DEF ClientTypeOK
<1>10. /\ phase' \in [Threads -> {"idle", "add", "rmv", "done"}]
       /\ arg' \in [Threads -> Values \cup {NoVal}]
       /\ \A u \in Threads : /\ phase'[u] = "add" => arg'[u] \in Values
                             /\ phase'[u] # "idle" => Calls(u)' >= 1
  <2>1. /\ phase \in [Threads -> {"idle", "add", "rmv", "done"}]
        /\ arg \in [Threads -> Values \cup {NoVal}]
        /\ \A u \in Threads : /\ phase[u] = "add" => arg[u] \in Values
                              /\ phase[u] # "idle" => Calls(u) >= 1
    BY DEF RTypeOK
  <2>2. Calls(t)' >= 1
    BY <1>5, <1>8
  <2>. QED
    BY <2>1, <2>2, <1>4, <1>6, <1>8
<1>11. \A j \in DOMAIN slots' : slots'[j] \in Recordings
  BY <1>2, <1>5, <1>6, RecordingKeepsType
<1>12. RTypeOK'
  BY <1>1, <1>2, <1>9, <1>10, <1>11 DEF RTypeOK
<1>. QED
  BY <1>7, <1>12

\* TakeEffect keeps the types.
LEMMA TakeEffectIsTyped ==
  ASSUME RTypeOK, NEW t \in Threads, TakeEffect(t)
  PROVE  RTypeOK'
<1>1. /\ phase[t] \in {"add", "rmv"}
      /\ phase' = [phase EXCEPT ![t] = "done"]
      /\ UNCHANGED <<prog, added, arg, clock, slots, evts, tied>>
  BY DEF TakeEffect, Object!Add, Object!Rmv, Object!RmvEmpty, clientVars
<1>2. /\ stack \in Seq(Values) /\ res \in [Threads -> Values \cup {NoVal}]
      /\ phase[t] = "add" => arg[t] \in Values
  BY DEF RTypeOK
<1>3. stack' \in Seq(Values) /\ res' \in [Threads -> Values \cup {NoVal}]
  <2>1. CASE Object!Add(t)
    <3>1. arg[t] \in Values /\ stack' = <<arg[t]>> \o stack /\ res' = res
      BY <2>1, <1>2 DEF Object!Add
    <3>2. <<arg[t]>> \in Seq(Values)
      BY <3>1
    <3>. QED
      BY <3>1, <3>2, <1>2
  <2>2. CASE Object!Rmv(t)
    BY <2>2, <1>2 DEF Object!Rmv
  <2>3. CASE Object!RmvEmpty(t)
    BY <2>3, <1>2 DEF Object!RmvEmpty
  <2>. QED
    BY <2>1, <2>2, <2>3 DEF TakeEffect
<1>4. \A u \in Threads : Calls(u)' = Calls(u)
  BY <1>1 DEF Calls
<1>5. ClientTypeOK'
  BY <1>1 DEF RTypeOK, ClientTypeOK
<1>. QED
  BY <1>1, <1>3, <1>4, <1>5 DEF RTypeOK

\* Return keeps the types.
LEMMA ReturnIsTyped ==
  ASSUME RTypeOK, NEW t \in Threads, Return(t)
  PROVE  RTypeOK'
<1>1. /\ ReadClock
      /\ phase' = [phase EXCEPT ![t] = "idle"]
      /\ arg' = [arg EXCEPT ![t] = NoVal] /\ res' = [res EXCEPT ![t] = NoVal]
      /\ slots' = With(slots, Slot(t, Calls(t) - 1) + 1,
                       Event("return", Uid(t, Calls(t) - 1), res[t], clock'))
      /\ UNCHANGED <<prog, added, stack, evts>>
  BY DEF Return, Object!Return, clientVars
<1>2. clock' \in Nat /\ tied' \in BOOLEAN
  BY <1>1, ClockAdvances
<1>3. Calls(t) - 1 \in Int /\ res[t] \in Values \cup {NoVal}
  BY CallsInRange, NumOpsAssumption DEF RTypeOK
<1>4. \A j \in DOMAIN slots' : slots'[j] \in Recordings
  BY <1>1, <1>2, <1>3, RecordingKeepsType
<1>5. \A u \in Threads : Calls(u)' = Calls(u)
  BY <1>1 DEF Calls
<1>6. ClientTypeOK'
  BY <1>1 DEF RTypeOK, ClientTypeOK
<1>. QED
  BY <1>1, <1>2, <1>4, <1>5, <1>6 DEF RTypeOK

\* The invariant holds before the threads start.
LEMMA RInitHolds == RecorderInit => RInv
<1>. SUFFICES ASSUME RecorderInit
              PROVE  RInv
  OBVIOUS
<1>1. /\ prog \in Programs /\ added = [t \in Threads |-> 0]
      /\ stack = <<>> /\ phase = [t \in Threads |-> "idle"]
      /\ arg = [t \in Threads |-> NoVal] /\ res = [t \in Threads |-> NoVal]
      /\ clock = 0 /\ evts = <<>> /\ tied = FALSE
      /\ DOMAIN slots = {} /\ DOMAIN effect = {}
  BY DEF RecorderInit, ClientInit, Object!Init, EmptyMap
<1>2. /\ prog \in [Threads -> Seq({1, -1})]
      /\ \A t \in Threads : Len(prog[t]) = NumOps
  BY <1>1, ProgramsAssumption, EqualListsAssumption
<1>3. NumOps \in Nat
  BY NumOpsAssumption
<1>4. ClientTypeOK
  <2>1. added \in [Threads -> Nat] /\ \A t \in Threads : added[t] = 0
    BY <1>1
  <2>. QED
    BY <2>1, <1>2, <1>3 DEF ClientTypeOK
<1>5. RTypeOK
  <2>1. stack \in Seq(Values) /\ evts \in Seq(Recordings)
    BY <1>1
  <2>2. clock \in Nat /\ tied \in BOOLEAN
    BY <1>1
  <2>3. phase \in [Threads -> {"idle", "add", "rmv", "done"}]
        /\ \A t \in Threads : phase[t] = "idle"
    BY <1>1
  <2>4. /\ arg \in [Threads -> Values \cup {NoVal}]
        /\ res \in [Threads -> Values \cup {NoVal}]
    BY <1>1
  <2>. QED
    BY <2>1, <2>2, <2>3, <2>4, <1>1, <1>4 DEF RTypeOK
<1>6. EffectsKnown
  <2>1. \A t \in Threads : Effective(t) = 0
    <3>1. \A t \in Threads : added[t] = 0 /\ phase[t] = "idle"
      BY <1>1
    <3>. QED
      BY <3>1, <1>2, <1>3 DEF Effective, Calls
  <2>. QED
    BY <2>1, <1>1 DEF EffectsKnown
<1>7. DOMAIN evts = {}
  BY <1>1
<1>8. SortedFirst /\ LogKeepsOrder /\ StampsEnclose
  BY <1>1, <1>7 DEF SortedFirst, LogKeepsOrder, StampsEnclose
<1>. QED
  BY <1>5, <1>6, <1>8 DEF RInv

\* Every step keeps the invariant.
LEMMA RStepKeeps == RInv /\ [RecorderNext]_recorderVars => RInv'
<1>. SUFFICES ASSUME RInv, [RecorderNext]_recorderVars
              PROVE  RInv'
  OBVIOUS
<1>1. RTypeOK
  BY DEF RInv
<1>2. ASSUME NEW t \in Threads, CallAdd(t) \/ CallRmv(t)
      PROVE  RInv'
  <2>1. RTypeOK' /\ \E type \in {"push", "pop"} : \E val : Called(t, type, val)
    BY <1>1, <1>2, CallsAreTyped
  <2>2. EffectsKnown' /\ StampsEnclose' /\ SortedFirst' /\ LogKeepsOrder'
    BY <2>1, CalledKeeps
  <2>. QED
    BY <2>1, <2>2 DEF RInv
<1>3. ASSUME NEW t \in Threads, TakeEffect(t)
      PROVE  RInv'
  BY <1>1, <1>3, TakeEffectIsTyped, TakeEffectKeeps DEF RInv
<1>4. ASSUME NEW t \in Threads, Return(t)
      PROVE  RInv'
  BY <1>1, <1>4, ReturnIsTyped, ReturnKeeps DEF RInv
<1>5. CASE Sort
  BY <1>5, SortKeeps
<1>6. CASE UNCHANGED recorderVars
  <2>1. UNCHANGED <<prog, added, stack, phase, arg, res, clock, slots, evts, effect, tied>>
    BY <1>6 DEF recorderVars, clientVars, objectVars
  <2>2. Joined' = Joined /\ \A t \in Threads : Calls(t)' = Calls(t) /\ Effective(t)' = Effective(t)
    BY <2>1 DEF Joined, Calls, Effective
  <2>3. ClientTypeOK'
    BY <1>1, <2>1 DEF RTypeOK, ClientTypeOK
  <2>4. RTypeOK'
    BY <1>1, <2>1, <2>2, <2>3 DEF RTypeOK
  <2>5. EffectsKnown' /\ StampsEnclose' /\ SortedFirst' /\ LogKeepsOrder'
    BY <2>1, <2>2 DEF RInv, EffectsKnown, StampsEnclose, SortedFirst, LogKeepsOrder, Uid
  <2>. QED
    BY <2>4, <2>5 DEF RInv
<1>. QED
  BY <1>2, <1>3, <1>4, <1>5, <1>6 DEF RecorderNext

\* However many threads and operations there are and however the clock
\* advances: in the log that main() sorts, an operation that returns before
\* another is called took effect before it, if no two readings are equal.
THEOREM LogOrder == RecorderSpec => []LogKeepsOrder
<1>1. RInv => LogKeepsOrder
  BY DEF RInv
<1>. QED
  BY <1>1, RInitHolds, RStepKeeps, PTL DEF RecorderSpec

----------------------------------------------------------------------------
(* The log is complete.                                                    *)
(*                                                                         *)
(* Each operation has two slots, one for its call (b = 0) and one for its  *)
(* return (b = 1); no two of all these slots are the same.                 *)

Operations == Threads \X (0 .. NumOps - 1)

SlotOf(o) == Slot(o[1][1], o[1][2]) + o[2]

AllSlots == {SlotOf(o) : o \in Operations \X {0, 1}}

\* e is what is recorded in that slot.
IsOf(e, t, i, b) == e.thread = Uid(t, i) /\ (e.type = "return" <=> b = 1)

Returned(t) == IF phase[t] = "idle" THEN Calls(t) ELSE Calls(t) - 1

\* The call, or the return, has been made.
Due(t, i, b) == IF b = 0 THEN i < Calls(t) ELSE i < Returned(t)

SlotsInPlace ==
  \A k \in DOMAIN slots :
    \E t \in Threads, i \in 0 .. NumOps - 1, b \in {0, 1} :
      k = Slot(t, i) + b /\ IsOf(slots[k], t, i, b)

NoneLost ==
  \A t \in Threads, i \in 0 .. NumOps - 1, b \in {0, 1} :
    Due(t, i, b) =>
      \/ Slot(t, i) + b \in DOMAIN slots
      \/ \E k \in DOMAIN evts : IsOf(evts[k], t, i, b)

EventsCounted ==
  evts # <<>> =>
    Len(evts) + Cardinality(DOMAIN slots) = 2 * NumOps * Cardinality(Threads)

LInv == SlotsInPlace /\ NoneLost /\ EventsCounted

\* The slot of a call is twice the identifier of the operation.
LEMMA SlotIsTwiceUid ==
  ASSUME NEW t \in Threads, NEW i \in 0 .. NumOps - 1
  PROVE  Uid(t, i) \in Int /\ Slot(t, i) = 2 * Uid(t, i)
<1>1. t \in Nat /\ NumOps \in Nat /\ i \in Int
  BY ThreadsAssumption, NumOpsAssumption
<1>2. Uid(t, i) \in Int
  BY <1>1, UidIsInt
<1>3. 2 * t * NumOps = 2 * (NumOps * t) /\ NumOps * t \in Int
  BY <1>1
<1>. QED
  BY <1>1, <1>2, <1>3 DEF Slot, Uid

\* thread_fn writes 2 * (tid * num_ops + i) and the slot after it: no slot
\* serves two events.
THEOREM SlotIsUnique ==
  ASSUME NEW t \in Threads, NEW u \in Threads,
         NEW i \in 0 .. NumOps - 1, NEW j \in 0 .. NumOps - 1,
         NEW b \in {0, 1}, NEW c \in {0, 1},
         Slot(t, i) + b = Slot(u, j) + c
  PROVE  t = u /\ i = j /\ b = c
<1>1. /\ Uid(t, i) \in Int /\ Slot(t, i) = 2 * Uid(t, i)
      /\ Uid(u, j) \in Int /\ Slot(u, j) = 2 * Uid(u, j)
  BY SlotIsTwiceUid
<1>2. 2 * Uid(t, i) + b = 2 * Uid(u, j) + c
  BY <1>1
<1>3. Uid(t, i) = Uid(u, j) /\ b = c
  <2>1. \A m, n \in Int : 2 * m # 2 * n + 1 /\ (2 * m = 2 * n => m = n) /\ (2 * m + 1 = 2 * n + 1 => m = n)
    OBVIOUS
  <2>. DEFINE m == Uid(t, i)
              n == Uid(u, j)
  <2>2. m \in Int /\ n \in Int /\ 2 * m + b = 2 * n + c
    BY <1>1, <1>2
  <2>. HIDE DEF m, n
  <2>3. m = n /\ b = c
    BY <2>1, <2>2
  <2>. QED
    BY <2>3 DEF m, n
<1>. QED
  BY <1>3, UidIsUnique

\* There are two slots for each operation of each thread.
LEMMA SlotsCounted ==
  /\ IsFiniteSet(AllSlots)
  /\ Cardinality(AllSlots) = 2 * NumOps * Cardinality(Threads)
<1>. DEFINE S == Operations \X {0, 1}
            f == [o \in S |-> SlotOf(o)]
<1>1. NumOps \in Nat /\ IsFiniteSet(Threads) /\ Cardinality(Threads) \in Nat
  BY NumOpsAssumption, ThreadsAssumption, FS_CardinalityType
<1>2. IsFiniteSet(0 .. NumOps - 1) /\ Cardinality(0 .. NumOps - 1) = NumOps
  <2>1. 0 \in Int /\ NumOps - 1 \in Int /\ NumOps \in Int
    BY <1>1
  <2>2. /\ IsFiniteSet(0 .. NumOps - 1)
        /\ Cardinality(0 .. NumOps - 1) = IF 0 > NumOps - 1 THEN 0 ELSE NumOps - 1 - 0 + 1
    BY <2>1, FS_Interval
  <2>. QED
    BY <1>1, <2>2
<1>3. /\ IsFiniteSet(Operations)
      /\ Cardinality(Operations) = Cardinality(Threads) * NumOps
  BY <1>1, <1>2, FS_Product DEF Operations
<1>4. IsFiniteSet({0, 1}) /\ Cardinality({0, 1}) = 2
  <2>1. IsFiniteSet({0}) /\ Cardinality({0}) = 1
    BY FS_Singleton
  <2>2. {0, 1} = {0} \cup {1} /\ 1 \notin {0}
    OBVIOUS
  <2>. QED
    BY <2>1, <2>2, FS_AddElement
<1>5. IsFiniteSet(S) /\ Cardinality(S) = Cardinality(Operations) * 2
  BY <1>3, <1>4, FS_Product
<1>6. f \in Bijection(S, AllSlots)
  <2>1. f \in [S -> AllSlots] /\ \A k \in AllSlots : \E o \in S : f[o] = k
    BY DEF AllSlots
  <2>2. ASSUME NEW o \in S, NEW p \in S, f[o] = f[p]
        PROVE  o = p
    <3>1. /\ o[1][1] \in Threads /\ o[1][2] \in 0 .. NumOps - 1 /\ o[2] \in {0, 1}
          /\ p[1][1] \in Threads /\ p[1][2] \in 0 .. NumOps - 1 /\ p[2] \in {0, 1}
          /\ o = <<<<o[1][1], o[1][2]>>, o[2]>> /\ p = <<<<p[1][1], p[1][2]>>, p[2]>>
      BY DEF Operations
    <3>2. Slot(o[1][1], o[1][2]) + o[2] = Slot(p[1][1], p[1][2]) + p[2]
      BY <2>2 DEF SlotOf
    <3>3. o[1][1] = p[1][1] /\ o[1][2] = p[1][2] /\ o[2] = p[2]
      BY <3>1, <3>2, SlotIsUnique
    <3>. QED
      BY <3>1, <3>3
  <2>. HIDE DEF f, S
  <2>. QED
    BY <2>1, <2>2, Fun_IsBij
<1>7. IsFiniteSet(AllSlots) /\ Cardinality(AllSlots) = Cardinality(S)
  BY <1>5, <1>6, FS_Bijection DEF ExistsBijection
<1>. QED
  BY <1>1, <1>3, <1>5, <1>7

\* The slots in use are among them.
LEMMA SlotsInRange ==
  ASSUME SlotsInPlace
  PROVE  DOMAIN slots \subseteq AllSlots /\ IsFiniteSet(DOMAIN slots)
<1>1. ASSUME NEW k \in DOMAIN slots
      PROVE  k \in AllSlots
  <2>1. PICK t \in Threads, i \in 0 .. NumOps - 1, b \in {0, 1} : k = Slot(t, i) + b
    BY DEF SlotsInPlace
  <2>2. <<<<t, i>>, b>> \in Operations \X {0, 1} /\ SlotOf(<<<<t, i>>, b>>) = k
    BY <2>1 DEF Operations, SlotOf
  <2>. QED
    BY <2>2 DEF AllSlots
<1>. QED
  BY <1>1, SlotsCounted, FS_Subset

\* When the threads are joined and nothing is sorted yet, all slots are in use.
LEMMA JoinedFillsSlots ==
  ASSUME RTypeOK, LInv, Joined, evts = <<>>
  PROVE  DOMAIN slots = AllSlots
<1>1. NumOps \in Nat
  BY NumOpsAssumption
<1>2. ASSUME NEW o \in Operations \X {0, 1}
      PROVE  SlotOf(o) \in DOMAIN slots
  <2>1. o[1][1] \in Threads /\ o[1][2] \in 0 .. NumOps - 1 /\ o[2] \in {0, 1}
    BY DEF Operations
  <2>2. Calls(o[1][1]) = NumOps /\ Returned(o[1][1]) = NumOps
    BY <1>1, <2>1 DEF Joined, Calls, Returned
  <2>3. Due(o[1][1], o[1][2], o[2])
    BY <1>1, <2>1, <2>2 DEF Due
  <2>4. DOMAIN evts = {}
    OBVIOUS
  <2>. QED
    BY <2>1, <2>3, <2>4 DEF LInv, NoneLost, SlotOf
<1>. QED
  BY <1>2, SlotsInRange DEF AllSlots, LInv

\* So the log is complete when the array is sorted.
LEMMA CompleteWhenSorted ==
  ASSUME RTypeOK, LInv
  PROVE  LogIsComplete
<1>. SUFFICES ASSUME Recorded
              PROVE  /\ Len(evts) = 2 * NumOps * Cardinality(Threads)
                     /\ \A t \in Threads, i \in 0 .. NumOps - 1 :
                          \A types \in {AddTypes \cup RmvTypes, {"return"}} :
                            \E k \in DOMAIN evts :
                              evts[k].thread = Uid(t, i) /\ evts[k].type \in types
  BY DEF LogIsComplete
<1>1. /\ Joined /\ DOMAIN slots = {} /\ NumOps \in Nat
      /\ evts \in Seq(Recordings) /\ Len(evts) \in Nat /\ DOMAIN evts = 1 .. Len(evts)
  BY NumOpsAssumption DEF Recorded, EmptyMap, RTypeOK
<1>2. Len(evts) = 2 * NumOps * Cardinality(Threads)
  <2>1. Cardinality(DOMAIN slots) = 0
    BY <1>1, FS_EmptySet
  <2>2. CASE evts = <<>>
    BY <1>1, <2>1, <2>2, JoinedFillsSlots, SlotsCounted
  <2>3. CASE evts # <<>>
    BY <1>1, <2>1, <2>3 DEF LInv, EventsCounted
  <2>. QED
    BY <2>2, <2>3
<1>3. ASSUME NEW t \in Threads, NEW i \in 0 .. NumOps - 1, NEW b \in {0, 1}
      PROVE  \E k \in DOMAIN evts : IsOf(evts[k], t, i, b)
  <2>1. Calls(t) = NumOps /\ Returned(t) = NumOps
    BY <1>1 DEF Joined, Calls, Returned
  <2>2. Due(t, i, b)
    BY <1>1, <2>1 DEF Due
  <2>. QED
    BY <1>1, <2>2 DEF LInv, NoneLost
<1>4. ASSUME NEW t \in Threads, NEW i \in 0 .. NumOps - 1,
             NEW types \in {AddTypes \cup RmvTypes, {"return"}}
      PROVE  \E k \in DOMAIN evts : evts[k].thread = Uid(t, i) /\ evts[k].type \in types
  <2>1. CASE types = {"return"}
    BY <2>1, <1>3 DEF IsOf
  <2>2. CASE types = AddTypes \cup RmvTypes
    <3>1. PICK k \in DOMAIN evts : IsOf(evts[k], t, i, 0)
      BY <1>3
    <3>2. evts[k] \in Recordings
      BY <1>1
    <3>. QED
      BY <2>2, <3>1, <3>2 DEF IsOf, Recordings, AddTypes, RmvTypes
  <2>. QED
    BY <2>1, <2>2
<1>. QED
  BY <1>2, <1>4

\* Writing one event into its slot keeps the invariant.
LEMMA RecordingKeeps ==
  ASSUME LInv, evts = <<>>, evts' = evts,
         NEW t \in Threads, NEW i \in 0 .. NumOps - 1, NEW b \in {0, 1}, NEW e,
         IsOf(e, t, i, b),
         slots' = With(slots, Slot(t, i) + b, e),
         \A u \in Threads, j \in 0 .. NumOps - 1, c \in {0, 1} :
           Due(u, j, c)' => (Due(u, j, c) \/ (u = t /\ j = i /\ c = b))
  PROVE  LInv'
<1>. DEFINE new == Slot(t, i) + b
<1>1. /\ DOMAIN slots' = DOMAIN slots \cup {new}
      /\ slots'[new] = e
      /\ \A k \in DOMAIN slots : k # new => slots'[k] = slots[k]
  <2>. HIDE DEF new
  <2>1. slots' = With(slots, new, e)
    BY DEF new
  <2>. QED
    BY <2>1 DEF With
<1>2. SlotsInPlace'
  <2>1. ASSUME NEW k \in DOMAIN slots'
        PROVE  \E u \in Threads, j \in 0 .. NumOps - 1, c \in {0, 1} :
                 k = Slot(u, j) + c /\ IsOf(slots'[k], u, j, c)
    <3>1. CASE k = new
      BY <3>1, <1>1
    <3>2. CASE k # new
      BY <3>2, <1>1 DEF LInv, SlotsInPlace
    <3>. QED
      BY <3>1, <3>2
  <2>. QED
    BY <2>1 DEF SlotsInPlace, Slot, IsOf, Uid
<1>3. NoneLost'
  <2>1. ASSUME NEW u \in Threads, NEW j \in 0 .. NumOps - 1, NEW c \in {0, 1}, Due(u, j, c)'
        PROVE  Slot(u, j) + c \in DOMAIN slots'
    <3>1. CASE Due(u, j, c)
      <4>1. DOMAIN evts = {}
        OBVIOUS
      <4>. QED
        BY <3>1, <4>1, <1>1 DEF LInv, NoneLost
    <3>2. CASE u = t /\ j = i /\ c = b
      BY <3>2, <1>1
    <3>. QED
      BY <2>1, <3>1, <3>2
  <2>. QED
    BY <2>1 DEF NoneLost, Slot
<1>4. EventsCounted'
  BY DEF EventsCounted
<1>. QED
  BY <1>2, <1>3, <1>4 DEF LInv

\* CallAdd and CallRmv keep it.
LEMMA CalledKeepsLog ==
  ASSUME RTypeOK, SortedFirst, LInv, NEW t \in Threads,
         NEW type \in {"push", "pop"}, NEW val, Called(t, type, val)
  PROVE  LInv'
<1>1. /\ Calls(t) \in 0 .. NumOps - 1
      /\ Calls(t)' = Calls(t) + 1
      /\ \A u \in Threads \ {t} : Calls(u)' = Calls(u)
  BY CalledCounts
<1>2. evts = <<>> /\ evts' = evts
  BY NotSortedYet DEF Called
<1>3. /\ phase[t] = "idle" /\ DOMAIN phase = Threads
      /\ phase' = [phase EXCEPT ![t] = IF type = "push" THEN "add" ELSE "rmv"]
  BY DEF Called, RTypeOK
<1>4. NumOps \in Nat /\ \A u \in Threads : Calls(u) \in Int
  BY CallsInRange, NumOpsAssumption
<1>5. \A u \in Threads : Returned(u)' = Returned(u)
  BY <1>1, <1>3, <1>4 DEF Returned
<1>6. \A u \in Threads, j \in 0 .. NumOps - 1, c \in {0, 1} :
        Due(u, j, c)' => (Due(u, j, c) \/ (u = t /\ j = Calls(t) /\ c = 0))
  BY <1>1, <1>4, <1>5 DEF Due
<1>. DEFINE e == Event(type, Uid(t, Calls(t)), val, clock')
<1>7. IsOf(e, t, Calls(t), 0)
  BY DEF IsOf, Event
<1>8. slots' = With(slots, Slot(t, Calls(t)) + 0, e)
  <2>1. Slot(t, Calls(t)) + 0 = Slot(t, Calls(t))
    BY <1>1, SlotIsTwiceUid
  <2>. QED
    BY <2>1 DEF Called
<1>. HIDE DEF e
<1>. QED
  BY <1>1, <1>2, <1>6, <1>7, <1>8, RecordingKeeps

\* Return keeps it.
LEMMA ReturnKeepsLog ==
  ASSUME RTypeOK, SortedFirst, LInv, NEW t \in Threads, Return(t)
  PROVE  LInv'
<1>1. /\ phase[t] = "done" /\ DOMAIN phase = Threads
      /\ phase' = [phase EXCEPT ![t] = "idle"]
      /\ prog' = prog /\ evts' = evts
      /\ slots' = With(slots, Slot(t, Calls(t) - 1) + 1,
                       Event("return", Uid(t, Calls(t) - 1), res[t], clock'))
  BY DEF Return, Object!Return, clientVars, RTypeOK
<1>2. evts = <<>>
  BY <1>1, NotSortedYet
<1>3. NumOps \in Nat /\ Calls(t) \in 0 .. NumOps /\ Calls(t) >= 1
  BY <1>1, CallsInRange, NumOpsAssumption DEF RTypeOK
<1>4. Calls(t) - 1 \in 0 .. NumOps - 1
  BY <1>3
<1>5. \A u \in Threads : Calls(u)' = Calls(u)
  BY <1>1 DEF Calls
<1>6. \A u \in Threads, j \in 0 .. NumOps - 1, c \in {0, 1} :
        Due(u, j, c)' => (Due(u, j, c) \/ (u = t /\ j = Calls(t) - 1 /\ c = 1))
  <2>1. \A u \in Threads \ {t} : Returned(u)' = Returned(u)
    BY <1>1, <1>5 DEF Returned
  <2>2. Returned(t)' = Calls(t) /\ Returned(t) = Calls(t) - 1
    BY <1>1, <1>5 DEF Returned
  <2>3. \A j \in 0 .. NumOps - 1 : j < Calls(t) => (j < Calls(t) - 1 \/ j = Calls(t) - 1)
    BY <1>3
  <2>. QED
    BY <1>5, <2>1, <2>2, <2>3 DEF Due
<1>. DEFINE e == Event("return", Uid(t, Calls(t) - 1), res[t], clock')
<1>7. IsOf(e, t, Calls(t) - 1, 1)
  BY DEF IsOf, Event
<1>8. slots' = With(slots, Slot(t, Calls(t) - 1) + 1, e)
  BY <1>1
<1>. HIDE DEF e
<1>. QED
  BY <1>1, <1>2, <1>4, <1>6, <1>7, <1>8, RecordingKeeps

\* TakeEffect writes no slot.
LEMMA TakeEffectKeepsLog ==
  ASSUME RTypeOK, LInv, NEW t \in Threads, TakeEffect(t)
  PROVE  LInv'
<1>1. /\ phase[t] \in {"add", "rmv"} /\ DOMAIN phase = Threads
      /\ phase' = [phase EXCEPT ![t] = "done"]
      /\ UNCHANGED <<prog, slots, evts>>
  BY DEF TakeEffect, Object!Add, Object!Rmv, Object!RmvEmpty, clientVars, RTypeOK
<1>2. \A u \in Threads : Calls(u)' = Calls(u) /\ Returned(u)' = Returned(u)
  BY <1>1 DEF Calls, Returned
<1>. QED
  BY <1>1, <1>2 DEF LInv, SlotsInPlace, NoneLost, EventsCounted, Due, IsOf, Slot, Uid

\* Sort moves an event from its slot to the log.
LEMMA SortKeepsLog ==
  ASSUME RTypeOK, LInv, Sort
  PROVE  LInv'
<1>1. PICK k \in DOMAIN slots :
        /\ evts' = Append(evts, [slots[k] EXCEPT !.ts = Len(evts) + 1])
        /\ slots' = Without(slots, k)
  BY DEF Sort
<1>2. Joined /\ UNCHANGED <<prog, phase>>
  BY DEF Sort, clientVars, objectVars
<1>3. \A t \in Threads : Calls(t)' = Calls(t) /\ Returned(t)' = Returned(t)
  BY <1>2 DEF Calls, Returned
<1>4. DOMAIN slots' = DOMAIN slots \ {k} /\ \A j \in DOMAIN slots' : slots'[j] = slots[j]
  BY <1>1 DEF Without
<1>. DEFINE e == [slots[k] EXCEPT !.ts = Len(evts) + 1]
            n == Len(evts)
<1>5. slots[k] \in Recordings /\ evts \in Seq(Recordings)
  BY DEF RTypeOK
<1>6. e \in Recordings /\ e.type = slots[k].type /\ e.thread = slots[k].thread
  <2>1. Len(evts) + 1 \in Nat
    BY <1>5
  <2>. QED
    BY <2>1, <1>5 DEF Recordings
<1>7. /\ n \in Nat
      /\ DOMAIN evts = 1 .. n /\ DOMAIN evts' = 1 .. n + 1
      /\ Len(evts') = n + 1 /\ evts' # <<>>
      /\ evts'[n + 1] = e
      /\ \A j \in 1 .. n : evts'[j] = evts[j]
  <2>1. evts' = Append(evts, e)
    BY <1>1
  <2>. HIDE DEF e
  <2>. QED
    BY <2>1, <1>5, <1>6
<1>. HIDE DEF e, n
<1>8. SlotsInPlace'
  BY <1>4 DEF LInv, SlotsInPlace, Slot, IsOf, Uid
<1>9. NoneLost'
  <2>1. ASSUME NEW t \in Threads, NEW i \in 0 .. NumOps - 1, NEW b \in {0, 1}, Due(t, i, b)
        PROVE  \/ Slot(t, i) + b \in DOMAIN slots'
               \/ \E j \in DOMAIN evts' : IsOf(evts'[j], t, i, b)
    <3>1. CASE Slot(t, i) + b \in DOMAIN slots /\ Slot(t, i) + b # k
      BY <3>1, <1>4
    <3>2. CASE Slot(t, i) + b \in DOMAIN slots /\ Slot(t, i) + b = k
      <4>1. PICK u \in Threads, j \in 0 .. NumOps - 1, c \in {0, 1} :
              k = Slot(u, j) + c /\ IsOf(slots[k], u, j, c)
        BY DEF LInv, SlotsInPlace
      <4>2. u = t /\ j = i /\ c = b
        BY <3>2, <4>1, SlotIsUnique
      <4>3. IsOf(e, t, i, b)
        BY <4>1, <4>2, <1>6 DEF IsOf
      <4>. QED
        BY <4>3, <1>7
    <3>3. CASE \E j \in DOMAIN evts : IsOf(evts[j], t, i, b)
      <4>1. PICK j \in 1 .. n : IsOf(evts[j], t, i, b)
        BY <3>3, <1>7
      <4>2. j \in 1 .. n + 1 /\ evts'[j] = evts[j]
        BY <1>7
      <4>. QED
        BY <4>1, <4>2, <1>7
    <3>. QED
      BY <2>1, <3>1, <3>2, <3>3 DEF LInv, NoneLost
  <2>2. \A t \in Threads, i \in 0 .. NumOps - 1, b \in {0, 1} : Due(t, i, b)' => Due(t, i, b)
    BY <1>3 DEF Due
  <2>. QED
    BY <2>1, <2>2 DEF NoneLost, Slot, IsOf, Uid
<1>10. EventsCounted'
  <2>1. n + Cardinality(DOMAIN slots) = 2 * NumOps * Cardinality(Threads)
    <3>1. CASE evts = <<>>
      <4>1. n = 0 /\ Cardinality(DOMAIN slots) = 2 * NumOps * Cardinality(Threads)
        BY <1>2, <3>1, JoinedFillsSlots, SlotsCounted DEF n
      <4>2. IsFiniteSet(DOMAIN slots) /\ Cardinality(DOMAIN slots) \in Nat
        BY SlotsInRange, FS_CardinalityType DEF LInv
      <4>. QED
        BY <4>1, <4>2
    <3>2. CASE evts # <<>>
      BY <3>2 DEF LInv, EventsCounted, n
    <3>. QED
      BY <3>1, <3>2
  <2>2. /\ IsFiniteSet(DOMAIN slots) /\ Cardinality(DOMAIN slots) \in Nat
        /\ Cardinality(DOMAIN slots') = Cardinality(DOMAIN slots) - 1
    BY <1>4, SlotsInRange, FS_RemoveElement, FS_CardinalityType DEF LInv
  <2>3. Len(evts') + Cardinality(DOMAIN slots') = n + Cardinality(DOMAIN slots)
    BY <1>7, <2>2
  <2>. QED
    BY <2>1, <2>3 DEF EventsCounted
<1>. QED
  BY <1>8, <1>9, <1>10 DEF LInv

\* Nothing is recorded before the threads start.
LEMMA LInitHolds == RecorderInit => LInv
<1>. SUFFICES ASSUME RecorderInit
              PROVE  LInv
  OBVIOUS
<1>1. /\ prog \in Programs /\ phase = [t \in Threads |-> "idle"]
      /\ evts = <<>> /\ DOMAIN slots = {}
  BY DEF RecorderInit, ClientInit, Object!Init, EmptyMap
<1>2. \A t \in Threads : Calls(t) = 0 /\ Returned(t) = 0
  BY <1>1, EqualListsAssumption, NumOpsAssumption DEF Calls, Returned
<1>. QED
  BY <1>1, <1>2 DEF LInv, SlotsInPlace, NoneLost, EventsCounted, Due

\* Every step keeps the invariant.
LEMMA LStepKeeps == RInv /\ LInv /\ [RecorderNext]_recorderVars => LInv'
<1>. SUFFICES ASSUME RInv, LInv, [RecorderNext]_recorderVars
              PROVE  LInv'
  OBVIOUS
<1>1. RTypeOK /\ SortedFirst
  BY DEF RInv
<1>2. ASSUME NEW t \in Threads, CallAdd(t) \/ CallRmv(t)
      PROVE  LInv'
  BY <1>1, <1>2, CallsAreTyped, CalledKeepsLog
<1>3. ASSUME NEW t \in Threads, TakeEffect(t)
      PROVE  LInv'
  BY <1>1, <1>3, TakeEffectKeepsLog
<1>4. ASSUME NEW t \in Threads, Return(t)
      PROVE  LInv'
  BY <1>1, <1>4, ReturnKeepsLog
<1>5. CASE Sort
  BY <1>1, <1>5, SortKeepsLog
<1>6. CASE UNCHANGED recorderVars
  <2>1. UNCHANGED <<prog, phase, slots, evts>>
    BY <1>6 DEF recorderVars, clientVars, objectVars
  <2>2. \A t \in Threads : Calls(t)' = Calls(t) /\ Returned(t)' = Returned(t)
    BY <2>1 DEF Calls, Returned
  <2>. QED
    BY <2>1, <2>2 DEF LInv, SlotsInPlace, NoneLost, EventsCounted, Due, IsOf, Slot, Uid
<1>. QED
  BY <1>2, <1>3, <1>4, <1>5, <1>6 DEF RecorderNext

\* However many threads and operations there are: the log that main() sorts
\* has one call and one return for each operation of each thread, and nothing
\* else; none is lost or overwritten.
THEOREM LogComplete == RecorderSpec => []LogIsComplete
<1>1. RInv /\ LInv => LogIsComplete
  BY CompleteWhenSorted DEF RInv
<1>. QED
  BY <1>1, RInitHolds, RStepKeeps, LInitHolds, LStepKeeps, PTL DEF RecorderSpec
=============================================================================
