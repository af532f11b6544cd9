------------------------------ MODULE Recorder ------------------------------
(***************************************************************************)
(* How the runner records a history (src/tool/runner/src/main.cpp): every  *)
(* thread reads the clock before and after each call and writes the two    *)
(* events into slots of one array; when the threads are joined, main()     *)
(* sorts the array by clock reading and numbers the events.                *)
(*                                                                         *)
(* The implementation under test is an atomic stack, so that what is shown *)
(* here holds for every implementation that refines it.  A thread waits    *)
(* for a flag that is no atomic and stays set when main() runs the next    *)
(* repetition: it may start at once.  std::sort may put events with equal  *)
(* readings in any order.                                                  *)
(*                                                                         *)
(* effect and tied are history variables that no guard reads.              *)
(***************************************************************************)
EXTENDS RunnerThreads

CONSTANT ClockSteps  \* by how much the clock may advance between two readings

ASSUME ThreadsAssumption == Threads \subseteq Nat /\ IsFiniteSet(Threads)
ASSUME ClockStepsAssumption == ClockSteps \subseteq Nat

\* The lists are equally long: data_t::num_ops is the same for all threads.
ASSUME EqualListsAssumption == \A p \in Programs, t \in Threads : Len(p[t]) = NumOps

VARIABLES
  stack, phase, arg, res,  \* the implementation
  clock,   \* the last reading of the steady clock
  slots,   \* the array "events" of event_placeholders: index -> event
  evts,    \* the sorted and numbered events
  effect,  \* uid -> the reading after which its operation took effect
  tied     \* two readings were equal

objectVars == <<stack, phase, arg, res>>
recorderVars == <<clientVars, objectVars, clock, slots, evts, effect, tied>>

Object == INSTANCE AtomicStack

RecorderInit ==
  /\ ClientInit
  /\ Object!Init
  /\ clock = 0
  /\ slots = EmptyMap
  /\ evts = <<>>
  /\ effect = EmptyMap
  /\ tied = FALSE

\* cl::now()
ReadClock == \E d \in ClockSteps : clock' = clock + d /\ tied' = (tied \/ d = 0)

Uid(t, i) == NumOps * t + i

\* Mutant of Slot: the threads' parts of the array overlap.
SlotHalved(t, i) == t * NumOps + 2 * i

Slot(t, i) == 2 * t * NumOps + 2 * i

\* Calls the thread has made.
Calls(t) == NumOps - Len(prog[t])

CallAdd(t) ==
  /\ ReadClock
  /\ slots' = With(slots, Slot(t, Calls(t)),
                   Event("push", Uid(t, Calls(t)), NextValue(t), clock'))
  /\ Object!CallAdd(t, NextValue(t))
  /\ ClientAdd(t)
  /\ UNCHANGED <<evts, effect>>

CallRmv(t) ==
  /\ ReadClock
  /\ slots' = With(slots, Slot(t, Calls(t)),
                   Event("pop", Uid(t, Calls(t)), NoVal, clock'))
  /\ Object!CallRmv(t)
  /\ ClientRmv(t)
  /\ UNCHANGED <<evts, effect>>

\* The call takes effect.
TakeEffect(t) ==
  /\ Object!Add(t) \/ Object!Rmv(t) \/ Object!RmvEmpty(t)
  /\ effect' = With(effect, Uid(t, Calls(t) - 1), clock)
  /\ UNCHANGED <<clientVars, clock, slots, evts, tied>>

\* Mutant of Return: the clock is not read again.
ReturnWithOldReading(t) ==
  /\ slots' = With(slots, Slot(t, Calls(t) - 1) + 1,
                   Event("return", Uid(t, Calls(t) - 1), res[t],
                         slots[Slot(t, Calls(t) - 1)].ts))
  /\ Object!Return(t)
  /\ UNCHANGED <<clientVars, clock, tied, evts, effect>>

Return(t) ==
  /\ ReadClock
  /\ slots' = With(slots, Slot(t, Calls(t) - 1) + 1,
                   Event("return", Uid(t, Calls(t) - 1), res[t], clock'))
  /\ Object!Return(t)
  /\ UNCHANGED <<clientVars, evts, effect>>

Joined == \A t \in Threads : phase[t] = "idle" /\ prog[t] = <<>>

\* Mutant of Sort: the slots are taken in the order of the array.
SortByIndex ==
  /\ Joined
  /\ \E k \in DOMAIN slots :
       /\ \A j \in DOMAIN slots : k <= j
       /\ evts' = Append(evts, [slots[k] EXCEPT !.ts = Len(evts) + 1])
       /\ slots' = Without(slots, k)
  /\ UNCHANGED <<clientVars, objectVars, clock, effect, tied>>

\* One event more of the sorted array.
Sort ==
  /\ Joined
  /\ \E k \in DOMAIN slots :
       /\ \A j \in DOMAIN slots : slots[k].ts <= slots[j].ts
       /\ evts' = Append(evts, [slots[k] EXCEPT !.ts = Len(evts) + 1])
       /\ slots' = Without(slots, k)
  /\ UNCHANGED <<clientVars, objectVars, clock, effect, tied>>

RecorderNext ==
  \/ \E t \in Threads :
       CallAdd(t) \/ CallRmv(t) \/ TakeEffect(t) \/ Return(t)
  \/ Sort

RecorderSpec == RecorderInit /\ [][RecorderNext]_recorderVars

----------------------------------------------------------------------------

Recorded == Joined /\ slots = EmptyMap

\* No event is lost or overwritten: the log has one call and one return for
\* each operation of each thread.
LogIsComplete ==
  Recorded =>
    /\ Len(evts) = 2 * NumOps * Cardinality(Threads)
    /\ \A t \in Threads, i \in 0 .. NumOps - 1 :
         \A types \in {AddTypes \cup RmvTypes, {"return"}} :
           \E k \in DOMAIN evts :
             evts[k].thread = Uid(t, i) /\ evts[k].type \in types

\* The log keeps the order of the calls: if no two readings are equal and one
\* operation returns before another is called in the log, then it also took
\* effect before it.
LogKeepsOrder ==
  ~tied =>
    \A j, k \in DOMAIN evts :
      (j < k /\ evts[j].type = "return" /\ evts[k].type # "return") =>
        effect[evts[j].thread] < effect[evts[k].thread]
=============================================================================
