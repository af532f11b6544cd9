# LiMo in TLA+

LiMo records histories of concurrent stacks and queues and decides whether they
are linearizable. This directory holds TLA+ models of the program, the TLC
configurations that check them, and theorems about them checked by TLAPS. The
code is C++ under `src/tool/`; every path below is relative to that directory.

## The system

| part | code | state it keeps | operations | what makes it correct |
|---|---|---|---|---|
| implementations under test | `impl/*.cpp`, interface `include/impl.h` | shared memory of the data structure | `add`, `rmv`, constructor, destructor; called by many threads | linearizable as a stack or queue; memory is freed once and not used afterwards |
| runner | `runner/src/main.cpp` | operation lists, array of stamped events, flag `run` | `thread_fn` per thread, `main`: draw lists, start, join, sort, write | the log is a history of the calls, in an order their real times allow |
| events, parser | `include/event.h`, `include/typedef.h`, `events/src/io.cpp` | tables of values met | `read_log`, `write_file` | what is read is what was written |
| simplification | `events/src/convert.cpp`, `preproces.cpp` | maps local to the two functions | `simplify`, `preprocess` | the simplified history is linearizable iff the original is |
| intervals | `include/interval.h`, `events/src/interval.cpp` | sorted lists of open or closed intervals | constructor, intersection, complement, overlap | they compute the set operations they are named for |
| stack monitor | `monitor/src/monitor.cpp`, `covermonitor.cpp`, `coverlin.cpp`, `events/src/coverhistory.cpp` | open calls, values with their intervals, empty pops, worklist | one handler per event, `do_linearization` | "OK" iff the history is linearizable; it terminates |
| queue monitor | `monitor/src/queuemonitor.cpp`, `include/intervaltree.hpp` | two maps of intervals, a red-black interval tree | the same | the same, for queues |
| segment algorithm | `monitor/src/graphmonitor.cpp`, `graph.cpp` | constraint graph of values | the same | as the stack monitor (an older algorithm) |
| generator | `include/generator.hpp`, `execution.hpp` | state of each value, indices chosen | `possible_indices`, `gen_histories`, `gen_single`, `make_history`, `create_inits` | it generates each well-formed complete history once |
| `linearize` | `linearize/src/main.cpp` | - | read, simplify, feed, linearize, report | a verdict for each history |
| testers | `exhaustive/src/main.cpp`, `random/src/main.cpp` | MPI processes: counts, messages under way, beginnings to hand out | request, answer, data, report; scatter and gather | every history tested once, no message lost, nobody waiting for ever |
| automata checker | `automata_checker/src/main.cpp` | as the exhaustive tester; a fixed automaton | the same, and one more message | as the exhaustive tester; it catches violations only |
| tools beside | `builder/`, `logic/`, `include/relation.h`, `backup/`, `monitor/src/treemonitor.cpp` | - | - | experiments, not part of the verifier |

They interact by calls, files and messages: the runner's threads call one
implementation through shared memory, the log goes through a file to
`linearize`, which calls the parser, `simplify`, and a monitor; the testers feed
generated histories to two monitors in memory and compare their answers.
Concurrency is in the implementations, in the runner, and (by MPI messages) in
the testers. The verifier is sequential; what is hard there is the algorithm:
histories are orders of events of many threads, and a mistake shows only on rare
ones.

`PROJECT.json` lists all components and, as hazards, the places where this code
is hard to test.

## Modules

| module | models | extends / instantiates |
|---|---|---|
| `AtomicStack` | specification: `add` and `rmv` take effect at one instant between call and return | - |
| `RunnerThreads` | the threads of the runner as clients: their operation lists and values | - |
| `TreiberStack`, `MCTreiberStack` | `impl/treiber.cpp`, `impl/treiber_notempty.cpp` | `RunnerThreads`, instance of `AtomicStack` |
| `Explanations` | specification: the states in which a sequential stack or queue may be, given the calls and returns so far | - |
| `Implementation` | what the other implementations share: calls, returns, a heap that gives addresses again, destructors | `RunnerThreads`, instance of `Explanations` |
| `LockedObjects` | `coarse_stack.cpp` (and its copy `serial.cpp`), `coarse_queue.cpp` | `Implementation` |
| `MSQueue`, `HWQueue` | `msqueue.cpp`, `hwqueue.cpp` | `Implementation` |
| `TSStack` | `tsstack.cpp`, `tsstack_unlin.cpp` | `Implementation` |
| `ExchangerStack`, `ElimBackoffStack`, `CollisionStack` | `elim_backoff.cpp`, `elimbackoff.cpp`, `backoffelim.cpp` | `Implementation` |
| `Implementations`, `MCImplementations` | the programs `run_IMPL`: the runner's threads around one of them | instances of the six above |
| `Recorder` | `thread_fn` and `main` of the runner: clock readings, slots, sort; around an atomic stack | `RunnerThreads`, instance of `AtomicStack` |
| `Intervals` | the interval algebra | - |
| `IntervalTree` | the red-black tree: insertion, `compute_k`, `contains` | - |
| `MCIntervals` | a calculator over both, with the set of instants an interval denotes | `Intervals`, `IntervalTree` |
| `Events` | events and maps | - |
| `CoverHistory` | values, empty pops, `cover`, `minmax_prune`, `split`, `segmentize`, `step` | `Intervals` |
| `CoverMonitor` | `add_event`, the handlers, `do_linearization` | `CoverHistory`, `Events` |
| `QueueMonitor` | the queue monitor as a fold over the events | `IntervalTree`, `Events` |
| `GraphMonitor` | the graph of the segment algorithm; its handlers and its loop over pairs | `Intervals`, `Events` |
| `Simplify` | `simplify`, `preprocess` | `Events` |
| `Linearizability` | reference definition by search, no code | `Events` |
| `Linearize` | `main` of `linearize`: the pipeline with the cover monitor, and its properties | `CoverMonitor`, `Simplify`, `Linearizability` |
| `Algorithms` | `make_monitor`: the other monitors' answers to a whole log | `Linearize`, instances of `QueueMonitor`, `GraphMonitor` |
| `RecordedRun` | the verifier on logs of a (possibly wrong) implementation | `Algorithms` |
| `RunnerLog` | from the threads to the verdict | `Recorder`, `Linearize` |
| `Generator` | the generator, beginnings and continuations | `Events` |
| `Automaton` | the automaton of the automata checker and the way through it | `Generator` |
| `GeneratedRun` | verifier and automaton on generated histories | `Algorithms`, `Automaton` |
| `Tester` | `try_history`: two monitors' answers compared | `Generator` |
| `ExhaustiveTester` | the `main`s of `exhaustive` and of the automata checker: the same processes and messages, other tests | `Tester`, `Automaton` |
| `RandomTester` | the `main` of `random` | `Tester` |
| `Testers`, `MCTesters` | one of the three is run; what they report | both |
| `TreiberStack_proofs`, `Recorder_proofs`, `Testers_proofs`, `Implementations_proofs`, `MCIntervals_proofs`, `RecordedRun_proofs` | theorems | the module of that name, TLAPS |
| `Verifier_proofs` | lemmas for the last two about what the verifier computes: the interval algebra, `step()`, the lists that `simplify()` and `preprocess()` make | `CoverHistory`, `Simplify`, `Linearizability`, TLAPS |
| `InductionLemmas` | induction over naturals and finite sets, recursive functions on them, sums; no code | TLAPS |

### Treiber's stack

`head`, `next` and `val` are the shared memory, `oh`, `nh`, `arg`, `res` the
local variables of the running operation, `pc` its place. Each action is one
access to shared memory: `AddLoad` reads head (line 35), `AddLink` writes the
node's next (36), `AddCas`/`AddRetry` are the outcomes of
`compare_exchange_weak` (37), which may fail although head is as expected, and
so on. `new` takes an address not used before: this code deletes nothing before
the destructor, so the allocator has nothing to give again. `chain` is a
history variable that lists the nodes on the stack; only the linearization
steps change it and no guard reads it. Memory is sequentially consistent: all
shared accesses are to `std::atomic` with the default order.

The `AbstractSpec` property is the linearizability of the implementation: with
the stack read off `chain`, and `phase` and `res` as the operations' progress,
each step is a step of `AtomicStack` or leaves it unchanged. An `add` takes
effect at its successful exchange, an `rmv` at its successful exchange or, if it
answers empty, at its load of nullptr.

### The other implementations

Nine implementations are too many for nine refinements, some have linearization
points that depend on the future (a dequeue of the Herlihy-Wing queue fixes the
order of enqueues that returned before), and some are not linearizable. They are
therefore compared with the definition of linearizability itself:
`explanations` is the set of all states in which a sequential object may be, had
each call so far taken effect between its call and its return. A return keeps
those that account for its answer. The run is linearizable as long as one is
left, whatever implementation it is. The set is a history variable: no guard
reads it.

In each module an action is one access to memory that others write; steps that
touch only the thread's own memory belong to the access before or after them.
`mem` is the object, `loc` the local variables, `pc` the place. Three modelling
decisions matter:

- Memory. Objects are numbered in the order of `new`, and `deleted` says of each
  deleted one how many there were then. A read of deleted memory yields what was
  there, nullptr or `Garbage`; a pointer to an object may equal one to a younger
  object if the first was deleted before the second was made. That is all that an
  allocator can do, without modelling addresses.
- A return is part of the operation's last step. To return earlier only makes an
  answer harder to explain, so nothing is missed.
- `compare_exchange_weak` fails only when the values differ: the programs are
  built for x86-64, where it cannot fail spuriously. (In Treiber's stack it may:
  its proof needs no such assumption.)

`flaws` is a history variable too. It names what the code does that its
algorithm does not allow, at the step where it does it:

| flaw | where | what happens |
|---|---|---|
| address used again | `msqueue.cpp`, `elim_backoff.cpp`, `backoffelim.cpp` | an exchange or a check succeeds because a deleted node's address was given again |
| deleted node written | `msqueue.cpp:38` | an enqueue links its node to one that a dequeue has deleted |
| item newer than the pass | `hwqueue.cpp:29` | a dequeue goes through the whole array instead of the part handed out when it began, and takes an item enqueued after one it passed |
| index beyond the array | `hwqueue.cpp:24` | the index is not compared with the size |
| published after a younger node | `tsstack.cpp:37` | a node becomes the top of its list when a node with a higher timestamp is already there to be removed |
| counted twice | `tsstack_unlin.cpp:10` | the plain counter has changed between a thread's read and its write |
| item read after delete | `elim_backoff.cpp:67` | the second thread of an exchange deletes its item after publishing it |
| operation overwritten, met its own kind, truth value as answer | `elimbackoff.cpp` | `operations_[him]` is read after the exchange on `location_`, when its thread may have announced another; an empty pop answers `false` converted to a value |
| location of another thread, cell deleted twice, assert(p->cell != nullptr) | `backoffelim.cpp` | `FinishCollision` reads `location[0]` whatever the thread; an empty pop has no cell |

`WrongOnlyByFlaw` is the statement worth having of such code: as long as none of
these has happened, every answer is linearizable, so the list is complete. What
comes after a flaw is not looked at (`CONSTRAINT Unflawed`). For `coarse_stack` and `coarse_queue`, which
have no flaw, it is plain linearizability.

### The runner

`Recorder` puts the threads around an atomic stack: since Treiber's stack
is shown to refine it, what is shown of its log holds of theirs. A call is two
actions of the thread and one of the object: `CallAdd`/`CallRmv` read the clock,
write the call's slot of the array `events` and call; `TakeEffect` is the
object's step; `Return` reads the clock again and writes the return's slot.
That the clock is read a little before the call and after the return is covered
by the interleavings: a thread may rest in `"add"` or `"done"` as long as it
likes. `Sort` moves the earliest event that is left, any of the earliest if
there are several, to the numbered sequence, as often as there are events:
`std::sort` is not stable. `main` is the only reader of the array and reads it
after joining. The flag `run` is a plain bool that is never reset; a thread may
therefore be through before the next is created, which the model allows by
having no flag at all. `RunnerLog` gives the log to the verifier.

The clock never goes back (`std::chrono::steady_clock`), and two readings may be
equal. Then the log may order events that were ordered otherwise, a return put
before its own call included, on which `simplify` asserts
(`events/src/convert.cpp:34`). `LogKeepsOrder` and `NeverAccused` are therefore
about runs in which no two readings were equal (`tied` remembers). The
run `runner_log` lets the clock advance by one at each reading, which makes all
orders of readings, the only thing the code looks at; the theorem `LogOrder`
is about every way to advance.

### The verifier

Timestamps are 1, 2, ... and `POSINF` stands for `ULLONG_MAX`, above all of them
(`POSINF - 2` too, which is where the interval of a removal that never happens
starts). An event is a record. The handlers of the cover monitor and the
iterations of its `do_linearization` are actions; `simplify` and `preprocess`
are single steps, each a fold over the events with the function's local
variables as its state. A C++ exception is a value of `result`: "violation" for
`Violation`, "error" for all others. Crash events are left out: no program feeds
them to the stack monitor, whose base class throws "Unimplemented" on them.

`std::set<CoverVal>` compares `add.ubound` only; since timestamps are distinct
and every value is pushed by one call, that is a set of records. The order in
which a fold or a loop visits such a set does not matter where the model uses a
set, and where it does (`cover`), the model sorts as the set does.

The queue monitor and the segment algorithm are functions of the log: nothing
can interleave with them, so their handlers are folded over the events and only
the answer is compared. The tree is kept node by node, with parent pointers,
colours and the cached `k`, because what its search misses depends on its shape.
The segment algorithm takes pairs from the end of a list as the code does, and
compares again what was narrowed.

Histories come from two sources. `RecordedRun` lets any client call and return
in any order, and lets removals answer any value (also one never added, or
twice with `duplicates`) or empty: the implementation under test may be wrong.
With `needsSimpl = FALSE` a log names each removed value at the call, and the
history goes to the monitor unsimplified. `GeneratedRun` generates the histories
of the testers.

### The testers

Process 0 makes beginnings of histories and hands them out on request; a worker
reads the generator's continuations of its beginning, tests each, and reports
mismatches and crashes one by one, counts from time to time. `toRoot` and
`toWorker` are the messages under way, in order for each pair of processes as MPI
keeps them. A send is one action; whether it waits for its receipt is chosen
each time (`waits`), because MPI may do either, and a sender whose message waits
does nothing until it is received. A probe may miss a message. The two monitors
are any functions from histories to answers (`AlgAnswer`, `CmpAnswer`), so that
every outcome of the comparison happens. `tested` is a history variable that
counts how often each history was tested. The automata checker is the same
program with one more message, and its actions are the same definitions.
`random` has no messages but a gathering at the end: the root must cut the array
it gets at the right places.

The flag `interrupted` never changes: the handler that sets it on SIGINT is
installed for SIGTERM only (`exhaustive/src/main.cpp:87`).

## What the runs check

| run | question | bounds |
|---|---|---|
| `treiber_atomic` | does Treiber's stack implement the atomic stack; does the inductive invariant hold; is the destructor right; do all operations return | 3 threads, lists of up to 2 operations, 3 addresses: two operations can interfere with a third at each of its steps, and a removed node's successor can change while an exchange is pending |
| `notempty_returns` | do the lists of the runner keep the stack from being found empty, and do all operations of the spinning variant return | 2 threads, lists of exactly 4 operations (also 2 adds then 2 removals, and alternations) |
| `implementations` | has every wrong answer one of the named causes; are nodes deleted once; does the Michael-Scott queue follow no wild pointer | two threads with up to 5 calls together (up to 4 on timestamped stacks), or, where operations meet only after a third has made both fail, three threads with up to 4; lists of up to 3; an array of 2 (`Size`), 3 items (`MaxItems`), one exchanger and one collision position |
| `return_cell` | disagreement, below | as `implementations`, 3 calls |
| `runner_log` | is the recorded log complete and in order, and is a correct stack ever accused | 2 threads, all pairs of valid lists of 2 operations with equally many adds, no equal readings: a removal may overlap the other thread's two adds and be sorted between them |
| `intervals` | are constructor, complement and intersection exact, and is the result in normal form; is the tree a red-black search tree after any insertions, and its search exact where it can be | all sorted lists of up to 3 closed atoms over 5 timestamps, against all two-atom operands; 5 insertions in any order, enough for every kind of rotation and one recolouring above the bottom |
| `generated` | is the verdict right, and each round of the loop an equivalence; are the segment algorithm and the queue monitor right; is the automaton sound | all histories of 3 values, 3 running at once |
| `recorded` | the same on arbitrary logs, with empty removals and wrong values; is simplification an equivalence; can an internal error end the run; does each run end | three kinds (`SomeKinds`): 2 adds and 3 removals with 2 running, 2 and 2 with 3 running, and unsimplified 3 and 3 with 2 running and values removed twice |
| `recorded_duplicates`, `queue_skips`, `segment_queue` | disagreements, below | 2 adds, 2 removals, 4 running; 4 values, 2 running; 3 values, 2 running |
| `testers` | is every history tested once; do totals and failures add up; is nothing left unreceived; are random's files exact; do the programs end | `exhaustive` and `random` on 1 to 3 processes, the automata checker on 1 and 2; histories of 1 and 2 values with 2 running (`MaxThr`); a count every 12 histories (`CountEvery`, 10000 in the code), so that reports are sent in the middle and at the end of a beginning; 3 random tests, which 2 processes share unevenly |

Three values are enough for the shapes that the stack algorithm tells apart: two
gaps in a cover, an empty pop in the second gap, empty pops in reverse order, a
value that spans all others, a removal before its push returned. That larger
histories hold nothing new is not shown. With 3 values the reference search is
fast enough to be made in every final state.

`VerdictIsRight` is the specification of the tool. `WorklistIsEquivalent` is the
loop invariant that explains it: the history is linearizable iff all histories
of the worklist are. `SimplifyIsEquivalent` is the same statement for the stage
before. All three are limited to differentiated histories (no value removed
twice), which is what the algorithm needs; `OkIsLinearizable` is the statement
without that limit, and `LinearizableIsOk` its converse. `QueueIsRight` says what
remains of the same for queues once the disagreement below is known: nothing
linearizable is rejected, and what is not is found if all its values are removed
and no node of the tree has a right child only.

`EveryHistoryOnce`, `TotalsAddUp` and `NothingUnreceived` are the three ways in
which the exchange of messages could silently spoil an exhaustive test: a
beginning lost or given twice, a last count not added, a worker whose last
message nobody reads. `AllFinish` is the fourth, that it hangs.

Each property was also checked against a plausible bug in a definition it
depends on (the operators commented "Mutant of ..."), to see it violated.

### Fairness

`TreiberStack!FairSpec` has weak fairness for each thread, for the destructor's
steps, and strong fairness for each thread's successful exchange. The first two
say that the operating system schedules every thread. The last says that an
exchange that finds its expected pointer infinitely often succeeds: the code is
lock-free, not wait-free, and `compare_exchange_weak` may fail spuriously, so
without it an operation may be retried for ever. With finite lists that
is all it excludes. `Linearize!RunFairness` says that the sequential verifier
keeps running. Nothing is assumed of the environment that produces a log:
`Terminates` speaks of runs whose log has ended. `Testers!FairSpec` has weak
fairness of the whole next-state relation: as long as any process can go on, one
does. No process needs to be favoured, because apart from empty probes every step
brings the program nearer to its end, and an empty probe changes a state once only.

Deadlock is checked in the verifier's runs; a finished program is a state that
repeats itself (`Ended`). The implementations, the calculator and the testers
stop when nothing is left to do; that the testers stop nowhere else is `AllFinish`.

### Disagreements between code and documentation

Each is shown by a run that TLC ends with a counterexample.

- `queue_skips`: `contains()` (`include/intervaltree.hpp:372`) looks at the right
  child of a node only if there is a left child. A history of four values in
  which one overtakes another is answered OK.
- `segment_queue`: the segment algorithm accepts queues, but `make_cmp` narrows
  overlapping operations in the order that a stack asks for
  (`monitor/src/graphmonitor.cpp:140`). On stacks it is right wherever checked.
- `recorded_duplicates`: a history in which a value is removed twice may be
  answered OK, because `preprocess` drops the push and both pops as soon as two
  of the value's calls overlap. When the log needs no simplification the monitor
  itself notices (`recorded`).
- `return_cell`: "There should always be a return cell"
  (`impl/backoffelim.cpp:172`), which a pop of the empty stack has not.

Also seen while modelling, with no run of their own:

- The queue monitor enters a value in the tree when both ends of its inner
  interval are known: one that is never dequeued constrains nothing, so that
  enq 0, enq 1, deq 1 is answered OK. A dequeue that finds the queue empty ends
  the run in `std::bad_optional_access`.
- The automaton is sound but not complete: it misses violations, such as the
  history with the indices 0,0,1,1,2,0,2,1,0,2,1,2. The converse check is commented out in the code
  (`automata_checker/src/main.cpp:460`).
- `exhaustive` and the automata checker, run as one process, test nothing and
  report a total of 0.
- `random` reduces its maxima from variables that are never set.
- `Interval::operator+` does not sort, so that with a right operand that starts
  first instants are lost (`events/src/interval.cpp:167`), and `operator*`
  reaches `assert(false)` (199) when operands meet in an instant where one is
  open. No monitor calls the one, nor the other on such operands.

## What is proved

`TreiberStack_proofs` is about every number of threads, operations, nodes and
values, both values of `WaitNonEmpty`, and assumes of the constants only what
`TreiberStack` and `RunnerThreads` state: the lists are at most `NumOps` long
(`ProgramsAssumption`), and `Null` and `NoVal` are not a node and not a value.

The invariant `IInv` has four parts, none inductive without the others:

1. `TypeOK`.
2. `MemoryHoldsStack`: head and next lead through `chain` to nullptr without
   repetition. An exchange keeps it only if what it installs is right:
3. `CasInstallsSuccessor`: before an add's exchange the new node's next is the
   expected head, before a removal's the remembered `nh` is still the next of
   the expected head, whatever happened since. The second holds since a
   published node's next never changes, for which one needs
4. `NewNodeIsPrivate`: the node an add writes to is not on the stack, is no
   other add's, and is held by no removal.

`InvariantHolds` has one case per action. `TypeCorrect`, `MemoryCorrect`,
`NewNodesPrivate` and `NoAba` are its consequences. `Linearizable` maps each
step to a step or stutter of `AtomicStack` with the invariant as a hypothesis:
only with `MemoryHoldsStack` is the value an exchange takes off the head of the
abstract stack, and only with it does "head is nullptr" mean "empty".
`DestructorCorrect` adds an invariant of its own: the freed nodes and the cursor
are a prefix of `chain` and the node after it.

`Recorder_proofs` is about every number of threads and operations, all lists of
equal length and every way the clock may advance (`ThreadsAssumption`,
`EqualListsAssumption`, `ClockStepsAssumption`). `UidIsUnique`: the identifiers
`num_ops * tid + i` are pairwise different. `LogOrder` is `LogKeepsOrder` in
every state; its invariant `RInv` adds to the types and the property

1. `EffectsKnown`: the effects recorded are those of the operations that took
   effect, by identifier (here `UidIsUnique` is needed);
2. `StampsEnclose`: a call's stamp is not above the effect of its operation, a
   return's is above it;
3. `SortedFirst`: returns already sorted took effect before anything still in
   the array was stamped, and sorting begins when all threads are done.

The first event of the array that is left is then a call whose effect is after
those of all sorted returns, or a return, which keeps 3.

`Testers_proofs` is about `exhaustive` and the automata checker with any number
of processes, histories of any size, any two monitors, any interval between
counts and any behaviour of the sends. It is made of three invariants.

1. `ProtocolHolds` says what may be under way between the root and one worker.
   Upward, a status message comes last: a request, and then the worker waits for
   the answer with nothing else under way to it, or the end mark, and then it
   sends nothing more. Downward there is nothing, the end mark (and all
   beginnings are handed out), the promise of a beginning, the promise and the
   beginning, or the beginning alone; which of them depends on where the worker
   is and on whether the root is about to send to it. Hence `AllReceived`:
   a worker counts as done only when its end mark is received, and that was its
   last message.
2. `Accounted` says where each history is: a continuation of a beginning not yet
   handed out, or of one on its way to a worker, or left to one worker, or
   tested; in one of these places only, and counted 1 in `tested` exactly if in
   none of the others. `HistoriesMove` shows that a step moves a beginning from
   the root to a channel or one history from a worker to `tested`, or nothing;
   the protocol is needed for it, because a worker that was given a second
   beginning with histories left would lose them. At the end nothing is left or
   under way, so that `EveryHistoryTestedOnce` follows.

3. `Totals`: for the number of histories, for their outcomes and for the failures
   alike, what the root has received, what the workers still hold and what their
   messages carry add up to what the histories tested so far are due. A worker's
   own count is out of date while it tells of a history, and used up once sent.
   With `AllReceived` nothing is held or carried at the end, and with
   `EveryHistoryTestedOnce` each history is due once: `ReportAddsUp`.

They rest on `ProgramsAssumption` (there is at least one process) and
`LengthsAssumption` (a history has at least one value). That the beginnings which
`create_inits` makes divide the histories is not assumed but proved, at the
beginning of the same module: `gen_histories` grows all histories in step, `create_inits`
stops it at a level of equally long beginnings that no two of which agree, and
`gen_single`, which continues one of them, goes through the levels below
(`BeginningsDivide`). The generator is a recursive function on lengths, so this is
an induction.

Induction over data is what the library's theorems do not offer, because they take
the predicate as an operator parameter. `InductionLemmas` takes a set instead: a
subset of Nat that has 0 and every successor is Nat, a set of subsets of a finite
set that has the empty set and is closed under adding an element has all of them.
From these it derives that recursive functions on intervals and on the subsets of
a finite set exist, hence the laws of sums that the other modules use. A function
that the model defines by recursion is the CHOOSE of one that satisfies its
equation, so that with the existence its values follow.

`LogComplete` (in `Recorder_proofs`) rests on `SlotIsUnique`, the arithmetic
`2 * (tid * num_ops + i)`: what is in a slot belongs there (`SlotsInPlace`), what
is due is in its slot or in the sorted log (`NoneLost`), and log and slots
together have `2 * num_ops` events a thread (`EventsCounted`), so that nothing is
left over for a second copy. Here the set of threads is finite and at least one
operation long (`ThreadsAssumption`).

`NeverFoundEmpty` (in `TreiberStack_proofs`): if every list passes `list_valid`,
then the adds that took effect less the removals that did, over all threads, are
the nodes on the stack (`Balance`), a sum of which each thread's part is at least
0 and at least 1 while it is in `rmv`. Its hypotheses are what `main` makes sure
of: finitely many threads, each with a list that `list_valid` accepted; the run
`notempty_returns` has such lists. Only with it is `treiber_notempty.cpp`, which
waits for a node, bound to finish.

`Implementations_proofs` first shows how explanations are carried on. If a state
with its operations in progress explains the run so far (`ByNow`), then so it
does after a call, after one of its running calls takes effect, and after the
return of a call with the answer that is its own (`CallExplained`,
`EffectExplained`, `ReturnExplained`). `ByNow` is a closure, computed in as many
rounds as there are threads; that a further round adds nothing takes a count of
the calls that can still take effect. With these lemmas linearizability is shown
by naming one explanation for each state. For `coarse_stack` and `coarse_queue`
it is the contents of the vector or the list, an operation taking effect while
the mutex is held: `CoarseIsCorrect` says that they are linearizable, have no
flaw, and that the queue deletes every node once.

The second part of the module does it for the Michael-Scott queue with its removals
that delete nodes other threads still read. `MSInv` follows the nodes in the order of
linking, q[1], q[2], ..., of which the head is q[h] and the tail q[k]. None of
its parts is inductive alone:

1. `Linked`: q has no node twice, next leads through it to nullptr, the nodes
   before head are the deleted ones, and h <= k: the tail never falls behind the
   head, so that it never points to a deleted node. A removal that would overtake
   the tail must have read head = tail and helped.
2. `Unlinked`: a node made and not linked yet belongs to one add.
3. `EnqThread`, `DeqThread`: what a thread has read tells where in q it was. A
   read may be of a deleted node and yield anything; the invariant says only what
   follows if head, or tail, is still where the thread found it, which is what its
   next check establishes.
4. `MSExplained`: the values after head, with each add in effect once its node is
   linked, explain the run. A removal that finds no successor takes effect at that
   read if its later check of head succeeds; so for *every* set of the removals
   that have just found the queue empty (`FoundEmpty`) there is an explanation in
   which just these took effect.

`MSQueueIsCorrect` is `WrongOnlyByFlaw`, `MSQueueFirstFlaw` the action property
that a step from an unflawed state never follows a wild pointer and never deletes
a node twice, and that an unflawed run's destructor leaves no node: the two
things that can go wrong first are an address used again and a deleted node
written (the table above), and nothing else. The run `implementations` does not
look beyond the first flaw either (`CONSTRAINT Unflawed`). The theorems assume
finitely many threads, and that nullptr and what is read from deleted memory are
no nodes (`PointersAssumption`).

The third part is about `elim_backoff.cpp`. Here a call takes effect in one of two
ways: as it exchanges top (or finds it null), which is also where it returns; or,
if its exchange failed, together with a call of the other kind, when the second of
the two answers the offer of the first, at a time when neither is at the stack.
`ElimInv` follows the nodes on the stack, q[1] the top:

1. `Stacked`: q has no node twice, next leads through it from top to nullptr, and
   none of its nodes is deleted.
2. `Private`: a node not on the stack and not deleted belongs to one push. It is
   what makes the destructor's count come out: a push that met a pop deletes its
   node itself.
3. `ReadsStack`: as long as the node that a pop has read is not deleted, its next
   field is what the pop has read. A push may change next of its own node only,
   hence the part of 2 that says that nobody owns the node read.
4. `ElimSlot`: the slot of the exchanger is empty exactly if nobody waits, at most
   one thread waits, and items never change; so what either thread of a meeting
   will read is the other's value.
5. `ElimExplained`: the values along q explain the run, with each push that has met
   a pop, and each pop that has met a push, in effect (`ElimCallOf`). A push that
   met a push, or a pop a pop, is as if it had not met: it starts again.

When the answer is given two calls take effect in one step, the push first and the
pop at once after it, which leaves the values as they were (`ElimPair`).
`ElimBackoffIsCorrect` is `WrongOnlyByFlaw`, `ElimBackoffFirstFlaw` that the two
flaws of the table are all that can come first and that every node is deleted once.
Together with the same of the other implementations, which delete no node of a
list, that is `EachNodeDeletedOnce`.

The first part of `Verifier_proofs`, and `MCIntervals_proofs`, are about the algebra that the stack
monitor computes with, for every `POSINF` above 2 and lists of any length. `CalculatorInv` only says that
the cover was made from a list in order, and a result by the operation on what was
made: what is to be shown is what three loops compute. Each loop is a fold, the
CHOOSE of a function on sets of positions, so first the functions are shown to
exist (`FoldSteps`) and the folds to go through their steps (`MergedBySteps`,
`IntersectBySteps`). Then each loop has its invariant:

1. The constructor (`MergedInOrder`): the atoms merged so far are closed and
   `Apart`, with an instant between any two, the last of them begins no later than
   any atom to come, and they hold what the atoms read hold. That makes
   `CoverIsUnion` and `CoverHasGaps`. The list must be in order; the code never
   sorts it.
2. `complement()` hands its gaps to the constructor. Those of a list that is
   `Apart` are open at both ends, not empty and do not even overlap in a point, so
   the constructor leaves them as they are (`GapsStayApart`), and an instant is in
   a gap exactly if it is in no atom (`GapsAreTheRest`): `ComplementIsRight`. The
   complement of nothing is made of one gap given twice.
3. `operator*` (`Collects`): what was collected, together with what is held both
   from one cursor on and from the other cursor on, is the intersection; what was
   collected is in order and begins no later than the cursors, because of two
   atoms that overlap only the one that ends first is left behind. The branch
   marked "This should never happen" needs two atoms that neither overlap nor come
   one after the other, which closed ends rule out. At the end one cursor has
   passed its list, and the constructor makes the union of what was collected:
   `IntersectIsRight`.

The rest of `Verifier_proofs`, and `RecordedRun_proofs`, are about the verifier itself. `OkHistoriesAreLinearizable` is
`OkIsLinearizable` for logs of any length, any number of threads and values, and
any answers of the implementation: what is printed OK is linearizable. Like the
other theorems of the module it assumes of the kinds of recording that the times fit below `End` (`KindsAssumption`; in the
code there are 2^64 of them), that no history that needs simplifying removes a
value twice (its hypothesis; without it the statement is false, which the run
`recorded_duplicates` shows), and that `NoVal` is no value (`OptValAssumption`). Linearizability is the search of `Linearizability`,
which is first unfolded into the existence of an order (`LinearizableIs`,
`Orders`), so that the argument is about orders. It goes backwards through the
program; each stage shows that if what it hands on can be ordered, so can what it
was given.

1. `step()` (`StepIsRight`, in `Verifier_proofs` like all about it). A value whose push may come first and whose pop may
   come last can be put around an order of the others, again and again
   (`PruneIsSound`). At a gap of the cover every value is over before or begins
   after, so that orders of the two parts make an order of the whole, and an empty
   pop that meets a gap can go between them. The gaps are what `complement()` and
   `operator*` compute, hence the lemmas of the previous part. `WorklistGoesOn`
   says the same of a round of `do_linearization`: the parts have no value in
   common, and they can be ordered only if the operations of the log can.
2. `add_event()` (`FeedGoesOn`). `AccountsFor` relates the values and empty pops
   kept to the events given so far: they are the operations, each once, but for
   pairs of a push and a pop that overlap, and such a pair can be put anywhere in
   an order (`AccountIsEnough`).
3. `simplify()` and `preprocess()` (`LogIsGiven`). Invariants of the two folds:
   after each event the new thread numbers, indices and values stand for the old
   ones one to one (`SimplifyOK`), a thread number is not given out again while
   its operation runs, and a removal's value is moved to the call it belongs to,
   also if `popmap` still has the position of an earlier one. What is dropped are
   overlapping pairs.
4. The log (`LogOK`): each operation has one call and at most one return, after
   it, and pushes add different values.

The converse goes forwards: a log that can be ordered stays so through each stage,
and no stage raises an error on the way.

1. `simplify()`: if it fails, some removal returns before the push of its value is
   called, and such a log cannot be ordered (`FailedIsWrong`; `PopsHavePushes`). If it does not, the
   result is `Clean`: each removal returns no earlier than the insertion of its
   value, and no value is removed twice. That is the point of simplifying, and the
   invariant of the fold carries it (`KeptAreClean`). What `preprocess()` drops
   from the beginning are overlapping pairs that had returned before anything
   else was called, so they can be left out of an order and put back
   (`StartLeftOut`): `SimplifyingIsEquivalent`.
2. `add_event()`: given events whose calls and returns are paired and whose
   operations are clean, it looks up nothing that is missing (`FeedAccepts`), and
   at the end what it has kept can be ordered if the events could: the values that
   it dropped can be left out of any order (`OrderWithout`).
3. `step()`: a history that can be ordered has no violation (`StepIsComplete`).
   Where an empty pop stands in the order there is an instant of the pop that no
   value covers, so that it meets a gap; and values of which none can be pruned
   have a cover of several pieces. `PartCanBeOrdered`: the parts can be ordered
   if the whole could.

So `WorklistStaysEquivalent`: in every round the log is linearizable if and only
if all histories of the worklist are. `LinearizableHistoriesAreOk` is the second
half of the verdict, for simplified histories, and for others if no push
overlaps the pop of its value, which is what `Clean` asks of them;
`VerdictsAreRight` is both halves for recordings that are all simplified.
`ErrorsHaveCauses`: an internal error needs a history that is not simplified and
not clean.

`RunInv` puts them together, with one clause for each stage, and
`RunInvariant` shows it inductive, with one lemma for each action. Type correctness
(`RunIsTyped`) and `WorklistStaysDisjoint` follow from the same invariant: that a
count of operations never falls below 0 needs what `add_event()` keeps, that a part
holds no empty pop needs what `step()` leaves.

Checked by TLC alone: liveness (`AllReturn`, `Terminates`, `AllFinish`),
`NeverAccused`, `FilesAreExact`, the answers of `hwqueue`, `tsstack`,
`tsstack_unlin`, `elimbackoff` and `backoffelim`, the red-black
tree, whose repair would take an invariant for each kind of rotation, the queue
monitor, the segment algorithm and the automaton.

## Plan

Done, in the order of their importance:

1. Treiber's stack against `AtomicStack`; its proofs.
2. Intervals, cover history, cover monitor: the stack algorithm.
3. The pipeline around it, with recorded and generated histories.
4. The runner's recording, composed with an atomic stack and the verifier; the
   theorem that the log keeps the order of the calls.
5. The other implementations, against the definition of linearizability.
6. The queue monitor over the interval tree, and the segment algorithm, against
   the references.
7. The testers and the automata checker: processes and messages; the proofs that
   nothing is lost and nothing tested twice.

8. Proofs: that the runner loses no event, that the testers' totals add up, that
   the generator's beginnings divide the histories, that no rmv finds the stack of
   valid lists empty, that the implementations under one mutex, the Michael-Scott
   queue and the exchanger's stack answer correctly, that the interval algebra is
   exact, and that the verifier prints OK for the linearizable histories and no
   others.

Left: `WrongOnlyByFlaw` of `elimbackoff.cpp` and `backoffelim.cpp`, which the
lemmas of `Implementations_proofs` are made for; `FilesAreExact`; the parser's
numbering of values.

## Not modelled

- Crash and durability paths of `CoverHistory`, which no program reaches.
- In the segment algorithm, the second phase whose calls are commented out.
- Removal from the red-black tree and `Interval::operator+`, which nothing calls.
- The tree monitor, which `make_monitor` never builds.
- `builder` (an interactive front end that writes one history), `logic` and
  `relation.h` (classes that no program reaches), `backup`.
- Text formats and the numbering of values in the parser, benchmarks, timing and
  printing.
