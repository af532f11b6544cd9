---------------------------- MODULE TreiberStack ----------------------------
(***************************************************************************)
(* Treiber's stack: src/tool/impl/treiber.cpp, and with WaitNonEmpty its   *)
(* variant src/tool/impl/treiber_notempty.cpp, whose rmv spins while the   *)
(* stack is empty.  One action per access to the shared memory: head is a  *)
(* std::atomic pointer, a node's next too, and its val is written by the   *)
(* constructor only.  compare_exchange_weak may fail although head holds   *)
(* the expected pointer.                                                   *)
(*                                                                         *)
(* A node taken off the stack is not deleted, so allocation never returns  *)
(* a node twice: Nodes is the supply of addresses.  The destructor runs    *)
(* when the threads are joined and deletes the nodes reached from head.    *)
(*                                                                         *)
(* chain is a history variable, the nodes from the top to the bottom; no   *)
(* guard reads it.                                                         *)
(***************************************************************************)
EXTENDS RunnerThreads

CONSTANTS
  Nodes,
  Null,         \* nullptr
  WaitNonEmpty  \* TRUE for treiber_notempty.cpp

ASSUME NullAssumption == Null \notin Nodes
ASSUME WaitNonEmptyAssumption == WaitNonEmpty \in BOOLEAN

VARIABLES
  head,       \* state_t::head
  next, val,  \* the fields of the nodes
  allocated,  \* the nodes that new has returned
  freed,      \* the nodes that delete was called on
  cursor,     \* the destructor's n, or Null before and after its walk
  destroyed,  \* the destructor was called
  pc,         \* thread -> where it is in add or rmv
  oh, nh,     \* thread -> the local variables of that name
  arg, res,   \* thread -> argument of add, result of rmv
  chain

memory == <<head, next, val, allocated>>
destructor == <<freed, cursor, destroyed>>
vars == <<clientVars, memory, destructor, pc, oh, nh, arg, res, chain>>

Locations == {"idle", "add_load", "add_link", "add_cas",
              "rmv_load", "rmv_next", "rmv_cas", "rmv_val", "done"}

Init ==
  /\ ClientInit
  /\ head = Null
  /\ next = [n \in Nodes |-> Null]
  /\ val = [n \in Nodes |-> NoVal]
  /\ allocated = {} /\ freed = {} /\ cursor = Null /\ destroyed = FALSE
  /\ pc = [t \in Threads |-> "idle"]
  /\ oh = [t \in Threads |-> Null]
  /\ nh = [t \in Threads |-> Null]
  /\ arg = [t \in Threads |-> NoVal]
  /\ res = [t \in Threads |-> NoVal]
  /\ chain = <<>>

GoTo(t, location) == pc' = [pc EXCEPT ![t] = location]

----------------------------------------------------------------------------
(* add *)

\* The call, up to and with new node_t(v).
CallAdd(t) ==
  /\ pc[t] = "idle" /\ ~destroyed
  /\ ClientAdd(t)
  /\ arg' = [arg EXCEPT ![t] = NextValue(t)]
  /\ \E n \in Nodes \ allocated :
       /\ allocated' = allocated \cup {n}
       /\ val' = [val EXCEPT ![n] = NextValue(t)]
       /\ next' = [next EXCEPT ![n] = Null]
       /\ nh' = [nh EXCEPT ![t] = n]
  /\ GoTo(t, "add_load")
  /\ UNCHANGED <<head, destructor, oh, res, chain>>

AddLoad(t) ==
  /\ pc[t] = "add_load"
  /\ oh' = [oh EXCEPT ![t] = head]
  /\ GoTo(t, "add_link")
  /\ UNCHANGED <<clientVars, memory, destructor, nh, arg, res, chain>>

AddLink(t) ==
  /\ pc[t] = "add_link"
  /\ next' = [next EXCEPT ![nh[t]] = oh[t]]
  /\ GoTo(t, "add_cas")
  /\ UNCHANGED <<clientVars, head, val, allocated, destructor, oh, nh, arg,
                 res, chain>>

\* Mutants of AddCas: a store instead of an exchange; the loop goes on after
\* a successful exchange.
AddStore(t) ==
  /\ pc[t] = "add_cas"
  /\ head' = nh[t]
  /\ chain' = <<nh[t]>> \o chain
  /\ GoTo(t, "done")
  /\ UNCHANGED <<clientVars, next, val, allocated, destructor, oh, nh, arg,
                 res>>
AddCasLoops(t) ==
  /\ pc[t] = "add_cas"
  /\ head = oh[t]
  /\ head' = nh[t]
  /\ chain' = <<nh[t]>> \o chain
  /\ GoTo(t, "add_load")
  /\ UNCHANGED <<clientVars, next, val, allocated, destructor, oh, nh, arg,
                 res>>

AddCas(t) ==
  /\ pc[t] = "add_cas"
  /\ head = oh[t]
  /\ head' = nh[t]
  /\ chain' = <<nh[t]>> \o chain
  /\ GoTo(t, "done")
  /\ UNCHANGED <<clientVars, next, val, allocated, destructor, oh, nh, arg,
                 res>>

\* Mutants of AddRetry: the node is not linked again to the head that was
\* found; head is not read again.
AddRetryUnlinked(t) ==
  /\ pc[t] = "add_cas"
  /\ oh' = [oh EXCEPT ![t] = head]
  /\ UNCHANGED <<clientVars, memory, destructor, pc, nh, arg, res, chain>>
AddRetryStale(t) == pc[t] = "add_cas" /\ UNCHANGED vars

\* The exchange failed, or failed spuriously; it stores head in oh.
AddRetry(t) ==
  /\ pc[t] = "add_cas"
  /\ oh' = [oh EXCEPT ![t] = head]
  /\ GoTo(t, "add_load")
  /\ UNCHANGED <<clientVars, memory, destructor, nh, arg, res, chain>>

----------------------------------------------------------------------------
(* rmv *)

CallRmv(t) ==
  /\ pc[t] = "idle" /\ ~destroyed
  /\ ClientRmv(t)
  /\ GoTo(t, "rmv_load")
  /\ UNCHANGED <<memory, destructor, oh, nh, arg, res, chain>>

\* Load head.  While it is nullptr, treiber_notempty.cpp loads it again.
RmvLoad(t) ==
  /\ pc[t] = "rmv_load"
  /\ head # Null \/ WaitNonEmpty
  /\ oh' = [oh EXCEPT ![t] = head]
  /\ GoTo(t, IF head = Null THEN "rmv_load" ELSE "rmv_next")
  /\ UNCHANGED <<clientVars, memory, destructor, nh, arg, res, chain>>

\* Mutant of RmvEmpty: the decision rests on the last pointer read.
RmvEmptyStale(t) ==
  /\ pc[t] = "rmv_load"
  /\ oh[t] = Null /\ ~WaitNonEmpty
  /\ res' = [res EXCEPT ![t] = NoVal]
  /\ GoTo(t, "done")
  /\ UNCHANGED <<clientVars, memory, destructor, oh, nh, arg, chain>>

\* The load finds nullptr: treiber.cpp returns {}.
RmvEmpty(t) ==
  /\ pc[t] = "rmv_load"
  /\ head = Null /\ ~WaitNonEmpty
  /\ oh' = [oh EXCEPT ![t] = head]
  /\ res' = [res EXCEPT ![t] = NoVal]
  /\ GoTo(t, "done")
  /\ UNCHANGED <<clientVars, memory, destructor, nh, arg, chain>>

RmvNext(t) ==
  /\ pc[t] = "rmv_next"
  /\ nh' = [nh EXCEPT ![t] = next[oh[t]]]
  /\ GoTo(t, "rmv_cas")
  /\ UNCHANGED <<clientVars, memory, destructor, oh, arg, res, chain>>

RmvCas(t) ==
  /\ pc[t] = "rmv_cas"
  /\ head = oh[t]
  /\ head' = nh[t]
  /\ chain' = Tail(chain)
  /\ GoTo(t, "rmv_val")
  /\ UNCHANGED <<clientVars, next, val, allocated, destructor, oh, nh, arg,
                 res>>

RmvRetry(t) ==
  /\ pc[t] = "rmv_cas"
  /\ oh' = [oh EXCEPT ![t] = head]
  /\ GoTo(t, "rmv_load")
  /\ UNCHANGED <<clientVars, memory, destructor, nh, arg, res, chain>>

RmvVal(t) ==
  /\ pc[t] = "rmv_val"
  /\ res' = [res EXCEPT ![t] = val[oh[t]]]
  /\ GoTo(t, "done")
  /\ UNCHANGED <<clientVars, memory, destructor, oh, nh, arg, chain>>

Return(t) ==
  /\ pc[t] = "done"
  /\ arg' = [arg EXCEPT ![t] = NoVal]
  /\ res' = [res EXCEPT ![t] = NoVal]
  /\ GoTo(t, "idle")
  /\ UNCHANGED <<clientVars, memory, destructor, oh, nh, chain>>

----------------------------------------------------------------------------
(* ~ADTImpl, called by main() when every thread is joined. *)

Joined == \A t \in Threads : pc[t] = "idle" /\ prog[t] = <<>>

\* Mutant of Destroy: main() does not wait for the threads.
DestroyEarly ==
  /\ ~destroyed
  /\ destroyed' = TRUE
  /\ cursor' = head
  /\ UNCHANGED <<clientVars, memory, freed, pc, oh, nh, arg, res, chain>>

Destroy ==
  /\ Joined /\ ~destroyed
  /\ destroyed' = TRUE
  /\ cursor' = head
  /\ UNCHANGED <<clientVars, memory, freed, pc, oh, nh, arg, res, chain>>

DeleteNode ==
  /\ cursor # Null
  /\ freed' = freed \cup {cursor}
  /\ cursor' = next[cursor]
  /\ UNCHANGED <<clientVars, memory, destroyed, pc, oh, nh, arg, res, chain>>

----------------------------------------------------------------------------

Cas(t) == AddCas(t) \/ RmvCas(t)

Step(t) ==
  \/ CallAdd(t) \/ AddLoad(t) \/ AddLink(t) \/ AddCas(t) \/ AddRetry(t)
  \/ CallRmv(t) \/ RmvLoad(t) \/ RmvEmpty(t) \/ RmvNext(t) \/ RmvCas(t)
  \/ RmvRetry(t) \/ RmvVal(t) \/ Return(t)

Next == (\E t \in Threads : Step(t)) \/ Destroy \/ DeleteNode

Spec == Init /\ [][Next]_vars

(***************************************************************************)
(* Fairness: the operating system runs every thread, main() included, and  *)
(* compare_exchange_weak does not fail spuriously for ever: an exchange    *)
(* that finds the expected pointer again and again succeeds once.          *)
(***************************************************************************)
FairSpec ==
  /\ Spec
  /\ \A t \in Threads : WF_vars(Step(t)) /\ SF_vars(Cas(t))
  /\ WF_vars(Destroy) /\ WF_vars(DeleteNode)

----------------------------------------------------------------------------
(* The abstraction: what each state of the memory stands for. *)

AbsStack == [i \in 1 .. Len(chain) |-> val[chain[i]]]

PhaseAt(location) ==
  CASE location = "idle" -> "idle"
    [] location \in {"add_load", "add_link", "add_cas"} -> "add"
    [] location \in {"rmv_load", "rmv_next", "rmv_cas"} -> "rmv"
    [] location \in {"rmv_val", "done"} -> "done"

AbsPhase == [t \in Threads |-> PhaseAt(pc[t])]

AbsRes ==
  [t \in Threads |-> IF pc[t] = "rmv_val" THEN val[oh[t]] ELSE res[t]]

Abstract == INSTANCE AtomicStack
  WITH stack <- AbsStack, phase <- AbsPhase, res <- AbsRes

\* Every execution is one of the atomic stack: add takes effect at its
\* successful exchange, rmv at its successful exchange or, if it answers
\* empty, at its load of nullptr.
AbstractSpec == Abstract!Spec

----------------------------------------------------------------------------
(* Invariants. *)

\* The types of the variables.
TypeOK ==
  /\ ClientTypeOK
  /\ head \in Nodes \cup {Null}
  /\ next \in [Nodes -> Nodes \cup {Null}]
  /\ val \in [Nodes -> Values \cup {NoVal}]
  /\ allocated \subseteq Nodes
  /\ freed \subseteq Nodes
  /\ cursor \in Nodes \cup {Null}
  /\ destroyed \in BOOLEAN
  /\ pc \in [Threads -> Locations]
  /\ oh \in [Threads -> Nodes \cup {Null}]
  /\ nh \in [Threads -> Nodes \cup {Null}]
  /\ arg \in [Threads -> Values \cup {NoVal}]
  /\ res \in [Threads -> Values \cup {NoVal}]
  /\ chain \in Seq(Nodes)

\* The memory holds the stack: head and the next fields lead through the
\* nodes of chain in order and end in nullptr; the nodes were allocated and
\* none is on the stack twice.
MemoryHoldsStack ==
  /\ head = IF chain = <<>> THEN Null ELSE chain[1]
  /\ \A i \in 1 .. Len(chain) :
       /\ next[chain[i]] = IF i = Len(chain) THEN Null ELSE chain[i + 1]
       /\ chain[i] \in allocated
       /\ \A j \in 1 .. Len(chain) : chain[i] = chain[j] => i = j

\* The node of a running add is its own: not on the stack, not the node of
\* another add, not a node that a rmv holds; it carries the argument.  Only
\* its owner writes to it, so the next field of a published node is constant.
InAdd(t) == pc[t] \in {"add_load", "add_link", "add_cas"}
InRmv(t) == pc[t] \in {"rmv_next", "rmv_cas", "rmv_val"}

NewNodeIsPrivate ==
  \A t \in Threads : InAdd(t) =>
    /\ nh[t] \in allocated
    /\ val[nh[t]] = arg[t]
    /\ \A i \in 1 .. Len(chain) : chain[i] # nh[t]
    /\ \A u \in Threads : /\ (u # t /\ InAdd(u)) => nh[u] # nh[t]
                          /\ InRmv(u) => oh[u] # nh[t]

\* What a compare-exchange is about to install is still right if head still
\* holds the pointer it expects, however old that pointer is: no ABA.
CasInstallsSuccessor ==
  \A t \in Threads :
    /\ pc[t] = "add_cas" => next[nh[t]] = oh[t]
    /\ pc[t] = "rmv_cas" => nh[t] = next[oh[t]]
    /\ InRmv(t) => oh[t] \in allocated

\* The inductive invariant.
IInv ==
  TypeOK /\ MemoryHoldsStack /\ NewNodeIsPrivate /\ CasInstallsSuccessor

\* The destructor deletes no node twice and leaves none of the stack behind.
DestructorIsExact ==
  /\ cursor \notin freed
  /\ (destroyed /\ cursor = Null) =>
       freed = {chain[i] : i \in 1 .. Len(chain)}

\* With lists that list_valid accepts no rmv finds the stack empty, whatever
\* the interleaving.
NeverEmpty ==
  \A t \in Threads : pc[t] = "rmv_load" => head # Null

----------------------------------------------------------------------------
(* Liveness. *)

\* Every thread gets through its list and the destructor through the nodes.
AllReturn == <>(destroyed /\ cursor = Null)

=============================================================================
