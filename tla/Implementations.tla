-------------------------- MODULE Implementations --------------------------
(***************************************************************************)
(* The programs run_IMPL that src/tool/CMakeLists.txt builds: the runner's *)
(* threads around one of the implementations, named for its source file.   *)
(* Treiber's stack has a module of its own, TreiberStack.                  *)
(***************************************************************************)
EXTENDS Implementation

CONSTANTS
  Unlocked, Size, MaxItems,
  Impls,   \* the implementations
  Calls(_) \* those of the Programs that are called on each

ASSUME SizeAssumption == Size \in Nat \ {0}
ASSUME MaxItemsAssumption == MaxItems \in Nat

Locked    == INSTANCE LockedObjects
MS        == INSTANCE MSQueue
HW        == INSTANCE HWQueue
TS        == INSTANCE TSStack
Exchanger == INSTANCE ExchangerStack
Scal      == INSTANCE ElimBackoffStack
Collision == INSTANCE CollisionStack

VARIABLE impl  \* the source file

allVars == <<implVars, impl>>

Start(file) ==
  CASE file = "coarse_stack" -> Locked!StackStart
    [] file = "coarse_queue" -> Locked!QueueStart
    [] file = "msqueue" -> MS!Start
    [] file = "hwqueue" -> HW!Start
    [] file = "tsstack" -> TS!Start(TRUE)
    [] file = "tsstack_unlin" -> TS!Start(FALSE)
    [] file = "elim_backoff" -> Exchanger!Start
    [] file = "elimbackoff" -> Scal!Start
    [] file = "backoffelim" -> Collision!Start

Init ==
  /\ impl \in Impls
  /\ ClientInit /\ prog \in Calls(impl)
  /\ ImplementationInit(Start(impl))

ThreadStep(t) ==
  \/ impl = "coarse_stack" /\ Locked!StackStep(t)
  \/ impl = "coarse_queue" /\ Locked!QueueStep(t)
  \/ impl = "msqueue" /\ MS!QueueStep(t)
  \/ impl = "hwqueue" /\ HW!QueueStep(t)
  \/ impl \in {"tsstack", "tsstack_unlin"} /\ TS!StackStep(t)
  \/ impl = "elim_backoff" /\ Exchanger!StackStep(t)
  \/ impl = "elimbackoff" /\ Scal!StackStep(t)
  \/ impl = "backoffelim" /\ Collision!StackStep(t)

\* The other destructors delete no node.
Destroy ==
  \/ impl = "coarse_queue" /\ Locked!DestroyQueue
  \/ impl = "msqueue" /\ MS!Destroy
  \/ impl = "elim_backoff" /\ Exchanger!Destroy

Next == ~crashed /\ ((\E t \in Threads : ThreadStep(t)) \/ Destroy) /\ UNCHANGED impl

Spec == Init /\ [][Next]_allVars

----------------------------------------------------------------------------

\* What the implementations answer is linearizable, whatever the
\* interleaving, as long as none of the things named in flaws has happened;
\* a wrong answer has no other cause.
WrongOnlyByFlaw == explanations = {} => flaws # {}

\* The destructors that delete nodes, and the removals that do, delete every
\* node, and none twice.
NodesAreDeletedOnce ==
  /\ "deleted twice" \notin flaws
  /\ (destroyed /\ flaws = {}) => DOMAIN mem.deleted = DOMAIN mem.next

\* No pointer that was read from deleted memory, and no nullptr, is followed
\* in Michael and Scott's queue: its checks catch them all.
NoWildPointer == "wild pointer" \notin flaws

\* "There should always be a return cell": the assertion in backoffelim's rmv.
AlwaysReturnCell == "assert(p->cell != nullptr)" \notin flaws

\* What comes after a flaw is not looked at.
Unflawed == flaws = {}

=============================================================================
