------------------------ MODULE TreiberStack_proofs ------------------------
(***************************************************************************)
(* TreiberStack for any number of threads, nodes and operations: the       *)
(* inductive invariant IInv and the refinement of AtomicStack.             *)
(***************************************************************************)
EXTENDS TreiberStack, InductionLemmas, SequenceTheorems, TLAPS

\* No thread has called anything, nothing was allocated: IInv holds at first.
LEMMA InitIInv == Init => IInv
<1>. SUFFICES ASSUME Init PROVE IInv
  OBVIOUS
<1>. USE DEF Init, ClientInit
<1>1. ClientTypeOK
  BY ProgramsAssumption, NumOpsAssumption DEF ClientTypeOK
<1>2. TypeOK
  <2>1. pc \in [Threads -> Locations]
    BY DEF Locations
  <2>2. chain \in Seq(Nodes)
    OBVIOUS
  <2>3. val \in [Nodes -> Values \cup {NoVal}]
    OBVIOUS
  <2>. QED
    BY <1>1, <2>1, <2>2, <2>3 DEF TypeOK
<1>3. MemoryHoldsStack
  BY DEF MemoryHoldsStack
<1>4. NewNodeIsPrivate /\ CasInstallsSuccessor
  BY DEF NewNodeIsPrivate, CasInstallsSuccessor, InAdd, InRmv
<1>. QED
  BY <1>2, <1>3, <1>4 DEF IInv

\* The client's steps keep its lists and its count of values in their range,
\* and the next value to add is one of Values.
LEMMA ClientStep ==
  ASSUME ClientTypeOK, NEW t \in Threads, ClientAdd(t) \/ ClientRmv(t)
  PROVE  ClientTypeOK' /\ (ClientAdd(t) => NextValue(t) \in Values)
<1>. USE NumOpsAssumption DEF ClientTypeOK
<1>1. CASE ClientAdd(t)
  <2>1. prog[t] \in Seq({1, -1}) /\ prog[t] # <<>> /\ added[t] \in Nat
    BY <1>1 DEF ClientAdd
  <2>2. Tail(prog[t]) \in Seq({1, -1}) /\ Len(Tail(prog[t])) = Len(prog[t]) - 1
        /\ Len(prog[t]) \in Nat /\ Len(prog[t]) >= 1
    BY <2>1
  <2>3. ClientTypeOK'
    BY <1>1, <2>1, <2>2 DEF ClientAdd
  <2>4. NextValue(t) \in Values
    BY <2>1, <2>2 DEF NextValue, Values
  <2>. QED
    BY <2>3, <2>4
<1>2. CASE ClientRmv(t)
  <2>1. prog[t] \in Seq({1, -1}) /\ prog[t] # <<>>
    BY <1>2 DEF ClientRmv
  <2>2. Tail(prog[t]) \in Seq({1, -1}) /\ Len(Tail(prog[t])) = Len(prog[t]) - 1
        /\ Len(prog[t]) \in Nat
    BY <2>1
  <2>3. ClientTypeOK'
    BY <1>2, <2>1, <2>2 DEF ClientRmv
  <2>4. ~ClientAdd(t)
    BY <1>2 DEF ClientRmv, ClientAdd
  <2>. QED
    BY <2>3, <2>4
<1>. QED
  BY <1>1, <1>2

----------------------------------------------------------------------------
(* The steps of add. *)

LEMMA CallAddIInv ==
  ASSUME IInv, NEW t \in Threads, CallAdd(t) PROVE IInv'
<1>. USE DEF CallAdd, GoTo, destructor
<1>1. PICK n \in Nodes \ allocated :
        /\ allocated' = allocated \cup {n}
        /\ val' = [val EXCEPT ![n] = NextValue(t)]
        /\ next' = [next EXCEPT ![n] = Null]
        /\ nh' = [nh EXCEPT ![t] = n]
  OBVIOUS
<1>2. ClientTypeOK' /\ NextValue(t) \in Values
  BY ClientStep DEF IInv, TypeOK
<1>3. TypeOK'
  BY <1>1, <1>2 DEF IInv, TypeOK, Locations
<1>4. MemoryHoldsStack'
  BY <1>1 DEF IInv, TypeOK, MemoryHoldsStack
<1>5. NewNodeIsPrivate'
  BY <1>1 DEF IInv, TypeOK, MemoryHoldsStack, NewNodeIsPrivate,
              CasInstallsSuccessor, InAdd, InRmv
<1>6. CasInstallsSuccessor'
  BY <1>1 DEF IInv, TypeOK, NewNodeIsPrivate, CasInstallsSuccessor,
              InAdd, InRmv
<1>. QED
  BY <1>3, <1>4, <1>5, <1>6 DEF IInv

LEMMA AddLoadIInv ==
  ASSUME IInv, NEW t \in Threads, AddLoad(t) \/ AddRetry(t) PROVE IInv'
<1>. USE DEF AddLoad, AddRetry, GoTo, clientVars, memory, destructor
<1>1. TypeOK'
  BY DEF IInv, TypeOK, ClientTypeOK, Locations
<1>2. MemoryHoldsStack'
  BY DEF IInv, MemoryHoldsStack
<1>3. NewNodeIsPrivate' /\ CasInstallsSuccessor'
  BY DEF IInv, TypeOK, NewNodeIsPrivate, CasInstallsSuccessor, InAdd, InRmv
<1>. QED
  BY <1>1, <1>2, <1>3 DEF IInv

LEMMA AddLinkIInv ==
  ASSUME IInv, NEW t \in Threads, AddLink(t) PROVE IInv'
<1>. USE DEF AddLink, GoTo, clientVars, destructor
<1>1. TypeOK'
  BY DEF IInv, TypeOK, ClientTypeOK, Locations
<1>2. MemoryHoldsStack'
  BY DEF IInv, TypeOK, MemoryHoldsStack, NewNodeIsPrivate, InAdd
<1>3. NewNodeIsPrivate'
  BY DEF IInv, TypeOK, NewNodeIsPrivate, InAdd, InRmv
<1>4. CasInstallsSuccessor'
  BY DEF IInv, TypeOK, NewNodeIsPrivate, CasInstallsSuccessor, InAdd, InRmv
<1>. QED
  BY <1>1, <1>2, <1>3, <1>4 DEF IInv

LEMMA AddCasIInv ==
  ASSUME IInv, NEW t \in Threads, AddCas(t) PROVE IInv'
<1>1. /\ pc[t] = "add_cas" /\ pc' = [pc EXCEPT ![t] = "done"]
      /\ head' = nh[t]
      /\ UNCHANGED <<clientVars, next, val, allocated, destructor, oh, nh,
                     arg, res>>
  BY DEF AddCas, GoTo
<1>2. nh[t] \in allocated /\ nh[t] \in Nodes /\ next[nh[t]] = head
  BY DEF AddCas, IInv, TypeOK, NewNodeIsPrivate, CasInstallsSuccessor, InAdd
<1>3. chain \in Seq(Nodes) /\ chain' = <<nh[t]>> \o chain /\ Len(chain) \in Nat
  BY DEF AddCas, IInv, TypeOK
<1>4. /\ chain' \in Seq(Nodes)
      /\ Len(chain') = Len(chain) + 1
      /\ chain'[1] = nh[t]
      /\ \A i \in 2 .. Len(chain') : chain'[i] = chain[i - 1]
  BY <1>2, <1>3
<1>5. \A i \in 1 .. Len(chain') :
        i # 1 => i - 1 \in 1 .. Len(chain) /\ chain'[i] = chain[i - 1]
  BY <1>3, <1>4
<1>6. TypeOK'
  BY <1>1, <1>2, <1>4
  DEF IInv, TypeOK, ClientTypeOK, Locations, clientVars, destructor
<1>7. MemoryHoldsStack'
  <2>1. \A i \in 1 .. Len(chain) : chain[i] # nh[t]
    BY <1>1 DEF IInv, NewNodeIsPrivate, InAdd
  <2>2. chain' # <<>>
    BY <1>3, <1>4
  <2>3. ASSUME NEW i \in 1 .. Len(chain')
        PROVE  /\ next[chain'[i]] = IF i = Len(chain') THEN Null
                                    ELSE chain'[i + 1]
               /\ chain'[i] \in allocated
    BY <1>2, <1>3, <1>4, <1>5 DEF IInv, MemoryHoldsStack
  <2>4. ASSUME NEW i \in 1 .. Len(chain'), NEW j \in 1 .. Len(chain'),
               chain'[i] = chain'[j]
        PROVE  i = j
    BY <1>3, <1>4, <1>5, <2>1, <2>4 DEF IInv, MemoryHoldsStack
  <2>. QED
    BY <1>1, <1>4, <2>2, <2>3, <2>4 DEF MemoryHoldsStack
<1>8. NewNodeIsPrivate'
  <2>1. ASSUME NEW u \in Threads, u # t, InAdd(u),
               NEW i \in 1 .. Len(chain')
        PROVE  chain'[i] # nh[u]
    BY <1>1, <1>4, <1>5, <2>1 DEF IInv, NewNodeIsPrivate, InAdd
  <2>. QED
    BY <1>1, <2>1 DEF IInv, TypeOK, NewNodeIsPrivate, InAdd, InRmv
<1>9. CasInstallsSuccessor'
  BY <1>1 DEF IInv, TypeOK, CasInstallsSuccessor, InRmv
<1>. QED
  BY <1>6, <1>7, <1>8, <1>9 DEF IInv

----------------------------------------------------------------------------
(* The steps of rmv, and Return. *)

LEMMA CallRmvIInv ==
  ASSUME IInv, NEW t \in Threads, CallRmv(t) PROVE IInv'
<1>. USE DEF CallRmv, GoTo, memory, destructor
<1>1. ClientTypeOK'
  BY ClientStep DEF IInv, TypeOK
<1>2. TypeOK'
  BY <1>1 DEF IInv, TypeOK, Locations
<1>3. MemoryHoldsStack'
  BY DEF IInv, MemoryHoldsStack
<1>4. NewNodeIsPrivate' /\ CasInstallsSuccessor'
  BY DEF IInv, TypeOK, NewNodeIsPrivate, CasInstallsSuccessor, InAdd, InRmv
<1>. QED
  BY <1>2, <1>3, <1>4 DEF IInv

\* A pointer loaded from head is on the stack, hence no add's own node.
LEMMA RmvLoadIInv ==
  ASSUME IInv, NEW t \in Threads, RmvLoad(t) \/ RmvEmpty(t)
  PROVE  IInv'
<1>. USE DEF RmvLoad, RmvEmpty, GoTo, clientVars, memory, destructor
<1>1. TypeOK'
  BY DEF IInv, TypeOK, ClientTypeOK, Locations
<1>2. MemoryHoldsStack'
  BY DEF IInv, MemoryHoldsStack
<1>3. head # Null => /\ head \in allocated
                     /\ \E i \in 1 .. Len(chain) : chain[i] = head
  BY DEF IInv, TypeOK, MemoryHoldsStack
<1>4. NewNodeIsPrivate' /\ CasInstallsSuccessor'
  BY <1>3 DEF IInv, TypeOK, NewNodeIsPrivate, CasInstallsSuccessor,
              InAdd, InRmv
<1>. QED
  BY <1>1, <1>2, <1>4 DEF IInv

LEMMA RmvNextIInv ==
  ASSUME IInv, NEW t \in Threads, RmvNext(t) PROVE IInv'
<1>. USE DEF RmvNext, GoTo, clientVars, memory, destructor
<1>1. oh[t] \in Nodes
  BY DEF IInv, TypeOK, CasInstallsSuccessor, InRmv
<1>2. TypeOK'
  BY <1>1 DEF IInv, TypeOK, ClientTypeOK, Locations
<1>3. MemoryHoldsStack'
  BY DEF IInv, MemoryHoldsStack
<1>4. NewNodeIsPrivate' /\ CasInstallsSuccessor'
  BY DEF IInv, TypeOK, NewNodeIsPrivate, CasInstallsSuccessor, InAdd, InRmv
<1>. QED
  BY <1>2, <1>3, <1>4 DEF IInv

\* A successful exchange takes off the first node of chain and installs the
\* second one.
LEMMA RmvCasIInv ==
  ASSUME IInv, NEW t \in Threads, RmvCas(t) PROVE IInv'
<1>. USE DEF RmvCas, GoTo, clientVars, destructor
<1>1. oh[t] \in Nodes /\ nh[t] = next[oh[t]] /\ oh[t] # Null
  BY NullAssumption DEF IInv, TypeOK, CasInstallsSuccessor, InRmv
<1>2. chain # <<>> /\ chain[1] = oh[t] /\ Len(chain) \in Nat /\ Len(chain) >= 1
  BY <1>1 DEF IInv, TypeOK, MemoryHoldsStack
<1>3. /\ chain' \in Seq(Nodes)
      /\ Len(chain') = Len(chain) - 1
      /\ \A i \in 1 .. Len(chain') : chain'[i] = chain[i + 1]
  BY <1>2 DEF IInv, TypeOK
<1>4. TypeOK'
  BY <1>1, <1>3 DEF IInv, TypeOK, ClientTypeOK, Locations
<1>5. MemoryHoldsStack'
  BY <1>1, <1>2, <1>3 DEF IInv, TypeOK, MemoryHoldsStack
<1>6. NewNodeIsPrivate'
  BY <1>2, <1>3 DEF IInv, TypeOK, NewNodeIsPrivate, InAdd, InRmv
<1>7. CasInstallsSuccessor'
  BY DEF IInv, TypeOK, CasInstallsSuccessor, InRmv
<1>. QED
  BY <1>4, <1>5, <1>6, <1>7 DEF IInv

LEMMA RmvRetryIInv ==
  ASSUME IInv, NEW t \in Threads, RmvRetry(t) PROVE IInv'
<1>. USE DEF RmvRetry, GoTo, clientVars, memory, destructor
<1>1. TypeOK'
  BY DEF IInv, TypeOK, ClientTypeOK, Locations
<1>2. MemoryHoldsStack'
  BY DEF IInv, MemoryHoldsStack
<1>3. NewNodeIsPrivate' /\ CasInstallsSuccessor'
  BY DEF IInv, TypeOK, NewNodeIsPrivate, CasInstallsSuccessor, InAdd, InRmv
<1>. QED
  BY <1>1, <1>2, <1>3 DEF IInv

LEMMA RmvValIInv ==
  ASSUME IInv, NEW t \in Threads, RmvVal(t) \/ Return(t) PROVE IInv'
<1>. USE DEF RmvVal, Return, GoTo, clientVars, memory, destructor
<1>1. RmvVal(t) => oh[t] \in Nodes
  BY DEF IInv, TypeOK, CasInstallsSuccessor, InRmv
<1>2. TypeOK'
  BY <1>1 DEF IInv, TypeOK, ClientTypeOK, Locations
<1>3. MemoryHoldsStack'
  BY DEF IInv, MemoryHoldsStack
<1>4. NewNodeIsPrivate' /\ CasInstallsSuccessor'
  BY DEF IInv, TypeOK, NewNodeIsPrivate, CasInstallsSuccessor, InAdd, InRmv
<1>. QED
  BY <1>2, <1>3, <1>4 DEF IInv

----------------------------------------------------------------------------

LEMMA DestructorIInv ==
  ASSUME IInv, Destroy \/ DeleteNode \/ UNCHANGED vars PROVE IInv'
<1>. USE DEF Destroy, DeleteNode, vars, clientVars, memory, destructor
<1>1. TypeOK'
  BY DEF IInv, TypeOK, ClientTypeOK
<1>2. MemoryHoldsStack'
  BY DEF IInv, MemoryHoldsStack
<1>3. NewNodeIsPrivate' /\ CasInstallsSuccessor'
  BY DEF IInv, NewNodeIsPrivate, CasInstallsSuccessor, InAdd, InRmv
<1>. QED
  BY <1>1, <1>2, <1>3 DEF IInv

LEMMA NextIInv == IInv /\ [Next]_vars => IInv'
<1>. SUFFICES ASSUME IInv, [Next]_vars PROVE IInv'
  OBVIOUS
<1>1. ASSUME NEW t \in Threads, Step(t) PROVE IInv'
  BY <1>1, CallAddIInv, AddLoadIInv, AddLinkIInv, AddCasIInv, CallRmvIInv,
     RmvLoadIInv, RmvNextIInv, RmvCasIInv, RmvRetryIInv, RmvValIInv DEF Step
<1>. QED
  BY <1>1, DestructorIInv DEF Next

\* In every reachable state the memory holds the stack in order, the nodes
\* being added are private, and what the exchanges of add and rmv install is
\* right, for any number of threads, whatever lists they are given.
THEOREM InvariantHolds == Spec => []IInv
<1>. QED
  BY InitIInv, NextIInv, PTL DEF Spec

\* The type invariant, from the inductive one.
THEOREM TypeCorrect == Spec => []TypeOK
<1>1. IInv => TypeOK
  BY DEF IInv
<1>. QED
  BY <1>1, InvariantHolds, PTL

\* head and the next fields always spell the nodes of the stack.
THEOREM MemoryCorrect == Spec => []MemoryHoldsStack
<1>1. IInv => MemoryHoldsStack
  BY DEF IInv
<1>. QED
  BY <1>1, InvariantHolds, PTL

\* A node that is being added is seen by no other thread.
THEOREM NewNodesPrivate == Spec => []NewNodeIsPrivate
<1>1. IInv => NewNodeIsPrivate
  BY DEF IInv
<1>. QED
  BY <1>1, InvariantHolds, PTL

\* A compare-exchange that succeeds installs the right pointer: no ABA.
THEOREM NoAba == Spec => []CasInstallsSuccessor
<1>1. IInv => CasInstallsSuccessor
  BY DEF IInv
<1>. QED
  BY <1>1, InvariantHolds, PTL

----------------------------------------------------------------------------
(* Refinement: each step is a step of AtomicStack or leaves its state as   *)
(* it is.                                                                  *)

LEMMA InitAbstract == Init => Abstract!Init
<1>. SUFFICES ASSUME Init PROVE Abstract!Init
  OBVIOUS
<1>1. AbsStack = <<>>
  BY DEF Init, AbsStack
<1>2. AbsPhase = [t \in Threads |-> "idle"]
  BY DEF Init, AbsPhase, PhaseAt
<1>3. AbsRes = [t \in Threads |-> NoVal]
  BY DEF Init, AbsRes
<1>. QED
  BY <1>1, <1>2, <1>3 DEF Init, Abstract!Init

\* A step that moves one thread changes the phase of that thread only.
LEMMA PhaseStep ==
  ASSUME TypeOK, NEW t \in Threads, NEW l \in Locations,
         pc' = [pc EXCEPT ![t] = l]
  PROVE  /\ AbsPhase' = [AbsPhase EXCEPT ![t] = PhaseAt(l)]
         /\ AbsPhase[t] = PhaseAt(pc[t])
  BY DEF TypeOK, AbsPhase

\* Mapping a function over a sequence, an element at its front, its tail.
LEMMA MapSeq ==
  ASSUME NEW S, NEW T, NEW s \in Seq(S), NEW f \in [S -> T]
  PROVE  LET m == [i \in 1 .. Len(s) |-> f[s[i]]]
         IN  /\ m \in Seq(T) /\ Len(m) = Len(s)
             /\ \A i \in 1 .. Len(s) : m[i] = f[s[i]]
<1>1. Len(s) \in Nat /\ \A i \in 1 .. Len(s) : s[i] \in S
  BY ElementOfSeq, LenProperties
<1>2. [i \in 1 .. Len(s) |-> f[s[i]]] \in [1 .. Len(s) -> T]
  BY <1>1
<1>3. [i \in 1 .. Len(s) |-> f[s[i]]] \in Seq(T)
  BY <1>1, <1>2, SeqDef
<1>. QED
  BY <1>1, <1>3

LEMMA MapFront ==
  ASSUME NEW S, NEW T, NEW s \in Seq(S), NEW f \in [S -> T], NEW x \in S
  PROVE  LET r == <<x>> \o s
         IN  [i \in 1 .. Len(r) |-> f[r[i]]]
               = <<f[x]>> \o [i \in 1 .. Len(s) |-> f[s[i]]]
<1>. DEFINE r == <<x>> \o s
            ms == [i \in 1 .. Len(s) |-> f[s[i]]]
            mr == [i \in 1 .. Len(r) |-> f[r[i]]]
            rhs == <<f[x]>> \o ms
<1>1. <<x>> \in Seq(S) /\ <<f[x]>> \in Seq(T) /\ Len(s) \in Nat
      /\ Len(<<x>>) = 1 /\ Len(<<f[x]>>) = 1
  OBVIOUS
<1>2. /\ r \in Seq(S) /\ Len(r) = 1 + Len(s)
      /\ \A i \in 1 .. 1 + Len(s) : r[i] = IF i <= 1 THEN <<x>>[i] ELSE s[i - 1]
  BY <1>1, ConcatProperties
<1>3. ms \in Seq(T) /\ Len(ms) = Len(s) /\ \A i \in 1 .. Len(s) : ms[i] = f[s[i]]
  BY MapSeq
<1>. HIDE DEF r, ms
<1>4. mr \in Seq(T) /\ Len(mr) = Len(r) /\ \A i \in 1 .. Len(r) : mr[i] = f[r[i]]
  BY <1>2, MapSeq
<1>5. /\ rhs \in Seq(T) /\ Len(rhs) = 1 + Len(s)
      /\ \A i \in 1 .. 1 + Len(s) :
           rhs[i] = IF i <= 1 THEN <<f[x]>>[i] ELSE ms[i - 1]
  BY <1>1, <1>3, ConcatProperties
<1>. HIDE DEF mr, rhs
<1>6. ASSUME NEW i \in 1 .. Len(mr) PROVE mr[i] = rhs[i]
  <2>1. CASE i = 1
    BY <1>1, <1>2, <1>4, <1>5, <2>1
  <2>2. CASE i # 1
    <3>1. i \in 1 .. 1 + Len(s) /\ ~(i <= 1) /\ i - 1 \in 1 .. Len(s)
      BY <1>1, <1>2, <1>4, <2>2
    <3>. QED
      BY <1>2, <1>3, <1>4, <1>5, <3>1
  <2>. QED
    BY <2>1, <2>2
<1>7. mr = rhs
  BY <1>2, <1>4, <1>5, <1>6, SeqEqual
<1>. QED
  BY <1>7 DEF mr, rhs, r, ms

LEMMA MapTail ==
  ASSUME NEW S, NEW T, NEW s \in Seq(S), NEW f \in [S -> T], s # <<>>
  PROVE  LET r == Tail(s)
             m == [i \in 1 .. Len(s) |-> f[s[i]]]
         IN  /\ [i \in 1 .. Len(r) |-> f[r[i]]] = Tail(m)
             /\ m # <<>> /\ Head(m) = f[s[1]]
<1>. DEFINE r == Tail(s)
            m == [i \in 1 .. Len(s) |-> f[s[i]]]
            mr == [i \in 1 .. Len(r) |-> f[r[i]]]
            rhs == Tail(m)
<1>1. /\ r \in Seq(S) /\ Len(r) = Len(s) - 1 /\ Len(s) \in Nat
      /\ \A i \in 1 .. Len(r) : r[i] = s[i + 1]
  BY HeadTailProperties, LenProperties
<1>2. m \in Seq(T) /\ Len(m) = Len(s) /\ \A i \in 1 .. Len(s) : m[i] = f[s[i]]
  BY MapSeq
<1>3. Len(s) >= 1
  BY EmptySeq
<1>. HIDE DEF r, m
<1>4. m # <<>> /\ Head(m) = m[1] /\ m[1] = f[s[1]]
  BY <1>1, <1>2, <1>3
<1>5. mr \in Seq(T) /\ Len(mr) = Len(r) /\ \A i \in 1 .. Len(r) : mr[i] = f[r[i]]
  BY <1>1, MapSeq
<1>6. /\ rhs \in Seq(T) /\ Len(rhs) = Len(m) - 1
      /\ \A i \in 1 .. Len(rhs) : rhs[i] = m[i + 1]
  BY <1>2, <1>4, HeadTailProperties
<1>. HIDE DEF mr, rhs
<1>7. ASSUME NEW i \in 1 .. Len(mr) PROVE mr[i] = rhs[i]
  <2>1. i \in 1 .. Len(r) /\ i \in 1 .. Len(rhs) /\ i + 1 \in 1 .. Len(s)
    BY <1>1, <1>2, <1>5, <1>6
  <2>. QED
    BY <1>1, <1>2, <1>5, <1>6, <2>1
<1>8. mr = rhs
  BY <1>1, <1>2, <1>5, <1>6, <1>7, SeqEqual
<1>. QED
  BY <1>4, <1>8 DEF mr, rhs, r, m

\* The steps that leave the memory's content alone leave the stack alone.
LEMMA StackKept ==
  ASSUME UNCHANGED <<chain, val>> PROVE AbsStack' = AbsStack
  BY DEF AbsStack

LEMMA CallAddAbstract ==
  ASSUME IInv, IInv', NEW t \in Threads, CallAdd(t)
  PROVE  Abstract!CallAdd(t, NextValue(t)) /\ NextValue(t) \in Values
<1>. USE DEF CallAdd, GoTo
<1>1. PICK n \in Nodes \ allocated : val' = [val EXCEPT ![n] = NextValue(t)]
  OBVIOUS
<1>2. AbsStack' = AbsStack
  <2>1. \A i \in 1 .. Len(chain) : chain[i] \in allocated /\ chain[i] \in Nodes
    BY DEF IInv, TypeOK, MemoryHoldsStack
  <2>2. \A i \in 1 .. Len(chain) : val'[chain[i]] = val[chain[i]]
    BY <1>1, <2>1 DEF IInv, TypeOK
  <2>. QED
    BY <2>2 DEF AbsStack
<1>3. AbsPhase' = [AbsPhase EXCEPT ![t] = "add"] /\ AbsPhase[t] = "idle"
  BY PhaseStep DEF IInv, Locations, PhaseAt
<1>4. AbsRes' = AbsRes
  <2>1. ASSUME NEW u \in Threads, pc[u] = "rmv_val"
        PROVE  val'[oh[u]] = val[oh[u]]
    BY <1>1, <2>1 DEF IInv, TypeOK, CasInstallsSuccessor, InRmv
  <2>. QED
    BY <2>1 DEF IInv, TypeOK, AbsRes
<1>5. NextValue(t) \in Values
  BY ClientStep DEF IInv, TypeOK
<1>. QED
  BY <1>2, <1>3, <1>4, <1>5 DEF Abstract!CallAdd

LEMMA AddCasAbstract ==
  ASSUME IInv, IInv', NEW t \in Threads, AddCas(t)
  PROVE  Abstract!Add(t)
<1>1. nh[t] \in Nodes /\ val[nh[t]] = arg[t] /\ arg[t] \in Values \cup {NoVal}
  BY DEF AddCas, IInv, TypeOK, NewNodeIsPrivate, InAdd
<1>2. chain \in Seq(Nodes) /\ chain' = <<nh[t]>> \o chain /\ val' = val
  BY DEF AddCas, IInv, TypeOK
<1>3. AbsStack' = <<arg[t]>> \o AbsStack
  BY <1>1, <1>2, MapFront DEF AbsStack, IInv, TypeOK
<1>4. AbsPhase' = [AbsPhase EXCEPT ![t] = "done"] /\ AbsPhase[t] = "add"
  BY PhaseStep DEF AddCas, GoTo, IInv, Locations, PhaseAt
<1>5. AbsRes' = AbsRes /\ arg' = arg
  BY DEF AddCas, GoTo, IInv, TypeOK, AbsRes
<1>. QED
  BY <1>3, <1>4, <1>5 DEF Abstract!Add

LEMMA CallRmvAbstract ==
  ASSUME IInv, NEW t \in Threads, CallRmv(t)
  PROVE  Abstract!CallRmv(t)
<1>. USE DEF CallRmv, GoTo, memory
<1>1. AbsStack' = AbsStack
  BY StackKept
<1>2. AbsPhase' = [AbsPhase EXCEPT ![t] = "rmv"] /\ AbsPhase[t] = "idle"
  BY PhaseStep DEF IInv, Locations, PhaseAt
<1>3. AbsRes' = AbsRes
  BY DEF IInv, TypeOK, AbsRes
<1>. QED
  BY <1>1, <1>2, <1>3 DEF Abstract!CallRmv

\* A load of nullptr by a rmv that answers empty is where it takes effect.
LEMMA RmvEmptyAbstract ==
  ASSUME IInv, NEW t \in Threads, RmvEmpty(t)
  PROVE  Abstract!RmvEmpty(t)
<1>. USE DEF RmvEmpty, GoTo, memory
<1>1. AbsStack' = AbsStack
  BY StackKept
<1>2. AbsStack = <<>>
  <2>1. chain = <<>>
    BY NullAssumption DEF IInv, TypeOK, MemoryHoldsStack
  <2>. QED
    BY <2>1 DEF AbsStack
<1>3. AbsPhase' = [AbsPhase EXCEPT ![t] = "done"] /\ AbsPhase[t] = "rmv"
  BY PhaseStep DEF IInv, Locations, PhaseAt
<1>4. AbsRes' = [AbsRes EXCEPT ![t] = NoVal]
  BY DEF IInv, TypeOK, AbsRes
<1>. QED
  BY <1>1, <1>2, <1>3, <1>4 DEF Abstract!RmvEmpty

LEMMA RmvCasAbstract ==
  ASSUME IInv, NEW t \in Threads, RmvCas(t)
  PROVE  Abstract!Rmv(t)
<1>. USE DEF RmvCas, GoTo
<1>1. oh[t] \in Nodes /\ oh[t] # Null
  BY NullAssumption DEF IInv, TypeOK, CasInstallsSuccessor, InRmv
<1>2. chain \in Seq(Nodes) /\ chain # <<>> /\ chain[1] = oh[t]
  BY <1>1 DEF IInv, TypeOK, MemoryHoldsStack
<1>3. /\ AbsStack' = Tail(AbsStack)
      /\ AbsStack # <<>> /\ Head(AbsStack) = val[oh[t]]
  BY <1>2, MapTail DEF AbsStack, IInv, TypeOK
<1>4. AbsPhase' = [AbsPhase EXCEPT ![t] = "done"] /\ AbsPhase[t] = "rmv"
  BY PhaseStep DEF IInv, Locations, PhaseAt
<1>5. AbsRes' = [AbsRes EXCEPT ![t] = val[oh[t]]]
  BY DEF IInv, TypeOK, AbsRes
<1>. QED
  BY <1>3, <1>4, <1>5 DEF Abstract!Rmv

LEMMA ReturnAbstract ==
  ASSUME IInv, NEW t \in Threads, Return(t)
  PROVE  Abstract!Return(t)
<1>. USE DEF Return, GoTo, memory
<1>1. AbsStack' = AbsStack
  BY StackKept
<1>2. AbsPhase' = [AbsPhase EXCEPT ![t] = "idle"] /\ AbsPhase[t] = "done"
  BY PhaseStep DEF IInv, Locations, PhaseAt
<1>3. AbsRes' = [AbsRes EXCEPT ![t] = NoVal]
  BY DEF IInv, TypeOK, AbsRes
<1>. QED
  BY <1>1, <1>2, <1>3 DEF Abstract!Return

\* The other steps of a thread change nothing that AtomicStack can see.
LEMMA InvisibleSteps ==
  ASSUME IInv, NEW t \in Threads,
         \/ AddLoad(t) \/ AddLink(t) \/ AddRetry(t)
         \/ RmvLoad(t) \/ RmvNext(t) \/ RmvRetry(t) \/ RmvVal(t)
  PROVE  UNCHANGED Abstract!vars
<1>. USE DEF AddLoad, AddLink, AddRetry, RmvLoad, RmvNext, RmvRetry, RmvVal,
            GoTo, memory
<1>1. AbsStack' = AbsStack
  BY StackKept
<1>2. AbsPhase' = AbsPhase
  <2>1. PICK l \in Locations :
          pc' = [pc EXCEPT ![t] = l] /\ PhaseAt(l) = PhaseAt(pc[t])
    BY DEF Locations, PhaseAt
  <2>. QED
    BY <2>1 DEF IInv, TypeOK, AbsPhase
<1>3. AbsRes' = AbsRes
  BY DEF IInv, TypeOK, AbsRes
<1>. QED
  BY <1>1, <1>2, <1>3 DEF Abstract!vars

LEMMA DestructorInvisible ==
  ASSUME Destroy \/ DeleteNode \/ UNCHANGED vars
  PROVE  UNCHANGED Abstract!vars
  BY DEF Destroy, DeleteNode, vars, memory, Abstract!vars, AbsStack, AbsPhase,
         AbsRes

LEMMA NextAbstract ==
  IInv /\ IInv' /\ [Next]_vars => [Abstract!Next]_(Abstract!vars)
<1>. SUFFICES ASSUME IInv, IInv', [Next]_vars
              PROVE  Abstract!Next \/ UNCHANGED Abstract!vars
  OBVIOUS
<1>1. ASSUME NEW t \in Threads, Step(t)
      PROVE  Abstract!Next \/ UNCHANGED Abstract!vars
  <2>1. CASE CallAdd(t)
    BY <2>1, CallAddAbstract DEF Abstract!Next
  <2>2. CASE AddCas(t)
    BY <2>2, AddCasAbstract DEF Abstract!Next
  <2>3. CASE CallRmv(t)
    BY <2>3, CallRmvAbstract DEF Abstract!Next
  <2>4. CASE RmvEmpty(t)
    BY <2>4, RmvEmptyAbstract DEF Abstract!Next
  <2>5. CASE RmvCas(t)
    BY <2>5, RmvCasAbstract DEF Abstract!Next
  <2>6. CASE Return(t)
    BY <2>6, ReturnAbstract DEF Abstract!Next
  <2>. QED
    BY <1>1, <2>1, <2>2, <2>3, <2>4, <2>5, <2>6, InvisibleSteps DEF Step
<1>. QED
  BY <1>1, DestructorInvisible DEF Next

\* Linearizability: whatever the threads call and however they interleave,
\* what the clients of Treiber's stack see is an execution of the atomic one.
THEOREM Linearizable == Spec => AbstractSpec
<1>. QED
  BY InitAbstract, NextAbstract, InvariantHolds, PTL
  DEF Spec, AbstractSpec, Abstract!Spec

----------------------------------------------------------------------------
(* The destructor deletes the nodes from the top of the stack, one by one, *)
(* and no thread is left to disturb it.                                    *)

DestructorWalk ==
  /\ ~destroyed => freed = {} /\ cursor = Null
  /\ destroyed =>
       /\ Joined
       /\ \E k \in 0 .. Len(chain) :
            /\ freed = {chain[i] : i \in 1 .. k}
            /\ cursor = IF k = Len(chain) THEN Null ELSE chain[k + 1]

LEMMA NextDestructorWalk ==
  IInv /\ DestructorWalk /\ [Next]_vars => DestructorWalk'
<1>. SUFFICES ASSUME IInv, DestructorWalk, [Next]_vars PROVE DestructorWalk'
  OBVIOUS
<1>0. chain \in Seq(Nodes) /\ Len(chain) \in Nat
  BY DEF IInv, TypeOK
<1>1. ASSUME NEW t \in Threads, Step(t) PROVE DestructorWalk'
  <2>1. ~destroyed
    BY <1>1 DEF DestructorWalk, Joined, Step, CallAdd, AddLoad, AddLink, AddCas,
                AddRetry, CallRmv, RmvLoad, RmvEmpty, RmvNext, RmvCas, RmvRetry,
                RmvVal, Return
  <2>2. UNCHANGED destructor
    BY <1>1 DEF Step, CallAdd, AddLoad, AddLink, AddCas, AddRetry, CallRmv,
                RmvLoad, RmvEmpty, RmvNext, RmvCas, RmvRetry, RmvVal, Return
  <2>. QED
    BY <2>1, <2>2 DEF DestructorWalk, destructor
<1>2. CASE Destroy
  <2>1. Joined' /\ destroyed' /\ freed' = {} /\ cursor' = head /\ chain' = chain
    BY <1>2 DEF Destroy, DestructorWalk, Joined, clientVars
  <2>2. head = IF 0 = Len(chain) THEN Null ELSE chain[1]
    BY <1>0 DEF IInv, MemoryHoldsStack
  <2>3. {chain[i] : i \in 1 .. 0} = {}
    OBVIOUS
  <2>. QED
    BY <1>0, <2>1, <2>2, <2>3 DEF DestructorWalk
<1>3. CASE DeleteNode
  <2>1. destroyed /\ Joined
    BY <1>3 DEF DeleteNode, DestructorWalk
  <2>2. PICK k \in 0 .. Len(chain) :
          /\ freed = {chain[i] : i \in 1 .. k}
          /\ cursor = IF k = Len(chain) THEN Null ELSE chain[k + 1]
    BY <2>1 DEF DestructorWalk
  <2>3. k + 1 \in 1 .. Len(chain) /\ cursor = chain[k + 1]
    BY <1>0, <1>3, <2>2 DEF DeleteNode
  <2>4. cursor' = IF k + 1 = Len(chain) THEN Null ELSE chain[k + 2]
    BY <1>3, <2>3 DEF DeleteNode, IInv, MemoryHoldsStack
  <2>5. freed' = {chain[i] : i \in 1 .. k + 1}
    BY <1>0, <1>3, <2>2, <2>3 DEF DeleteNode
  <2>6. Joined' /\ chain' = chain /\ destroyed' = destroyed
    BY <1>3, <2>1 DEF DeleteNode, Joined, clientVars
  <2>. QED
    BY <1>0, <2>1, <2>3, <2>4, <2>5, <2>6 DEF DestructorWalk
<1>4. CASE UNCHANGED vars
  BY <1>4 DEF vars, clientVars, memory, destructor, DestructorWalk, Joined
<1>. QED
  BY <1>1, <1>2, <1>3, <1>4 DEF Next

\* The destructor frees every node of the stack exactly once.
THEOREM DestructorCorrect == Spec => []DestructorIsExact
<1>1. Init => DestructorWalk
  BY DEF Init, DestructorWalk
<1>2. IInv /\ DestructorWalk => DestructorIsExact
  <2>. SUFFICES ASSUME IInv, DestructorWalk PROVE DestructorIsExact
    OBVIOUS
  <2>0. chain \in Seq(Nodes) /\ Len(chain) \in Nat
        /\ \A i \in 1 .. Len(chain) : chain[i] # Null
    BY NullAssumption DEF IInv, TypeOK
  <2>1. CASE destroyed
    <3>1. PICK k \in 0 .. Len(chain) :
            /\ freed = {chain[i] : i \in 1 .. k}
            /\ cursor = IF k = Len(chain) THEN Null ELSE chain[k + 1]
      BY <2>1 DEF DestructorWalk
    <3>2. cursor \notin freed
      BY <2>0, <3>1 DEF IInv, MemoryHoldsStack
    <3>3. cursor = Null => k = Len(chain)
      BY <2>0, <3>1
    <3>. QED
      BY <3>1, <3>2, <3>3 DEF DestructorIsExact
  <2>2. CASE ~destroyed
    BY <2>2 DEF DestructorWalk, DestructorIsExact
  <2>. QED
    BY <2>1, <2>2
<1>. QED
  BY <1>1, <1>2, NextDestructorWalk, InvariantHolds, PTL DEF Spec

----------------------------------------------------------------------------
(***************************************************************************)
(* Lists that list_valid accepts: the nodes on the stack are those of the  *)
(* threads' surpluses, the adds that took effect less the rmvs that did.   *)
(* Of the lists main() has drawn, p, a thread has called a beginning; no   *)
(* surplus is negative, and that of a thread inside rmv is at least one.   *)
(***************************************************************************)

ProgramsAreValid == \A p \in Programs : \A t \in Threads : list_valid(p[t])

AddsAmong(list, k) == Cardinality({i \in 1 .. k : list[i] = 1})

NumCalled(p, t) == Len(p[t]) - Len(prog[t])

RmvPending(t) == pc[t] \in {"rmv_load", "rmv_next", "rmv_cas"}

\* What thread t has called is a beginning of its list, and the operation it
\* is in is the last one it has called.
HasCalled(p, t) ==
  /\ NumCalled(p, t) \in Nat
  /\ \A i \in 1 .. Len(prog[t]) : prog[t][i] = p[t][NumCalled(p, t) + i]
  /\ added[t] = AddsAmong(p[t], NumCalled(p, t))
  /\ InAdd(t) => NumCalled(p, t) # 0 /\ p[t][NumCalled(p, t)] = 1
  /\ RmvPending(t) => NumCalled(p, t) # 0 /\ p[t][NumCalled(p, t)] = -1

Pending(t) == IF InAdd(t) THEN -1 ELSE IF RmvPending(t) THEN 1 ELSE 0

Surplus(p) == [t \in Threads |-> 2 * added[t] - NumCalled(p, t) + Pending(t)]

Balance(p) ==
  /\ \A t \in Threads : HasCalled(p, t)
  /\ SumOver(Surplus(p), Threads) = Len(chain)

LEMMA AddsAmongNext ==
  ASSUME NEW list, NEW k \in Nat
  PROVE  /\ AddsAmong(list, 0) = 0
         /\ AddsAmong(list, k) \in Nat
         /\ AddsAmong(list, k + 1) = AddsAmong(list, k) + IF list[k + 1] = 1 THEN 1 ELSE 0
<1>. DEFINE A == {i \in 1 .. k : list[i] = 1}
            B == {i \in 1 .. k + 1 : list[i] = 1}
<1>1. IsFiniteSet(A) /\ Cardinality(A) \in Nat
  <2>1. 1 \in Int /\ k \in Int /\ A \subseteq 1 .. k
    OBVIOUS
  <2>2. IsFiniteSet(A)
    BY <2>1, FS_Interval, FS_Subset
  <2>. QED
    BY <2>2, FS_CardinalityType
<1>2. B = IF list[k + 1] = 1 THEN A \cup {k + 1} ELSE A
  OBVIOUS
<1>3. k + 1 \notin A
  OBVIOUS
<1>4. {i \in 1 .. 0 : list[i] = 1} = {}
  OBVIOUS
<1>. HIDE DEF A, B
<1>5. Cardinality(B) = Cardinality(A) + IF list[k + 1] = 1 THEN 1 ELSE 0
  BY <1>1, <1>2, <1>3, FS_AddElement
<1>. QED
  BY <1>1, <1>4, <1>5, FS_EmptySet DEF AddsAmong, A, B

\* list_valid keeps each surplus from being negative.
LEMMA SurplusType ==
  ASSUME IInv, ProgramsAreValid, NEW p \in Programs, NEW t \in Threads, HasCalled(p, t)
  PROVE  Surplus(p)[t] \in Nat /\ (RmvPending(t) => Surplus(p)[t] >= 1)
<1>. DEFINE k == NumCalled(p, t)
<1>1. /\ k \in Nat /\ added[t] = AddsAmong(p[t], k) /\ added[t] \in Nat
      /\ Len(p[t]) \in Nat /\ Len(prog[t]) \in Nat /\ k <= Len(p[t])
      /\ InAdd(t) => k # 0 /\ p[t][k] = 1
  BY ProgramsAssumption DEF HasCalled, NumCalled, IInv, TypeOK, ClientTypeOK
<1>2. \A n \in 1 .. Len(p[t]) : 2 * AddsAmong(p[t], n) >= n
  BY DEF ProgramsAreValid, list_valid, AddsAmong
<1>3. Surplus(p)[t] = 2 * added[t] - k + Pending(t)
  BY DEF Surplus
<1>. HIDE DEF k
<1>4. ASSUME NEW n \in Nat, n <= Len(p[t])
      PROVE  AddsAmong(p[t], n) \in Nat /\ 2 * AddsAmong(p[t], n) >= n
  <2>1. AddsAmong(p[t], n) \in Nat /\ AddsAmong(p[t], 0) = 0
    BY AddsAmongNext
  <2>. QED
    BY <1>1, <1>2, <1>4, <2>1
<1>5. ASSUME InAdd(t) PROVE 2 * added[t] >= k + 1
  <2>1. k - 1 \in Nat /\ (k - 1) + 1 = k /\ p[t][(k - 1) + 1] = 1
    BY <1>1, <1>5
  <2>2. AddsAmong(p[t], k) = AddsAmong(p[t], k - 1) + 1 /\ AddsAmong(p[t], k - 1) \in Nat
    BY <2>1, AddsAmongNext
  <2>3. 2 * AddsAmong(p[t], k - 1) >= k - 1
    BY <1>1, <1>4, <2>1
  <2>. QED
    BY <1>1, <2>2, <2>3
<1>6. InAdd(t) => ~RmvPending(t)
  BY DEF InAdd, RmvPending
<1>. QED
  BY <1>1, <1>3, <1>4, <1>5, <1>6 DEF Pending

\* A thread inside rmv finds something on the stack.
LEMMA BalanceNeverEmpty ==
  ASSUME IsFiniteSet(Threads), IInv, ProgramsAreValid, NEW p \in Programs, Balance(p)
  PROVE  NeverEmpty
<1>. SUFFICES ASSUME NEW t \in Threads, pc[t] = "rmv_load" PROVE head # Null
  BY DEF NeverEmpty
<1>1. \A u \in Threads : Surplus(p)[u] \in Nat
  BY SurplusType DEF Balance
<1>2. Surplus(p)[t] >= 1
  BY SurplusType DEF Balance, RmvPending
<1>3. SumOver(Surplus(p), Threads) \in Nat /\ SumOver(Surplus(p), Threads) >= Surplus(p)[t]
  BY <1>1, SumAtLeast
<1>4. Len(chain) >= 1 /\ chain \in Seq(Nodes)
  BY <1>1, <1>2, <1>3 DEF Balance, IInv, TypeOK
<1>. QED
  BY <1>4, NullAssumption DEF IInv, MemoryHoldsStack

\* A step of thread t changes the number of nodes on the stack by as much as
\* its surplus.
LEMMA BalanceStep ==
  ASSUME IsFiniteSet(Threads), IInv, IInv', NEW p \in Programs, Balance(p), NEW t \in Threads,
         \A u \in Threads \ {t} :
           prog'[u] = prog[u] /\ added'[u] = added[u] /\ pc'[u] = pc[u],
         HasCalled(p, t)',
         Len(chain') - Len(chain) = Surplus(p)'[t] - Surplus(p)[t]
  PROVE  Balance(p)'
<1>1. ASSUME NEW u \in Threads \ {t}
      PROVE  HasCalled(p, u)' /\ Surplus(p)'[u] = Surplus(p)[u]
  <2>1. prog'[u] = prog[u] /\ added'[u] = added[u] /\ pc'[u] = pc[u] /\ u \in Threads
    OBVIOUS
  <2>2. HasCalled(p, u)
    BY DEF Balance
  <2>3. HasCalled(p, u)'
    BY <2>1, <2>2 DEF HasCalled, NumCalled, InAdd, RmvPending
  <2>. QED
    BY <2>1, <2>3 DEF NumCalled, InAdd, RmvPending, Pending, Surplus
<1>2. \A u \in Threads : Surplus(p)[u] \in Int /\ Surplus(p)'[u] \in Int
  <2>. TAKE u \in Threads
  <2>1. /\ added[u] \in Int /\ added'[u] \in Int
        /\ Len(prog[u]) \in Int /\ Len(prog'[u]) \in Int /\ Len(p[u]) \in Int
    BY ProgramsAssumption DEF IInv, TypeOK, ClientTypeOK
  <2>2. Pending(u) \in Int /\ Pending(u)' \in Int
    BY DEF Pending
  <2>3. /\ Surplus(p)[u] = 2 * added[u] - NumCalled(p, u) + Pending(u)
        /\ Surplus(p)'[u] = 2 * added'[u] - NumCalled(p, u)' + Pending(u)'
    BY DEF Surplus
  <2>4. NumCalled(p, u) \in Int /\ NumCalled(p, u)' \in Int
    BY <2>1 DEF NumCalled
  <2>. QED
    BY <2>1, <2>2, <2>3, <2>4
<1>3. SumOver(Surplus(p)', Threads) =
        SumOver(Surplus(p), Threads) + Surplus(p)'[t] - Surplus(p)[t]
  BY <1>1, <1>2, SumUpdate DEF Numbers
<1>4. Len(chain) \in Int /\ Len(chain') \in Int
  BY DEF IInv, TypeOK
<1>. QED
  BY <1>1, <1>2, <1>3, <1>4 DEF Balance

\* A call moves one operation from the rest of the list to what was called;
\* the surplus of an add counts when it takes effect, that of a rmv is spent
\* when it does.
LEMMA CallBalance ==
  ASSUME IsFiniteSet(Threads), IInv, IInv', NEW p \in Programs, Balance(p), NEW t \in Threads,
         CallAdd(t) \/ CallRmv(t)
  PROVE  Balance(p)'
<1>. DEFINE k == NumCalled(p, t)
<1>1. /\ HasCalled(p, t) /\ k \in Nat /\ added[t] \in Nat
      /\ prog[t] \in Seq({1, -1}) /\ prog[t] # <<>> /\ Len(prog[t]) \in Nat
      /\ pc[t] = "idle" /\ p[t] \in Seq({1, -1}) /\ Len(p[t]) \in Nat
      /\ pc \in [Threads -> Locations] /\ added \in [Threads -> Nat]
      /\ prog \in [Threads -> Seq({1, -1})] /\ chain' = chain
  BY ProgramsAssumption
  DEF Balance, HasCalled, CallAdd, CallRmv, ClientAdd, ClientRmv, IInv, TypeOK, ClientTypeOK
<1>2. /\ prog' = [prog EXCEPT ![t] = Tail(prog[t])]
      /\ Len(Tail(prog[t])) = Len(prog[t]) - 1
      /\ \A i \in 1 .. Len(prog[t]) - 1 : Tail(prog[t])[i] = prog[t][i + 1]
      /\ prog[t][1] = Head(prog[t])
  BY <1>1 DEF CallAdd, CallRmv, ClientAdd, ClientRmv
<1>3. NumCalled(p, t)' = k + 1 /\ k + 1 \in Nat /\ k + 1 # 0
  <2>1. Len(prog'[t]) = Len(prog[t]) - 1
    BY <1>1, <1>2
  <2>2. k \in Nat /\ Len(p[t]) \in Nat /\ Len(prog[t]) \in Nat
    BY <1>1
  <2>3. NumCalled(p, t)' = k + 1
    BY <2>1, <2>2 DEF NumCalled
  <2>. QED
    BY <2>2, <2>3
<1>4. Len(prog[t]) >= 1 /\ p[t][k + 1] = Head(prog[t])
  BY <1>1, <1>2 DEF HasCalled
<1>5. \A i \in 1 .. Len(prog'[t]) : prog'[t][i] = p[t][(k + 1) + i]
  <2>. TAKE i \in 1 .. Len(prog'[t])
  <2>1. i \in 1 .. Len(prog[t]) - 1 /\ prog'[t] = Tail(prog[t])
    BY <1>1, <1>2
  <2>2. prog'[t][i] = prog[t][i + 1] /\ i + 1 \in 1 .. Len(prog[t])
    BY <1>1, <1>2, <2>1
  <2>3. prog[t][i + 1] = p[t][k + (i + 1)]
    BY <1>1, <2>2 DEF HasCalled
  <2>4. k + (i + 1) = (k + 1) + i
    BY <1>1, <2>1
  <2>. QED
    BY <2>2, <2>3, <2>4
<1>6. added'[t] = AddsAmong(p[t], k + 1) /\ (InAdd(t)' => p[t][k + 1] = 1)
      /\ (RmvPending(t)' => p[t][k + 1] = -1)
      /\ 2 * added'[t] - (k + 1) + Pending(t)' = 2 * added[t] - k + Pending(t)
  <2>0. Pending(t) = 0 /\ added[t] = AddsAmong(p[t], k)
    BY <1>1 DEF Pending, InAdd, RmvPending, HasCalled
  <2>1. CASE CallAdd(t)
    <3>1. added'[t] = added[t] + 1 /\ Head(prog[t]) = 1 /\ pc'[t] = "add_load"
      BY <1>1, <2>1 DEF CallAdd, ClientAdd, GoTo
    <3>2. Pending(t)' = -1 /\ ~RmvPending(t)'
      BY <3>1 DEF Pending, InAdd, RmvPending
    <3>3. AddsAmong(p[t], k + 1) = AddsAmong(p[t], k) + 1
      BY <1>1, <1>4, <3>1, AddsAmongNext
    <3>. HIDE DEF k
    <3>. QED
      BY <1>1, <1>4, <2>0, <3>1, <3>2, <3>3
  <2>2. CASE CallRmv(t)
    <3>1. added'[t] = added[t] /\ Head(prog[t]) = -1 /\ pc'[t] = "rmv_load"
      BY <1>1, <2>2 DEF CallRmv, ClientRmv, GoTo
    <3>2. Pending(t)' = 1 /\ ~InAdd(t)'
      BY <3>1 DEF Pending, InAdd, RmvPending
    <3>3. AddsAmong(p[t], k + 1) = AddsAmong(p[t], k) + 0
      BY <1>1, <1>4, <3>1, AddsAmongNext
    <3>. HIDE DEF k
    <3>. QED
      BY <1>1, <1>4, <2>0, <3>1, <3>2, <3>3
  <2>. QED
    BY <2>1, <2>2
<1>7. HasCalled(p, t)'
  BY <1>3, <1>5, <1>6 DEF HasCalled
<1>8. Surplus(p)'[t] = Surplus(p)[t] /\ Surplus(p)[t] \in Int /\ Len(chain) \in Int
  <2>1. /\ Surplus(p)[t] = 2 * added[t] - k + Pending(t)
        /\ Surplus(p)'[t] = 2 * added'[t] - (k + 1) + Pending(t)'
    BY <1>3 DEF Surplus
  <2>2. Pending(t) \in Int
    BY DEF Pending
  <2>. HIDE DEF k
  <2>. QED
    BY <1>1, <1>6, <2>1, <2>2 DEF IInv, TypeOK
<1>9. \A u \in Threads \ {t} :
        prog'[u] = prog[u] /\ added'[u] = added[u] /\ pc'[u] = pc[u]
  BY <1>1 DEF CallAdd, CallRmv, ClientAdd, ClientRmv, GoTo
<1>10. Len(chain') - Len(chain) = Surplus(p)'[t] - Surplus(p)[t]
  BY <1>1, <1>8
<1>. QED
  BY <1>7, <1>9, <1>10, BalanceStep

\* Inside an operation the stack and the surplus change at its exchange only.
LEMMA StepBalance ==
  ASSUME IsFiniteSet(Threads), ProgramsAreValid, IInv, IInv',
         NEW p \in Programs, Balance(p), NEW t \in Threads, Step(t)
  PROVE  Balance(p)'
<1>1. CASE CallAdd(t) \/ CallRmv(t)
  BY <1>1, CallBalance
<1>2. ASSUME UNCHANGED clientVars, NEW l \in Locations, GoTo(t, l),
             InAdd(t)' => InAdd(t), RmvPending(t)' => RmvPending(t),
             Len(chain') - Len(chain) = Pending(t)' - Pending(t)
      PROVE  Balance(p)'
  <2>1. /\ prog' = prog /\ added' = added /\ HasCalled(p, t)
        /\ \A u \in Threads \ {t} : pc'[u] = pc[u]
    BY <1>2 DEF Balance, clientVars, GoTo, IInv, TypeOK
  <2>2. HasCalled(p, t)' /\ NumCalled(p, t)' = NumCalled(p, t)
    BY <1>2, <2>1 DEF HasCalled, NumCalled
  <2>3. added[t] \in Int /\ NumCalled(p, t) \in Int
    BY <2>1 DEF HasCalled, IInv, TypeOK, ClientTypeOK
  <2>4. Pending(t) \in Int /\ Pending(t)' \in Int
    BY DEF Pending
  <2>5. /\ Surplus(p)[t] = 2 * added[t] - NumCalled(p, t) + Pending(t)
        /\ Surplus(p)'[t] = 2 * added[t] - NumCalled(p, t) + Pending(t)'
    BY <2>1, <2>2 DEF Surplus
  <2>6. Len(chain') - Len(chain) = Surplus(p)'[t] - Surplus(p)[t]
    BY <1>2, <2>3, <2>4, <2>5
  <2>. QED
    BY <2>1, <2>2, <2>6, BalanceStep
<1>3. Len(chain) \in Nat /\ chain \in Seq(Nodes) /\ pc \in [Threads -> Locations]
  BY DEF IInv, TypeOK
<1>4. CASE AddLoad(t) \/ AddLink(t) \/ AddRetry(t)
  <2>1. PICK l \in {"add_load", "add_link", "add_cas"} :
          GoTo(t, l) /\ UNCHANGED clientVars /\ chain' = chain /\ InAdd(t)
    BY <1>4 DEF AddLoad, AddLink, AddRetry, InAdd
  <2>2. Pending(t)' = Pending(t) /\ l \in Locations /\ ~RmvPending(t)' /\ Pending(t) \in Int
    BY <1>3, <2>1 DEF GoTo, Pending, InAdd, RmvPending, Locations
  <2>. QED
    BY <1>2, <1>3, <2>1, <2>2
<1>5. CASE RmvLoad(t) \/ RmvNext(t) \/ RmvRetry(t)
  <2>1. PICK l \in {"rmv_load", "rmv_next", "rmv_cas"} :
          GoTo(t, l) /\ UNCHANGED clientVars /\ chain' = chain /\ RmvPending(t)
    BY <1>5 DEF RmvLoad, RmvNext, RmvRetry, RmvPending
  <2>2. Pending(t)' = Pending(t) /\ l \in Locations /\ ~InAdd(t)' /\ Pending(t) \in Int
    BY <1>3, <2>1 DEF GoTo, Pending, InAdd, RmvPending, Locations
  <2>. QED
    BY <1>2, <1>3, <2>1, <2>2
<1>6. CASE RmvVal(t) \/ Return(t)
  <2>1. PICK l \in {"idle", "done"} :
          GoTo(t, l) /\ UNCHANGED clientVars /\ chain' = chain /\ pc[t] \in {"rmv_val", "done"}
    BY <1>6 DEF RmvVal, Return
  <2>2. Pending(t)' = 0 /\ Pending(t) = 0 /\ l \in Locations /\ ~InAdd(t)' /\ ~RmvPending(t)'
    BY <1>3, <2>1 DEF GoTo, Pending, InAdd, RmvPending, Locations
  <2>. QED
    BY <1>2, <1>3, <2>1, <2>2
<1>7. CASE AddCas(t)
  <2>1. GoTo(t, "done") /\ UNCHANGED clientVars /\ chain' = <<nh[t]>> \o chain
        /\ nh[t] \in Nodes /\ pc[t] = "add_cas"
    BY <1>7 DEF AddCas, IInv, TypeOK, NewNodeIsPrivate, InAdd
  <2>2. Len(chain') = Len(chain) + 1
    BY <1>3, <2>1
  <2>3. Pending(t)' = 0 /\ Pending(t) = -1 /\ "done" \in Locations /\ ~InAdd(t)'
        /\ ~RmvPending(t)'
    BY <1>3, <2>1 DEF GoTo, Pending, InAdd, RmvPending, Locations
  <2>. QED
    BY <1>2, <1>3, <2>1, <2>2, <2>3
<1>8. CASE RmvCas(t)
  <2>1. GoTo(t, "rmv_val") /\ UNCHANGED clientVars /\ chain' = Tail(chain)
        /\ pc[t] = "rmv_cas"
    BY <1>8 DEF RmvCas
  <2>2. chain # <<>>
    <3>1. \A u \in Threads : Surplus(p)[u] \in Nat
      BY SurplusType DEF Balance
    <3>2. Surplus(p)[t] >= 1
      BY <2>1, SurplusType DEF Balance, RmvPending
    <3>3. SumOver(Surplus(p), Threads) \in Nat /\ SumOver(Surplus(p), Threads) >= Surplus(p)[t]
      BY <3>1, SumAtLeast
    <3>. QED
      BY <1>3, <3>1, <3>2, <3>3 DEF Balance
  <2>3. Len(chain') = Len(chain) - 1
    BY <1>3, <2>1, <2>2
  <2>4. Pending(t)' = 0 /\ Pending(t) = 1 /\ "rmv_val" \in Locations /\ ~InAdd(t)'
        /\ ~RmvPending(t)'
    BY <1>3, <2>1 DEF GoTo, Pending, InAdd, RmvPending, Locations
  <2>. QED
    BY <1>2, <1>3, <2>1, <2>3, <2>4
<1>9. ~RmvEmpty(t)
  BY BalanceNeverEmpty DEF RmvEmpty, NeverEmpty
<1>. QED
  BY <1>1, <1>4, <1>5, <1>6, <1>7, <1>8, <1>9 DEF Step

SomeBalance == \E p \in Programs : Balance(p)

LEMMA InitBalance ==
  ASSUME IsFiniteSet(Threads), Init PROVE SomeBalance
<1>1. PICK p \in Programs : prog = p
  BY DEF Init, ClientInit
<1>2. /\ p \in [Threads -> Seq({1, -1})] /\ added = [t \in Threads |-> 0]
      /\ pc = [t \in Threads |-> "idle"] /\ chain = <<>>
  BY <1>1, ProgramsAssumption DEF Init, ClientInit
<1>3. ASSUME NEW t \in Threads
      PROVE  HasCalled(p, t) /\ Surplus(p)[t] = 0
  <2>1. NumCalled(p, t) = 0 /\ Len(prog[t]) \in Nat
    BY <1>1, <1>2 DEF NumCalled
  <2>2. ~InAdd(t) /\ ~RmvPending(t) /\ Pending(t) = 0
    BY <1>2 DEF InAdd, RmvPending, Pending
  <2>3. AddsAmong(p[t], 0) = 0
    BY AddsAmongNext
  <2>. QED
    BY <1>1, <1>2, <2>1, <2>2, <2>3 DEF HasCalled, Surplus
<1>4. SumOver(Surplus(p), Threads) = 0
  BY <1>3, SumZero
<1>. QED
  BY <1>2, <1>3, <1>4 DEF SomeBalance, Balance

LEMMA NextBalance ==
  ASSUME IsFiniteSet(Threads), ProgramsAreValid, IInv, IInv', SomeBalance, [Next]_vars
  PROVE  SomeBalance'
<1>1. PICK p \in Programs : Balance(p)
  BY DEF SomeBalance
<1>2. ASSUME NEW t \in Threads, Step(t) PROVE Balance(p)'
  BY <1>1, <1>2, StepBalance
<1>3. ASSUME UNCHANGED <<clientVars, pc, chain>> PROVE Balance(p)'
  BY <1>1, <1>3
  DEF Balance, HasCalled, NumCalled, Surplus, Pending, InAdd, RmvPending, clientVars
<1>4. ASSUME Destroy \/ DeleteNode \/ UNCHANGED vars PROVE Balance(p)'
  BY <1>3, <1>4 DEF Destroy, DeleteNode, vars
<1>5. Balance(p)'
  BY <1>2, <1>4 DEF Next
<1>. QED
  BY <1>5 DEF SomeBalance

\* When list_valid accepts every list, no rmv ever finds the stack empty: it
\* neither answers so, in treiber.cpp, nor waits, in treiber_notempty.cpp.
THEOREM NeverFoundEmpty ==
  ASSUME IsFiniteSet(Threads), ProgramsAreValid PROVE Spec => []NeverEmpty
<1>1. Init => SomeBalance
  BY InitBalance
<1>2. IInv /\ IInv' /\ SomeBalance /\ [Next]_vars => SomeBalance'
  BY NextBalance
<1>3. IInv /\ SomeBalance => NeverEmpty
  BY BalanceNeverEmpty DEF SomeBalance
<1>. QED
  BY <1>1, <1>2, <1>3, InvariantHolds, PTL DEF Spec
=============================================================================
