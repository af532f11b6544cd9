----------------------- MODULE Implementations_proofs -----------------------
(***************************************************************************)
(* Linearizability of the implementations whose calls take effect at a     *)
(* step that is known, for any number of threads and operations.  First    *)
(* what a proof has to show of a step: while one explanation that agrees   *)
(* with the memory can be carried on, some explanation is left.  Then the  *)
(* implementations with one mutex, Michael and Scott's queue, and the      *)
(* stack of elim_backoff.cpp.  At the end, of all implementations, that    *)
(* nodes are deleted once.                                                 *)
(***************************************************************************)
EXTENDS Implementations, InductionLemmas, SequenceTheorems, TLAPS

Items == (Threads \X Nat) \cup {NoVal}

Doings == [op : {"idle", "add", "rmv", "did"}, val : Items]

AllExplanations == [object : Seq(Items), doing : [Threads -> Doings]]

Adts == {"stack", "queue"}

Running(e, t) == e.doing[t].op \in {"add", "rmv"}

TakeEffect(adt, e, t) == Object!TakeEffect(adt, e, t)

ByNow(adt, es) == Object!ByNow(adt, es)

\* What is explained by one more call that takes effect.
Further(adt, fs) ==
  fs \cup {TakeEffect(adt, p[1], p[2]) : p \in {q \in fs \X Threads : Running(q[1], q[2])}}

IsRounds(R, adt, es) ==
  /\ R \in [0 .. Cardinality(Threads) -> SUBSET AllExplanations]
  /\ R[0] = es
  /\ \A k \in 1 .. Cardinality(Threads) : R[k] = Further(adt, R[k - 1])
  /\ ByNow(adt, es) = R[Cardinality(Threads)]

\* What a call makes of the object, and what it answers.
ObjectAfter(adt, object, call) ==
  IF call.op = "add"
  THEN IF adt = "stack" THEN <<call.val>> \o object ELSE Append(object, call.val)
  ELSE IF object = <<>> THEN <<>> ELSE Tail(object)

AnswerOf(object, call) ==
  IF call.op = "rmv" /\ object # <<>> THEN Head(object) ELSE NoVal

LEMMA TakeEffectIs ==
  ASSUME NEW adt, NEW e, NEW t
  PROVE  TakeEffect(adt, e, t) =
           [object |-> ObjectAfter(adt, e.object, e.doing[t]),
            doing |-> [e.doing EXCEPT ![t] =
                         [op |-> "did", val |-> AnswerOf(e.object, e.doing[t])]]]
BY DEF TakeEffect, Object!TakeEffect, Object!Doing, ObjectAfter, AnswerOf

LEMMA TakeEffectType ==
  ASSUME NEW adt \in Adts, NEW e \in AllExplanations, NEW t \in Threads
  PROVE  /\ TakeEffect(adt, e, t) \in AllExplanations
         /\ TakeEffect(adt, e, t).doing[t].op = "did"
         /\ \A u \in Threads \ {t} : TakeEffect(adt, e, t).doing[u] = e.doing[u]
<1>. DEFINE call == e.doing[t]
            rest == ObjectAfter(adt, e.object, call)
            ans  == AnswerOf(e.object, call)
<1>1. TakeEffect(adt, e, t) =
        [object |-> rest, doing |-> [e.doing EXCEPT ![t] = [op |-> "did", val |-> ans]]]
  BY TakeEffectIs
<1>2. e.object \in Seq(Items) /\ e.doing \in [Threads -> Doings] /\ call.val \in Items
  BY DEF AllExplanations, Doings
<1>3. rest \in Seq(Items)
  <2>1. <<call.val>> \o e.object \in Seq(Items) /\ Append(e.object, call.val) \in Seq(Items)
    BY <1>2
  <2>2. e.object # <<>> => Tail(e.object) \in Seq(Items)
    BY <1>2
  <2>. QED
    BY <2>1, <2>2 DEF ObjectAfter
<1>4. ans \in Items
  BY <1>2 DEF Items, AnswerOf
<1>5. [op |-> "did", val |-> ans] \in Doings
  BY <1>4 DEF Doings
<1>. HIDE DEF call, rest, ans
<1>6. [e.doing EXCEPT ![t] = [op |-> "did", val |-> ans]] \in [Threads -> Doings]
  BY <1>2, <1>5
<1>. QED
  BY <1>1, <1>2, <1>3, <1>6 DEF AllExplanations

LEMMA FurtherType ==
  ASSUME NEW adt \in Adts, NEW fs \in SUBSET AllExplanations
  PROVE  Further(adt, fs) \in SUBSET AllExplanations
BY TakeEffectType DEF Further

LEMMA FurtherHas ==
  ASSUME NEW adt, NEW fs, NEW f \in fs, NEW t \in Threads, Running(f, t)
  PROVE  TakeEffect(adt, f, t) \in Further(adt, fs)
<1>1. <<f, t>> \in {q \in fs \X Threads : Running(q[1], q[2])}
  OBVIOUS
<1>. QED
  BY <1>1 DEF Further

LEMMA CardinalityIsCardinality == Object!Cardinality(Threads) = Cardinality(Threads)
BY Zenon DEF Object!Cardinality, Object!IsFiniteSet, Cardinality, IsFiniteSet

LEMMA ByNowIsChosen ==
  ASSUME NEW adt, NEW es
  PROVE  ByNow(adt, es) =
           (CHOOSE R : R = [k \in 0 .. Object!Cardinality(Threads) |->
                              IF k = 0 THEN es ELSE Further(adt, R[k - 1])])
             [Object!Cardinality(Threads)]
BY Zenon DEF ByNow, Object!ByNow, Further, TakeEffect, Running

LEMMA RoundsExist ==
  ASSUME IsFiniteSet(Threads), NEW adt \in Adts, NEW es \in SUBSET AllExplanations
  PROVE  \E R : IsRounds(R, adt, es)
<1>. DEFINE N == Cardinality(Threads)
            D == SUBSET AllExplanations
            g == [p \in (0 .. N) \X D |-> Further(adt, p[2])]
            Equation(R) ==
              R = [k \in 0 .. N |-> IF k = 0 THEN es ELSE Further(adt, R[k - 1])]
<1>1. N \in Nat /\ N \in Int /\ 0 \in Int
  BY FS_CardinalityType
<1>2. g \in [(0 .. N) \X D -> D]
  BY FurtherType
<1>3. \A k \in 0 .. N, fs \in D : g[<<k, fs>>] = Further(adt, fs)
  OBVIOUS
<1>4. ByNow(adt, es) = (CHOOSE R : Equation(R))[N]
  BY ByNowIsChosen, CardinalityIsCardinality
<1>. HIDE DEF N, D, g
<1>5. es \in D
  BY DEF D
<1>6. PICK F : SolvesOnInterval(F, 0, N, D, es, g)
  BY <1>1, <1>2, <1>5, RecursionOnInterval
<1>7. ASSUME NEW k \in 0 .. N
      PROVE  F[k] = IF k = 0 THEN es ELSE Further(adt, F[k - 1])
  <2>1. F[k] = IF k = 0 THEN es ELSE g[<<k, F[k - 1]>>]
    BY <1>6 DEF SolvesOnInterval
  <2>2. k # 0 => F[k - 1] \in D
    BY <1>1, <1>6 DEF SolvesOnInterval
  <2>. QED
    BY <1>3, <2>1, <2>2
<1>8. F = [k \in 0 .. N |-> F[k]]
  BY <1>6 DEF SolvesOnInterval
<1>9. Equation(F)
  BY <1>7, <1>8
<1>10. ASSUME NEW R, Equation(R), NEW S, Equation(S) PROVE R = S
  <2>. DEFINE X == {k \in Nat : k \in 0 .. N => R[k] = S[k]}
  <2>1. 0 \in X
    BY <1>10
  <2>2. ASSUME NEW k \in Nat, k \in X PROVE k + 1 \in X
    <3>1. CASE k + 1 \in 0 .. N
      <4>1. k \in 0 .. N /\ k + 1 # 0 /\ (k + 1) - 1 = k
        BY <1>1, <3>1
      <4>2. R[k + 1] = Further(adt, R[k]) /\ S[k + 1] = Further(adt, S[k])
        BY <1>10, <3>1, <4>1
      <4>. QED
        BY <2>2, <4>1, <4>2
    <3>. QED
      BY <3>1
  <2>. HIDE DEF X
  <2>3. \A k \in Nat : k \in X
    BY <2>1, <2>2, NatSetInduction
  <2>4. \A k \in 0 .. N : R[k] = S[k]
    BY <2>3 DEF X
  <2>5. R = [k \in 0 .. N |-> R[k]] /\ S = [k \in 0 .. N |-> S[k]]
    BY <1>10
  <2>. QED
    BY <2>4, <2>5
<1>11. (CHOOSE R : Equation(R)) = F
  <2>1. Equation(CHOOSE R : Equation(R))
    BY <1>9
  <2>. HIDE DEF Equation
  <2>. QED
    BY <1>9, <1>10, <2>1
<1>12. F \in [0 .. N -> D] /\ F[0] = es /\ \A k \in 1 .. N : F[k] = Further(adt, F[k - 1])
  BY <1>1, <1>6, <1>7 DEF SolvesOnInterval
<1>. QED
  BY <1>4, <1>11, <1>12 DEF IsRounds, N, D

\* What has not happened yet may not have happened, and the rounds grow.
LEMMA RoundsGrow ==
  ASSUME IsFiniteSet(Threads), NEW adt \in Adts, NEW es \in SUBSET AllExplanations,
         NEW R, IsRounds(R, adt, es), NEW j \in 0 .. Cardinality(Threads)
  PROVE  R[j] \subseteq ByNow(adt, es)
<1>. DEFINE N == Cardinality(Threads)
            X == {d \in Nat : j + d \in 0 .. N => R[j] \subseteq R[j + d]}
<1>0. N \in Nat
  BY FS_CardinalityType
<1>. HIDE DEF N
<1>1. 0 \in X
  BY <1>0 DEF N
<1>2. ASSUME NEW d \in Nat, d \in X PROVE d + 1 \in X
  <2>1. CASE j + (d + 1) \in 0 .. N
    <3>1. /\ j + d \in 0 .. N /\ j + (d + 1) \in 1 .. N
          /\ (j + (d + 1)) - 1 = j + d
      BY <1>0, <2>1 DEF N
    <3>2. R[j + (d + 1)] = Further(adt, R[j + d])
      BY <3>1 DEF IsRounds, N
    <3>3. R[j + d] \subseteq R[j + (d + 1)]
      BY <3>2 DEF Further
    <3>. QED
      BY <1>2, <3>1, <3>3
  <2>. QED
    BY <2>1
<1>. HIDE DEF X
<1>3. \A d \in Nat : d \in X
  BY <1>1, <1>2, NatSetInduction
<1>4. N - j \in Nat /\ j + (N - j) = N /\ N \in 0 .. N
  BY <1>0 DEF N
<1>5. R[j] \subseteq R[N]
  BY <1>3, <1>4 DEF X
<1>. QED
  BY <1>5 DEF IsRounds, N

LEMMA ByNowSelf ==
  ASSUME IsFiniteSet(Threads), NEW adt \in Adts, NEW es \in SUBSET AllExplanations
  PROVE  es \subseteq ByNow(adt, es)
<1>1. PICK R : IsRounds(R, adt, es)
  BY RoundsExist
<1>2. 0 \in 0 .. Cardinality(Threads)
  BY FS_CardinalityType
<1>3. R[0] \subseteq ByNow(adt, es)
  BY <1>1, <1>2, RoundsGrow
<1>. QED
  BY <1>1, <1>3 DEF IsRounds

\* What holds of the explanations and goes on holding as calls take effect
\* holds of all that may be by now.
LEMMA ByNowInduction ==
  ASSUME IsFiniteSet(Threads), NEW adt \in Adts, NEW es \in SUBSET AllExplanations,
         NEW X, es \subseteq X,
         \A f \in X \cap AllExplanations : \A t \in Threads :
           Running(f, t) => TakeEffect(adt, f, t) \in X
  PROVE  ByNow(adt, es) \subseteq X \cap AllExplanations
<1>1. PICK R : IsRounds(R, adt, es)
  BY RoundsExist
<1>. DEFINE N == Cardinality(Threads)
            Y == {k \in Nat : k \in 0 .. N => R[k] \subseteq X}
<1>2. N \in Nat
  BY FS_CardinalityType
<1>. HIDE DEF N
<1>3. 0 \in Y
  BY <1>1 DEF IsRounds
<1>4. ASSUME NEW k \in Nat, k \in Y PROVE k + 1 \in Y
  <2>1. CASE k + 1 \in 0 .. N
    <3>1. k \in 0 .. N /\ k + 1 \in 1 .. N /\ (k + 1) - 1 = k
      BY <1>2, <2>1
    <3>2. R[k + 1] = Further(adt, R[k]) /\ R[k] \subseteq X \cap AllExplanations
      BY <1>1, <1>4, <3>1 DEF IsRounds, N
    <3>3. R[k + 1] \subseteq X
      BY <3>2 DEF Further
    <3>. QED
      BY <3>3
  <2>. QED
    BY <2>1
<1>. HIDE DEF Y
<1>5. \A k \in Nat : k \in Y
  BY <1>3, <1>4, NatSetInduction
<1>6. N \in 0 .. N
  BY <1>2
<1>7. R[N] \subseteq X
  BY <1>2, <1>5, <1>6 DEF Y
<1>8. R[N] \in SUBSET AllExplanations
  BY <1>1, <1>6 DEF IsRounds, N
<1>. QED
  BY <1>1, <1>7, <1>8 DEF IsRounds, N

LEMMA ByNowType ==
  ASSUME IsFiniteSet(Threads), NEW adt \in Adts, NEW es \in SUBSET AllExplanations
  PROVE  ByNow(adt, es) \subseteq AllExplanations
BY TakeEffectType, ByNowInduction

\* One more call may have taken effect: as every call takes effect once, the
\* rounds are as many as are needed.
LEMMA ByNowEffect ==
  ASSUME IsFiniteSet(Threads), NEW adt \in Adts, NEW es \in SUBSET AllExplanations,
         NEW f \in ByNow(adt, es), NEW t \in Threads, Running(f, t)
  PROVE  TakeEffect(adt, f, t) \in ByNow(adt, es)
<1>1. PICK R : IsRounds(R, adt, es)
  BY RoundsExist
<1>. DEFINE N == Cardinality(Threads)
            Left(h) == {u \in Threads : Running(h, u)}
            X == {h \in AllExplanations :
                    \E j \in 0 .. N : h \in R[j] /\ j + Cardinality(Left(h)) <= N}
<1>2. N \in Nat
  BY FS_CardinalityType
<1>3. ASSUME NEW h PROVE /\ IsFiniteSet(Left(h)) /\ Cardinality(Left(h)) \in Nat
                         /\ Cardinality(Left(h)) <= N
  BY FS_Subset, FS_CardinalityType
<1>4. es \subseteq X
  <2>. SUFFICES ASSUME NEW h \in es PROVE h \in X
    OBVIOUS
  <2>1. h \in R[0] /\ 0 \in 0 .. N
    BY <1>1, <1>2 DEF IsRounds
  <2>2. 0 + Cardinality(Left(h)) <= N
    BY <1>2, <1>3
  <2>. QED
    BY <2>1, <2>2
<1>5. ASSUME NEW h \in X \cap AllExplanations, NEW u \in Threads, Running(h, u)
      PROVE  TakeEffect(adt, h, u) \in X
  <2>. DEFINE h2 == TakeEffect(adt, h, u)
  <2>1. PICK j \in 0 .. N : h \in R[j] /\ j + Cardinality(Left(h)) <= N
    OBVIOUS
  <2>2. h2 \in AllExplanations /\ Left(h2) = Left(h) \ {u} /\ u \in Left(h)
    <3>1. /\ h2 \in AllExplanations
          /\ h2.doing[u].op = "did"
          /\ \A w \in Threads \ {u} : h2.doing[w] = h.doing[w]
      BY TakeEffectType
    <3>2. \A w \in Threads : Running(h2, w) <=> Running(h, w) /\ w # u
      BY <3>1 DEF Running
    <3>. HIDE DEF h2
    <3>. QED
      BY <1>5, <3>1, <3>2
  <2>. HIDE DEF h2, Left
  <2>3. Cardinality(Left(h2)) = Cardinality(Left(h)) - 1
    BY <1>3, <2>2, FS_RemoveElement
  <2>4. Cardinality(Left(h)) \in Nat /\ Cardinality(Left(h2)) \in Nat
    BY <1>3
  <2>5. j + 1 \in 1 .. N /\ (j + 1) - 1 = j /\ j + 1 \in 0 .. N
        /\ (j + 1) + Cardinality(Left(h2)) <= N
    BY <1>2, <2>1, <2>3, <2>4
  <2>6. h2 \in Further(adt, R[j])
    BY <1>5, <2>1, FurtherHas DEF h2
  <2>7. h2 \in R[j + 1]
    BY <1>1, <2>5, <2>6 DEF IsRounds
  <2>. QED
    BY <2>2, <2>5, <2>7 DEF h2
<1>6. ByNow(adt, es) \subseteq X
  BY <1>4, <1>5, ByNowInduction
<1>7. PICK j \in 0 .. N : f \in R[j] /\ j + Cardinality(Left(f)) <= N
  BY <1>6
<1>8. Cardinality(Left(f)) # 0
  BY <1>3, FS_EmptySet
<1>9. j + 1 \in 1 .. N /\ (j + 1) - 1 = j /\ j + 1 \in 0 .. N
  BY <1>2, <1>3, <1>7, <1>8
<1>10. TakeEffect(adt, f, t) \in R[j + 1]
  BY <1>1, <1>7, <1>9, FurtherHas DEF IsRounds
<1>. QED
  BY <1>1, <1>9, <1>10, RoundsGrow

----------------------------------------------------------------------------
(* What becomes of an explanation when a thread calls or returns. *)

WithDoing(f, t, op, v) == [f EXCEPT !.doing = [f.doing EXCEPT ![t] = [op |-> op, val |-> v]]]

LEMMA CallExplained ==
  ASSUME IsFiniteSet(Threads), NEW adt \in Adts, NEW es \in SUBSET AllExplanations,
         NEW f \in ByNow(adt, es), NEW t \in Threads, f.doing[t].op = "idle",
         NEW op \in {"add", "rmv"}, NEW v \in Items
  PROVE  /\ Object!AfterCall(es, t, op, v) \in SUBSET AllExplanations
         /\ WithDoing(f, t, op, v) \in ByNow(adt, Object!AfterCall(es, t, op, v))
<1>. DEFINE es2 == Object!AfterCall(es, t, op, v)
            X == {h \in AllExplanations :
                    h.doing[t].op = "idle" => WithDoing(h, t, op, v) \in ByNow(adt, es2)}
<1>0. [op |-> op, val |-> v] \in Doings
  BY DEF Doings
<1>1. ASSUME NEW h \in AllExplanations
      PROVE  /\ WithDoing(h, t, op, v) \in AllExplanations
             /\ WithDoing(h, t, op, v).object = h.object
             /\ WithDoing(h, t, op, v).doing = [h.doing EXCEPT ![t] = [op |-> op, val |-> v]]
  BY <1>0 DEF WithDoing, AllExplanations
<1>2. es2 = {WithDoing(e, t, op, v) : e \in es}
  BY DEF Object!AfterCall, Object!Doing, WithDoing
<1>3. es2 \in SUBSET AllExplanations
  BY <1>1, <1>2
<1>. HIDE DEF es2
<1>4. es2 \subseteq ByNow(adt, es2)
  BY <1>3, ByNowSelf
<1>5. es \subseteq X
  BY <1>2, <1>4
<1>6. ASSUME NEW h \in X \cap AllExplanations, NEW u \in Threads, Running(h, u)
      PROVE  TakeEffect(adt, h, u) \in X
  <2>1. TakeEffect(adt, h, u) \in AllExplanations
        /\ TakeEffect(adt, h, u).doing[u].op = "did"
        /\ \A w \in Threads \ {u} : TakeEffect(adt, h, u).doing[w] = h.doing[w]
    BY TakeEffectType
  <2>2. CASE u # t /\ h.doing[t].op = "idle"
    <3>. DEFINE h2 == WithDoing(h, t, op, v)
    <3>1. h2 \in ByNow(adt, es2) /\ h2 \in AllExplanations /\ h2.doing[u] = h.doing[u]
      BY <1>1, <2>2 DEF AllExplanations
    <3>2. Running(h2, u)
      BY <1>6, <3>1 DEF Running
    <3>3. TakeEffect(adt, h2, u) \in ByNow(adt, es2)
      BY <1>3, <3>1, <3>2, ByNowEffect
    <3>4. TakeEffect(adt, h2, u) = WithDoing(TakeEffect(adt, h, u), t, op, v)
      <4>1. TakeEffect(adt, h, u) =
              [object |-> ObjectAfter(adt, h.object, h.doing[u]),
               doing |-> [h.doing EXCEPT ![u] =
                            [op |-> "did", val |-> AnswerOf(h.object, h.doing[u])]]]
        BY TakeEffectIs
      <4>2. TakeEffect(adt, h2, u) =
              [object |-> ObjectAfter(adt, h.object, h.doing[u]),
               doing |-> [h2.doing EXCEPT ![u] =
                            [op |-> "did", val |-> AnswerOf(h.object, h.doing[u])]]]
        BY <1>1, <3>1, TakeEffectIs
      <4>3. h2.doing = [h.doing EXCEPT ![t] = [op |-> op, val |-> v]]
            /\ h.doing \in [Threads -> Doings]
        BY <1>1 DEF AllExplanations
      <4>. HIDE DEF h2
      <4>4. \A x, y : [[h.doing EXCEPT ![t] = x] EXCEPT ![u] = y] =
                      [[h.doing EXCEPT ![u] = y] EXCEPT ![t] = x]
        BY <2>2, <4>3
      <4>. QED
        BY <4>1, <4>2, <4>3, <4>4 DEF WithDoing
    <3>. QED
      BY <2>1, <3>3, <3>4
  <2>. QED
    BY <2>1, <2>2
<1>7. ByNow(adt, es) \subseteq X
  BY <1>5, <1>6, ByNowInduction
<1>. QED
  BY <1>3, <1>7 DEF es2

LEMMA ReturnExplained ==
  ASSUME IsFiniteSet(Threads), NEW adt \in Adts, NEW es \in SUBSET AllExplanations,
         NEW f \in ByNow(adt, es), NEW t \in Threads, NEW answer,
         f.doing[t] = [op |-> "did", val |-> answer]
  PROVE  /\ Object!AfterReturn(adt, es, t, answer) \in SUBSET AllExplanations
         /\ WithDoing(f, t, "idle", NoVal) \in
              ByNow(adt, Object!AfterReturn(adt, es, t, answer))
<1>1. WithDoing(f, t, "idle", NoVal) \in Object!AfterReturn(adt, es, t, answer)
  BY DEF Object!AfterReturn, Object!Doing, Object!Idle, WithDoing, ByNow
<1>2. Object!AfterReturn(adt, es, t, answer) \subseteq AllExplanations
  <2>. SUFFICES ASSUME NEW h \in ByNow(adt, es)
                PROVE  WithDoing(h, t, "idle", NoVal) \in AllExplanations
    BY DEF Object!AfterReturn, Object!Doing, Object!Idle, WithDoing, ByNow
  <2>1. h \in AllExplanations /\ [op |-> "idle", val |-> NoVal] \in Doings
    BY ByNowType DEF Doings, Items
  <2>. QED
    BY <2>1 DEF WithDoing, AllExplanations
<1>. QED
  BY <1>1, <1>2, ByNowSelf

\* A call that takes effect and returns in one step.
LEMMA EffectExplained ==
  ASSUME IsFiniteSet(Threads), NEW adt \in Adts, NEW es \in SUBSET AllExplanations,
         NEW f \in ByNow(adt, es), NEW t \in Threads, Running(f, t),
         NEW answer, answer = AnswerOf(f.object, f.doing[t])
  PROVE  /\ Object!AfterReturn(adt, es, t, answer) \in SUBSET AllExplanations
         /\ [object |-> ObjectAfter(adt, f.object, f.doing[t]),
             doing  |-> [f.doing EXCEPT ![t] = [op |-> "idle", val |-> NoVal]]]
              \in ByNow(adt, Object!AfterReturn(adt, es, t, answer))
<1>. DEFINE g == TakeEffect(adt, f, t)
<1>1. g \in ByNow(adt, es) /\ f \in AllExplanations
  BY ByNowEffect, ByNowType
<1>2. g = [object |-> ObjectAfter(adt, f.object, f.doing[t]),
           doing |-> [f.doing EXCEPT ![t] = [op |-> "did", val |-> answer]]]
  BY TakeEffectIs
<1>3. f.doing \in [Threads -> Doings]
  BY <1>1 DEF AllExplanations
<1>. HIDE DEF g
<1>4. g.doing[t] = [op |-> "did", val |-> answer]
  BY <1>2, <1>3
<1>5. WithDoing(g, t, "idle", NoVal) =
        [object |-> ObjectAfter(adt, f.object, f.doing[t]),
         doing  |-> [f.doing EXCEPT ![t] = [op |-> "idle", val |-> NoVal]]]
  BY <1>2, <1>3 DEF WithDoing
<1>. QED
  BY <1>1, <1>4, <1>5, ReturnExplained

LEMMA ExplanationLeft ==
  ASSUME IsFiniteSet(Threads), NEW adt \in Adts, NEW es \in SUBSET AllExplanations,
         NEW f \in ByNow(adt, es)
  PROVE  es # {}
<1>1. es \subseteq {} => ByNow(adt, es) \subseteq {} \cap AllExplanations
  BY ByNowInduction
<1>. QED
  BY <1>1

LEMMA NothingExplained ==
  ASSUME IsFiniteSet(Threads), NEW adt \in Adts
  PROVE  /\ Object!NothingHappened \in SUBSET AllExplanations
         /\ [object |-> <<>>, doing |-> [t \in Threads |-> [op |-> "idle", val |-> NoVal]]]
              \in ByNow(adt, Object!NothingHappened)
<1>. DEFINE e == [object |-> <<>>, doing |-> [t \in Threads |-> [op |-> "idle", val |-> NoVal]]]
<1>1. e \in AllExplanations
  BY DEF AllExplanations, Doings, Items
<1>2. Object!NothingHappened = {e}
  BY DEF Object!NothingHappened, Object!Idle, Object!Doing
<1>. HIDE DEF e
<1>3. e \in ByNow(adt, {e})
  BY <1>1, ByNowSelf
<1>. QED
  BY <1>1, <1>2, <1>3 DEF e

----------------------------------------------------------------------------
(* The implementations with one mutex, coarse_stack and coarse_queue: a    *)
(* call takes effect under the mutex, in the step that also returns.       *)

LEMMA LockedByNow ==
  ASSUME NEW adt, NEW es
  PROVE  Locked!Object!ByNow(adt, es) = Object!ByNow(adt, es)
BY Zenon
DEF Locked!Object!ByNow, Locked!Object!TakeEffect, Locked!Object!Doing,
    Locked!Object!Cardinality, Locked!Object!IsFiniteSet,
    Object!ByNow, Object!TakeEffect, Object!Doing,
    Object!Cardinality, Object!IsFiniteSet

LEMMA LockedReturn ==
  ASSUME NEW t, NEW m, NEW answer, Locked!Return(t, m, answer)
  PROVE  /\ mem' = m /\ pc' = [pc EXCEPT ![t] = "idle"]
         /\ loc' = [loc EXCEPT ![t] = NoLocals]
         /\ explanations' = Object!AfterReturn(mem.adt, explanations, t, answer)
         /\ UNCHANGED <<clientVars, flaws, crashed, destroyed>>
<1>1. Locked!Object!AfterReturn(mem.adt, explanations, t, answer) =
        Object!AfterReturn(mem.adt, explanations, t, answer)
  BY LockedByNow, Zenon
  DEF Locked!Object!AfterReturn, Locked!Object!Doing, Locked!Object!Idle,
      Object!AfterReturn, Object!Doing, Object!Idle
<1>. QED
  BY <1>1
  DEF Locked!Return, Locked!FlawedReturn, Locked!Go, Locked!NoLocals, NoLocals,
      Locked!clientVars, clientVars

LEMMA LockedCall ==
  ASSUME NEW t, NEW place, NEW m, NEW l
  PROVE  /\ Locked!CallAdd(t, place, m, l) =>
              /\ ClientAdd(t) /\ pc[t] = "idle"
              /\ explanations' = Object!AfterCall(explanations, t, "add", NextValue(t))
         /\ Locked!CallRmv(t, place, m, l) =>
              /\ ClientRmv(t) /\ pc[t] = "idle"
              /\ explanations' = Object!AfterCall(explanations, t, "rmv", NoVal)
         /\ Locked!CallAdd(t, place, m, l) \/ Locked!CallRmv(t, place, m, l) =>
              /\ mem' = m /\ pc' = [pc EXCEPT ![t] = place] /\ loc' = [loc EXCEPT ![t] = l]
              /\ UNCHANGED <<flaws, crashed, destroyed>>
BY DEF Locked!CallAdd, Locked!CallRmv, Locked!Go, Locked!ClientAdd, Locked!ClientRmv,
       ClientAdd, ClientRmv, Locked!NextValue, NextValue,
       Locked!Object!AfterCall, Locked!Object!Doing, Object!AfterCall, Object!Doing

LEMMA LockedLock ==
  ASSUME NEW t, Locked!Lock(t)
  PROVE  /\ pc[t] = "lock"
         /\ mem' = [mem EXCEPT !.mut = t] /\ pc' = [pc EXCEPT ![t] = loc[t].body]
         /\ loc' = [loc EXCEPT ![t] = loc[t]]
         /\ UNCHANGED <<clientVars, explanations, flaws, crashed, destroyed>>
BY DEF Locked!Lock, Locked!Step, Locked!FlawedStep, Locked!Go, Locked!clientVars, clientVars

\* The call that a thread is in, and has not yet taken effect.
LockedCallOf(t) ==
  IF pc[t] = "idle" THEN [op |-> "idle", val |-> NoVal]
  ELSE IF loc[t].body \in {"push", "enq"} THEN [op |-> "add", val |-> loc[t].val]
  ELSE [op |-> "rmv", val |-> NoVal]

LockedDoing == [t \in Threads |-> LockedCallOf(t)]

LockedThreads(bodies) ==
  /\ added \in [Threads -> Nat]
  /\ explanations \in SUBSET AllExplanations
  /\ pc \in [Threads -> {"idle", "lock"} \cup bodies]
  /\ loc = [t \in Threads |-> loc[t]]
  /\ \A t \in Threads : pc[t] # "idle" =>
       /\ loc[t].body \in bodies
       /\ pc[t] # "lock" => pc[t] = loc[t].body
       /\ loc[t].body \in {"push", "enq"} => loc[t].val \in Items

LockedExplained(object) ==
  [object |-> object, doing |-> LockedDoing] \in ByNow(mem.adt, explanations)

LEMMA LockedCallStep ==
  ASSUME IsFiniteSet(Threads), mem.adt \in Adts, NEW bodies, LockedThreads(bodies),
         NEW object, LockedExplained(object),
         NEW t \in Threads, NEW b \in bodies,
         \/ b \in {"push", "enq"}
            /\ Locked!CallAdd(t, "lock", mem, [body |-> b, val |-> NextValue(t)])
         \/ b \notin {"push", "enq"} /\ Locked!CallRmv(t, "lock", mem, [body |-> b])
  PROVE  /\ mem' = mem /\ UNCHANGED <<flaws, destroyed>>
         /\ LockedThreads(bodies)'
         /\ [object |-> object, doing |-> LockedDoing'] \in ByNow(mem.adt, explanations')
<1>. DEFINE l == IF b \in {"push", "enq"} THEN [body |-> b, val |-> NextValue(t)]
                 ELSE [body |-> b]
            op == IF b \in {"push", "enq"} THEN "add" ELSE "rmv"
            v == IF b \in {"push", "enq"} THEN NextValue(t) ELSE NoVal
            f == [object |-> object, doing |-> LockedDoing]
<1>1. /\ mem' = mem /\ UNCHANGED <<flaws, destroyed>> /\ pc[t] = "idle"
      /\ pc' = [pc EXCEPT ![t] = "lock"] /\ loc' = [loc EXCEPT ![t] = l]
      /\ explanations' = Object!AfterCall(explanations, t, op, v)
      /\ ClientAdd(t) \/ ClientRmv(t)
  BY LockedCall
<1>2. added' \in [Threads -> Nat] /\ NextValue(t) \in Items /\ NoVal \in Items
  <2>1. added \in [Threads -> Nat]
    BY DEF LockedThreads
  <2>2. added' = [added EXCEPT ![t] = added[t] + 1] \/ added' = added
    BY <1>1 DEF ClientAdd, ClientRmv
  <2>. QED
    BY <2>1, <2>2 DEF NextValue, Items
<1>3. v \in Items /\ op \in {"add", "rmv"} /\ explanations \in SUBSET AllExplanations
  BY <1>2 DEF LockedThreads
<1>4. f.doing[t].op = "idle" /\ f \in ByNow(mem.adt, explanations)
  BY <1>1 DEF LockedDoing, LockedCallOf, LockedExplained
<1>. HIDE DEF f, v, op
<1>5. explanations' \in SUBSET AllExplanations
      /\ WithDoing(f, t, op, v) \in ByNow(mem.adt, explanations')
  BY <1>1, <1>3, <1>4, CallExplained
<1>6. pc'[t] = "lock" /\ loc'[t] = l /\ l.body = b
      /\ \A u \in Threads \ {t} : pc'[u] = pc[u] /\ loc'[u] = loc[u]
  <2>1. loc = [u \in Threads |-> loc[u]] /\ pc \in [Threads -> {"idle", "lock"} \cup bodies]
    BY DEF LockedThreads
  <2>2. l.body = b
    OBVIOUS
  <2>. HIDE DEF l
  <2>. QED
    BY <1>1, <2>1, <2>2
<1>7. LockedThreads(bodies)'
  <2>1. pc' \in [Threads -> {"idle", "lock"} \cup bodies]
        /\ loc' = [u \in Threads |-> loc'[u]]
    BY <1>1 DEF LockedThreads
  <2>2. b \in {"push", "enq"} => l.val \in Items
    BY <1>2
  <2>. HIDE DEF l
  <2>. QED
    BY <1>2, <1>5, <1>6, <2>1, <2>2 DEF LockedThreads
<1>8. WithDoing(f, t, op, v) = [object |-> object, doing |-> LockedDoing']
  <2>1. LockedCallOf(t)' = [op |-> op, val |-> v]
    BY <1>6 DEF LockedCallOf, op, v
  <2>2. \A u \in Threads \ {t} : LockedCallOf(u)' = LockedCallOf(u)
    BY <1>6 DEF LockedCallOf
  <2>3. LockedDoing' = [LockedDoing EXCEPT ![t] = [op |-> op, val |-> v]]
    BY <2>1, <2>2 DEF LockedDoing
  <2>. QED
    BY <2>3 DEF WithDoing, f
<1>. QED
  BY <1>1, <1>5, <1>7, <1>8

LEMMA LockedLockStep ==
  ASSUME NEW bodies, LockedThreads(bodies), "lock" \notin bodies, "idle" \notin bodies,
         NEW t \in Threads, Locked!Lock(t)
  PROVE  LockedThreads(bodies)' /\ LockedDoing' = LockedDoing
<1>1. /\ pc[t] = "lock" /\ pc' = [pc EXCEPT ![t] = loc[t].body]
      /\ loc' = [loc EXCEPT ![t] = loc[t]]
      /\ explanations' = explanations /\ added' = added
  BY LockedLock DEF clientVars
<1>2. loc[t].body \in bodies
  BY <1>1 DEF LockedThreads
<1>3. /\ pc'[t] = loc[t].body /\ pc'[t] # "idle" /\ loc' = loc
      /\ \A u \in Threads \ {t} : pc'[u] = pc[u]
      /\ pc' \in [Threads -> {"idle", "lock"} \cup bodies]
  BY <1>1, <1>2 DEF LockedThreads
<1>4. LockedThreads(bodies)'
  BY <1>1, <1>2, <1>3 DEF LockedThreads
<1>5. \A u \in Threads : LockedCallOf(u)' = LockedCallOf(u)
  BY <1>1, <1>3 DEF LockedCallOf
<1>. QED
  BY <1>4, <1>5 DEF LockedDoing

LEMMA LockedReturnStep ==
  ASSUME IsFiniteSet(Threads), mem.adt \in Adts, NEW bodies, LockedThreads(bodies),
         NEW object, LockedExplained(object),
         NEW t \in Threads, pc[t] # "idle", NEW m, NEW answer,
         Locked!Return(t, m, answer),
         answer = AnswerOf(object, LockedCallOf(t))
  PROVE  /\ mem' = m /\ UNCHANGED <<flaws, destroyed>>
         /\ LockedThreads(bodies)'
         /\ [object |-> ObjectAfter(mem.adt, object, LockedCallOf(t)), doing |-> LockedDoing']
              \in ByNow(mem.adt, explanations')
<1>. DEFINE f == [object |-> object, doing |-> LockedDoing]
<1>1. /\ mem' = m /\ pc' = [pc EXCEPT ![t] = "idle"] /\ loc' = [loc EXCEPT ![t] = NoLocals]
      /\ explanations' = Object!AfterReturn(mem.adt, explanations, t, answer)
      /\ added' = added /\ UNCHANGED <<flaws, destroyed>>
  BY LockedReturn DEF clientVars
<1>2. /\ f \in ByNow(mem.adt, explanations) /\ f.object = object
      /\ f.doing = LockedDoing /\ f.doing[t] = LockedCallOf(t)
      /\ explanations \in SUBSET AllExplanations
  BY DEF LockedExplained, LockedDoing, LockedThreads
<1>3. Running(f, t)
  BY <1>2 DEF Running, LockedCallOf
<1>. HIDE DEF f
<1>4. /\ explanations' \in SUBSET AllExplanations
      /\ [object |-> ObjectAfter(mem.adt, object, LockedCallOf(t)),
          doing  |-> [LockedDoing EXCEPT ![t] = [op |-> "idle", val |-> NoVal]]]
           \in ByNow(mem.adt, explanations')
  BY <1>1, <1>2, <1>3, EffectExplained
<1>5. /\ pc'[t] = "idle" /\ pc' \in [Threads -> {"idle", "lock"} \cup bodies]
      /\ loc' = [u \in Threads |-> loc'[u]]
      /\ \A u \in Threads \ {t} : pc'[u] = pc[u] /\ loc'[u] = loc[u]
  BY <1>1 DEF LockedThreads
<1>6. LockedThreads(bodies)'
  BY <1>1, <1>4, <1>5 DEF LockedThreads
<1>7. LockedDoing' = [LockedDoing EXCEPT ![t] = [op |-> "idle", val |-> NoVal]]
  <2>1. LockedCallOf(t)' = [op |-> "idle", val |-> NoVal]
    BY <1>5 DEF LockedCallOf
  <2>2. \A u \in Threads \ {t} : LockedCallOf(u)' = LockedCallOf(u)
    BY <1>5 DEF LockedCallOf
  <2>. QED
    BY <2>1, <2>2 DEF LockedDoing
<1>. QED
  BY <1>1, <1>4, <1>6, <1>7

----------------------------------------------------------------------------
(* coarse_stack: the vector holds the stack, its top last. *)

TopFirst(vec) == [i \in 1 .. Len(vec) |-> vec[Len(vec) + 1 - i]]

LEMMA TopFirstType ==
  ASSUME NEW vec \in Seq(Items)
  PROVE  TopFirst(vec) \in Seq(Items) /\ Len(TopFirst(vec)) = Len(vec)
BY DEF TopFirst

LEMMA TopFirstPush ==
  ASSUME NEW vec \in Seq(Items), NEW v \in Items
  PROVE  TopFirst(Append(vec, v)) = <<v>> \o TopFirst(vec)
<1>. DEFINE n == Len(vec)
            s == TopFirst(Append(vec, v))
            r == <<v>> \o TopFirst(vec)
<1>1. n \in Nat /\ Append(vec, v) \in Seq(Items) /\ Len(Append(vec, v)) = n + 1
      /\ Append(vec, v)[n + 1] = v /\ \A i \in 1 .. n : Append(vec, v)[i] = vec[i]
  OBVIOUS
<1>2. s \in Seq(Items) /\ Len(s) = n + 1
  BY <1>1, TopFirstType
<1>3. r \in Seq(Items) /\ Len(r) = n + 1
  BY <1>1, TopFirstType
<1>4. ASSUME NEW i \in 1 .. n + 1 PROVE s[i] = r[i]
  <2>1. s[i] = Append(vec, v)[(n + 1) + 1 - i]
    BY <1>1 DEF TopFirst
  <2>2. CASE i = 1
    BY <1>1, <2>1, <2>2, TopFirstType
  <2>3. CASE i # 1
    <3>1. i - 1 \in 1 .. n /\ (n + 1) + 1 - i \in 1 .. n
          /\ (n + 1) + 1 - i = n + 1 - (i - 1)
      BY <1>1, <2>3
    <3>2. r[i] = TopFirst(vec)[i - 1]
      BY <3>1, TopFirstType
    <3>3. TopFirst(vec)[i - 1] = vec[n + 1 - (i - 1)]
      BY <3>1 DEF TopFirst
    <3>. QED
      BY <1>1, <2>1, <3>1, <3>2, <3>3
  <2>. QED
    BY <2>2, <2>3
<1>. HIDE DEF s, r
<1>. QED
  BY <1>1, <1>2, <1>3, <1>4, SeqEqual DEF s, r

LEMMA TopFirstPop ==
  ASSUME NEW vec \in Seq(Items), Len(vec) # 0
  PROVE  /\ TopFirst(vec) # <<>> /\ Head(TopFirst(vec)) = vec[Len(vec)]
         /\ SubSeq(vec, 1, Len(vec) - 1) \in Seq(Items)
         /\ TopFirst(SubSeq(vec, 1, Len(vec) - 1)) = Tail(TopFirst(vec))
<1>. DEFINE n == Len(vec)
            w == SubSeq(vec, 1, n - 1)
            s == TopFirst(w)
            r == Tail(TopFirst(vec))
<1>1. /\ n \in Nat /\ n >= 1 /\ w \in Seq(Items) /\ Len(w) = n - 1
      /\ \A i \in 1 .. n - 1 : w[i] = vec[i]
  <2>1. n \in Nat /\ n >= 1 /\ 1 \in Int /\ n - 1 \in Int /\ (n - 1) - 1 + 1 = n - 1
        /\ \A i \in 1 .. n - 1 : vec[i] \in Items
    OBVIOUS
  <2>2. /\ w \in Seq(Items) /\ Len(w) = (IF 1 <= n - 1 THEN (n - 1) - 1 + 1 ELSE 0)
        /\ \A i \in 1 .. (n - 1) - 1 + 1 : w[i] = vec[1 + i - 1]
    BY <2>1, SubSeqProperties
  <2>3. Len(w) = n - 1
    BY <2>1, <2>2
  <2>4. \A i \in 1 .. n - 1 : w[i] = vec[i]
    BY <2>1, <2>2
  <2>. QED
    BY <2>1, <2>2, <2>3, <2>4
<1>2. TopFirst(vec) \in Seq(Items) /\ Len(TopFirst(vec)) = n
  BY TopFirstType
<1>3. TopFirst(vec)[1] = vec[n] /\ TopFirst(vec) # <<>>
  BY <1>1, <1>2 DEF TopFirst
<1>4. s \in Seq(Items) /\ Len(s) = n - 1
  BY <1>1, TopFirstType
<1>5. r \in Seq(Items) /\ Len(r) = n - 1 /\ \A i \in 1 .. n - 1 : r[i] = TopFirst(vec)[i + 1]
  BY <1>1, <1>2, <1>3
<1>. HIDE DEF w, r
<1>6. ASSUME NEW i \in 1 .. n - 1 PROVE s[i] = r[i]
  <2>1. i \in 1 .. Len(w) /\ Len(w) + 1 - i \in 1 .. n - 1 /\ i + 1 \in 1 .. n
        /\ Len(w) + 1 - i = n + 1 - (i + 1)
    <3>1. n \in Nat /\ Len(w) = n - 1
      BY <1>1
    <3>. HIDE DEF n
    <3>. QED
      BY ONLY <3>1, i \in 1 .. n - 1
  <2>2. s[i] = w[Len(w) + 1 - i]
    BY <2>1 DEF TopFirst
  <2>3. TopFirst(vec)[i + 1] = vec[n + 1 - (i + 1)]
    BY <2>1 DEF TopFirst
  <2>. QED
    BY <1>1, <1>5, <2>1, <2>2, <2>3
<1>. HIDE DEF s
<1>7. s = r
  BY <1>1, <1>4, <1>5, <1>6, SeqEqual
<1>. QED
  BY <1>1, <1>2, <1>3, <1>7 DEF s, w, r

CoarseStackInv ==
  /\ mem \in [adt : {"stack"}, mut : Threads \cup {Unlocked}, vec : Seq(Items)]
  /\ LockedThreads({"push", "pop"})
  /\ LockedExplained(TopFirst(mem.vec))
  /\ flaws = {}

LEMMA CoarseStackStep ==
  ASSUME IsFiniteSet(Threads), CoarseStackInv, NEW t \in Threads, Locked!StackStep(t)
  PROVE  CoarseStackInv'
<1>. DEFINE B == {"push", "pop"}
            MemType == [adt : {"stack"}, mut : Threads \cup {Unlocked}, vec : Seq(Items)]
<1>0. /\ mem.adt \in Adts /\ LockedThreads(B) /\ LockedExplained(TopFirst(mem.vec))
      /\ mem.adt = "stack" /\ mem.vec \in Seq(Items) /\ mem \in MemType /\ flaws = {}
  BY DEF CoarseStackInv, Adts
<1>1. CASE Locked!CallPush(t) \/ Locked!CallPop(t)
  <2>1. PICK b \in B :
          \/ b \in {"push", "enq"}
             /\ Locked!CallAdd(t, "lock", mem, [body |-> b, val |-> NextValue(t)])
          \/ b \notin {"push", "enq"} /\ Locked!CallRmv(t, "lock", mem, [body |-> b])
    BY <1>1 DEF Locked!CallPush, Locked!CallPop, Locked!NextValue, NextValue
  <2>2. /\ mem' = mem /\ flaws' = flaws /\ LockedThreads(B)'
        /\ [object |-> TopFirst(mem.vec), doing |-> LockedDoing'] \in ByNow(mem.adt, explanations')
    BY <1>0, <2>1, LockedCallStep
  <2>. QED
    BY <1>0, <2>2 DEF CoarseStackInv, LockedExplained
<1>2. CASE Locked!Lock(t)
  <2>1. LockedThreads(B)' /\ LockedDoing' = LockedDoing
    BY <1>0, <1>2, LockedLockStep
  <2>2. mem' = [mem EXCEPT !.mut = t] /\ explanations' = explanations /\ flaws' = flaws
    BY <1>2, LockedLock
  <2>3. mem' \in MemType /\ mem'.vec = mem.vec /\ mem'.adt = mem.adt
    BY <1>0, <2>2
  <2>. QED
    BY <1>0, <2>1, <2>2, <2>3 DEF CoarseStackInv, LockedExplained
<1>3. ASSUME pc[t] # "idle", NEW vec \in Seq(Items), NEW answer,
             Locked!Return(t, [mem EXCEPT !.mut = Unlocked, !.vec = vec], answer),
             answer = AnswerOf(TopFirst(mem.vec), LockedCallOf(t)),
             TopFirst(vec) = ObjectAfter("stack", TopFirst(mem.vec), LockedCallOf(t))
      PROVE  CoarseStackInv'
  <2>. DEFINE m == [mem EXCEPT !.mut = Unlocked, !.vec = vec]
  <2>1. m \in MemType /\ m.vec = vec /\ m.adt = mem.adt
    BY <1>0
  <2>. HIDE DEF m
  <2>2. /\ mem' = m /\ flaws' = flaws /\ LockedThreads(B)'
        /\ [object |-> ObjectAfter(mem.adt, TopFirst(mem.vec), LockedCallOf(t)),
            doing |-> LockedDoing'] \in ByNow(mem.adt, explanations')
    BY <1>0, <1>3, LockedReturnStep DEF m
  <2>. QED
    BY <1>0, <1>3, <2>1, <2>2 DEF CoarseStackInv, LockedExplained
<1>4. CASE Locked!Push(t)
  <2>1. /\ pc[t] = "push" /\ loc[t].body = "push" /\ loc[t].val \in Items
    BY <1>0, <1>4 DEF Locked!Push, LockedThreads
  <2>2. LockedCallOf(t) = [op |-> "add", val |-> loc[t].val]
    BY <2>1 DEF LockedCallOf
  <2>3. Append(mem.vec, loc[t].val) \in Seq(Items)
    BY <1>0, <2>1
  <2>4. Locked!Return(t, [mem EXCEPT !.mut = Unlocked, !.vec = Append(mem.vec, loc[t].val)], NoVal)
    BY <1>4 DEF Locked!Push
  <2>5. /\ NoVal = AnswerOf(TopFirst(mem.vec), LockedCallOf(t))
        /\ TopFirst(Append(mem.vec, loc[t].val)) =
             ObjectAfter("stack", TopFirst(mem.vec), LockedCallOf(t))
    BY <1>0, <2>1, <2>2, TopFirstPush DEF AnswerOf, ObjectAfter
  <2>. QED
    BY <1>3, <2>1, <2>3, <2>4, <2>5
<1>5. CASE Locked!Pop(t)
  <2>1. pc[t] = "pop" /\ loc[t].body = "pop"
    BY <1>0, <1>5 DEF Locked!Pop, LockedThreads
  <2>2. LockedCallOf(t) = [op |-> "rmv", val |-> NoVal]
    BY <2>1 DEF LockedCallOf
  <2>3. CASE Len(mem.vec) = 0
    <3>1. Locked!Return(t, [mem EXCEPT !.mut = Unlocked, !.vec = mem.vec], NoVal)
      <4>1. [mem EXCEPT !.mut = Unlocked, !.vec = mem.vec] = [mem EXCEPT !.mut = Unlocked]
        BY <1>0
      <4>. QED
        BY <1>5, <2>3, <4>1 DEF Locked!Pop
    <3>2. TopFirst(mem.vec) = <<>>
      BY <1>0, <2>3, TopFirstType
    <3>3. /\ NoVal = AnswerOf(TopFirst(mem.vec), LockedCallOf(t))
          /\ TopFirst(mem.vec) = ObjectAfter("stack", TopFirst(mem.vec), LockedCallOf(t))
      BY <2>2, <3>2 DEF AnswerOf, ObjectAfter
    <3>. QED
      BY <1>0, <1>3, <2>1, <3>1, <3>3
  <2>4. CASE Len(mem.vec) # 0
    <3>. DEFINE vec == SubSeq(mem.vec, 1, Len(mem.vec) - 1)
    <3>1. Locked!Return(t, [mem EXCEPT !.mut = Unlocked, !.vec = vec], mem.vec[Len(mem.vec)])
      BY <1>5, <2>4 DEF Locked!Pop
    <3>2. /\ TopFirst(mem.vec) # <<>> /\ Head(TopFirst(mem.vec)) = mem.vec[Len(mem.vec)]
          /\ vec \in Seq(Items) /\ TopFirst(vec) = Tail(TopFirst(mem.vec))
      BY <1>0, <2>4, TopFirstPop
    <3>3. /\ mem.vec[Len(mem.vec)] = AnswerOf(TopFirst(mem.vec), LockedCallOf(t))
          /\ TopFirst(vec) = ObjectAfter("stack", TopFirst(mem.vec), LockedCallOf(t))
      BY <2>2, <3>2 DEF AnswerOf, ObjectAfter
    <3>. HIDE DEF vec
    <3>. QED
      BY <1>3, <2>1, <3>1, <3>2, <3>3
  <2>. QED
    BY <2>3, <2>4
<1>. QED
  BY <1>1, <1>2, <1>4, <1>5 DEF Locked!StackStep

----------------------------------------------------------------------------
(* The heap: what a destructor that walks along a list meets. *)

\* From q[lo] on the next fields lead through q up to q[hi] and end there.
IsPath(next, q, lo, hi) ==
  \A i \in lo .. hi : q[i] # Null /\ next[q[i]] = IF i = hi THEN Null ELSE q[i + 1]

ReachedEquation(after, next, first) ==
  after = [k \in 0 .. Cardinality(DOMAIN next) |->
             IF k = 0 THEN {first} \ {Null}
             ELSE after[k - 1] \cup ({next[n] : n \in after[k - 1]} \ {Null})]

LEMMA ReachedIsChosen ==
  ASSUME NEW next, NEW first
  PROVE  Reached(next, first) =
           (CHOOSE after : ReachedEquation(after, next, first))[Cardinality(DOMAIN next)]
BY Zenon DEF Reached, ReachedEquation

Along(q, lo, hi) == {q[i] : i \in lo .. hi}

LEMMA ReachedIsPath ==
  \A next, q, lo, hi :
     /\ lo \in Nat /\ hi \in Nat /\ lo <= hi
     /\ IsFiniteSet(DOMAIN next) /\ hi - lo <= Cardinality(DOMAIN next)
     /\ IsPath(next, q, lo, hi)
     => Reached(next, q[lo]) = Along(q, lo, hi)
<1>. TAKE next, q, lo, hi
<1>. HAVE /\ lo \in Nat /\ hi \in Nat /\ lo <= hi
          /\ IsFiniteSet(DOMAIN next) /\ hi - lo <= Cardinality(DOMAIN next)
          /\ IsPath(next, q, lo, hi)
<1>. DEFINE C == Cardinality(DOMAIN next)
            Upto(k) == {i \in lo .. hi : i <= lo + k}
            F == [k \in 0 .. C |-> {q[i] : i \in Upto(k)}]
<1>1. C \in Nat
  BY FS_CardinalityType
<1>. HIDE DEF C
<1>2. F[0] = {q[lo]} \ {Null}
  <2>1. 0 \in 0 .. C /\ Upto(0) = {lo}
    BY <1>1
  <2>2. q[lo] # Null
    BY DEF IsPath
  <2>. QED
    BY <2>1, <2>2
<1>3. ASSUME NEW k \in 1 .. C
      PROVE  F[k] = F[k - 1] \cup ({next[n] : n \in F[k - 1]} \ {Null})
  <2>0. k - 1 \in 0 .. C /\ k \in 0 .. C
    BY <1>1
  <2>1. F[k] = {q[i] : i \in Upto(k)} /\ F[k - 1] = {q[i] : i \in Upto(k - 1)}
    BY <2>0
  <2>. HIDE DEF F
  <2>2. ASSUME NEW x \in F[k] PROVE x \in F[k - 1] \cup ({next[n] : n \in F[k - 1]} \ {Null})
    <3>1. PICK i \in lo .. hi : i <= lo + k /\ x = q[i]
      BY <2>1
    <3>2. CASE i <= lo + (k - 1)
      BY <2>1, <3>1, <3>2
    <3>3. CASE ~(i <= lo + (k - 1))
      <4>1. i - 1 \in lo .. hi /\ i - 1 <= lo + (k - 1) /\ i - 1 # hi /\ (i - 1) + 1 = i
        BY <3>1, <3>3
      <4>2. q[i - 1] \in F[k - 1] /\ next[q[i - 1]] = q[i] /\ q[i] # Null
        BY <2>1, <4>1 DEF IsPath
      <4>. QED
        BY <3>1, <4>2
    <3>. QED
      BY <3>2, <3>3
  <2>3. F[k - 1] \subseteq F[k]
    BY <2>1
  <2>4. ASSUME NEW n \in F[k - 1], next[n] # Null PROVE next[n] \in F[k]
    <3>1. PICK i \in lo .. hi : i <= lo + (k - 1) /\ n = q[i]
      BY <2>1
    <3>2. i # hi /\ next[n] = q[i + 1]
      BY <2>4, <3>1 DEF IsPath
    <3>3. i + 1 \in Upto(k)
      BY <3>1, <3>2
    <3>. QED
      BY <2>1, <3>2, <3>3
  <2>. QED
    BY <2>2, <2>3, <2>4
<1>4. ReachedEquation(F, next, q[lo])
  <2>1. F = [k \in 0 .. C |-> F[k]]
    OBVIOUS
  <2>. HIDE DEF F
  <2>2. \A k \in 0 .. C : F[k] = IF k = 0 THEN {q[lo]} \ {Null}
                                 ELSE F[k - 1] \cup ({next[n] : n \in F[k - 1]} \ {Null})
    <3>. TAKE k \in 0 .. C
    <3>1. k # 0 => k \in 1 .. C
      OBVIOUS
    <3>. QED
      BY <1>2, <1>3, <3>1
  <2>3. F = [k \in 0 .. C |-> IF k = 0 THEN {q[lo]} \ {Null}
                              ELSE F[k - 1] \cup ({next[n] : n \in F[k - 1]} \ {Null})]
    BY <2>1, <2>2
  <2>. QED
    BY <2>3 DEF ReachedEquation, C
<1>. HIDE DEF F
<1>5. ASSUME NEW R, ReachedEquation(R, next, q[lo]) PROVE R[C] = F[C]
  <2>. DEFINE X == {k \in Nat : k \in 0 .. C => R[k] = F[k]}
  <2>1. \A k \in 0 .. C :
          /\ R[k] = IF k = 0 THEN {q[lo]} \ {Null}
                    ELSE R[k - 1] \cup ({next[n] : n \in R[k - 1]} \ {Null})
          /\ F[k] = IF k = 0 THEN {q[lo]} \ {Null}
                    ELSE F[k - 1] \cup ({next[n] : n \in F[k - 1]} \ {Null})
    BY <1>4, <1>5 DEF ReachedEquation, C
  <2>2. 0 \in X
    BY <1>1, <2>1
  <2>3. ASSUME NEW k \in Nat, k \in X PROVE k + 1 \in X
    <3>1. CASE k + 1 \in 0 .. C
      <4>1. k \in 0 .. C /\ k + 1 # 0 /\ (k + 1) - 1 = k
        BY <1>1, <3>1
      <4>2. R[k] = F[k]
        BY <2>3, <4>1
      <4>3. /\ R[k + 1] = R[k] \cup ({next[n] : n \in R[k]} \ {Null})
            /\ F[k + 1] = F[k] \cup ({next[n] : n \in F[k]} \ {Null})
        BY <2>1, <3>1, <4>1
      <4>4. R[k + 1] = F[k + 1] /\ k + 1 \in Nat
        BY <4>2, <4>3
      <4>. QED
        BY <4>4
    <3>. QED
      BY <3>1
  <2>. HIDE DEF X
  <2>4. C \in X
    BY <1>1, <2>2, <2>3, NatSetInduction
  <2>. QED
    BY <1>1, <2>4 DEF X
<1>6. Reached(next, q[lo]) = F[C]
  <2>1. ReachedEquation(CHOOSE R : ReachedEquation(R, next, q[lo]), next, q[lo])
    BY <1>4
  <2>. QED
    BY <1>5, <2>1, ReachedIsChosen DEF C
<1>7. Upto(C) = lo .. hi
  BY <1>1 DEF C
<1>. QED
  BY <1>1, <1>6, <1>7 DEF F, Along

----------------------------------------------------------------------------
(* coarse_queue: the nodes are linked in the order in which they are made, *)
(* and deleted in that order.                                              *)

LEMMA LockedHeap ==
  ASSUME NEW next, NEW first, NEW deleted, NEW n
  PROVE  /\ Locked!Fresh(next) = Fresh(next)
         /\ Locked!Delete(deleted, n, next) = Delete(deleted, n, next)
         /\ Locked!Reached(next, first) = Reached(next, first)
<1>1. Locked!Fresh(next) = Fresh(next)
  BY DEF Locked!Fresh, Fresh, Locked!Cardinality, Locked!IsFiniteSet, Cardinality, IsFiniteSet
<1>2. Locked!Delete(deleted, n, next) = Delete(deleted, n, next)
  BY DEF Locked!Delete, Delete, Locked!With, With,
         Locked!Cardinality, Locked!IsFiniteSet, Cardinality, IsFiniteSet
<1>3. Locked!Reached(next, first) = Reached(next, first)
  BY Zenon DEF Locked!Reached, Reached, Locked!Cardinality, Locked!IsFiniteSet,
               Cardinality, IsFiniteSet
<1>. QED
  BY <1>1, <1>2, <1>3

LEMMA HeapFacts ==
  ASSUME NEW next, NEW N \in Nat, DOMAIN next = 1 .. N
  PROVE  /\ IsFiniteSet(DOMAIN next) /\ Cardinality(DOMAIN next) = N
         /\ Fresh(next) = N + 1
<1>1. 1 \in Int /\ N \in Int
  OBVIOUS
<1>2. IsFiniteSet(1 .. N) /\ Cardinality(1 .. N) = N
  BY <1>1, FS_Interval
<1>. QED
  BY <1>2 DEF Fresh

FrontFirst(m) == [i \in 1 .. m.tail - m.head |-> m.v[m.head + i]]

CoarseQueueMemory(m) ==
  /\ m.adt = "queue"
  /\ m.head \in Nat /\ m.tail \in Nat /\ 1 <= m.head /\ m.head <= m.tail
  /\ m.next \in Seq(Nat \cup {Null}) /\ m.v \in Seq(Items)
  /\ Len(m.next) = m.tail /\ Len(m.v) = m.tail
  /\ \A i \in 1 .. m.tail : m.next[i] = IF i = m.tail THEN Null ELSE i + 1

QueueFields == {"adt", "mut", "head", "tail", "next", "v", "deleted"}

CoarseQueueInv ==
  /\ mem = [f \in QueueFields |-> mem[f]] /\ CoarseQueueMemory(mem)
  /\ DOMAIN mem.deleted = 1 .. IF destroyed THEN mem.tail ELSE mem.head - 1
  /\ destroyed => \A t \in Threads : pc[t] = "idle" /\ prog[t] = <<>>
  /\ destroyed \in BOOLEAN
  /\ LockedThreads({"enq", "deq"})
  /\ LockedExplained(FrontFirst(mem))
  /\ flaws = {}

LEMMA FrontFirstType ==
  ASSUME NEW m, CoarseQueueMemory(m)
  PROVE  FrontFirst(m) \in Seq(Items) /\ Len(FrontFirst(m)) = m.tail - m.head
<1>1. m.tail - m.head \in Nat /\ \A i \in 1 .. m.tail - m.head : m.v[m.head + i] \in Items
  BY DEF CoarseQueueMemory
<1>. QED
  BY <1>1 DEF FrontFirst

LEMMA FrontFirstEnq ==
  ASSUME NEW m, CoarseQueueMemory(m), NEW v \in Items, NEW m2, m2.adt = m.adt,
         m2.head = m.head, m2.tail = m.tail + 1, m2.v = Append(m.v, v),
         m2.next = Append([m.next EXCEPT ![m.tail] = m.tail + 1], Null)
  PROVE  CoarseQueueMemory(m2) /\ FrontFirst(m2) = Append(FrontFirst(m), v)
<1>. DEFINE n == m.tail
            next == [m.next EXCEPT ![n] = n + 1]
<1>1. n \in Nat /\ n >= 1 /\ m.head \in Nat /\ m.head <= n /\ 1 <= m.head
      /\ m.next \in Seq(Nat \cup {Null}) /\ Len(m.next) = n
      /\ m.v \in Seq(Items) /\ Len(m.v) = n
      /\ \A i \in 1 .. n : m.next[i] = IF i = n THEN Null ELSE i + 1
  BY DEF CoarseQueueMemory
<1>2. next \in Seq(Nat \cup {Null}) /\ Len(next) = n /\ \A i \in 1 .. n : next[i] = i + 1
  BY <1>1
<1>. HIDE DEF next, n
<1>3. /\ Append(next, Null) \in Seq(Nat \cup {Null}) /\ Len(Append(next, Null)) = n + 1
      /\ \A i \in 1 .. n + 1 : Append(next, Null)[i] = IF i = n + 1 THEN Null ELSE i + 1
  BY <1>1, <1>2
<1>4. /\ Append(m.v, v) \in Seq(Items) /\ Len(Append(m.v, v)) = n + 1
      /\ \A i \in 1 .. n : Append(m.v, v)[i] = m.v[i]
      /\ Append(m.v, v)[n + 1] = v
  BY <1>1
<1>5. CoarseQueueMemory(m2)
  BY <1>1, <1>3, <1>4 DEF CoarseQueueMemory, n, next
<1>6. FrontFirst(m2) \in Seq(Items) /\ Len(FrontFirst(m2)) = (n + 1) - m.head
      /\ FrontFirst(m) \in Seq(Items) /\ Len(FrontFirst(m)) = n - m.head
  BY <1>5, FrontFirstType DEF n
<1>7. Append(FrontFirst(m), v) \in Seq(Items)
      /\ Len(Append(FrontFirst(m), v)) = (n + 1) - m.head
  BY <1>1, <1>6
<1>8. ASSUME NEW i \in 1 .. (n + 1) - m.head
      PROVE  FrontFirst(m2)[i] = Append(FrontFirst(m), v)[i]
  <2>1. FrontFirst(m2)[i] = m2.v[m.head + i]
    BY DEF FrontFirst, n
  <2>2. CASE i = (n + 1) - m.head
    BY <1>1, <1>4, <1>6, <2>1, <2>2
  <2>3. CASE i # (n + 1) - m.head
    <3>1. i \in 1 .. n - m.head /\ m.head + i \in 1 .. n
      BY <1>1, <2>3
    <3>2. Append(FrontFirst(m), v)[i] = FrontFirst(m)[i]
      BY <1>6, <3>1
    <3>3. FrontFirst(m)[i] = m.v[m.head + i]
      BY <3>1 DEF FrontFirst, n
    <3>. QED
      BY <1>4, <2>1, <3>1, <3>2, <3>3
  <2>. QED
    BY <2>2, <2>3
<1>9. FrontFirst(m2) = Append(FrontFirst(m), v)
  BY <1>6, <1>7, <1>8, SeqEqual
<1>. QED
  BY <1>5, <1>9

LEMMA FrontFirstDeq ==
  ASSUME NEW m, CoarseQueueMemory(m), m.head # m.tail, NEW m2, m2.adt = m.adt,
         m2.head = m.head + 1, m2.tail = m.tail, m2.v = m.v, m2.next = m.next
  PROVE  /\ CoarseQueueMemory(m2)
         /\ FrontFirst(m) # <<>> /\ Head(FrontFirst(m)) = m.v[m.head + 1]
         /\ FrontFirst(m2) = Tail(FrontFirst(m))
<1>1. /\ m.tail \in Nat /\ m.head \in Nat /\ m.head < m.tail /\ m.tail - m.head >= 1
      /\ m.v \in Seq(Items) /\ Len(m.v) = m.tail
  BY DEF CoarseQueueMemory
<1>2. CoarseQueueMemory(m2)
  BY <1>1 DEF CoarseQueueMemory
<1>3. FrontFirst(m) \in Seq(Items) /\ Len(FrontFirst(m)) = m.tail - m.head
  BY FrontFirstType
<1>4. FrontFirst(m) # <<>> /\ FrontFirst(m)[1] = m.v[m.head + 1]
  BY <1>1, <1>3 DEF FrontFirst
<1>5. /\ Tail(FrontFirst(m)) \in Seq(Items)
      /\ Len(Tail(FrontFirst(m))) = (m.tail - m.head) - 1
      /\ \A i \in 1 .. (m.tail - m.head) - 1 : Tail(FrontFirst(m))[i] = FrontFirst(m)[i + 1]
  BY <1>1, <1>3, <1>4
<1>6. FrontFirst(m2) \in Seq(Items) /\ Len(FrontFirst(m2)) = (m.tail - m.head) - 1
  BY <1>1, <1>2, FrontFirstType
<1>7. ASSUME NEW i \in 1 .. (m.tail - m.head) - 1
      PROVE  FrontFirst(m2)[i] = Tail(FrontFirst(m))[i]
  <2>1. i \in 1 .. m2.tail - m2.head /\ i + 1 \in 1 .. m.tail - m.head
        /\ m2.head + i = m.head + (i + 1)
    BY <1>1
  <2>2. FrontFirst(m2)[i] = m.v[m2.head + i]
    BY <2>1 DEF FrontFirst
  <2>3. FrontFirst(m)[i + 1] = m.v[m.head + (i + 1)]
    BY <2>1 DEF FrontFirst
  <2>. QED
    BY <1>5, <2>1, <2>2, <2>3
<1>8. FrontFirst(m2) = Tail(FrontFirst(m))
  BY <1>1, <1>5, <1>6, <1>7, SeqEqual
<1>. QED
  BY <1>2, <1>3, <1>4, <1>8

LEMMA CoarseQueueStep ==
  ASSUME IsFiniteSet(Threads), CoarseQueueInv, NEW t \in Threads, Locked!QueueStep(t)
  PROVE  CoarseQueueInv'
<1>. DEFINE B == {"enq", "deq"}
<1>0. /\ mem.adt \in Adts /\ LockedThreads(B) /\ LockedExplained(FrontFirst(mem))
      /\ mem.adt = "queue" /\ CoarseQueueMemory(mem) /\ mem = [f \in QueueFields |-> mem[f]]
      /\ DOMAIN mem.deleted = 1 .. IF destroyed THEN mem.tail ELSE mem.head - 1
      /\ flaws = {} /\ destroyed \in BOOLEAN
      /\ destroyed => pc[t] = "idle" /\ prog[t] = <<>>
  BY DEF CoarseQueueInv, Adts, CoarseQueueMemory
<1>m. /\ mem.head \in Nat /\ mem.tail \in Nat /\ 1 <= mem.head /\ mem.head <= mem.tail
      /\ DOMAIN mem.next = 1 .. mem.tail
      /\ \A i \in 1 .. mem.tail : mem.next[i] = IF i = mem.tail THEN Null ELSE i + 1
  <2>1. CoarseQueueMemory(mem)
    BY DEF CoarseQueueInv
  <2>2. mem.next \in Seq(Nat \cup {Null}) /\ Len(mem.next) = mem.tail
    BY <2>1 DEF CoarseQueueMemory
  <2>. QED
    BY <2>1, <2>2 DEF CoarseQueueMemory
<1>1. CASE Locked!CallEnq(t) \/ Locked!CallDeq(t)
  <2>1. PICK b \in B :
          \/ b \in {"push", "enq"}
             /\ Locked!CallAdd(t, "lock", mem, [body |-> b, val |-> NextValue(t)])
          \/ b \notin {"push", "enq"} /\ Locked!CallRmv(t, "lock", mem, [body |-> b])
    BY <1>1 DEF Locked!CallEnq, Locked!CallDeq, Locked!NextValue, NextValue
  <2>2. /\ mem' = mem /\ UNCHANGED <<flaws, destroyed>> /\ LockedThreads(B)'
        /\ [object |-> FrontFirst(mem), doing |-> LockedDoing'] \in ByNow(mem.adt, explanations')
    BY <1>0, <2>1, LockedCallStep
  <2>3. ~destroyed
    BY <1>0, <2>1, LockedCall DEF ClientAdd, ClientRmv
  <2>. QED
    BY <1>0, <2>2, <2>3 DEF CoarseQueueInv, LockedExplained
<1>2. CASE Locked!Lock(t)
  <2>1. LockedThreads(B)' /\ LockedDoing' = LockedDoing
    BY <1>0, <1>2, LockedLockStep
  <2>2. mem' = [mem EXCEPT !.mut = t] /\ pc[t] = "lock"
        /\ UNCHANGED <<explanations, flaws, destroyed>>
    BY <1>2, LockedLock
  <2>3. /\ mem' = [f \in QueueFields |-> mem'[f]]
        /\ \A f \in QueueFields \ {"mut"} : mem'[f] = mem[f]
    BY <1>0, <2>2
  <2>4. /\ mem'.adt = mem.adt /\ mem'.head = mem.head /\ mem'.tail = mem.tail
        /\ mem'.next = mem.next /\ mem'.v = mem.v /\ mem'.deleted = mem.deleted
    BY <2>3 DEF QueueFields
  <2>5. CoarseQueueMemory(mem)' /\ FrontFirst(mem)' = FrontFirst(mem)
    BY <1>0, <2>4 DEF CoarseQueueMemory, FrontFirst
  <2>6. ~destroyed
    BY <1>0, <2>2
  <2>. QED
    BY <1>0, <2>1, <2>2, <2>3, <2>4, <2>5, <2>6 DEF CoarseQueueInv, LockedExplained
<1>3. ASSUME pc[t] # "idle", NEW m, m = [f \in QueueFields |-> m[f]], NEW answer,
             m.adt = "queue", CoarseQueueMemory(m),
             DOMAIN m.deleted = 1 .. m.head - 1,
             Locked!Return(t, m, answer),
             answer = AnswerOf(FrontFirst(mem), LockedCallOf(t)),
             FrontFirst(m) = ObjectAfter("queue", FrontFirst(mem), LockedCallOf(t))
      PROVE  CoarseQueueInv'
  <2>1. /\ mem' = m /\ UNCHANGED <<flaws, destroyed>> /\ LockedThreads(B)'
        /\ [object |-> ObjectAfter(mem.adt, FrontFirst(mem), LockedCallOf(t)),
            doing |-> LockedDoing'] \in ByNow(mem.adt, explanations')
    BY <1>0, <1>3, LockedReturnStep
  <2>2. ~destroyed
    BY <1>0, <1>3
  <2>. QED
    BY <1>0, <1>3, <2>1, <2>2 DEF CoarseQueueInv, LockedExplained
<1>4. CASE Locked!Enq(t)
  <2>1. pc[t] = "enq" /\ loc[t].body = "enq" /\ loc[t].val \in Items /\ ~destroyed
    BY <1>0, <1>4 DEF Locked!Enq, LockedThreads
  <2>2. LockedCallOf(t) = [op |-> "add", val |-> loc[t].val]
    BY <2>1 DEF LockedCallOf
  <2>3. /\ mem.tail \in Nat /\ DOMAIN mem.next = 1 .. mem.tail
        /\ mem.next[mem.tail] = Null
    BY <1>m
  <2>4. Locked!Fresh(mem.next) = mem.tail + 1
    BY <2>3, LockedHeap, HeapFacts
  <2>. DEFINE n == mem.tail + 1
              m == [mem EXCEPT !.mut = Unlocked,
                               !.v = Append(mem.v, loc[t].val),
                               !.next = Append([mem.next EXCEPT ![mem.tail] = n], Null),
                               !.tail = n]
  <2>5. Locked!Return(t, m, NoVal)
    BY <1>4, <2>3, <2>4 DEF Locked!Enq
  <2>6. /\ m = [f \in QueueFields |-> m[f]] /\ m.adt = mem.adt /\ m.head = mem.head
        /\ m.tail = n /\ m.v = Append(mem.v, loc[t].val)
        /\ m.next = Append([mem.next EXCEPT ![mem.tail] = n], Null)
        /\ m.deleted = mem.deleted
    BY <1>0 DEF QueueFields
  <2>. HIDE DEF m
  <2>7. CoarseQueueMemory(m) /\ FrontFirst(m) = Append(FrontFirst(mem), loc[t].val)
    BY <1>0, <2>1, <2>6, FrontFirstEnq
  <2>8. /\ NoVal = AnswerOf(FrontFirst(mem), LockedCallOf(t))
        /\ FrontFirst(m) = ObjectAfter("queue", FrontFirst(mem), LockedCallOf(t))
    BY <2>2, <2>7 DEF AnswerOf, ObjectAfter
  <2>. QED
    BY <1>0, <1>3, <2>1, <2>5, <2>6, <2>7, <2>8
<1>5. CASE Locked!Deq(t)
  <2>1. pc[t] = "deq" /\ loc[t].body = "deq" /\ ~destroyed
    BY <1>0, <1>5 DEF Locked!Deq, LockedThreads
  <2>2. LockedCallOf(t) = [op |-> "rmv", val |-> NoVal]
    BY <2>1 DEF LockedCallOf
  <2>3. CASE mem.head = mem.tail
    <3>. DEFINE m == [mem EXCEPT !.mut = Unlocked]
    <3>1. Locked!Return(t, m, NoVal)
      BY <1>5, <2>3 DEF Locked!Deq
    <3>2. /\ m = [f \in QueueFields |-> m[f]] /\ m.adt = mem.adt /\ m.head = mem.head
          /\ m.tail = mem.tail /\ m.v = mem.v /\ m.next = mem.next /\ m.deleted = mem.deleted
      BY <1>0 DEF QueueFields
    <3>. HIDE DEF m
    <3>3. CoarseQueueMemory(m) /\ FrontFirst(m) = FrontFirst(mem)
      BY <1>0, <3>2 DEF CoarseQueueMemory, FrontFirst
    <3>4. FrontFirst(mem) = <<>>
      <4>1. FrontFirst(mem) \in Seq(Items) /\ Len(FrontFirst(mem)) = mem.tail - mem.head
        BY <1>0, FrontFirstType
      <4>2. mem.tail - mem.head = 0
        BY <1>m, <2>3
      <4>. QED
        BY <4>1, <4>2
    <3>5. /\ NoVal = AnswerOf(FrontFirst(mem), LockedCallOf(t))
          /\ FrontFirst(m) = ObjectAfter("queue", FrontFirst(mem), LockedCallOf(t))
      BY <2>2, <3>3, <3>4 DEF AnswerOf, ObjectAfter
    <3>. QED
      BY <1>0, <1>3, <2>1, <3>1, <3>2, <3>3, <3>5
  <2>4. CASE mem.head # mem.tail
    <3>1. /\ mem.head \in Nat /\ mem.tail \in Nat /\ mem.head >= 1
          /\ mem.next[mem.head] = mem.head + 1 /\ DOMAIN mem.next = 1 .. mem.tail
      BY <1>m, <2>4
    <3>d. DOMAIN Delete(mem.deleted, mem.head, mem.next) = DOMAIN mem.deleted \cup {mem.head}
      BY DEF Delete, With
    <3>. DEFINE h == mem.head + 1
                d == Delete(mem.deleted, mem.head, mem.next)
                m == [mem EXCEPT !.mut = Unlocked, !.head = h, !.deleted = d]
    <3>2. Locked!Return(t, m, mem.v[h])
      BY <1>5, <2>4, <3>1, LockedHeap DEF Locked!Deq
    <3>3. /\ m = [f \in QueueFields |-> m[f]] /\ m.adt = mem.adt /\ m.head = h
          /\ m.tail = mem.tail /\ m.v = mem.v /\ m.next = mem.next /\ m.deleted = d
      BY <1>0 DEF QueueFields
    <3>4. DOMAIN d = 1 .. h - 1
      <4>1. DOMAIN d = DOMAIN mem.deleted \cup {mem.head}
        BY <3>d
      <4>2. DOMAIN mem.deleted = 1 .. mem.head - 1
        BY <1>0, <2>1
      <4>. HIDE DEF d
      <4>. QED
        BY <3>1, <4>1, <4>2
    <3>. HIDE DEF m, d
    <3>5. /\ CoarseQueueMemory(m) /\ FrontFirst(m) = Tail(FrontFirst(mem))
          /\ FrontFirst(mem) # <<>> /\ Head(FrontFirst(mem)) = mem.v[h]
      BY <1>0, <2>4, <3>3, FrontFirstDeq
    <3>6. /\ mem.v[h] = AnswerOf(FrontFirst(mem), LockedCallOf(t))
          /\ FrontFirst(m) = ObjectAfter("queue", FrontFirst(mem), LockedCallOf(t))
      BY <2>2, <3>5 DEF AnswerOf, ObjectAfter
    <3>. QED
      BY <1>0, <1>3, <2>1, <3>2, <3>3, <3>4, <3>5, <3>6
  <2>. QED
    BY <2>3, <2>4
<1>. QED
  BY <1>1, <1>2, <1>4, <1>5 DEF Locked!QueueStep

LEMMA DestroyListIs ==
  ASSUME NEW first, Locked!DestroyList(first)
  PROVE  /\ ~destroyed /\ destroyed' = TRUE
         /\ \A t \in Threads : pc[t] = "idle" /\ prog[t] = <<>>
         /\ \E d : /\ DOMAIN d = DOMAIN mem.deleted \cup Reached(mem.next, first)
                   /\ mem' = [mem EXCEPT !.deleted = d]
         /\ flaws' = flaws \cup (IF Reached(mem.next, first) \cap DOMAIN mem.deleted = {}
                                 THEN {} ELSE {"deleted twice"})
         /\ UNCHANGED <<clientVars, pc, loc, explanations, crashed>>
<1>. DEFINE met == Locked!Reached(mem.next, first)
            d == [n \in DOMAIN mem.deleted \cup met |-> Locked!Cardinality(DOMAIN mem.next)]
<1>1. met = Reached(mem.next, first)
  BY LockedHeap
<1>2. /\ mem' = [mem EXCEPT !.deleted = d]
      /\ flaws' = flaws \cup (IF met \cap DOMAIN mem.deleted = {} THEN {} ELSE {"deleted twice"})
      /\ ~destroyed /\ destroyed' = TRUE
      /\ \A t \in Threads : pc[t] = "idle" /\ prog[t] = <<>>
      /\ UNCHANGED <<clientVars, pc, loc, explanations, crashed>>
  BY DEF Locked!DestroyList, Locked!FlawedDestroy, Locked!clientVars, clientVars
<1>3. DOMAIN d = DOMAIN mem.deleted \cup met
  OBVIOUS
<1>. HIDE DEF met, d
<1>. QED
  BY <1>1, <1>2, <1>3

LEMMA CoarseQueueDestroy ==
  ASSUME CoarseQueueInv, Locked!DestroyQueue
  PROVE  CoarseQueueInv'
<1>0. /\ CoarseQueueMemory(mem) /\ mem = [f \in QueueFields |-> mem[f]] /\ flaws = {}
      /\ LockedThreads({"enq", "deq"}) /\ LockedExplained(FrontFirst(mem))
      /\ DOMAIN mem.deleted = 1 .. IF destroyed THEN mem.tail ELSE mem.head - 1
  BY DEF CoarseQueueInv
<1>. DEFINE met == Reached(mem.next, mem.head)
<1>1. Locked!DestroyList(mem.head)
  BY DEF Locked!DestroyQueue
<1>2. /\ ~destroyed /\ destroyed' = TRUE
      /\ \A t \in Threads : pc[t] = "idle" /\ prog[t] = <<>>
      /\ \E d : DOMAIN d = DOMAIN mem.deleted \cup met /\ mem' = [mem EXCEPT !.deleted = d]
      /\ flaws' = flaws \cup (IF met \cap DOMAIN mem.deleted = {} THEN {} ELSE {"deleted twice"})
      /\ UNCHANGED <<clientVars, pc, loc, explanations, crashed>>
  BY <1>1, DestroyListIs
<1>3. /\ mem.head \in Nat /\ mem.tail \in Nat /\ 1 <= mem.head /\ mem.head <= mem.tail
      /\ mem.next \in Seq(Nat \cup {Null}) /\ Len(mem.next) = mem.tail
      /\ \A i \in 1 .. mem.tail : mem.next[i] = IF i = mem.tail THEN Null ELSE i + 1
  BY <1>0 DEF CoarseQueueMemory
<1>4. met = mem.head .. mem.tail
  <2>. DEFINE q == [i \in Nat |-> i]
  <2>1. DOMAIN mem.next = 1 .. mem.tail
    BY <1>3
  <2>2. IsFiniteSet(DOMAIN mem.next) /\ Cardinality(DOMAIN mem.next) = mem.tail
    BY <1>3, <2>1, HeapFacts
  <2>3. IsPath(mem.next, q, mem.head, mem.tail)
    BY <1>3, PointersAssumption DEF IsPath
  <2>4. q[mem.head] = mem.head
    BY <1>3
  <2>5. /\ mem.tail - mem.head <= Cardinality(DOMAIN mem.next)
        /\ mem.head \in Nat /\ mem.tail \in Nat /\ mem.head <= mem.tail
    BY <1>3, <2>2
  <2>. HIDE DEF q
  <2>6. Reached(mem.next, q[mem.head]) = {q[i] : i \in mem.head .. mem.tail}
    BY <2>2, <2>3, <2>5, ReachedIsPath DEF Along
  <2>7. \A i \in mem.head .. mem.tail : q[i] = i
    BY <1>3 DEF q
  <2>8. {q[i] : i \in mem.head .. mem.tail} = mem.head .. mem.tail
    BY <2>7
  <2>. QED
    BY <2>4, <2>6, <2>8
<1>. HIDE DEF met
<1>5. /\ DOMAIN mem.deleted = 1 .. mem.head - 1
      /\ met \cap DOMAIN mem.deleted = {} /\ DOMAIN mem.deleted \cup met = 1 .. mem.tail
  <2>1. DOMAIN mem.deleted = 1 .. mem.head - 1
    BY <1>0, <1>2
  <2>. QED
    BY <1>3, <1>4, <2>1
<1>6. PICK d : DOMAIN d = 1 .. mem.tail /\ mem' = [mem EXCEPT !.deleted = d]
  BY <1>2, <1>5
<1>7. flaws' = {}
  BY <1>0, <1>2, <1>5
<1>8. /\ mem' = [f \in QueueFields |-> mem'[f]]
      /\ mem'.adt = mem.adt /\ mem'.head = mem.head /\ mem'.tail = mem.tail
      /\ mem'.next = mem.next /\ mem'.v = mem.v /\ mem'.deleted = d
  BY <1>0, <1>6 DEF QueueFields
<1>9. CoarseQueueMemory(mem)' /\ FrontFirst(mem)' = FrontFirst(mem)
  BY <1>0, <1>8 DEF CoarseQueueMemory, FrontFirst
<1>10. LockedThreads({"enq", "deq"})' /\ LockedDoing' = LockedDoing
  BY <1>0, <1>2 DEF LockedThreads, LockedDoing, LockedCallOf, clientVars
<1>. QED
  BY <1>0, <1>2, <1>6, <1>7, <1>8, <1>9, <1>10
  DEF CoarseQueueInv, LockedExplained, clientVars

Coarse == {"coarse_stack", "coarse_queue"}

CoarseInv ==
  /\ impl = "coarse_stack" => CoarseStackInv /\ ~destroyed
  /\ impl = "coarse_queue" => CoarseQueueInv

LEMMA CoarseInit ==
  ASSUME IsFiniteSet(Threads), Init PROVE CoarseInv
<1>1. /\ added = [t \in Threads |-> 0] /\ mem = Start(impl)
      /\ pc = [t \in Threads |-> "idle"] /\ loc = [t \in Threads |-> NoLocals]
      /\ explanations = Object!NothingHappened
      /\ flaws = {} /\ crashed = FALSE /\ destroyed = FALSE
  BY DEF Init, ClientInit, ImplementationInit
<1>2. ASSUME NEW adt \in Adts
      PROVE  /\ explanations \in SUBSET AllExplanations
             /\ [object |-> <<>>, doing |-> LockedDoing] \in ByNow(adt, explanations)
  <2>1. LockedDoing = [t \in Threads |-> [op |-> "idle", val |-> NoVal]]
    BY <1>1 DEF LockedDoing, LockedCallOf
  <2>. QED
    BY <1>1, <2>1, NothingExplained
<1>3. ASSUME NEW bodies PROVE LockedThreads(bodies)
  <2>1. explanations \in SUBSET AllExplanations
    BY <1>2 DEF Adts
  <2>. QED
    BY <1>1, <2>1 DEF LockedThreads
<1>4. CASE impl = "coarse_stack"
  <2>1. mem = [adt |-> "stack", mut |-> Unlocked, vec |-> <<>>]
    BY <1>1, <1>4 DEF Start, Locked!StackStart
  <2>2. TopFirst(mem.vec) = <<>>
    BY <2>1 DEF TopFirst
  <2>3. LockedExplained(TopFirst(mem.vec))
    BY <1>2, <2>1, <2>2 DEF LockedExplained, Adts
  <2>4. mem \in [adt : {"stack"}, mut : Threads \cup {Unlocked}, vec : Seq(Items)]
    BY <2>1
  <2>. QED
    BY <1>1, <1>3, <1>4, <2>3, <2>4 DEF CoarseInv, CoarseStackInv
<1>5. CASE impl = "coarse_queue"
  <2>1. mem = [adt |-> "queue", mut |-> Unlocked, head |-> 1, tail |-> 1,
               next |-> <<Null>>, v |-> <<NoVal>>, deleted |-> Locked!EmptyMap]
    BY <1>1, <1>5 DEF Start, Locked!QueueStart
  <2>2. mem = [f \in QueueFields |-> mem[f]]
    BY <2>1 DEF QueueFields
  <2>3. CoarseQueueMemory(mem)
    <3>1. <<NoVal>> \in Seq(Items) /\ <<Null>> \in Seq(Nat \cup {Null})
      BY DEF Items
    <3>. QED
      BY <2>1, <3>1 DEF CoarseQueueMemory
  <2>4. FrontFirst(mem) = <<>>
    BY <2>1 DEF FrontFirst
  <2>5. LockedExplained(FrontFirst(mem))
    BY <1>2, <2>1, <2>4 DEF LockedExplained, Adts
  <2>6. DOMAIN mem.deleted = {} /\ 1 .. mem.head - 1 = {}
    BY <2>1 DEF Locked!EmptyMap
  <2>. QED
    BY <1>1, <1>3, <1>5, <2>2, <2>3, <2>5, <2>6 DEF CoarseInv, CoarseQueueInv
<1>. QED
  BY <1>4, <1>5 DEF CoarseInv

LEMMA CoarseNext ==
  ASSUME IsFiniteSet(Threads), CoarseInv, [Next]_allVars PROVE CoarseInv'
<1>1. CASE UNCHANGED allVars
  <2>1. UNCHANGED <<prog, added, mem, pc, loc, explanations, flaws, destroyed, impl>>
    BY <1>1 DEF allVars, implVars, clientVars
  <2>2. LockedDoing' = LockedDoing
    BY <2>1 DEF LockedDoing, LockedCallOf
  <2>3. CoarseStackInv => CoarseStackInv'
    BY <2>1, <2>2 DEF CoarseStackInv, LockedThreads, LockedExplained
  <2>4. CoarseQueueInv => CoarseQueueInv'
    BY <2>1, <2>2 DEF CoarseQueueInv, LockedThreads, LockedExplained
  <2>. QED
    BY <2>1, <2>3, <2>4 DEF CoarseInv
<1>2. CASE Next
  <2>1. impl' = impl
    BY <1>2 DEF Next
  <2>2. CASE impl = "coarse_stack"
    <3>1. PICK t \in Threads : Locked!StackStep(t)
      BY <1>2, <2>2 DEF Next, ThreadStep, Destroy
    <3>2. CoarseStackInv'
      BY <2>2, <3>1, CoarseStackStep DEF CoarseInv
    <3>3. destroyed' = destroyed
      BY <3>1, LockedCall, LockedReturn, LockedLock
      DEF Locked!StackStep, Locked!CallPush, Locked!CallPop, Locked!Push, Locked!Pop
    <3>. QED
      BY <2>1, <2>2, <3>2, <3>3 DEF CoarseInv
  <2>3. CASE impl = "coarse_queue"
    <3>1. (\E t \in Threads : Locked!QueueStep(t)) \/ Locked!DestroyQueue
      BY <1>2, <2>3 DEF Next, ThreadStep, Destroy
    <3>2. CoarseQueueInv'
      BY <2>3, <3>1, CoarseQueueStep, CoarseQueueDestroy DEF CoarseInv
    <3>. QED
      BY <2>1, <2>3, <3>2 DEF CoarseInv
  <2>. QED
    BY <2>1, <2>2, <2>3 DEF CoarseInv
<1>. QED
  BY <1>1, <1>2

\* The implementations with one mutex answer what a stack or a queue answers
\* at an instant of each call, do nothing that they should not, and the queue
\* deletes each of its nodes once.
THEOREM CoarseIsCorrect ==
  ASSUME IsFiniteSet(Threads)
  PROVE  Spec => [](impl \in Coarse => /\ WrongOnlyByFlaw /\ explanations # {} /\ Unflawed
                                       /\ NodesAreDeletedOnce)
<1>1. CoarseInv => (impl \in Coarse => /\ WrongOnlyByFlaw /\ explanations # {} /\ Unflawed
                                       /\ NodesAreDeletedOnce)
  <2>. SUFFICES ASSUME CoarseInv, impl \in Coarse
                PROVE  explanations # {} /\ flaws = {} /\ NodesAreDeletedOnce
    BY DEF WrongOnlyByFlaw, Unflawed
  <2>1. CASE impl = "coarse_stack"
    <3>1. CoarseStackInv /\ ~destroyed
      BY <2>1 DEF CoarseInv
    <3>2. explanations # {}
      BY <3>1, ExplanationLeft DEF CoarseStackInv, LockedExplained, LockedThreads, Adts
    <3>. QED
      BY <3>1, <3>2 DEF CoarseStackInv, NodesAreDeletedOnce
  <2>2. CASE impl = "coarse_queue"
    <3>1. CoarseQueueInv
      BY <2>2 DEF CoarseInv
    <3>2. mem.adt \in Adts
      BY <3>1 DEF CoarseQueueInv, CoarseQueueMemory, Adts
    <3>3. explanations # {}
      BY <3>1, <3>2, ExplanationLeft DEF CoarseQueueInv, LockedExplained, LockedThreads
    <3>4. DOMAIN mem.next = 1 .. mem.tail
      BY <3>1 DEF CoarseQueueInv, CoarseQueueMemory
    <3>5. destroyed => DOMAIN mem.deleted = DOMAIN mem.next
      BY <3>1, <3>4 DEF CoarseQueueInv
    <3>. QED
      BY <3>1, <3>3, <3>5 DEF CoarseQueueInv, NodesAreDeletedOnce
  <2>. QED
    BY <2>1, <2>2 DEF Coarse
<1>2. Init => CoarseInv
  BY CoarseInit
<1>3. CoarseInv /\ [Next]_allVars => CoarseInv'
  BY CoarseNext
<1>. QED
  BY <1>1, <1>2, <1>3, PTL DEF Spec

----------------------------------------------------------------------------
(***************************************************************************)
(* Michael and Scott's queue.  While no step has done what is named in     *)
(* flaws, its answers are those of a queue; the first flaw is never a wild *)
(* pointer and never a node deleted twice; and it deletes every node.      *)
(*                                                                         *)
(* The invariant follows the nodes in the order in which they were linked, *)
(* q[1], q[2], ...: head is q[h] and tail is q[k], the nodes before head   *)
(* are deleted, and what a thread has read tells where in q it was.        *)
(***************************************************************************)

Pointers == Nat \cup {Null, Garbage}

EnqLocals == [n : Nat, tail : Pointers, next : Pointers]
DeqLocals == [head : Pointers, tail : Pointers, next : Pointers,
              vl : Items \cup {Garbage, Null}]

Linking == {"enq_tail", "enq_next", "enq_check", "enq_link", "enq_help"}
Enqueuing == Linking \cup {"enq_swing"}
Dequeuing == {"deq_head", "deq_tail", "deq_next", "deq_check", "deq_help",
              "deq_data", "deq_cas"}

\* mem has the fields of an msqueue_t.
IsQueue(m) ==
  m = [adt |-> m.adt, head |-> m.head, tail |-> m.tail, next |-> m.next,
       data |-> m.data, deleted |-> m.deleted]

\* The nodes that were ever linked, in order; those before head are deleted.
Linked(q, h, k) ==
  /\ h \in 1 .. Len(q) /\ k \in h .. Len(q)
  /\ mem.head = q[h] /\ mem.tail = q[k]
  /\ \A i, j \in 1 .. Len(q) : q[i] = q[j] => i = j
  /\ \A i \in 1 .. Len(q) :
       /\ q[i] \in 1 .. Len(mem.next)
       /\ mem.next[q[i]] = IF i = Len(q) THEN Null ELSE q[i + 1]
  /\ DOMAIN mem.deleted = {q[i] : i \in 1 .. h - 1}

\* The nodes that were made and not linked yet, each by one thread.
Unlinked(q) ==
  /\ \A t \in Threads : pc[t] \in Linking =>
       /\ loc[t].n \in 1 .. Len(mem.next) /\ mem.next[loc[t].n] = Null
       /\ \A i \in 1 .. Len(q) : q[i] # loc[t].n
       /\ \A u \in Threads : pc[u] \in Linking /\ loc[u].n = loc[t].n => u = t
  /\ \A n \in 1 .. Len(mem.next) :
       \/ \E i \in 1 .. Len(q) : n = q[i]
       \/ \E t \in Threads : pc[t] \in Linking /\ loc[t].n = n

\* What add has read, when it has found tail at q[j].
EnqAt(t, q, k, j) ==
  /\ j \in 1 .. k /\ loc[t].tail = q[j]
  /\ pc[t] = "enq_check" /\ j = k =>
       loc[t].next = Null \/ (j < Len(q) /\ loc[t].next = q[j + 1])
  /\ pc[t] = "enq_help" => j < Len(q) /\ loc[t].next = q[j + 1]
  /\ pc[t] = "enq_swing" => j < Len(q) /\ loc[t].n = q[j + 1]

EnqThread(t, q, k) ==
  pc[t] \in Enqueuing =>
    /\ loc[t] \in EnqLocals
    /\ pc[t] # "enq_tail" => \E j \in 1 .. k : EnqAt(t, q, k, j)

\* What rmv has read, when it has found head at q[i] and tail at q[j].
DeqAt(t, q, h, k, i, j) ==
  /\ i \in 1 .. h /\ j \in i .. k
  /\ loc[t].head = q[i] /\ loc[t].tail = q[j]
  /\ pc[t] = "deq_check" /\ i = h =>
       (i = j /\ loc[t].next = Null) \/ (i < Len(q) /\ loc[t].next = q[i + 1])
  /\ pc[t] = "deq_help" => i = j /\ i < Len(q) /\ loc[t].next = q[i + 1]
  /\ pc[t] \in {"deq_data", "deq_cas"} => i < j /\ loc[t].next = q[i + 1]
  /\ pc[t] = "deq_cas" /\ i = h => loc[t].vl = mem.data[q[i + 1]]

DeqThread(t, q, h, k) ==
  pc[t] \in Dequeuing =>
    /\ loc[t] \in DeqLocals
    /\ pc[t] = "deq_tail" => \E i \in 1 .. h : loc[t].head = q[i]
    /\ pc[t] \notin {"deq_head", "deq_tail"} =>
         \E i \in 1 .. h, j \in 1 .. k : DeqAt(t, q, h, k, i, j)

\* The call that a thread is in; an add has taken effect once its node is
\* linked.
MSCallOf(t) ==
  IF pc[t] = "idle" THEN [op |-> "idle", val |-> NoVal]
  ELSE IF pc[t] \in Linking THEN [op |-> "add", val |-> mem.data[loc[t].n]]
  ELSE IF pc[t] = "enq_swing" THEN [op |-> "did", val |-> NoVal]
  ELSE [op |-> "rmv", val |-> NoVal]

\* A rmv that has found the queue empty: whether it took effect then is known
\* when it has looked at head again.
FoundEmpty ==
  {t \in Threads : pc[t] = "deq_check" /\ loc[t].next = Null /\ loc[t].head = mem.head}

DoingWith(S) ==
  [t \in Threads |-> IF t \in S THEN [op |-> "did", val |-> NoVal] ELSE MSCallOf(t)]

\* The values from the node after q[h] on.
Queued(data, q, h) == [i \in 1 .. Len(q) - h |-> data[q[h + i]]]

MSExplained(q, h) ==
  \A S \in SUBSET FoundEmpty :
    [object |-> Queued(mem.data, q, h), doing |-> DoingWith(S)] \in ByNow("queue", explanations)

MSTyped ==
  /\ mem.adt = "queue" /\ IsQueue(mem)
  /\ mem.next \in Seq(Nat \cup {Null}) /\ mem.data \in Seq(Items)
  /\ Len(mem.next) = Len(mem.data)
  /\ added \in [Threads -> Nat]
  /\ pc \in [Threads -> {"idle"} \cup Enqueuing \cup Dequeuing]
  /\ loc = [t \in Threads |-> loc[t]]
  /\ explanations \in SUBSET AllExplanations

MSInvAt(q, h, k) ==
  /\ Linked(q, h, k) /\ Unlinked(q)
  /\ \A t \in Threads : EnqThread(t, q, k) /\ DeqThread(t, q, h, k)
  /\ MSExplained(q, h)

MSQueueInv ==
  /\ MSTyped
  /\ \E q \in Seq(Nat) : \E h, k \in Nat : MSInvAt(q, h, k)

\* When the destructor has run, no thread is left.
MSDestroyed ==
  /\ explanations # {} /\ DOMAIN mem.deleted = DOMAIN mem.next
  /\ \A t \in Threads : pc[t] = "idle" /\ prog[t] = <<>>

\* Nothing is known of what comes after a flaw.
MSInv ==
  impl = "msqueue" /\ flaws = {} => IF destroyed THEN MSDestroyed ELSE MSQueueInv

----------------------------------------------------------------------------
(* The steps of MS are those of Implementation. *)

LEMMA MSByNow ==
  ASSUME NEW adt, NEW es
  PROVE  MS!Object!ByNow(adt, es) = Object!ByNow(adt, es)
BY Zenon
DEF MS!Object!ByNow, MS!Object!TakeEffect, MS!Object!Doing,
    MS!Object!Cardinality, MS!Object!IsFiniteSet,
    Object!ByNow, Object!TakeEffect, Object!Doing,
    Object!Cardinality, Object!IsFiniteSet

LEMMA MSReturnIs ==
  ASSUME NEW t, NEW m, NEW answer, NEW found, MS!FlawedReturn(t, m, answer, found)
  PROVE  /\ mem' = m /\ pc' = [pc EXCEPT ![t] = "idle"]
         /\ loc' = [loc EXCEPT ![t] = NoLocals]
         /\ explanations' = Object!AfterReturn(mem.adt, explanations, t, answer)
         /\ flaws' = flaws \cup found
         /\ UNCHANGED <<prog, added, destroyed>>
<1>1. MS!Object!AfterReturn(mem.adt, explanations, t, answer) =
        Object!AfterReturn(mem.adt, explanations, t, answer)
  BY MSByNow, Zenon
  DEF MS!Object!AfterReturn, MS!Object!Doing, MS!Object!Idle,
      Object!AfterReturn, Object!Doing, Object!Idle
<1>. QED
  BY <1>1 DEF MS!FlawedReturn, MS!Go, MS!NoLocals, NoLocals, MS!clientVars

LEMMA MSStepIs ==
  ASSUME NEW t, NEW place, NEW m, NEW l, NEW found, MS!FlawedStep(t, place, m, l, found)
  PROVE  /\ mem' = m /\ pc' = [pc EXCEPT ![t] = place] /\ loc' = [loc EXCEPT ![t] = l]
         /\ flaws' = flaws \cup found
         /\ UNCHANGED <<prog, added, explanations, destroyed>>
BY DEF MS!FlawedStep, MS!Go, MS!clientVars

LEMMA MSCallIs ==
  ASSUME NEW t, NEW place, NEW m, NEW l
  PROVE  /\ MS!CallAdd(t, place, m, l) =>
              /\ explanations' = Object!AfterCall(explanations, t, "add", NextValue(t))
              /\ added' = [added EXCEPT ![t] = @ + 1]
         /\ MS!CallRmv(t, place, m, l) =>
              /\ explanations' = Object!AfterCall(explanations, t, "rmv", NoVal)
              /\ added' = added
         /\ MS!CallAdd(t, place, m, l) \/ MS!CallRmv(t, place, m, l) =>
              /\ pc[t] = "idle" /\ prog[t] # <<>>
              /\ mem' = m /\ pc' = [pc EXCEPT ![t] = place] /\ loc' = [loc EXCEPT ![t] = l]
              /\ UNCHANGED <<flaws, destroyed>>
BY DEF MS!CallAdd, MS!CallRmv, MS!Go, MS!ClientAdd, MS!ClientRmv, MS!NextValue, NextValue,
       MS!Object!AfterCall, MS!Object!Doing, Object!AfterCall, Object!Doing

LEMMA MSHeap ==
  ASSUME NEW next, NEW first, NEW deleted, NEW n
  PROVE  /\ MS!Fresh(next) = Fresh(next)
         /\ MS!Delete(deleted, n, next) = Delete(deleted, n, next)
         /\ MS!Reached(next, first) = Reached(next, first)
         /\ MS!Read(next, deleted, n) = Read(next, deleted, n)
         /\ MS!Has(deleted, n) = Has(deleted, n)
<1>1. MS!Fresh(next) = Fresh(next)
  BY DEF MS!Fresh, Fresh, MS!Cardinality, MS!IsFiniteSet, Cardinality, IsFiniteSet
<1>2. MS!Delete(deleted, n, next) = Delete(deleted, n, next)
  BY DEF MS!Delete, Delete, MS!With, With,
         MS!Cardinality, MS!IsFiniteSet, Cardinality, IsFiniteSet
<1>3. MS!Reached(next, first) = Reached(next, first)
  BY Zenon DEF MS!Reached, Reached, MS!Cardinality, MS!IsFiniteSet, Cardinality, IsFiniteSet
<1>4. MS!Has(deleted, n) = Has(deleted, n) /\ MS!Read(next, deleted, n) = Read(next, deleted, n)
  BY DEF MS!Read, Read, MS!Has, Has
<1>. QED
  BY <1>1, <1>2, <1>3, <1>4

LEMMA MSEqual ==
  ASSUME NEW deleted, NEW pointer, NEW expected, NEW same \in MS!Equal(deleted, pointer, expected)
  PROVE  /\ same \in BOOLEAN
         /\ same /\ MS!Reused(pointer, expected) = {} => pointer = expected
         /\ ~same => pointer # expected
         /\ MS!Reused(pointer, expected) \subseteq {"address used again"}
BY DEF MS!Equal, MS!Reused
----------------------------------------------------------------------------
(* How the explanations are carried on. *)

DoneWithNothing == [op |-> "did", val |-> NoVal]
NotCalled == [op |-> "idle", val |-> NoVal]

LEMMA DoingOf ==
  ASSUME NEW S, NEW t \in Threads
  PROVE  DoingWith(S)[t] = IF t \in S THEN DoneWithNothing ELSE MSCallOf(t)
BY DEF DoingWith, DoneWithNothing

\* A step that no call takes effect in.
LEMMA NothingNew ==
  ASSUME NEW q, NEW h, MSExplained(q, h), NEW q2, NEW h2,
         Queued(mem.data, q2, h2)' = Queued(mem.data, q, h),
         FoundEmpty' \subseteq FoundEmpty, explanations' = explanations,
         \A u \in Threads : MSCallOf(u)' = MSCallOf(u)
  PROVE  MSExplained(q2, h2)'
<1>1. \A S : DoingWith(S)' = DoingWith(S)
  BY DEF DoingWith
<1>. QED
  BY <1>1 DEF MSExplained

\* A thread calls add or rmv.
LEMMA Called ==
  ASSUME IsFiniteSet(Threads), MSTyped, NEW q, NEW h, MSExplained(q, h),
         NEW t \in Threads, pc[t] = "idle", NEW op \in {"add", "rmv"}, NEW v \in Items,
         explanations' = Object!AfterCall(explanations, t, op, v),
         Queued(mem.data, q, h)' = Queued(mem.data, q, h),
         FoundEmpty' \subseteq FoundEmpty, t \notin FoundEmpty',
         MSCallOf(t)' = [op |-> op, val |-> v],
         \A u \in Threads \ {t} : MSCallOf(u)' = MSCallOf(u)
  PROVE  explanations' \in SUBSET AllExplanations /\ MSExplained(q, h)'
<1>0. explanations \in SUBSET AllExplanations /\ "queue" \in Adts
  BY DEF MSTyped, Adts
<1>1. ASSUME NEW S \in SUBSET FoundEmpty'
      PROVE  /\ explanations' \in SUBSET AllExplanations
             /\ [object |-> Queued(mem.data, q, h), doing |-> DoingWith(S)'] \in ByNow("queue", explanations')
  <2>. DEFINE f == [object |-> Queued(mem.data, q, h), doing |-> DoingWith(S)]
  <2>1. f \in ByNow("queue", explanations) /\ f.doing = DoingWith(S)
        /\ f.object = Queued(mem.data, q, h)
    BY DEF MSExplained
  <2>2. DoingWith(S)[t].op = "idle"
    <3>1. t \notin FoundEmpty /\ MSCallOf(t).op = "idle"
      BY DEF FoundEmpty, MSCallOf
    <3>. QED
      BY <3>1, DoingOf
  <2>3. WithDoing(f, t, op, v) = [object |-> Queued(mem.data, q, h), doing |-> DoingWith(S)']
    <3>1. DoingWith(S)' = [DoingWith(S) EXCEPT ![t] = [op |-> op, val |-> v]]
      BY DEF DoingWith
    <3>. QED
      BY <3>1 DEF WithDoing
  <2>. HIDE DEF f
  <2>. QED
    BY <1>0, <2>1, <2>2, <2>3, CallExplained
<1>2. {} \in SUBSET FoundEmpty'
  OBVIOUS
<1>3. explanations' \in SUBSET AllExplanations
  BY <1>1, <1>2
<1>. QED
  BY <1>1, <1>3 DEF MSExplained

\* A call that has taken effect, and had nothing to answer, returns.
LEMMA Returned ==
  ASSUME IsFiniteSet(Threads), MSTyped, NEW q, NEW h, MSExplained(q, h),
         NEW t \in Threads, pc[t] = "enq_swing" \/ t \in FoundEmpty,
         explanations' = Object!AfterReturn("queue", explanations, t, NoVal),
         Queued(mem.data, q, h)' = Queued(mem.data, q, h),
         FoundEmpty' \subseteq FoundEmpty, t \notin FoundEmpty',
         MSCallOf(t)' = NotCalled,
         \A u \in Threads \ {t} : MSCallOf(u)' = MSCallOf(u)
  PROVE  explanations' \in SUBSET AllExplanations /\ MSExplained(q, h)'
<1>0. explanations \in SUBSET AllExplanations /\ "queue" \in Adts
  BY DEF MSTyped, Adts
<1>1. ASSUME NEW S \in SUBSET FoundEmpty'
      PROVE  /\ explanations' \in SUBSET AllExplanations
             /\ [object |-> Queued(mem.data, q, h), doing |-> DoingWith(S)'] \in ByNow("queue", explanations')
  <2>. DEFINE S2 == IF t \in FoundEmpty THEN S \cup {t} ELSE S
              f == [object |-> Queued(mem.data, q, h), doing |-> DoingWith(S2)]
  <2>1. f \in ByNow("queue", explanations) /\ f.doing = DoingWith(S2)
        /\ f.object = Queued(mem.data, q, h)
    BY DEF MSExplained
  <2>2. DoingWith(S2)[t] = [op |-> "did", val |-> NoVal]
    <3>1. t \in S2 \/ MSCallOf(t) = DoneWithNothing
      BY DEF MSCallOf, DoneWithNothing, Linking
    <3>. HIDE DEF S2
    <3>. QED
      BY <3>1, DoingOf DEF DoneWithNothing
  <2>3. WithDoing(f, t, "idle", NoVal) = [object |-> Queued(mem.data, q, h), doing |-> DoingWith(S)']
    <3>1. DoingWith(S)' = [DoingWith(S2) EXCEPT ![t] = [op |-> "idle", val |-> NoVal]]
      BY DEF DoingWith, NotCalled
    <3>. QED
      BY <3>1 DEF WithDoing
  <2>. HIDE DEF f, S2
  <2>. QED
    BY <1>0, <2>1, <2>2, <2>3, ReturnExplained
<1>2. {} \in SUBSET FoundEmpty'
  OBVIOUS
<1>3. explanations' \in SUBSET AllExplanations
  BY <1>1, <1>2
<1>. QED
  BY <1>1, <1>3 DEF MSExplained

\* An add takes effect.
LEMMA Added ==
  ASSUME IsFiniteSet(Threads), MSTyped, NEW q, NEW h, MSExplained(q, h),
         NEW t \in Threads, NEW v, MSCallOf(t) = [op |-> "add", val |-> v],
         NEW q2, Queued(mem.data, q2, h)' = Append(Queued(mem.data, q, h), v),
         explanations' = explanations, t \notin FoundEmpty, FoundEmpty' \subseteq FoundEmpty,
         MSCallOf(t)' = DoneWithNothing,
         \A u \in Threads \ {t} : MSCallOf(u)' = MSCallOf(u)
  PROVE  MSExplained(q2, h)'
<1>0. explanations \in SUBSET AllExplanations /\ "queue" \in Adts
  BY DEF MSTyped, Adts
<1>1. ASSUME NEW S \in SUBSET FoundEmpty'
      PROVE  [object |-> Queued(mem.data, q2, h)', doing |-> DoingWith(S)'] \in ByNow("queue", explanations)
  <2>. DEFINE f == [object |-> Queued(mem.data, q, h), doing |-> DoingWith(S)]
  <2>1. f \in ByNow("queue", explanations) /\ f.doing = DoingWith(S)
        /\ f.object = Queued(mem.data, q, h)
    BY DEF MSExplained
  <2>2. DoingWith(S)[t] = [op |-> "add", val |-> v]
    BY DoingOf
  <2>. HIDE DEF f
  <2>3. TakeEffect("queue", f, t) \in ByNow("queue", explanations)
    BY <1>0, <2>1, <2>2, ByNowEffect DEF Running
  <2>4. TakeEffect("queue", f, t) = [object |-> Queued(mem.data, q2, h)', doing |-> DoingWith(S)']
    <3>1. DoingWith(S)' = [DoingWith(S) EXCEPT ![t] = [op |-> "did", val |-> NoVal]]
      BY DEF DoingWith, DoneWithNothing
    <3>2. /\ AnswerOf(f.object, f.doing[t]) = NoVal
          /\ ObjectAfter("queue", f.object, f.doing[t]) = Queued(mem.data, q2, h)'
      BY <2>1, <2>2 DEF AnswerOf, ObjectAfter
    <3>. QED
      BY <2>1, <3>1, <3>2, TakeEffectIs
  <2>. QED
    BY <2>3, <2>4
<1>. QED
  BY <1>1 DEF MSExplained

\* A rmv takes effect, and returns, as it moves head on.
LEMMA Removed ==
  ASSUME IsFiniteSet(Threads), MSTyped, NEW q, NEW h, MSExplained(q, h),
         NEW t \in Threads, MSCallOf(t) = [op |-> "rmv", val |-> NoVal],
         Queued(mem.data, q, h) # <<>>,
         explanations' = Object!AfterReturn("queue", explanations, t, Head(Queued(mem.data, q, h))),
         NEW h2, Queued(mem.data, q, h2)' = Tail(Queued(mem.data, q, h)),
         FoundEmpty' = {}, MSCallOf(t)' = NotCalled,
         \A u \in Threads \ {t} : MSCallOf(u)' = MSCallOf(u)
  PROVE  explanations' \in SUBSET AllExplanations /\ MSExplained(q, h2)'
<1>. DEFINE obj == Queued(mem.data, q, h)
            f == [object |-> obj, doing |-> DoingWith({})]
<1>0. explanations \in SUBSET AllExplanations /\ "queue" \in Adts
  BY DEF MSTyped, Adts
<1>1. f \in ByNow("queue", explanations) /\ f.doing = DoingWith({}) /\ f.object = obj
  BY DEF MSExplained
<1>2. DoingWith({})[t] = [op |-> "rmv", val |-> NoVal]
  BY DoingOf
<1>. HIDE DEF f
<1>3. Running(f, t) /\ AnswerOf(f.object, f.doing[t]) = Head(obj)
      /\ ObjectAfter("queue", f.object, f.doing[t]) = Tail(obj)
  BY <1>1, <1>2 DEF Running, AnswerOf, ObjectAfter
<1>. HIDE DEF obj
<1>4. /\ explanations' \in SUBSET AllExplanations
      /\ [object |-> Tail(obj),
          doing  |-> [DoingWith({}) EXCEPT ![t] = [op |-> "idle", val |-> NoVal]]]
            \in ByNow("queue", explanations')
  BY <1>0, <1>1, <1>3, EffectExplained DEF obj
<1>5. DoingWith({})' = [DoingWith({}) EXCEPT ![t] = [op |-> "idle", val |-> NoVal]]
  BY DEF DoingWith, NotCalled
<1>. QED
  BY <1>4, <1>5 DEF MSExplained, obj

\* A rmv finds that head has no successor.
LEMMA Emptied ==
  ASSUME IsFiniteSet(Threads), MSTyped, NEW q, NEW h, MSExplained(q, h),
         NEW t \in Threads, MSCallOf(t) = [op |-> "rmv", val |-> NoVal],
         Queued(mem.data, q, h) = <<>>,
         Queued(mem.data, q, h)' = Queued(mem.data, q, h),
         explanations' = explanations, FoundEmpty' \subseteq FoundEmpty \cup {t},
         \A u \in Threads : MSCallOf(u)' = MSCallOf(u)
  PROVE  MSExplained(q, h)'
<1>0. explanations \in SUBSET AllExplanations /\ "queue" \in Adts
  BY DEF MSTyped, Adts
<1>1. ASSUME NEW S \in SUBSET FoundEmpty'
      PROVE  [object |-> <<>>, doing |-> DoingWith(S)'] \in ByNow("queue", explanations)
  <2>. DEFINE f == [object |-> <<>>, doing |-> DoingWith(S \ {t})]
  <2>1. f \in ByNow("queue", explanations) /\ f.doing = DoingWith(S \ {t}) /\ f.object = <<>>
    BY DEF MSExplained
  <2>2. DoingWith(S \ {t})[t] = [op |-> "rmv", val |-> NoVal]
    BY DoingOf
  <2>3. CASE t \notin S
    <3>1. S \ {t} = S /\ DoingWith(S)' = DoingWith(S)
      BY <2>3 DEF DoingWith
    <3>. QED
      BY <2>1, <3>1
  <2>4. CASE t \in S
    <3>1. DoingWith(S)' = [DoingWith(S \ {t}) EXCEPT ![t] = [op |-> "did", val |-> NoVal]]
      BY <2>4 DEF DoingWith
    <3>. HIDE DEF f
    <3>2. TakeEffect("queue", f, t) \in ByNow("queue", explanations)
      BY <1>0, <2>1, <2>2, ByNowEffect DEF Running
    <3>3. /\ AnswerOf(f.object, f.doing[t]) = NoVal
          /\ ObjectAfter("queue", f.object, f.doing[t]) = <<>>
      BY <2>1, <2>2 DEF AnswerOf, ObjectAfter
    <3>. QED
      BY <2>1, <3>1, <3>2, <3>3, TakeEffectIs
  <2>. QED
    BY <2>3, <2>4
<1>. QED
  BY <1>1 DEF MSExplained
----------------------------------------------------------------------------
(* What the other threads know of the list stays true. *)

\* The list only grows, at its end; head and tail only move on.
Onwards(q, h, k, q2, h2, k2) ==
  /\ h2 \in Nat /\ k2 \in Nat /\ h <= h2 /\ k <= k2
  /\ q2 \in Seq(Nat) /\ Len(q) <= Len(q2)
  /\ \A i \in 1 .. Len(q) : q2[i] = q[i] /\ mem'.data[q[i]] = mem.data[q[i]]

LEMMA OthersEnq ==
  ASSUME NEW q \in Seq(Nat), NEW h \in Nat, NEW k \in Nat, Linked(q, h, k),
         NEW q2, NEW h2, NEW k2, Onwards(q, h, k, q2, h2, k2),
         NEW u \in Threads, pc'[u] = pc[u], loc'[u] = loc[u], EnqThread(u, q, k)
  PROVE  EnqThread(u, q2, k2)'
<1>1. CASE pc[u] \notin Enqueuing \/ pc[u] = "enq_tail"
  BY <1>1 DEF EnqThread
<1>2. CASE pc[u] \in Enqueuing /\ pc[u] # "enq_tail"
  <2>1. PICK j \in 1 .. k : EnqAt(u, q, k, j)
    BY <1>2 DEF EnqThread
  <2>2. j \in 1 .. k2 /\ j \in 1 .. Len(q) /\ q2[j] = q[j] /\ (j = k2 => j = k)
        /\ (j < Len(q) => j < Len(q2) /\ q2[j + 1] = q[j + 1])
    BY DEF Linked, Onwards
  <2>3. EnqAt(u, q2, k2, j)'
    BY <2>1, <2>2 DEF EnqAt
  <2>. QED
    BY <1>2, <2>2, <2>3 DEF EnqThread
<1>. QED
  BY <1>1, <1>2

LEMMA OthersDeq ==
  ASSUME NEW q \in Seq(Nat), NEW h \in Nat, NEW k \in Nat, Linked(q, h, k),
         NEW q2, NEW h2, NEW k2, Onwards(q, h, k, q2, h2, k2),
         NEW u \in Threads, pc'[u] = pc[u], loc'[u] = loc[u], DeqThread(u, q, h, k)
  PROVE  DeqThread(u, q2, h2, k2)'
<1>1. CASE pc[u] \notin Dequeuing \/ pc[u] = "deq_head"
  BY <1>1 DEF DeqThread
<1>2. CASE pc[u] = "deq_tail"
  <2>1. PICK i \in 1 .. h : loc[u].head = q[i]
    BY <1>2 DEF DeqThread, Dequeuing
  <2>2. i \in 1 .. h2 /\ i \in 1 .. Len(q)
    BY DEF Linked, Onwards
  <2>3. q2[i] = q[i]
    BY <2>2 DEF Onwards
  <2>. QED
    BY <1>2, <2>1, <2>2, <2>3 DEF DeqThread, Dequeuing
<1>3. CASE pc[u] \in Dequeuing /\ pc[u] \notin {"deq_head", "deq_tail"}
  <2>1. PICK i \in 1 .. h, j \in 1 .. k : DeqAt(u, q, h, k, i, j)
    BY <1>3 DEF DeqThread
  <2>. PICK L \in Nat : L = Len(q)
    OBVIOUS
  <2>. PICK L2 \in Nat : L2 = Len(q2)
    BY DEF Onwards
  <2>0. /\ i \in 1 .. h /\ j \in i .. k /\ h \in 1 .. L /\ k \in h .. L
        /\ h2 \in Nat /\ k2 \in Nat /\ h <= h2 /\ k <= k2 /\ L <= L2
    BY <2>1 DEF Linked, Onwards, DeqAt
  <2>a. /\ i \in 1 .. h2 /\ j \in 1 .. k2 /\ i \in 1 .. L /\ j \in 1 .. L
        /\ j \in i .. k2 /\ (i = h2 => i = h)
        /\ (i < L => i + 1 \in 1 .. L /\ i < L2)
    BY ONLY <2>0, h \in Nat, k \in Nat, L \in Nat, L2 \in Nat
  <2>b. \A m \in 1 .. L : q2[m] = q[m] /\ mem'.data[q[m]] = mem.data[q[m]]
    BY DEF Onwards
  <2>2. /\ i \in 1 .. h2 /\ j \in 1 .. k2 /\ i \in 1 .. Len(q) /\ j \in i .. k2
        /\ q2[i] = q[i] /\ q2[j] = q[j] /\ (i = h2 => i = h)
    BY <2>a, <2>b
  <2>3. i < Len(q) => /\ i < Len(q2) /\ q2[i + 1] = q[i + 1]
                      /\ mem'.data[q[i + 1]] = mem.data[q[i + 1]]
    BY <2>a, <2>b
  <2>4. i < j => i < Len(q)
    BY <2>1 DEF Linked, DeqAt
  <2>5. DeqAt(u, q2, h2, k2, i, j)'
    BY <2>1, <2>2, <2>3, <2>4 DEF DeqAt
  <2>. QED
    BY <1>3, <2>2, <2>5 DEF DeqThread
<1>. QED
  BY <1>1, <1>2, <1>3

\* The nodes that are not linked yet stay so, as long as no thread makes one
\* or links one.
LEMMA UnlinkedKept ==
  ASSUME NEW q, Unlinked(q), mem'.next = mem.next,
         \A u \in Threads : /\ pc'[u] \in Linking <=> pc[u] \in Linking
                            /\ pc[u] \in Linking => loc'[u].n = loc[u].n
  PROVE  Unlinked(q)'
<1>1. ASSUME NEW t \in Threads, pc'[t] \in Linking
      PROVE  /\ loc'[t].n \in 1 .. Len(mem'.next) /\ mem'.next[loc'[t].n] = Null
             /\ \A i \in 1 .. Len(q) : q[i] # loc'[t].n
             /\ \A u \in Threads : pc'[u] \in Linking /\ loc'[u].n = loc'[t].n => u = t
  BY <1>1 DEF Unlinked
<1>2. ASSUME NEW n \in 1 .. Len(mem'.next)
      PROVE  \/ \E i \in 1 .. Len(q) : n = q[i]
             \/ \E t \in Threads : pc'[t] \in Linking /\ loc'[t].n = n
  BY DEF Unlinked
<1>. QED
  BY <1>1, <1>2 DEF Unlinked
----------------------------------------------------------------------------
(* The steps that leave the list as it is, or only move tail on. *)

Places == {"idle"} \cup Enqueuing \cup Dequeuing

TailMoves(q, k, k2) ==
  \/ k2 = k /\ mem' = mem
  \/ k2 \in k .. Len(q) /\ mem' = [mem EXCEPT !.tail = q[k2]]

Moves(t, place, l) ==
  pc' = [pc EXCEPT ![t] = place] /\ loc' = [loc EXCEPT ![t] = l]

LEMMA MovesIs ==
  ASSUME MSTyped, NEW t \in Threads, NEW place \in Places, NEW l, Moves(t, place, l)
  PROVE  /\ pc'[t] = place /\ loc'[t] = l
         /\ \A u \in Threads \ {t} : pc'[u] = pc[u] /\ loc'[u] = loc[u]
         /\ pc' \in [Threads -> Places] /\ loc' = [u \in Threads |-> loc'[u]]
<1>1. pc \in [Threads -> Places] /\ loc = [u \in Threads |-> loc[u]]
  BY DEF MSTyped, Places
<1>. HIDE DEF Places
<1>. QED
  BY <1>1 DEF Moves

LEMMA TailMovesIs ==
  ASSUME MSTyped, NEW q \in Seq(Nat), NEW h \in Nat, NEW k \in Nat, Linked(q, h, k),
         NEW k2, TailMoves(q, k, k2)
  PROVE  /\ mem'.adt = mem.adt /\ IsQueue(mem)' /\ mem'.head = mem.head /\ mem'.tail = q[k2]
         /\ mem'.next = mem.next /\ mem'.data = mem.data /\ mem'.deleted = mem.deleted
         /\ k2 \in k .. Len(q)
<1>1. IsQueue(mem) /\ mem.tail = q[k] /\ k \in k .. Len(q)
  BY DEF MSTyped, Linked
<1>2. CASE k2 = k /\ mem' = mem
  BY <1>1, <1>2 DEF IsQueue
<1>3. CASE k2 \in k .. Len(q) /\ mem' = [mem EXCEPT !.tail = q[k2]]
  BY <1>1, <1>3 DEF IsQueue
<1>. QED
  BY <1>2, <1>3 DEF TailMoves

LEMMA StepFrame ==
  ASSUME MSTyped, NEW q \in Seq(Nat), NEW h \in Nat, NEW k \in Nat, MSInvAt(q, h, k),
         NEW k2, TailMoves(q, k, k2),
         NEW t \in Threads, NEW place \in Places, NEW l, Moves(t, place, l),
         place \in Linking <=> pc[t] \in Linking, pc[t] \in Linking => l.n = loc[t].n,
         added' = added, explanations' \in SUBSET AllExplanations,
         EnqThread(t, q, k2)', DeqThread(t, q, h, k2)'
  PROVE  /\ k2 \in Nat /\ MSTyped' /\ Linked(q, h, k2)' /\ Unlinked(q)'
         /\ \A u \in Threads : EnqThread(u, q, k2)' /\ DeqThread(u, q, h, k2)'
         /\ Queued(mem.data, q, h)' = Queued(mem.data, q, h)
         /\ FoundEmpty' \ {t} = FoundEmpty \ {t}
         /\ t \in FoundEmpty' <=> place = "deq_check" /\ l.next = Null /\ l.head = mem.head
         /\ MSCallOf(t)' = IF pc[t] \in Linking THEN MSCallOf(t)
                           ELSE IF place = "idle" THEN NotCalled
                           ELSE IF place = "enq_swing" THEN DoneWithNothing
                           ELSE [op |-> "rmv", val |-> NoVal]
         /\ \A u \in Threads \ {t} : MSCallOf(u)' = MSCallOf(u)
<1>0. /\ Linked(q, h, k) /\ Unlinked(q)
      /\ \A u \in Threads : EnqThread(u, q, k) /\ DeqThread(u, q, h, k)
  BY DEF MSInvAt
<1>1. /\ pc'[t] = place /\ loc'[t] = l
      /\ \A u \in Threads \ {t} : pc'[u] = pc[u] /\ loc'[u] = loc[u]
      /\ pc' \in [Threads -> Places] /\ loc' = [u \in Threads |-> loc'[u]]
  BY MovesIs
<1>2. /\ mem'.adt = mem.adt /\ IsQueue(mem)' /\ mem'.head = mem.head /\ mem'.tail = q[k2]
      /\ mem'.next = mem.next /\ mem'.data = mem.data /\ mem'.deleted = mem.deleted
      /\ k2 \in k .. Len(q)
  BY <1>0, TailMovesIs
<1>3. MSTyped'
  BY <1>1, <1>2 DEF MSTyped, Places
<1>4. k2 \in Nat /\ Linked(q, h, k2)'
  BY <1>0, <1>2 DEF Linked
<1>5. Unlinked(q)'
  BY <1>0, <1>1, <1>2, UnlinkedKept
<1>6. Onwards(q, h, k, q, h, k2)
  BY <1>2 DEF Onwards
<1>7. \A u \in Threads : EnqThread(u, q, k2)' /\ DeqThread(u, q, h, k2)'
  BY <1>0, <1>1, <1>6, OthersEnq, OthersDeq
<1>8. Queued(mem.data, q, h)' = Queued(mem.data, q, h)
  BY <1>2
<1>9. FoundEmpty' \ {t} = FoundEmpty \ {t}
      /\ (t \in FoundEmpty' <=> place = "deq_check" /\ l.next = Null /\ l.head = mem.head)
  BY <1>1, <1>2 DEF FoundEmpty
<1>10. \A u \in Threads \ {t} : MSCallOf(u)' = MSCallOf(u)
  BY <1>1, <1>2 DEF MSCallOf
<1>11. MSCallOf(t)' = IF pc[t] \in Linking THEN MSCallOf(t)
                      ELSE IF place = "idle" THEN NotCalled
                      ELSE IF place = "enq_swing" THEN DoneWithNothing
                      ELSE [op |-> "rmv", val |-> NoVal]
  <2>1. CASE pc[t] \in Linking
    <3>1. pc'[t] \in Linking /\ loc'[t].n = loc[t].n /\ pc[t] # "idle" /\ pc'[t] # "idle"
      BY <1>1, <2>1 DEF Linking
    <3>. QED
      BY <1>2, <2>1, <3>1 DEF MSCallOf
  <2>2. CASE pc[t] \notin Linking
    BY <1>1, <2>2 DEF MSCallOf, NotCalled, DoneWithNothing
  <2>. QED
    BY <2>1, <2>2
<1>. QED
  BY <1>3, <1>4, <1>5, <1>7, <1>8, <1>9, <1>10, <1>11

\* A step inside add or rmv in which no call takes effect.
LEMMA QuietStep ==
  ASSUME MSTyped, NEW q \in Seq(Nat), NEW h \in Nat, NEW k \in Nat, MSInvAt(q, h, k),
         NEW k2, TailMoves(q, k, k2),
         NEW t \in Threads, NEW place, NEW l, Moves(t, place, l),
         \/ pc[t] \in Linking /\ place \in Linking /\ l.n = loc[t].n
         \/ pc[t] \in Dequeuing /\ place \in Dequeuing /\ place # "deq_check",
         added' = added, explanations' = explanations,
         EnqThread(t, q, k2)', DeqThread(t, q, h, k2)'
  PROVE  MSQueueInv'
<1>1. /\ place \in Places /\ (place \in Linking <=> pc[t] \in Linking)
      /\ (pc[t] \in Linking => l.n = loc[t].n)
      /\ pc[t] \in Places \ {"idle", "enq_swing"} /\ place \notin {"idle", "enq_swing", "deq_check"}
  BY DEF Places, Linking, Enqueuing, Dequeuing
<1>2. explanations' \in SUBSET AllExplanations
  BY DEF MSTyped
<1>3. /\ k2 \in Nat /\ MSTyped' /\ Linked(q, h, k2)' /\ Unlinked(q)'
      /\ \A u \in Threads : EnqThread(u, q, k2)' /\ DeqThread(u, q, h, k2)'
      /\ Queued(mem.data, q, h)' = Queued(mem.data, q, h)
      /\ FoundEmpty' \ {t} = FoundEmpty \ {t}
      /\ t \in FoundEmpty' <=> place = "deq_check" /\ l.next = Null /\ l.head = mem.head
      /\ MSCallOf(t)' = IF pc[t] \in Linking THEN MSCallOf(t)
                        ELSE IF place = "idle" THEN NotCalled
                        ELSE IF place = "enq_swing" THEN DoneWithNothing
                        ELSE [op |-> "rmv", val |-> NoVal]
      /\ \A u \in Threads \ {t} : MSCallOf(u)' = MSCallOf(u)
  BY <1>1, <1>2, StepFrame
<1>4. FoundEmpty' \subseteq FoundEmpty
  BY <1>1, <1>3
<1>5. \A u \in Threads : MSCallOf(u)' = MSCallOf(u)
  BY <1>1, <1>3 DEF MSCallOf
<1>6. MSExplained(q, h)'
  BY <1>3, <1>4, <1>5, NothingNew DEF MSInvAt
<1>. QED
  BY <1>3, <1>6 DEF MSQueueInv, MSInvAt

\* An add that has linked its node, or a rmv that has found nothing, returns.
LEMMA ReturnStep ==
  ASSUME IsFiniteSet(Threads), MSTyped,
         NEW q \in Seq(Nat), NEW h \in Nat, NEW k \in Nat, MSInvAt(q, h, k),
         NEW k2, TailMoves(q, k, k2),
         NEW t \in Threads, pc[t] = "enq_swing" \/ t \in FoundEmpty, Moves(t, "idle", NoLocals),
         added' = added, explanations' = Object!AfterReturn("queue", explanations, t, NoVal)
  PROVE  MSQueueInv'
<1>1. /\ "idle" \in Places /\ "idle" \notin Linking /\ pc[t] \notin Linking
      /\ "idle" # "deq_check" /\ "idle" \notin Enqueuing \cup Dequeuing
  BY DEF Places, Linking, Enqueuing, Dequeuing, FoundEmpty
<1>2. EnqThread(t, q, k2)' /\ DeqThread(t, q, h, k2)'
  BY <1>1, MovesIs DEF EnqThread, DeqThread
<1>3. explanations' \in SUBSET AllExplanations
  <2>1. Object!AfterReturn("queue", explanations, t, NoVal) \in SUBSET AllExplanations
    <3>. DEFINE S == FoundEmpty \cap {t}
                f == [object |-> Queued(mem.data, q, h), doing |-> DoingWith(S)]
    <3>1. f \in ByNow("queue", explanations) /\ f.doing = DoingWith(S)
      BY DEF MSInvAt, MSExplained
    <3>2. t \in S \/ MSCallOf(t) = DoneWithNothing
      BY DEF MSCallOf, DoneWithNothing, Linking
    <3>. HIDE DEF S, f
    <3>3. f.doing[t] = [op |-> "did", val |-> NoVal]
      BY <3>1, <3>2, DoingOf DEF DoneWithNothing
    <3>4. explanations \in SUBSET AllExplanations /\ "queue" \in Adts
      BY DEF MSTyped, Adts
    <3>. QED
      BY <3>1, <3>3, <3>4, ReturnExplained
  <2>. QED
    BY <2>1
<1>4. /\ k2 \in Nat /\ MSTyped' /\ Linked(q, h, k2)' /\ Unlinked(q)'
      /\ \A u \in Threads : EnqThread(u, q, k2)' /\ DeqThread(u, q, h, k2)'
      /\ Queued(mem.data, q, h)' = Queued(mem.data, q, h)
      /\ FoundEmpty' \ {t} = FoundEmpty \ {t}
      /\ t \notin FoundEmpty'
      /\ MSCallOf(t)' = NotCalled
      /\ \A u \in Threads \ {t} : MSCallOf(u)' = MSCallOf(u)
  BY <1>1, <1>2, <1>3, StepFrame
<1>5. FoundEmpty' \subseteq FoundEmpty
  BY <1>4
<1>6. MSExplained(q, h)'
  BY <1>4, <1>5, Returned DEF MSInvAt
<1>. QED
  BY <1>4, <1>6 DEF MSQueueInv, MSInvAt
----------------------------------------------------------------------------
(* The steps of add. *)

\* What is read of a linked node; a deleted one may show anything.
LEMMA LinkedNode ==
  ASSUME MSTyped, NEW q \in Seq(Nat), NEW h \in Nat, NEW k \in Nat, Linked(q, h, k),
         NEW i \in 1 .. Len(q)
  PROVE  /\ q[i] \in Pointers /\ q[i] # Null /\ q[i] # Garbage
         /\ MS!Has(mem.deleted, q[i]) <=> i < h
         /\ mem.next[q[i]] = Null <=> i = Len(q)
         /\ \A next \in MS!Read(mem.next, mem.deleted, q[i]) :
              /\ next \in Pointers
              /\ i >= h => next = IF i = Len(q) THEN Null ELSE q[i + 1]
<1>1. q[i] \in Nat /\ q[i] # Null /\ q[i] # Garbage
  BY PointersAssumption
<1>2. MS!Has(mem.deleted, q[i]) <=> i < h
  <2>1. MS!Has(mem.deleted, q[i]) <=> \E m \in 1 .. h - 1 : q[i] = q[m]
    BY DEF Linked, MS!Has
  <2>2. ASSUME NEW m \in 1 .. h - 1, q[i] = q[m] PROVE i < h
    <3>1. m \in 1 .. Len(q)
      BY DEF Linked
    <3>2. i = m
      BY <2>2, <3>1 DEF Linked
    <3>. QED
      BY <3>2
  <2>3. i < h => i \in 1 .. h - 1
    OBVIOUS
  <2>. QED
    BY <2>1, <2>2, <2>3
<1>3. mem.next[q[i]] = IF i = Len(q) THEN Null ELSE q[i + 1]
  BY DEF Linked
<1>4. i # Len(q) => q[i + 1] \in Nat /\ q[i + 1] # Null
  BY PointersAssumption
<1>. QED
  BY <1>1, <1>2, <1>3, <1>4 DEF MS!Read, Pointers

LEMMA EnqQuietStep ==
  ASSUME MSTyped, NEW q \in Seq(Nat), NEW h \in Nat, NEW k \in Nat, MSInvAt(q, h, k),
         flaws = {}, flaws' = {}, NEW t \in Threads,
         \/ MS!EnqTail(t) \/ MS!EnqNext(t) \/ MS!EnqCheck(t) \/ MS!EnqHelp(t)
         \/ MS!EnqLink(t) /\ pc'[t] # "enq_swing"
  PROVE  MSQueueInv'
<1>0. /\ Linked(q, h, k) /\ EnqThread(t, q, k) /\ k \in h .. Len(q) /\ k \in 1 .. Len(q)
      /\ mem.tail = q[k] /\ mem.head = q[h] /\ k \in 1 .. k /\ Len(q) \in Nat
  BY DEF MSInvAt, Linked
<1>1. ASSUME pc[t] \in Linking, NEW k2, TailMoves(q, k, k2), NEW place \in Linking, NEW l,
             Moves(t, place, l), l.n = loc[t].n, added' = added, explanations' = explanations,
             l \in EnqLocals,
             place # "enq_tail" => \E j \in 1 .. k2 : EnqAt(t, q, k2, j)'
      PROVE  MSQueueInv'
  <2>1. pc'[t] = place /\ loc'[t] = l
    BY <1>1, MovesIs DEF Places, Enqueuing
  <2>2. EnqThread(t, q, k2)' /\ DeqThread(t, q, h, k2)'
    BY <1>1, <2>1 DEF EnqThread, DeqThread, Linking, Dequeuing
  <2>. QED
    BY <1>1, <2>2, QuietStep
<1>2. TailMoves(q, k, k) <=> mem' = mem
  <2>1. ASSUME mem' = [mem EXCEPT !.tail = q[k]] PROVE mem' = mem
    BY <1>0, <2>1 DEF MSTyped, IsQueue
  <2>. QED
    BY <1>0, <2>1 DEF TailMoves
<1>3. CASE MS!EnqTail(t)
  <2>. DEFINE l == [loc[t] EXCEPT !.tail = mem.tail]
  <2>1. /\ pc[t] = "enq_tail" /\ mem' = mem /\ Moves(t, "enq_next", l)
        /\ added' = added /\ explanations' = explanations
    BY <1>3, MSStepIs DEF MS!EnqTail, MS!Step, Moves
  <2>2. loc[t] \in EnqLocals
    BY <1>0, <2>1 DEF EnqThread, Enqueuing, Linking
  <2>3. q[k] \in Pointers
    BY <1>0, LinkedNode
  <2>4. l \in EnqLocals /\ l.n = loc[t].n /\ l.tail = q[k]
    BY <1>0, <2>2, <2>3 DEF EnqLocals
  <2>. HIDE DEF l
  <2>5. pc'[t] = "enq_next" /\ loc'[t] = l
    BY <2>1, MovesIs DEF Places, Enqueuing, Linking
  <2>6. EnqAt(t, q, k, k)'
    BY <1>0, <2>4, <2>5 DEF EnqAt
  <2>. QED
    BY <1>0, <1>1, <1>2, <2>1, <2>4, <2>6 DEF Linking
<1>4. ASSUME pc[t] \in Enqueuing, pc[t] # "enq_tail"
      PROVE  \E j \in 1 .. k : EnqAt(t, q, k, j) /\ loc[t] \in EnqLocals /\ j \in 1 .. Len(q)
  BY <1>0, <1>4 DEF EnqThread
<1>5. CASE MS!EnqNext(t)
  <2>1. PICK next \in MS!Read(mem.next, mem.deleted, loc[t].tail) :
          MS!Step(t, "enq_check", mem, [loc[t] EXCEPT !.next = next])
    BY <1>5 DEF MS!EnqNext
  <2>. DEFINE l == [loc[t] EXCEPT !.next = next]
  <2>2. /\ pc[t] = "enq_next" /\ mem' = mem /\ Moves(t, "enq_check", l)
        /\ added' = added /\ explanations' = explanations
    BY <1>5, <2>1, MSStepIs DEF MS!EnqNext, MS!Step, Moves
  <2>3. PICK j \in 1 .. k : EnqAt(t, q, k, j) /\ loc[t] \in EnqLocals /\ j \in 1 .. Len(q)
    BY <1>4, <2>2 DEF Enqueuing, Linking
  <2>4. loc[t].tail = q[j]
    BY <2>3 DEF EnqAt
  <2>5. next \in Pointers /\ (j >= h => next = IF j = Len(q) THEN Null ELSE q[j + 1])
    BY <1>0, <2>1, <2>3, <2>4, LinkedNode
  <2>6. l \in EnqLocals /\ l.n = loc[t].n /\ l.tail = q[j] /\ l.next = next
    BY <2>3, <2>4, <2>5 DEF EnqLocals
  <2>. HIDE DEF l
  <2>7. pc'[t] = "enq_check" /\ loc'[t] = l
    BY <2>2, MovesIs DEF Places, Enqueuing, Linking
  <2>8. EnqAt(t, q, k, j)'
    BY <1>0, <2>3, <2>5, <2>6, <2>7 DEF EnqAt
  <2>. QED
    BY <1>0, <1>1, <1>2, <2>2, <2>3, <2>6, <2>8 DEF Linking
<1>6. ASSUME NEW place \in Linking, pc[t] \in Linking, mem' = mem, Moves(t, place, loc[t]),
             added' = added, explanations' = explanations,
             pc[t] # "enq_tail",
             NEW j \in 1 .. k, EnqAt(t, q, k, j), place \in {"enq_tail", "enq_link", "enq_help"},
             place = "enq_help" => j < Len(q) /\ loc[t].next = q[j + 1]
      PROVE  MSQueueInv'
  <2>1. loc[t] \in EnqLocals
    BY <1>4, <1>6 DEF Enqueuing
  <2>2. pc'[t] = place /\ loc'[t] = loc[t]
    BY <1>6, MovesIs DEF Places, Enqueuing
  <2>3. EnqAt(t, q, k, j)'
    BY <1>6, <2>2 DEF EnqAt
  <2>. QED
    BY <1>1, <1>2, <1>6, <2>1, <2>3
<1>7. CASE MS!EnqCheck(t)
  <2>1. pc[t] = "enq_check"
    BY <1>7 DEF MS!EnqCheck
  <2>2. PICK j \in 1 .. k : EnqAt(t, q, k, j) /\ loc[t] \in EnqLocals /\ j \in 1 .. Len(q)
    BY <1>4, <2>1 DEF Enqueuing, Linking
  <2>3. PICK same \in MS!Equal(mem.deleted, mem.tail, loc[t].tail) :
          IF ~same THEN MS!Step(t, "enq_tail", mem, loc[t])
          ELSE MS!FlawedStep(t, IF loc[t].next = Null THEN "enq_link" ELSE "enq_help",
                             mem, loc[t], MS!Reused(mem.tail, loc[t].tail))
    BY <1>7 DEF MS!EnqCheck
  <2>4. CASE ~same
    <3>1. mem' = mem /\ Moves(t, "enq_tail", loc[t]) /\ added' = added /\ explanations' = explanations
      BY <2>3, <2>4, MSStepIs DEF MS!Step, Moves
    <3>. QED
      BY <1>6, <2>1, <2>2, <3>1 DEF Linking
  <2>5. CASE same
    <3>. DEFINE place == IF loc[t].next = Null THEN "enq_link" ELSE "enq_help"
    <3>1. /\ mem' = mem /\ Moves(t, place, loc[t])
          /\ added' = added /\ explanations' = explanations
          /\ MS!Reused(mem.tail, loc[t].tail) = {}
      BY <2>3, <2>5, MSStepIs DEF Moves
    <3>2. mem.tail = loc[t].tail
      BY <2>3, <2>5, <3>1, MSEqual
    <3>3. j = k
      BY <1>0, <2>2, <3>2 DEF Linked, EnqAt
    <3>4. place = "enq_help" => j < Len(q) /\ loc[t].next = q[j + 1]
      BY <2>1, <2>2, <3>3 DEF EnqAt
    <3>5. place \in {"enq_link", "enq_help"}
      OBVIOUS
    <3>. HIDE DEF place
    <3>. QED
      BY <1>6, <2>1, <2>2, <3>1, <3>4, <3>5 DEF Linking
  <2>. QED
    BY <2>4, <2>5
<1>8. CASE MS!EnqHelp(t)
  <2>1. pc[t] = "enq_help" /\ MS!Help(t, "enq_tail")
    BY <1>8 DEF MS!EnqHelp
  <2>2. PICK j \in 1 .. k : EnqAt(t, q, k, j) /\ loc[t] \in EnqLocals /\ j \in 1 .. Len(q)
    BY <1>4, <2>1 DEF Enqueuing, Linking
  <2>3. PICK same \in MS!Equal(mem.deleted, mem.tail, loc[t].tail) :
          IF same THEN MS!FlawedStep(t, "enq_tail", [mem EXCEPT !.tail = loc[t].next], loc[t],
                                     MS!Reused(mem.tail, loc[t].tail))
          ELSE MS!Step(t, "enq_tail", mem, loc[t])
    BY <2>1 DEF MS!Help
  <2>4. CASE ~same
    <3>1. mem' = mem /\ Moves(t, "enq_tail", loc[t]) /\ added' = added /\ explanations' = explanations
      BY <2>3, <2>4, MSStepIs DEF MS!Step, Moves
    <3>. QED
      BY <1>6, <2>1, <2>2, <3>1 DEF Linking
  <2>5. CASE same
    <3>1. /\ mem' = [mem EXCEPT !.tail = loc[t].next] /\ Moves(t, "enq_tail", loc[t])
          /\ added' = added /\ explanations' = explanations
          /\ MS!Reused(mem.tail, loc[t].tail) = {}
      BY <2>3, <2>5, MSStepIs DEF Moves
    <3>2. mem.tail = loc[t].tail
      BY <2>3, <2>5, <3>1, MSEqual
    <3>3. j = k
      BY <1>0, <2>2, <3>2 DEF Linked, EnqAt
    <3>4. k < Len(q) /\ loc[t].next = q[k + 1]
      BY <2>1, <2>2, <3>3 DEF EnqAt
    <3>5. TailMoves(q, k, k + 1)
      BY <3>1, <3>4 DEF TailMoves
    <3>. QED
      BY <1>1, <2>1, <2>2, <3>1, <3>5 DEF Linking
  <2>. QED
    BY <2>4, <2>5
<1>9. CASE MS!EnqLink(t) /\ pc'[t] # "enq_swing"
  <2>1. pc[t] = "enq_link"
    BY <1>9 DEF MS!EnqLink
  <2>2. PICK j \in 1 .. k : EnqAt(t, q, k, j) /\ loc[t] \in EnqLocals /\ j \in 1 .. Len(q)
    BY <1>4, <2>1 DEF Enqueuing, Linking
  <2>3. MS!Step(t, "enq_tail", mem, loc[t])
    <3>. SUFFICES ASSUME NEW found, NEW m, MS!FlawedStep(t, "enq_swing", m, loc[t], found)
                  PROVE  FALSE
      BY <1>9 DEF MS!EnqLink
    <3>1. Moves(t, "enq_swing", loc[t])
      BY MSStepIs DEF Moves
    <3>. QED
      BY <1>9, <3>1, MovesIs DEF Places, Enqueuing
  <2>4. mem' = mem /\ Moves(t, "enq_tail", loc[t]) /\ added' = added /\ explanations' = explanations
    BY <2>3, MSStepIs DEF MS!Step, Moves
  <2>. QED
    BY <1>6, <2>1, <2>2, <2>4 DEF Linking
<1>. QED
  BY <1>3, <1>5, <1>7, <1>8, <1>9
LEMMA EnqSwingStep ==
  ASSUME IsFiniteSet(Threads), MSTyped,
         NEW q \in Seq(Nat), NEW h \in Nat, NEW k \in Nat, MSInvAt(q, h, k),
         flaws = {}, flaws' = {}, NEW t \in Threads, MS!EnqSwing(t)
  PROVE  MSQueueInv'
<1>0. /\ Linked(q, h, k) /\ EnqThread(t, q, k) /\ k \in 1 .. Len(q)
      /\ mem.tail = q[k] /\ Len(q) \in Nat /\ mem.adt = "queue"
  BY DEF MSInvAt, Linked, MSTyped
<1>1. pc[t] = "enq_swing"
  BY DEF MS!EnqSwing
<1>2. PICK j \in 1 .. k : EnqAt(t, q, k, j)
  BY <1>0, <1>1 DEF EnqThread, Enqueuing
<1>3. loc[t].tail = q[j] /\ j < Len(q) /\ loc[t].n = q[j + 1] /\ j \in 1 .. Len(q)
  BY <1>0, <1>1, <1>2 DEF EnqAt
<1>4. PICK same \in MS!Equal(mem.deleted, mem.tail, loc[t].tail) :
        IF same THEN MS!FlawedReturn(t, [mem EXCEPT !.tail = loc[t].n], NoVal,
                                     MS!Reused(mem.tail, loc[t].tail))
        ELSE MS!Return(t, mem, NoVal)
  BY DEF MS!EnqSwing
<1>5. CASE ~same
  <2>1. /\ mem' = mem /\ Moves(t, "idle", NoLocals) /\ added' = added
        /\ explanations' = Object!AfterReturn("queue", explanations, t, NoVal)
    BY <1>0, <1>4, <1>5, MSReturnIs DEF MS!Return, Moves
  <2>2. TailMoves(q, k, k)
    BY <2>1 DEF TailMoves
  <2>. QED
    BY <1>1, <2>1, <2>2, ReturnStep
<1>6. CASE same
  <2>1. /\ mem' = [mem EXCEPT !.tail = loc[t].n] /\ Moves(t, "idle", NoLocals) /\ added' = added
        /\ explanations' = Object!AfterReturn("queue", explanations, t, NoVal)
        /\ MS!Reused(mem.tail, loc[t].tail) = {}
    BY <1>0, <1>4, <1>6, MSReturnIs DEF Moves
  <2>2. j = k
    <3>1. mem.tail = loc[t].tail
      BY <1>4, <1>6, <2>1, MSEqual
    <3>. QED
      BY <1>0, <1>3, <3>1 DEF Linked
  <2>3. TailMoves(q, k, k + 1)
    BY <1>3, <2>1, <2>2 DEF TailMoves
  <2>. QED
    BY <1>1, <2>1, <2>3, ReturnStep
<1>. QED
  BY <1>5, <1>6

\* The node that add has made becomes the last: its call takes effect.
LEMMA QueuedType ==
  ASSUME NEW q \in Seq(Nat), NEW h \in 1 .. Len(q), NEW data, NEW D,
         \A i \in 1 .. Len(q) : data[q[i]] \in D
  PROVE  Queued(data, q, h) \in Seq(D) /\ Len(Queued(data, q, h)) = Len(q) - h
<1>1. /\ Len(q) - h \in Nat
      /\ \A i \in 1 .. Len(q) - h : data[q[h + i]] \in D
  OBVIOUS
<1>. QED
  BY <1>1 DEF Queued

LEMMA OneMore ==
  ASSUME NEW L \in Nat, NEW i \in 1 .. L + 1
  PROVE  i \in 1 .. L \/ i = L + 1
OBVIOUS

LEMMA AppendIs ==
  ASSUME NEW S, NEW q \in Seq(S), NEW n \in S
  PROVE  /\ Append(q, n) \in Seq(S) /\ Len(q) \in Nat /\ Len(Append(q, n)) = Len(q) + 1
         /\ Append(q, n)[Len(q) + 1] = n
         /\ \A i \in 1 .. Len(q) : Append(q, n)[i] = q[i]
OBVIOUS

LEMMA QueuedOneMore ==
  ASSUME NEW q \in Seq(Nat), NEW h \in 1 .. Len(q), NEW data, NEW D, NEW n \in Nat,
         \A i \in 1 .. Len(q) : data[q[i]] \in D, data[n] \in D
  PROVE  Queued(data, Append(q, n), h) = Append(Queued(data, q, h), data[n])
<1>1. PICK L \in Nat : L = Len(q)
  OBVIOUS
<1>2. PICK q2 \in Seq(Nat) : q2 = Append(q, n)
  BY AppendIs
<1>3. PICK m \in Nat : m = L - h
  <2>1. L - h \in Nat
    BY <1>1
  <2>. QED
    BY <2>1
<1>4. Len(q2) = L + 1 /\ q2[L + 1] = n /\ \A i \in 1 .. L : q2[i] = q[i]
  BY <1>1, <1>2, AppendIs
<1>5. \A i \in 1 .. L + 1 : data[q2[i]] \in D
  BY <1>1, <1>4, OneMore
<1>6. h \in 1 .. L + 1 /\ (L + 1) - h = m + 1
  BY <1>1, <1>3
<1>7. Queued(data, q2, h) \in Seq(D) /\ Len(Queued(data, q2, h)) = m + 1
  BY <1>4, <1>5, <1>6, QueuedType
<1>8. Queued(data, q, h) \in Seq(D) /\ Len(Queued(data, q, h)) = m
  BY <1>1, <1>3, QueuedType
<1>9. /\ Append(Queued(data, q, h), data[n]) \in Seq(D)
      /\ Len(Append(Queued(data, q, h), data[n])) = m + 1
      /\ Append(Queued(data, q, h), data[n])[m + 1] = data[n]
      /\ \A i \in 1 .. m : Append(Queued(data, q, h), data[n])[i] = Queued(data, q, h)[i]
  BY <1>8, AppendIs
<1>10. ASSUME NEW i \in 1 .. m + 1
       PROVE  Queued(data, q2, h)[i] = Append(Queued(data, q, h), data[n])[i]
  <2>1. Queued(data, q2, h)[i] = data[q2[h + i]]
    BY <1>4, <1>6 DEF Queued
  <2>2. CASE i = m + 1
    <3>1. h + i = L + 1
      BY <1>3, <2>2
    <3>. QED
      BY <1>4, <1>9, <2>1, <2>2, <3>1
  <2>3. CASE i # m + 1
    <3>1. i \in 1 .. m
      BY <2>3
    <3>2. h + i \in 1 .. L
      BY <1>1, <1>3, <3>1
    <3>3. Queued(data, q, h)[i] = data[q[h + i]]
      BY <1>1, <1>3, <3>1 DEF Queued
    <3>. QED
      BY <1>4, <1>9, <2>1, <3>1, <3>2, <3>3
  <2>. QED
    BY <2>2, <2>3
<1>11. m + 1 \in Nat
  OBVIOUS
<1>. QED
  BY <1>2, <1>7, <1>9, <1>10, <1>11, SeqEqual

LEMMA LinkStep ==
  ASSUME IsFiniteSet(Threads), MSTyped,
         NEW q \in Seq(Nat), NEW h \in Nat, NEW k \in Nat, MSInvAt(q, h, k),
         flaws = {}, flaws' = {}, NEW t \in Threads, MS!EnqLink(t), pc'[t] = "enq_swing"
  PROVE  MSQueueInv'
<1>a. PICK n : n = loc[t].n
  OBVIOUS
<1>b. PICK q2 : q2 = Append(q, n)
  OBVIOUS
<1>c. PICK L \in Nat : L = Len(q)
  OBVIOUS
<1>0. /\ Linked(q, h, k) /\ Unlinked(q) /\ EnqThread(t, q, k) /\ MSExplained(q, h)
      /\ \A u \in Threads : EnqThread(u, q, k) /\ DeqThread(u, q, h, k)
      /\ k \in 1 .. L /\ h \in 1 .. L
  BY <1>c DEF MSInvAt, Linked
<1>d. /\ \A i, m \in 1 .. L : q[i] = q[m] => i = m
      /\ \A i \in 1 .. L : q[i] \in 1 .. Len(mem.next)
      /\ \A i \in 1 .. L : i # L => mem.next[q[i]] = q[i + 1]
  BY <1>c, <1>0 DEF Linked
<1>1. pc[t] = "enq_link"
  BY DEF MS!EnqLink
<1>2. PICK j \in 1 .. k : EnqAt(t, q, k, j) /\ loc[t] \in EnqLocals
  BY <1>0, <1>1 DEF EnqThread, Enqueuing, Linking
<1>3. loc[t].tail = q[j] /\ j \in 1 .. L /\ n \in Nat
  BY <1>a, <1>0, <1>1, <1>2 DEF EnqAt, EnqLocals
<1>4. /\ Null \in MS!Read(mem.next, mem.deleted, q[j])
      /\ MS!FlawedStep(t, "enq_swing", [mem EXCEPT !.next[q[j]] = n], loc[t],
                       IF MS!Has(mem.deleted, q[j]) THEN {"deleted node written"} ELSE {})
  <2>1. PICK next \in MS!Read(mem.next, mem.deleted, q[j]) :
          IF next = Null
          THEN MS!FlawedStep(t, "enq_swing", [mem EXCEPT !.next[q[j]] = n], loc[t],
                             IF MS!Has(mem.deleted, q[j]) THEN {"deleted node written"} ELSE {})
          ELSE MS!Step(t, "enq_tail", mem, loc[t])
    BY <1>a, <1>3 DEF MS!EnqLink
  <2>2. next = Null
    <3>. SUFFICES ASSUME MS!Step(t, "enq_tail", mem, loc[t]) PROVE FALSE
      BY <2>1
    <3>1. Moves(t, "enq_tail", loc[t])
      BY MSStepIs DEF MS!Step, Moves
    <3>2. pc'[t] = "enq_tail"
      BY <3>1, MovesIs DEF Places, Enqueuing, Linking
    <3>. QED
      BY <3>2
  <2>. QED
    BY <2>1, <2>2
<1>5. /\ mem' = [mem EXCEPT !.next[q[j]] = n] /\ Moves(t, "enq_swing", loc[t])
      /\ added' = added /\ explanations' = explanations /\ ~MS!Has(mem.deleted, q[j])
  <2>. DEFINE found == IF MS!Has(mem.deleted, q[j]) THEN {"deleted node written"} ELSE {}
              m == [mem EXCEPT !.next[q[j]] = n]
  <2>1. found = {} => ~MS!Has(mem.deleted, q[j])
    OBVIOUS
  <2>. HIDE DEF found, m
  <2>2. MS!FlawedStep(t, "enq_swing", m, loc[t], found)
    BY <1>4 DEF found, m
  <2>3. /\ mem' = m /\ Moves(t, "enq_swing", loc[t])
        /\ added' = added /\ explanations' = explanations /\ found = {}
    BY <2>2, MSStepIs DEF Moves
  <2>. QED
    BY <2>1, <2>3 DEF m
<1>6. j = L /\ k = L
  <2>1. j >= h
    BY <1>c, <1>0, <1>3, <1>5, LinkedNode
  <2>2. Null = IF j = L THEN Null ELSE q[j + 1]
    BY <1>c, <1>0, <1>3, <1>4, <2>1, LinkedNode
  <2>3. j # L => q[j + 1] # Null
    BY <1>c, <1>3, PointersAssumption
  <2>4. j = L
    BY <2>2, <2>3
  <2>. QED
    BY <1>0, <2>4
<1>7. /\ n \in 1 .. Len(mem.next) /\ mem.next[n] = Null
      /\ \A i \in 1 .. L : q[i] # n
      /\ \A u \in Threads : pc[u] \in Linking /\ loc[u].n = n => u = t
  BY <1>a, <1>c, <1>0, <1>1 DEF Unlinked, Linking
<1>8. /\ mem'.adt = mem.adt /\ mem'.head = mem.head /\ mem'.tail = mem.tail
      /\ mem'.data = mem.data /\ mem'.deleted = mem.deleted /\ IsQueue(mem)'
      /\ mem'.next = [mem.next EXCEPT ![q[L]] = n]
  <2>1. IsQueue(mem)
    BY DEF MSTyped
  <2>. QED
    BY <1>5, <1>6, <2>1 DEF IsQueue
<1>9. /\ q[L] \in 1 .. Len(mem.next) /\ mem'.next \in Seq(Nat \cup {Null})
      /\ Len(mem'.next) = Len(mem.next) /\ mem'.next[q[L]] = n
      /\ \A i \in 1 .. Len(mem.next) : i # q[L] => mem'.next[i] = mem.next[i]
  <2>1. q[L] \in 1 .. Len(mem.next) /\ mem.next \in Seq(Nat \cup {Null})
    BY <1>c, <1>0 DEF Linked, MSTyped
  <2>. QED
    BY <1>3, <1>8, <2>1
<1>10. /\ pc'[t] = "enq_swing" /\ loc'[t] = loc[t]
       /\ \A u \in Threads \ {t} : pc'[u] = pc[u] /\ loc'[u] = loc[u]
       /\ pc' \in [Threads -> Places] /\ loc' = [u \in Threads |-> loc'[u]]
  BY <1>5, MovesIs DEF Places, Enqueuing
<1>11. MSTyped'
  BY <1>5, <1>8, <1>9, <1>10 DEF MSTyped, Places
<1>12. /\ q2 \in Seq(Nat) /\ Len(q2) = L + 1 /\ q2[L + 1] = n
       /\ \A i \in 1 .. L : q2[i] = q[i]
  BY <1>b, <1>c, <1>3, AppendIs
<1>13. Linked(q2, h, k)'
  <2>1. \A i, m \in 1 .. L + 1 : q2[i] = q2[m] => i = m
    <3>. TAKE i, m \in 1 .. L + 1
    <3>1. (i \in 1 .. L \/ i = L + 1) /\ (m \in 1 .. L \/ m = L + 1)
      BY OneMore
    <3>2. CASE i \in 1 .. L /\ m \in 1 .. L
      BY <1>d, <1>12, <3>2
    <3>3. CASE i = L + 1 /\ m \in 1 .. L
      BY <1>7, <1>12, <3>3
    <3>4. CASE i \in 1 .. L /\ m = L + 1
      BY <1>7, <1>12, <3>4
    <3>. QED
      BY <3>1, <3>2, <3>3, <3>4
  <2>2. ASSUME NEW i \in 1 .. L + 1
        PROVE  /\ q2[i] \in 1 .. Len(mem'.next)
               /\ mem'.next[q2[i]] = IF i = L + 1 THEN Null ELSE q2[i + 1]
    <3>1. CASE i = L + 1
      <4>1. n # q[L] /\ q2[i] = n
        BY <1>0, <1>7, <1>12, <3>1
      <4>. QED
        BY <1>7, <1>9, <3>1, <4>1
    <3>2. CASE i = L
      <4>1. i \in 1 .. L /\ i # L + 1 /\ i + 1 = L + 1
        BY <1>0, <3>2
      <4>2. q2[i] = q[L] /\ q2[i + 1] = n
        BY <1>12, <3>2, <4>1
      <4>. QED
        BY <1>9, <4>1, <4>2
    <3>3. CASE i \in 1 .. L /\ i # L
      <4>1. q[i] # q[L] /\ q[i] \in 1 .. Len(mem.next) /\ mem.next[q[i]] = q[i + 1]
        BY <1>0, <1>d, <3>3
      <4>2. i + 1 \in 1 .. L /\ i # L + 1
        BY <3>3
      <4>3. q2[i] = q[i] /\ q2[i + 1] = q[i + 1]
        BY <1>12, <3>3, <4>2
      <4>. QED
        BY <1>9, <4>1, <4>2, <4>3
    <3>. QED
      BY <3>1, <3>2, <3>3, OneMore
  <2>3. DOMAIN mem'.deleted = {q2[i] : i \in 1 .. h - 1}
    <3>1. \A i \in 1 .. h - 1 : i \in 1 .. L
      BY <1>0
    <3>2. {q2[i] : i \in 1 .. h - 1} = {q[i] : i \in 1 .. h - 1}
      BY <1>12, <3>1
    <3>. QED
      BY <1>0, <1>8, <3>2 DEF Linked
  <2>4. /\ h \in 1 .. Len(q2) /\ k \in h .. Len(q2)
        /\ mem'.head = q2[h] /\ mem'.tail = q2[k]
    BY <1>c, <1>0, <1>8, <1>12 DEF Linked
  <2>. QED
    BY <1>12, <2>1, <2>2, <2>3, <2>4 DEF Linked
<1>14. Unlinked(q2)'
  <2>1. ASSUME NEW u \in Threads, pc'[u] \in Linking
        PROVE  /\ loc'[u].n \in 1 .. Len(mem'.next) /\ mem'.next[loc'[u].n] = Null
               /\ \A i \in 1 .. Len(q2) : q2[i] # loc'[u].n
               /\ \A w \in Threads : pc'[w] \in Linking /\ loc'[w].n = loc'[u].n => w = u
    <3>1. u # t /\ pc[u] \in Linking /\ loc'[u] = loc[u]
      BY <1>10, <2>1 DEF Linking
    <3>2. /\ loc[u].n \in 1 .. Len(mem.next) /\ mem.next[loc[u].n] = Null
          /\ \A i \in 1 .. L : q[i] # loc[u].n
          /\ \A w \in Threads : pc[w] \in Linking /\ loc[w].n = loc[u].n => w = u
      BY <1>c, <1>0, <3>1 DEF Unlinked
    <3>3. loc[u].n # n
      BY <1>7, <3>1
    <3>4. \A i \in 1 .. Len(q2) : q2[i] # loc[u].n
      <4>. TAKE i \in 1 .. Len(q2)
      <4>1. i \in 1 .. L \/ i = L + 1
        BY <1>12, OneMore
      <4>. QED
        BY <1>12, <3>2, <3>3, <4>1
    <3>5. \A w \in Threads : pc'[w] \in Linking => pc[w] \in Linking /\ loc'[w] = loc[w]
      BY <1>10 DEF Linking
    <3>6. mem'.next[loc[u].n] = Null
      <4>1. L \in 1 .. L
        BY <1>0
      <4>2. loc[u].n # q[L]
        BY <3>2, <4>1
      <4>. QED
        BY <1>9, <3>2, <4>2
    <3>. QED
      BY <1>9, <3>1, <3>2, <3>4, <3>5, <3>6
  <2>2. ASSUME NEW i \in 1 .. Len(mem'.next)
        PROVE  \/ \E m \in 1 .. Len(q2) : i = q2[m]
               \/ \E u \in Threads : pc'[u] \in Linking /\ loc'[u].n = i
    <3>1. CASE \E m \in 1 .. L : i = q[m]
      BY <1>0, <1>12, <3>1
    <3>2. CASE \E u \in Threads : pc[u] \in Linking /\ loc[u].n = i
      <4>1. PICK u \in Threads : pc[u] \in Linking /\ loc[u].n = i
        BY <3>2
      <4>2. CASE u = t
        BY <1>a, <1>0, <1>12, <4>1, <4>2
      <4>3. CASE u # t
        BY <1>10, <4>1, <4>3
      <4>. QED
        BY <4>2, <4>3
    <3>. QED
      BY <1>c, <1>0, <1>9, <3>1, <3>2 DEF Unlinked
  <2>. QED
    BY <2>1, <2>2 DEF Unlinked
<1>15. Onwards(q, h, k, q2, h, k)
  BY <1>c, <1>0, <1>8, <1>12 DEF Onwards
<1>16. EnqThread(t, q2, k)' /\ DeqThread(t, q2, h, k)'
  <2>1. EnqAt(t, q2, k, j)'
    BY <1>a, <1>0, <1>3, <1>6, <1>10, <1>12 DEF EnqAt
  <2>. QED
    BY <1>2, <1>10, <2>1 DEF EnqThread, DeqThread, Dequeuing
<1>17. \A u \in Threads : EnqThread(u, q2, k)' /\ DeqThread(u, q2, h, k)'
  BY <1>0, <1>10, <1>15, <1>16, OthersEnq, OthersDeq
<1>18. Queued(mem.data, q2, h)' = Append(Queued(mem.data, q, h), mem.data[n])
  <2>1. \A i \in 1 .. Len(mem.data) : mem.data[i] \in Items
    BY DEF MSTyped
  <2>2. \A i \in 1 .. Len(q) : mem.data[q[i]] \in Items
    BY <1>c, <1>0, <2>1 DEF Linked, MSTyped
  <2>3. mem.data[n] \in Items
    BY <1>7, <2>1 DEF MSTyped
  <2>4. Queued(mem.data, q2, h) = Append(Queued(mem.data, q, h), mem.data[n])
    BY <1>b, <1>c, <1>0, <1>3, <2>2, <2>3, QueuedOneMore
  <2>. QED
    BY <1>8, <2>4
<1>19. /\ t \notin FoundEmpty /\ FoundEmpty' \subseteq FoundEmpty
       /\ MSCallOf(t) = [op |-> "add", val |-> mem.data[n]] /\ MSCallOf(t)' = DoneWithNothing
       /\ \A u \in Threads \ {t} : MSCallOf(u)' = MSCallOf(u)
  <2>1. t \notin FoundEmpty /\ FoundEmpty' \subseteq FoundEmpty
    BY <1>1, <1>8, <1>10 DEF FoundEmpty
  <2>2. MSCallOf(t) = [op |-> "add", val |-> mem.data[n]] /\ MSCallOf(t)' = DoneWithNothing
    BY <1>a, <1>1, <1>10 DEF MSCallOf, Linking, DoneWithNothing
  <2>3. \A u \in Threads \ {t} : MSCallOf(u)' = MSCallOf(u)
    BY <1>8, <1>10 DEF MSCallOf
  <2>. QED
    BY <2>1, <2>2, <2>3
<1>20. MSExplained(q2, h)'
  BY <1>0, <1>5, <1>18, <1>19, Added
<1>. QED
  BY <1>11, <1>12, <1>13, <1>14, <1>17, <1>20 DEF MSQueueInv, MSInvAt
LEMMA QueuedSame ==
  ASSUME NEW q \in Seq(Nat), NEW h \in 1 .. Len(q), NEW d1, NEW d2,
         \A i \in 1 .. Len(q) : d2[q[i]] = d1[q[i]]
  PROVE  Queued(d2, q, h) = Queued(d1, q, h)
<1>1. \A i \in 1 .. Len(q) - h : h + i \in 1 .. Len(q)
  OBVIOUS
<1>. QED
  BY <1>1 DEF Queued

\* add makes a node, and nothing is seen of it yet.
LEMMA CallEnqStep ==
  ASSUME IsFiniteSet(Threads), MSTyped,
         NEW q \in Seq(Nat), NEW h \in Nat, NEW k \in Nat, MSInvAt(q, h, k),
         NEW t \in Threads, MS!CallEnq(t)
  PROVE  MSQueueInv'
<1>0. /\ Linked(q, h, k) /\ Unlinked(q) /\ MSExplained(q, h)
      /\ \A u \in Threads : EnqThread(u, q, k) /\ DeqThread(u, q, h, k)
      /\ h \in 1 .. Len(q)
      /\ mem.next \in Seq(Nat \cup {Null}) /\ mem.data \in Seq(Items)
      /\ Len(mem.next) = Len(mem.data) /\ added \in [Threads -> Nat]
  BY DEF MSInvAt, Linked, MSTyped
<1>a. PICK N \in Nat : N = Len(mem.next)
  BY <1>0
<1>b. PICK v : v = NextValue(t)
  OBVIOUS
<1>c. PICK l : l = [n |-> N + 1, tail |-> Null, next |-> Null]
  OBVIOUS
<1>1. Fresh(mem.next) = N + 1
  <2>1. DOMAIN mem.next = 1 .. N
    BY <1>0, <1>a
  <2>. QED
    BY <2>1, HeapFacts
<1>2. /\ pc[t] = "idle" /\ Moves(t, "enq_tail", l)
      /\ mem' = [mem EXCEPT !.next = Append(@, Null), !.data = Append(@, v)]
      /\ explanations' = Object!AfterCall(explanations, t, "add", v)
      /\ added' = [added EXCEPT ![t] = @ + 1]
  <2>1. MS!CallAdd(t, "enq_tail", [mem EXCEPT !.next = Append(@, Null), !.data = Append(@, v)], l)
    BY <1>b, <1>c, <1>1, MSHeap DEF MS!CallEnq, MS!NextValue, NextValue
  <2>. QED
    BY <1>b, <2>1, MSCallIs DEF Moves
<1>3. v \in Items /\ added' \in [Threads -> Nat]
  BY <1>0, <1>b, <1>2 DEF NextValue, Items
<1>4. /\ mem'.adt = mem.adt /\ IsQueue(mem)' /\ mem'.head = mem.head /\ mem'.tail = mem.tail
      /\ mem'.deleted = mem.deleted
      /\ mem'.next = Append(mem.next, Null) /\ mem'.data = Append(mem.data, v)
  <2>1. IsQueue(mem)
    BY DEF MSTyped
  <2>. QED
    BY <1>2, <2>1 DEF IsQueue
<1>5. /\ mem'.next \in Seq(Nat \cup {Null}) /\ Len(mem'.next) = N + 1
      /\ mem'.next[N + 1] = Null /\ \A i \in 1 .. N : mem'.next[i] = mem.next[i]
  <2>. DEFINE S == Nat \cup {Null}
  <2>1. mem.next \in Seq(S) /\ Null \in S
    BY <1>0
  <2>. HIDE DEF S
  <2>2. /\ Append(mem.next, Null) \in Seq(S) /\ Len(Append(mem.next, Null)) = N + 1
        /\ Append(mem.next, Null)[N + 1] = Null
        /\ \A i \in 1 .. N : Append(mem.next, Null)[i] = mem.next[i]
    BY <1>a, <2>1, AppendIs
  <2>. QED
    BY <1>4, <2>2 DEF S
<1>6. /\ mem'.data \in Seq(Items) /\ Len(mem'.data) = N + 1
      /\ mem'.data[N + 1] = v /\ \A i \in 1 .. N : mem'.data[i] = mem.data[i]
  BY <1>0, <1>a, <1>3, <1>4, AppendIs
<1>7. /\ pc'[t] = "enq_tail" /\ loc'[t] = l
      /\ \A u \in Threads \ {t} : pc'[u] = pc[u] /\ loc'[u] = loc[u]
      /\ pc' \in [Threads -> Places] /\ loc' = [u \in Threads |-> loc'[u]]
  BY <1>2, MovesIs DEF Places, Enqueuing, Linking
<1>8. l.n = N + 1 /\ l \in EnqLocals
  BY <1>c DEF EnqLocals, Pointers
<1>9. \A i \in 1 .. Len(q) : q[i] \in 1 .. N
  BY <1>0, <1>a DEF Linked
<1>10. Linked(q, h, k)'
  <2>1. \A i \in 1 .. Len(q) : q[i] \in 1 .. Len(mem'.next)
    BY <1>5, <1>9
  <2>2. \A i \in 1 .. Len(q) : mem'.next[q[i]] = IF i = Len(q) THEN Null ELSE q[i + 1]
    BY <1>0, <1>5, <1>9 DEF Linked
  <2>. QED
    BY <1>0, <1>4, <2>1, <2>2 DEF Linked
<1>11. \A u \in Threads \ {t} : pc[u] \in Linking =>
         /\ loc[u].n \in 1 .. N /\ loc[u].n # N + 1 /\ mem.next[loc[u].n] = Null
         /\ \A i \in 1 .. Len(q) : q[i] # loc[u].n
         /\ \A w \in Threads : pc[w] \in Linking /\ loc[w].n = loc[u].n => w = u
  <2>1. \A i \in 1 .. N : i # N + 1
    OBVIOUS
  <2>. QED
    BY <1>0, <1>a, <2>1 DEF Unlinked
<1>12. Unlinked(q)'
  <2>1. ASSUME NEW u \in Threads, pc'[u] \in Linking
        PROVE  /\ loc'[u].n \in 1 .. Len(mem'.next) /\ mem'.next[loc'[u].n] = Null
               /\ \A i \in 1 .. Len(q) : q[i] # loc'[u].n
               /\ \A w \in Threads : pc'[w] \in Linking /\ loc'[w].n = loc'[u].n => w = u
    <3>1. CASE u = t
      <4>1. N + 1 \in 1 .. N + 1 /\ N + 1 \notin 1 .. N
        OBVIOUS
      <4>2. \A i \in 1 .. Len(q) : q[i] # N + 1
        BY <1>9, <4>1
      <4>3. \A w \in Threads \ {t} : pc'[w] \in Linking => loc'[w].n # N + 1
        BY <1>7, <1>11
      <4>. QED
        BY <1>5, <1>7, <1>8, <3>1, <4>1, <4>2, <4>3
    <3>2. CASE u # t
      <4>1. /\ pc[u] \in Linking /\ loc'[u] = loc[u]
            /\ loc[u].n \in 1 .. N /\ loc[u].n # N + 1 /\ mem.next[loc[u].n] = Null
            /\ \A i \in 1 .. Len(q) : q[i] # loc[u].n
            /\ \A w \in Threads : pc[w] \in Linking /\ loc[w].n = loc[u].n => w = u
        BY <1>7, <1>11, <2>1, <3>2
      <4>2. loc[u].n \in 1 .. N + 1 /\ mem'.next[loc[u].n] = Null
        BY <1>5, <4>1
      <4>3. \A w \in Threads : pc'[w] \in Linking /\ loc'[w].n = loc[u].n => w = u
        BY <1>7, <1>8, <4>1
      <4>. QED
        BY <1>5, <4>1, <4>2, <4>3
    <3>. QED
      BY <3>1, <3>2
  <2>2. ASSUME NEW i \in 1 .. Len(mem'.next)
        PROVE  \/ \E m \in 1 .. Len(q) : i = q[m]
               \/ \E u \in Threads : pc'[u] \in Linking /\ loc'[u].n = i
    <3>1. i \in 1 .. N \/ i = N + 1
      BY <1>5, OneMore
    <3>2. CASE i = N + 1
      BY <1>7, <1>8, <3>2 DEF Linking
    <3>3. CASE i \in 1 .. N
      <4>1. CASE \E u \in Threads : pc[u] \in Linking /\ loc[u].n = i
        <5>1. PICK u \in Threads : pc[u] \in Linking /\ loc[u].n = i
          BY <4>1
        <5>2. u # t
          BY <1>2, <5>1 DEF Linking
        <5>. QED
          BY <1>7, <5>1, <5>2
      <4>. QED
        BY <1>0, <1>a, <3>3, <4>1 DEF Unlinked
    <3>. QED
      BY <3>1, <3>2, <3>3
  <2>. QED
    BY <2>1, <2>2 DEF Unlinked
<1>13. MSTyped' <=> explanations' \in SUBSET AllExplanations
  BY <1>3, <1>4, <1>5, <1>6, <1>7 DEF MSTyped, Places
<1>14. \A i \in 1 .. Len(q) : mem'.data[q[i]] = mem.data[q[i]]
  BY <1>6, <1>9
<1>15. Onwards(q, h, k, q, h, k)
  BY <1>14 DEF Onwards
<1>16. EnqThread(t, q, k)' /\ DeqThread(t, q, h, k)'
  BY <1>7, <1>8 DEF EnqThread, DeqThread, Dequeuing
<1>17. \A u \in Threads : EnqThread(u, q, k)' /\ DeqThread(u, q, h, k)'
  BY <1>0, <1>7, <1>15, <1>16, OthersEnq, OthersDeq
<1>18. Queued(mem.data, q, h)' = Queued(mem.data, q, h)
  BY <1>0, <1>14, QueuedSame
<1>19. FoundEmpty' \subseteq FoundEmpty /\ t \notin FoundEmpty'
  BY <1>4, <1>7 DEF FoundEmpty
<1>20. MSCallOf(t)' = [op |-> "add", val |-> v]
  BY <1>6, <1>7, <1>8 DEF MSCallOf, Linking
<1>21. ASSUME NEW u \in Threads \ {t} PROVE MSCallOf(u)' = MSCallOf(u)
  <2>1. pc[u] \in Linking => mem'.data[loc[u].n] = mem.data[loc[u].n]
    BY <1>6, <1>11
  <2>. QED
    BY <1>7, <2>1 DEF MSCallOf
<1>22. explanations' \in SUBSET AllExplanations /\ MSExplained(q, h)'
  BY <1>0, <1>2, <1>3, <1>18, <1>19, <1>20, <1>21, Called
<1>. QED
  BY <1>10, <1>12, <1>13, <1>17, <1>22 DEF MSQueueInv, MSInvAt
----------------------------------------------------------------------------
(* The steps of rmv. *)

LEMMA CallDeqStep ==
  ASSUME IsFiniteSet(Threads), MSTyped,
         NEW q \in Seq(Nat), NEW h \in Nat, NEW k \in Nat, MSInvAt(q, h, k),
         NEW t \in Threads, MS!CallDeq(t)
  PROVE  MSQueueInv'
<1>a. PICK l : l = [head |-> Null, tail |-> Null, next |-> Null, vl |-> NoVal]
  OBVIOUS
<1>1. /\ pc[t] = "idle" /\ Moves(t, "deq_head", l) /\ mem' = mem /\ added' = added
      /\ explanations' = Object!AfterCall(explanations, t, "rmv", NoVal)
  BY <1>a, MSCallIs DEF MS!CallDeq, Moves
<1>2. l \in DeqLocals
  BY <1>a DEF DeqLocals, Pointers, Items
<1>3. /\ pc'[t] = "deq_head" /\ loc'[t] = l
      /\ \A u \in Threads \ {t} : pc'[u] = pc[u] /\ loc'[u] = loc[u]
      /\ pc' \in [Threads -> Places] /\ loc' = [u \in Threads |-> loc'[u]]
  BY <1>1, MovesIs DEF Places, Dequeuing
<1>4. EnqThread(t, q, k)' /\ DeqThread(t, q, h, k)'
  BY <1>2, <1>3 DEF EnqThread, DeqThread, Enqueuing, Linking
<1>5. FoundEmpty' \subseteq FoundEmpty /\ t \notin FoundEmpty'
  BY <1>1, <1>3 DEF FoundEmpty
<1>6. MSCallOf(t)' = [op |-> "rmv", val |-> NoVal]
  BY <1>3 DEF MSCallOf, Linking
<1>7. \A u \in Threads \ {t} : MSCallOf(u)' = MSCallOf(u)
  BY <1>1, <1>3 DEF MSCallOf
<1>8. Queued(mem.data, q, h)' = Queued(mem.data, q, h)
  BY <1>1
<1>9. explanations' \in SUBSET AllExplanations /\ MSExplained(q, h)'
  BY <1>1, <1>5, <1>6, <1>7, <1>8, Called DEF MSInvAt, Items
<1>10. TailMoves(q, k, k)
  BY <1>1 DEF TailMoves
<1>11. "deq_head" \in Places /\ ("deq_head" \in Linking <=> pc[t] \in Linking) /\ pc[t] \notin Linking
  BY <1>1 DEF Places, Dequeuing, Linking
<1>12. /\ MSTyped' /\ Linked(q, h, k)' /\ Unlinked(q)'
       /\ \A u \in Threads : EnqThread(u, q, k)' /\ DeqThread(u, q, h, k)'
  BY <1>1, <1>4, <1>9, <1>10, <1>11, StepFrame
<1>. QED
  BY <1>9, <1>12 DEF MSQueueInv, MSInvAt

LEMMA DeqQuietStep ==
  ASSUME MSTyped, NEW q \in Seq(Nat), NEW h \in Nat, NEW k \in Nat, MSInvAt(q, h, k),
         flaws = {}, flaws' = {}, NEW t \in Threads,
         \/ MS!DeqHead(t) \/ MS!DeqTail(t) \/ MS!DeqHelp(t) \/ MS!DeqData(t)
         \/ (MS!DeqCheck(t) \/ MS!DeqCas(t)) /\ pc'[t] # "idle"
  PROVE  MSQueueInv'
<1>0. /\ Linked(q, h, k) /\ DeqThread(t, q, h, k) /\ k \in h .. Len(q) /\ k \in 1 .. Len(q)
      /\ h \in 1 .. Len(q) /\ mem.tail = q[k] /\ mem.head = q[h] /\ h \in 1 .. h /\ k \in 1 .. k
      /\ Len(q) \in Nat
  BY DEF MSInvAt, Linked
<1>1. ASSUME pc[t] \in Dequeuing, NEW k2, TailMoves(q, k, k2), NEW place \in Dequeuing \ {"deq_check"},
             NEW l, Moves(t, place, l), added' = added, explanations' = explanations,
             l \in DeqLocals,
             place = "deq_tail" => \E i \in 1 .. h : l.head = q[i],
             place \notin {"deq_head", "deq_tail"} =>
               \E i \in 1 .. h, j \in 1 .. k2 : DeqAt(t, q, h, k2, i, j)'
      PROVE  MSQueueInv'
  <2>1. pc'[t] = place /\ loc'[t] = l
    BY <1>1, MovesIs DEF Places
  <2>2. EnqThread(t, q, k2)' /\ DeqThread(t, q, h, k2)'
    BY <1>1, <2>1 DEF EnqThread, DeqThread, Enqueuing, Linking, Dequeuing
  <2>. QED
    BY <1>1, <2>2, QuietStep
<1>2. mem' = mem => TailMoves(q, k, k)
  BY DEF TailMoves
<1>3. ASSUME pc[t] \in Dequeuing PROVE loc[t] \in DeqLocals
  BY <1>0, <1>3 DEF DeqThread
<1>4. ASSUME pc[t] \in Dequeuing, pc[t] \notin {"deq_head", "deq_tail"}
      PROVE  \E i \in 1 .. h, j \in 1 .. k :
               DeqAt(t, q, h, k, i, j) /\ i \in 1 .. Len(q) /\ j \in 1 .. Len(q) /\ j \in i .. k
  <2>1. PICK i \in 1 .. h, j \in 1 .. k : DeqAt(t, q, h, k, i, j)
    BY <1>0, <1>4 DEF DeqThread
  <2>2. j \in i .. k
    BY <2>1 DEF DeqAt
  <2>3. i \in 1 .. Len(q) /\ j \in 1 .. Len(q)
    BY <1>0
  <2>. QED
    BY <2>1, <2>2, <2>3
<1>5. CASE MS!DeqHead(t)
  <2>. DEFINE l == [loc[t] EXCEPT !.head = mem.head]
  <2>1. /\ pc[t] = "deq_head" /\ mem' = mem /\ Moves(t, "deq_tail", l)
        /\ added' = added /\ explanations' = explanations
    BY <1>5, MSStepIs DEF MS!DeqHead, MS!Step, Moves
  <2>2. q[h] \in Pointers
    BY <1>0, LinkedNode
  <2>3. pc[t] \in Dequeuing /\ "deq_tail" \in Dequeuing \ {"deq_check"}
    BY <2>1 DEF Dequeuing
  <2>4. l \in DeqLocals /\ l.head = q[h]
    BY <1>0, <1>3, <2>2, <2>3 DEF DeqLocals
  <2>. HIDE DEF l
  <2>. QED
    BY <1>0, <1>1, <1>2, <2>1, <2>3, <2>4
<1>6. CASE MS!DeqTail(t)
  <2>. DEFINE l == [loc[t] EXCEPT !.tail = mem.tail]
  <2>1. /\ pc[t] = "deq_tail" /\ mem' = mem /\ Moves(t, "deq_next", l)
        /\ added' = added /\ explanations' = explanations
    BY <1>6, MSStepIs DEF MS!DeqTail, MS!Step, Moves
  <2>2. q[k] \in Pointers
    BY <1>0, LinkedNode
  <2>3. pc[t] \in Dequeuing /\ "deq_next" \in Dequeuing \ {"deq_check"}
    BY <2>1 DEF Dequeuing
  <2>4. PICK i \in 1 .. h : loc[t].head = q[i]
    BY <1>0, <2>1, <2>3 DEF DeqThread
  <2>5. l \in DeqLocals /\ l.tail = q[k] /\ l.head = q[i]
    BY <1>0, <1>3, <2>2, <2>3, <2>4 DEF DeqLocals
  <2>. HIDE DEF l
  <2>6. pc'[t] = "deq_next" /\ loc'[t] = l
    BY <2>1, MovesIs DEF Places, Dequeuing
  <2>7. k \in i .. k
    BY <1>0
  <2>8. DeqAt(t, q, h, k, i, k)'
    BY <2>5, <2>6, <2>7 DEF DeqAt
  <2>. QED
    BY <1>0, <1>1, <1>2, <2>1, <2>3, <2>5, <2>8
<1>7. ASSUME pc[t] \in Dequeuing, NEW place \in {"deq_head", "deq_help", "deq_data"},
             mem' = mem, Moves(t, place, loc[t]), added' = added, explanations' = explanations,
             NEW i \in 1 .. h, NEW j \in 1 .. k, DeqAt(t, q, h, k, i, j),
             place = "deq_help" => i = j /\ i < Len(q) /\ loc[t].next = q[i + 1],
             place = "deq_data" => i < j /\ loc[t].next = q[i + 1]
      PROVE  MSQueueInv'
  <2>1. place \in Dequeuing \ {"deq_check"}
    BY DEF Dequeuing
  <2>2. pc'[t] = place /\ loc'[t] = loc[t]
    BY <1>7, <2>1, MovesIs DEF Places
  <2>3. DeqAt(t, q, h, k, i, j)'
    BY <1>7, <2>2 DEF DeqAt
  <2>. QED
    BY <1>1, <1>2, <1>3, <1>7, <2>1, <2>3
<1>8. CASE MS!DeqCheck(t) /\ pc'[t] # "idle"
  <2>1. pc[t] = "deq_check" /\ pc[t] \in Dequeuing
    BY <1>8 DEF MS!DeqCheck, Dequeuing
  <2>2. PICK i \in 1 .. h, j \in 1 .. k :
          DeqAt(t, q, h, k, i, j) /\ i \in 1 .. Len(q) /\ j \in 1 .. Len(q) /\ j \in i .. k
    BY <1>4, <2>1
  <2>3. loc[t].head = q[i] /\ loc[t].tail = q[j]
        /\ (i = h => (i = j /\ loc[t].next = Null) \/ (i < Len(q) /\ loc[t].next = q[i + 1]))
    BY <2>1, <2>2 DEF DeqAt
  <2>. DEFINE found == MS!Reused(mem.head, loc[t].head)
  <2>4. PICK same \in MS!Equal(mem.deleted, mem.head, loc[t].head) :
          IF ~same THEN MS!Step(t, "deq_head", mem, loc[t])
          ELSE IF loc[t].head # loc[t].tail
          THEN MS!FlawedStep(t, "deq_data", mem, loc[t], found)
          ELSE IF loc[t].next = Null
          THEN MS!FlawedReturn(t, mem, NoVal, found)
          ELSE MS!FlawedStep(t, "deq_help", mem, loc[t], found)
    BY <1>8 DEF MS!DeqCheck
  <2>5. found = {} /\ same => i = h
    <3>1. found = {} /\ same => mem.head = loc[t].head
      BY <2>4, MSEqual
    <3>. QED
      BY <1>0, <2>2, <2>3, <3>1 DEF Linked
  <2>. HIDE DEF found
  <2>6. CASE ~same
    <3>1. mem' = mem /\ Moves(t, "deq_head", loc[t]) /\ added' = added /\ explanations' = explanations
      BY <2>4, <2>6, MSStepIs DEF MS!Step, Moves
    <3>. QED
      BY <1>7, <2>1, <2>2, <3>1
  <2>7. CASE same /\ loc[t].head # loc[t].tail
    <3>1. /\ mem' = mem /\ Moves(t, "deq_data", loc[t]) /\ found = {}
          /\ added' = added /\ explanations' = explanations
      BY <2>4, <2>7, MSStepIs DEF Moves
    <3>2. i < j
      BY <2>2, <2>3, <2>7
    <3>3. loc[t].next = q[i + 1]
      BY <2>3, <2>5, <2>7, <3>1, <3>2
    <3>. QED
      BY <1>7, <2>1, <2>2, <3>1, <3>2, <3>3
  <2>8. CASE same /\ loc[t].head = loc[t].tail
    <3>1. loc[t].next # Null /\ MS!FlawedStep(t, "deq_help", mem, loc[t], found)
      <4>. SUFFICES ASSUME MS!FlawedReturn(t, mem, NoVal, found) PROVE FALSE
        BY <2>4, <2>8
      <4>1. Moves(t, "idle", NoLocals)
        BY MSReturnIs DEF Moves
      <4>2. pc'[t] = "idle"
        BY <4>1, MovesIs DEF Places
      <4>. QED
        BY <1>8, <4>2
    <3>2. /\ mem' = mem /\ Moves(t, "deq_help", loc[t]) /\ found = {}
          /\ added' = added /\ explanations' = explanations
      BY <3>1, MSStepIs DEF Moves
    <3>3. i = j
      BY <1>0, <2>2, <2>3, <2>8 DEF Linked
    <3>4. i < Len(q) /\ loc[t].next = q[i + 1]
      BY <2>3, <2>5, <2>8, <3>1, <3>2
    <3>. QED
      BY <1>7, <2>1, <2>2, <3>2, <3>3, <3>4
  <2>. QED
    BY <2>6, <2>7, <2>8
<1>9. CASE MS!DeqHelp(t)
  <2>1. pc[t] = "deq_help" /\ pc[t] \in Dequeuing /\ MS!Help(t, "deq_head")
    BY <1>9 DEF MS!DeqHelp, Dequeuing
  <2>2. PICK i \in 1 .. h, j \in 1 .. k :
          DeqAt(t, q, h, k, i, j) /\ i \in 1 .. Len(q) /\ j \in 1 .. Len(q) /\ j \in i .. k
    BY <1>4, <2>1
  <2>3. loc[t].tail = q[j] /\ i = j /\ i < Len(q) /\ loc[t].next = q[i + 1]
    BY <2>1, <2>2 DEF DeqAt
  <2>4. PICK same \in MS!Equal(mem.deleted, mem.tail, loc[t].tail) :
          IF same THEN MS!FlawedStep(t, "deq_head", [mem EXCEPT !.tail = loc[t].next], loc[t],
                                     MS!Reused(mem.tail, loc[t].tail))
          ELSE MS!Step(t, "deq_head", mem, loc[t])
    BY <2>1 DEF MS!Help
  <2>5. CASE ~same
    <3>1. mem' = mem /\ Moves(t, "deq_head", loc[t]) /\ added' = added /\ explanations' = explanations
      BY <2>4, <2>5, MSStepIs DEF MS!Step, Moves
    <3>. QED
      BY <1>7, <2>1, <2>2, <3>1
  <2>6. CASE same
    <3>1. /\ mem' = [mem EXCEPT !.tail = loc[t].next] /\ Moves(t, "deq_head", loc[t])
          /\ added' = added /\ explanations' = explanations
          /\ MS!Reused(mem.tail, loc[t].tail) = {}
      BY <2>4, <2>6, MSStepIs DEF Moves
    <3>2. mem.tail = loc[t].tail
      BY <2>4, <2>6, <3>1, MSEqual
    <3>3. j = k
      BY <1>0, <2>2, <2>3, <3>2 DEF Linked
    <3>4. TailMoves(q, k, k + 1)
      BY <1>0, <2>3, <3>1, <3>3 DEF TailMoves
    <3>5. "deq_head" \in Dequeuing \ {"deq_check"}
      BY DEF Dequeuing
    <3>. QED
      BY <1>1, <1>3, <2>1, <3>1, <3>4, <3>5
  <2>. QED
    BY <2>5, <2>6
<1>10. CASE MS!DeqData(t)
  <2>1. pc[t] = "deq_data" /\ pc[t] \in Dequeuing
    BY <1>10 DEF MS!DeqData, Dequeuing
  <2>2. PICK i \in 1 .. h, j \in 1 .. k :
          DeqAt(t, q, h, k, i, j) /\ i \in 1 .. Len(q) /\ j \in 1 .. Len(q) /\ j \in i .. k
    BY <1>4, <2>1
  <2>3. /\ loc[t].head = q[i] /\ loc[t].tail = q[j] /\ i < j /\ loc[t].next = q[i + 1]
        /\ i + 1 \in 1 .. Len(q)
    BY <2>1, <2>2 DEF DeqAt
  <2>4. loc[t].next \notin {Null, Garbage}
    BY <1>0, <2>3, LinkedNode
  <2>5. PICK vl \in MS!Read(mem.data, mem.deleted, q[i + 1]) :
          MS!Step(t, "deq_cas", mem, [loc[t] EXCEPT !.vl = vl])
    BY <1>10, <2>3, <2>4 DEF MS!DeqData
  <2>. DEFINE l == [loc[t] EXCEPT !.vl = vl]
  <2>6. /\ mem' = mem /\ Moves(t, "deq_cas", l) /\ added' = added /\ explanations' = explanations
    BY <2>5, MSStepIs DEF MS!Step, Moves
  <2>7. vl \in Items \cup {Garbage, Null} /\ (i = h => vl = mem.data[q[i + 1]])
    <3>1. mem.data[q[i + 1]] \in Items
      <4>1. \A n \in 1 .. Len(mem.next) : mem.data[n] \in Items
        BY DEF MSTyped
      <4>2. q[i + 1] \in 1 .. Len(mem.next)
        BY <1>0, <2>3 DEF Linked
      <4>. QED
        BY <4>1, <4>2
    <3>2. i = h => ~MS!Has(mem.deleted, q[i + 1])
      <4>1. MS!Has(mem.deleted, q[i + 1]) <=> i + 1 < h
        BY <1>0, <2>3, LinkedNode
      <4>. QED
        BY <1>0, <4>1
    <3>. QED
      BY <2>5, <3>1, <3>2 DEF MS!Read
  <2>8. l \in DeqLocals /\ l.head = q[i] /\ l.tail = q[j] /\ l.next = q[i + 1] /\ l.vl = vl
    BY <1>3, <2>1, <2>3, <2>7 DEF DeqLocals
  <2>. HIDE DEF l
  <2>9. "deq_cas" \in Dequeuing \ {"deq_check"}
    BY DEF Dequeuing
  <2>10. pc'[t] = "deq_cas" /\ loc'[t] = l
    BY <2>6, <2>9, MovesIs DEF Places
  <2>11. DeqAt(t, q, h, k, i, j)'
    BY <2>2, <2>3, <2>6, <2>7, <2>8, <2>10 DEF DeqAt
  <2>. QED
    BY <1>1, <1>2, <2>1, <2>2, <2>6, <2>8, <2>9, <2>11
<1>11. CASE MS!DeqCas(t) /\ pc'[t] # "idle"
  <2>1. pc[t] = "deq_cas" /\ pc[t] \in Dequeuing
    BY <1>11 DEF MS!DeqCas, Dequeuing
  <2>2. PICK i \in 1 .. h, j \in 1 .. k :
          DeqAt(t, q, h, k, i, j) /\ i \in 1 .. Len(q) /\ j \in 1 .. Len(q) /\ j \in i .. k
    BY <1>4, <2>1
  <2>3. MS!Step(t, "deq_head", mem, loc[t])
    <3>. SUFFICES ASSUME NEW m, NEW answer, NEW found, MS!FlawedReturn(t, m, answer, found)
                  PROVE  FALSE
      BY <1>11 DEF MS!DeqCas
    <3>1. Moves(t, "idle", NoLocals)
      BY MSReturnIs DEF Moves
    <3>2. pc'[t] = "idle"
      BY <3>1, MovesIs DEF Places
    <3>. QED
      BY <1>11, <3>2
  <2>4. mem' = mem /\ Moves(t, "deq_head", loc[t]) /\ added' = added /\ explanations' = explanations
    BY <2>3, MSStepIs DEF MS!Step, Moves
  <2>. QED
    BY <1>7, <2>1, <2>2, <2>4
<1>. QED
  BY <1>5, <1>6, <1>8, <1>9, <1>10, <1>11
LEMMA QueuedEmpty ==
  ASSUME NEW q \in Seq(Nat), NEW h, h = Len(q), NEW data
  PROVE  Queued(data, q, h) = <<>>
<1>1. Len(q) - h = 0
  BY QueuedType
<1>2. 1 .. Len(q) - h = {}
  BY <1>1
<1>. QED
  BY <1>2 DEF Queued

\* What is read of head's successor; if there is none, the queue is empty now.
LEMMA DeqNextStep ==
  ASSUME IsFiniteSet(Threads), MSTyped,
         NEW q \in Seq(Nat), NEW h \in Nat, NEW k \in Nat, MSInvAt(q, h, k),
         flaws = {}, flaws' = {}, NEW t \in Threads, MS!DeqNext(t)
  PROVE  MSQueueInv'
<1>0. /\ Linked(q, h, k) /\ DeqThread(t, q, h, k) /\ k \in h .. Len(q)
      /\ h \in 1 .. Len(q) /\ mem.head = q[h] /\ Len(q) \in Nat /\ MSExplained(q, h)
  <2>1. Linked(q, h, k) /\ MSExplained(q, h) /\ DeqThread(t, q, h, k)
    BY DEF MSInvAt
  <2>2. Len(q) \in Nat
    OBVIOUS
  <2>. QED
    BY <2>1, <2>2 DEF Linked
<1>1. pc[t] = "deq_next" /\ pc[t] \in Dequeuing
  BY DEF MS!DeqNext, Dequeuing
<1>2. PICK i \in 1 .. h, j \in 1 .. k : DeqAt(t, q, h, k, i, j)
  BY <1>0, <1>1 DEF DeqThread
<1>3. loc[t] \in DeqLocals /\ loc[t].head = q[i] /\ loc[t].tail = q[j] /\ j \in i .. k
      /\ i \in 1 .. Len(q)
  BY <1>0, <1>1, <1>2 DEF DeqAt, DeqThread
<1>4. PICK next \in MS!Read(mem.next, mem.deleted, q[i]) :
        MS!Step(t, "deq_check", mem, [loc[t] EXCEPT !.next = next])
  BY <1>3 DEF MS!DeqNext
<1>5. next \in Pointers /\ (i = h => next = IF i = Len(q) THEN Null ELSE q[i + 1])
  BY <1>0, <1>3, <1>4, LinkedNode
<1>. DEFINE l == [loc[t] EXCEPT !.next = next]
<1>6. mem' = mem /\ Moves(t, "deq_check", l) /\ added' = added /\ explanations' = explanations
  BY <1>4, MSStepIs DEF MS!Step, Moves
<1>7. l \in DeqLocals /\ l.head = q[i] /\ l.tail = q[j] /\ l.next = next
  BY <1>3, <1>5 DEF DeqLocals
<1>. HIDE DEF l
<1>8. "deq_check" \in Places /\ "deq_check" \notin Linking /\ pc[t] \notin Linking
  BY <1>1 DEF Places, Dequeuing, Linking
<1>9. pc'[t] = "deq_check" /\ loc'[t] = l /\ \A u \in Threads \ {t} : pc'[u] = pc[u] /\ loc'[u] = loc[u]
  BY <1>6, <1>8, MovesIs
<1>10. i = h => (i = j /\ next = Null) \/ (i < Len(q) /\ next = q[i + 1])
  <2>. HAVE i = h
  <2>1. CASE i = Len(q)
    <3>1. j = i
      BY <1>0, <1>3, <2>1
    <3>. QED
      BY <1>5, <2>1, <3>1
  <2>2. CASE i # Len(q)
    BY <1>0, <1>3, <1>5, <2>2
  <2>. QED
    BY <2>1, <2>2
<1>11. EnqThread(t, q, k)' /\ DeqThread(t, q, h, k)'
  <2>1. DeqAt(t, q, h, k, i, j)'
    BY <1>2, <1>3, <1>7, <1>9, <1>10 DEF DeqAt
  <2>. QED
    BY <1>7, <1>9, <2>1 DEF EnqThread, DeqThread, Enqueuing, Linking
<1>12. TailMoves(q, k, k) /\ explanations' \in SUBSET AllExplanations
  BY <1>6 DEF TailMoves, MSTyped
<1>13. /\ MSTyped' /\ Linked(q, h, k)' /\ Unlinked(q)'
       /\ \A u \in Threads : EnqThread(u, q, k)' /\ DeqThread(u, q, h, k)'
       /\ Queued(mem.data, q, h)' = Queued(mem.data, q, h)
       /\ FoundEmpty' \ {t} = FoundEmpty \ {t}
       /\ t \in FoundEmpty' <=> "deq_check" = "deq_check" /\ l.next = Null /\ l.head = mem.head
       /\ \A u \in Threads \ {t} : MSCallOf(u)' = MSCallOf(u)
  BY <1>6, <1>8, <1>11, <1>12, StepFrame
<1>14. MSCallOf(t) = [op |-> "rmv", val |-> NoVal] /\ MSCallOf(t)' = [op |-> "rmv", val |-> NoVal]
  BY <1>1, <1>9 DEF MSCallOf, Linking
<1>15. \A u \in Threads : MSCallOf(u)' = MSCallOf(u)
  BY <1>13, <1>14
<1>16. MSExplained(q, h)'
  <2>1. CASE t \notin FoundEmpty'
    <3>1. FoundEmpty' \subseteq FoundEmpty
      BY <1>13, <2>1
    <3>. QED
      BY <1>0, <1>6, <1>13, <1>15, <3>1, NothingNew
  <2>2. CASE t \in FoundEmpty'
    <3>1. next = Null /\ q[i] = q[h]
      BY <1>0, <1>7, <1>13, <2>2
    <3>2. i = h
      BY <1>0, <1>3, <3>1 DEF Linked
    <3>3. h = Len(q)
      BY <1>0, <1>3, <1>5, <3>1, <3>2, PointersAssumption
    <3>4. Queued(mem.data, q, h) = <<>>
      BY <3>3, QueuedEmpty
    <3>5. FoundEmpty' \subseteq FoundEmpty \cup {t}
      BY <1>13
    <3>. QED
      BY <1>0, <1>6, <1>13, <1>14, <1>15, <3>4, <3>5, Emptied
  <2>. QED
    BY <2>1, <2>2
<1>. QED
  BY <1>13, <1>16 DEF MSQueueInv, MSInvAt

LEMMA DeqEmptyStep ==
  ASSUME IsFiniteSet(Threads), MSTyped,
         NEW q \in Seq(Nat), NEW h \in Nat, NEW k \in Nat, MSInvAt(q, h, k),
         flaws = {}, flaws' = {}, NEW t \in Threads, MS!DeqCheck(t), pc'[t] = "idle"
  PROVE  MSQueueInv'
<1>. DEFINE found == MS!Reused(mem.head, loc[t].head)
<1>1. pc[t] = "deq_check" /\ mem.adt = "queue"
  BY DEF MS!DeqCheck, MSTyped
<1>2. PICK same \in MS!Equal(mem.deleted, mem.head, loc[t].head) :
        IF ~same THEN MS!Step(t, "deq_head", mem, loc[t])
        ELSE IF loc[t].head # loc[t].tail
        THEN MS!FlawedStep(t, "deq_data", mem, loc[t], found)
        ELSE IF loc[t].next = Null
        THEN MS!FlawedReturn(t, mem, NoVal, found)
        ELSE MS!FlawedStep(t, "deq_help", mem, loc[t], found)
  BY DEF MS!DeqCheck
<1>3. found = {} /\ same => mem.head = loc[t].head
  BY <1>2, MSEqual
<1>. HIDE DEF found
<1>4. same /\ loc[t].next = Null /\ MS!FlawedReturn(t, mem, NoVal, found)
  <2>. SUFFICES ASSUME NEW place \in {"deq_head", "deq_data", "deq_help"}, NEW f,
                       MS!FlawedStep(t, place, mem, loc[t], f)
                PROVE  FALSE
    BY <1>2 DEF MS!Step
  <2>1. Moves(t, place, loc[t])
    BY MSStepIs DEF Moves
  <2>2. place \in Places /\ place # "idle"
    BY DEF Places, Dequeuing
  <2>3. pc'[t] = place
    BY <2>1, <2>2, MovesIs
  <2>. QED
    BY <2>2, <2>3
<1>5. /\ mem' = mem /\ Moves(t, "idle", NoLocals) /\ added' = added /\ found = {}
      /\ explanations' = Object!AfterReturn("queue", explanations, t, NoVal)
  BY <1>1, <1>4, MSReturnIs DEF Moves
<1>6. t \in FoundEmpty
  BY <1>1, <1>3, <1>4, <1>5 DEF FoundEmpty
<1>7. TailMoves(q, k, k)
  BY <1>5 DEF TailMoves
<1>. QED
  BY <1>5, <1>6, <1>7, ReturnStep

LEMMA QueuedOneLess ==
  ASSUME NEW q \in Seq(Nat), NEW h \in 1 .. Len(q), h < Len(q), NEW data, NEW D,
         \A i \in 1 .. Len(q) : data[q[i]] \in D
  PROVE  /\ Queued(data, q, h) # <<>> /\ Head(Queued(data, q, h)) = data[q[h + 1]]
         /\ Queued(data, q, h + 1) = Tail(Queued(data, q, h))
<1>1. PICK L \in Nat : L = Len(q)
  OBVIOUS
<1>2. L - (h + 1) \in Nat /\ h + 1 \in 1 .. Len(q)
  BY <1>1
<1>3. PICK m \in Nat : m = L - (h + 1)
  BY <1>2
<1>4. L - h = m + 1
  BY <1>1, <1>3
<1>5. Queued(data, q, h) \in Seq(D) /\ Len(Queued(data, q, h)) = m + 1
  BY <1>1, <1>4, QueuedType
<1>6. Queued(data, q, h + 1) \in Seq(D) /\ Len(Queued(data, q, h + 1)) = m
  BY <1>1, <1>2, <1>3, QueuedType
<1>7. Queued(data, q, h)[1] = data[q[h + 1]]
  BY <1>1, <1>4 DEF Queued
<1>8. PICK s \in Seq(D) : s = Queued(data, q, h)
  BY <1>5
<1>9. /\ s # <<>> /\ Head(s) = s[1] /\ Tail(s) \in Seq(D) /\ Len(Tail(s)) = m
      /\ \A i \in 1 .. m : Tail(s)[i] = s[i + 1]
  BY <1>5, <1>8
<1>10. ASSUME NEW i \in 1 .. m PROVE Queued(data, q, h + 1)[i] = Tail(s)[i]
  <2>1. i + 1 \in 1 .. m + 1 /\ h + (i + 1) = (h + 1) + i
    OBVIOUS
  <2>2. s[i + 1] = data[q[h + (i + 1)]]
    BY <1>1, <1>4, <1>8, <2>1 DEF Queued
  <2>3. Queued(data, q, h + 1)[i] = data[q[(h + 1) + i]]
    BY <1>1, <1>3 DEF Queued
  <2>. QED
    BY <1>9, <2>1, <2>2, <2>3
<1>11. Queued(data, q, h + 1) = Tail(s)
  BY <1>6, <1>9, <1>10, SeqEqual
<1>. QED
  BY <1>7, <1>8, <1>9, <1>11

\* rmv moves head on, takes the value and deletes the node.
LEMMA DeqCasStep ==
  ASSUME IsFiniteSet(Threads), MSTyped,
         NEW q \in Seq(Nat), NEW h \in Nat, NEW k \in Nat, MSInvAt(q, h, k),
         flaws = {}, flaws' = {}, NEW t \in Threads, MS!DeqCas(t), pc'[t] = "idle"
  PROVE  MSQueueInv'
<1>0. /\ Linked(q, h, k) /\ Unlinked(q) /\ MSExplained(q, h)
      /\ \A u \in Threads : EnqThread(u, q, k) /\ DeqThread(u, q, h, k)
      /\ h \in 1 .. Len(q) /\ k \in h .. Len(q) /\ Len(q) \in Nat
      /\ mem.head = q[h] /\ mem.tail = q[k] /\ mem.adt = "queue"
  BY DEF MSInvAt, Linked, MSTyped
<1>1. pc[t] = "deq_cas" /\ pc[t] \in Dequeuing
  BY DEF MS!DeqCas, Dequeuing
<1>2. PICK i \in 1 .. h, j \in 1 .. k : DeqAt(t, q, h, k, i, j)
  BY <1>0, <1>1 DEF DeqThread
<1>3. /\ loc[t].head = q[i] /\ i < j /\ loc[t].next = q[i + 1]
      /\ (i = h => loc[t].vl = mem.data[q[i + 1]]) /\ i \in 1 .. Len(q)
  BY <1>0, <1>1, <1>2 DEF DeqAt
<1>. DEFINE d == Delete(mem.deleted, mem.head, mem.next)
            m == [mem EXCEPT !.head = loc[t].next, !.deleted = d]
            found == MS!Reused(mem.head, loc[t].head)
<1>4. PICK same \in MS!Equal(mem.deleted, mem.head, loc[t].head) :
        IF same THEN MS!FlawedReturn(t, m, loc[t].vl, found)
        ELSE MS!Step(t, "deq_head", mem, loc[t])
  BY MSHeap DEF MS!DeqCas
<1>5. found = {} /\ same => mem.head = loc[t].head
  BY <1>4, MSEqual
<1>. HIDE DEF found, m
<1>6. same /\ MS!FlawedReturn(t, m, loc[t].vl, found)
  <2>. SUFFICES ASSUME MS!Step(t, "deq_head", mem, loc[t]) PROVE FALSE
    BY <1>4
  <2>1. Moves(t, "deq_head", loc[t])
    BY MSStepIs DEF MS!Step, Moves
  <2>2. pc'[t] = "deq_head"
    BY <2>1, MovesIs DEF Places, Dequeuing
  <2>. QED
    BY <2>2
<1>7. /\ mem' = m /\ Moves(t, "idle", NoLocals) /\ added' = added /\ found = {}
      /\ explanations' = Object!AfterReturn("queue", explanations, t, loc[t].vl)
  BY <1>0, <1>6, MSReturnIs DEF Moves
<1>8. i = h
  BY <1>0, <1>3, <1>5, <1>6, <1>7 DEF Linked
<1>9. /\ h + 1 \in 1 .. Len(q) /\ h + 1 \in Nat /\ h + 1 <= k /\ k \in h + 1 .. Len(q) /\ h < Len(q)
      /\ loc[t].next = q[h + 1] /\ loc[t].vl = mem.data[q[h + 1]]
  BY <1>0, <1>2, <1>3, <1>8
<1>10. /\ mem'.adt = mem.adt /\ IsQueue(mem)' /\ mem'.head = q[h + 1] /\ mem'.tail = mem.tail
       /\ mem'.next = mem.next /\ mem'.data = mem.data /\ mem'.deleted = d
  <2>1. IsQueue(mem)
    BY DEF MSTyped
  <2>. HIDE DEF d
  <2>. QED
    BY <1>7, <1>9, <2>1 DEF IsQueue, m
<1>11. DOMAIN d = DOMAIN mem.deleted \cup {q[h]}
  BY <1>0 DEF Delete, With
<1>. HIDE DEF d
<1>12. /\ pc'[t] = "idle" /\ loc'[t] = NoLocals
       /\ \A u \in Threads \ {t} : pc'[u] = pc[u] /\ loc'[u] = loc[u]
       /\ pc' \in [Threads -> Places] /\ loc' = [u \in Threads |-> loc'[u]]
  BY <1>7, MovesIs DEF Places
<1>13. Linked(q, h + 1, k)'
  <2>1. (h + 1) - 1 = h /\ {q[x] : x \in 1 .. h} = {q[x] : x \in 1 .. h - 1} \cup {q[h]}
    <3>1. 1 .. h = (1 .. h - 1) \cup {h}
      BY <1>0
    <3>. QED
      BY <1>0, <3>1
  <2>2. DOMAIN mem'.deleted = {q[x] : x \in 1 .. (h + 1) - 1}
    BY <1>0, <1>10, <1>11, <2>1 DEF Linked
  <2>. QED
    BY <1>0, <1>9, <1>10, <2>2 DEF Linked
<1>14. Unlinked(q)'
  <2>1. "idle" \notin Linking /\ pc[t] \notin Linking
    BY <1>1 DEF Linking
  <2>2. \A u \in Threads : /\ pc'[u] \in Linking <=> pc[u] \in Linking
                           /\ pc[u] \in Linking => loc'[u].n = loc[u].n
    BY <1>12, <2>1
  <2>. QED
    BY <1>0, <1>10, <2>2, UnlinkedKept
<1>15. Onwards(q, h, k, q, h + 1, k)
  BY <1>9, <1>10 DEF Onwards
<1>16. EnqThread(t, q, k)' /\ DeqThread(t, q, h + 1, k)'
  BY <1>12 DEF EnqThread, DeqThread, Enqueuing, Linking, Dequeuing
<1>17. \A u \in Threads : EnqThread(u, q, k)' /\ DeqThread(u, q, h + 1, k)'
  BY <1>0, <1>12, <1>15, <1>16, OthersEnq, OthersDeq
<1>18. \A x \in 1 .. Len(q) : mem.data[q[x]] \in Items
  <2>1. \A n \in 1 .. Len(mem.next) : mem.data[n] \in Items
    BY DEF MSTyped
  <2>. QED
    BY <1>0, <2>1 DEF Linked
<1>19. /\ Queued(mem.data, q, h) # <<>> /\ Head(Queued(mem.data, q, h)) = loc[t].vl
       /\ Queued(mem.data, q, h + 1)' = Tail(Queued(mem.data, q, h))
  BY <1>0, <1>9, <1>10, <1>18, QueuedOneLess
<1>20. FoundEmpty' = {}
  <2>. SUFFICES ASSUME NEW u \in FoundEmpty' PROVE FALSE
    OBVIOUS
  <2>1. pc'[u] = "deq_check" /\ loc'[u].head = q[h + 1] /\ u \in Threads
    BY <1>10 DEF FoundEmpty
  <2>2. u # t /\ pc[u] = "deq_check" /\ loc[u].head = q[h + 1] /\ pc[u] \in Dequeuing
    BY <1>12, <2>1 DEF Dequeuing
  <2>3. PICK x \in 1 .. h, y \in 1 .. k : DeqAt(u, q, h, k, x, y)
    BY <1>0, <2>1, <2>2 DEF DeqThread
  <2>4. q[x] = q[h + 1] /\ x \in 1 .. Len(q) /\ x # h + 1
    BY <1>0, <2>2, <2>3 DEF DeqAt
  <2>. QED
    BY <1>0, <1>9, <2>4 DEF Linked
<1>21. /\ MSCallOf(t) = [op |-> "rmv", val |-> NoVal] /\ MSCallOf(t)' = NotCalled
       /\ \A u \in Threads \ {t} : MSCallOf(u)' = MSCallOf(u)
  BY <1>1, <1>10, <1>12 DEF MSCallOf, Linking, NotCalled
<1>22. explanations' \in SUBSET AllExplanations /\ MSExplained(q, h + 1)'
  BY <1>0, <1>7, <1>19, <1>20, <1>21, Removed
<1>23. MSTyped'
  BY <1>7, <1>10, <1>12, <1>22 DEF MSTyped, Places
<1>. QED
  BY <1>9, <1>13, <1>14, <1>17, <1>22, <1>23 DEF MSQueueInv, MSInvAt
----------------------------------------------------------------------------
(* All steps of the threads. *)

LEMMA MSQueueNext ==
  ASSUME IsFiniteSet(Threads), MSQueueInv, flaws = {}, flaws' = {},
         NEW t \in Threads, MS!QueueStep(t)
  PROVE  MSQueueInv'
<1>1. PICK q \in Seq(Nat) : \E h, k \in Nat : MSInvAt(q, h, k)
  BY DEF MSQueueInv
<1>2. PICK h \in Nat, k \in Nat : MSInvAt(q, h, k)
  BY <1>1
<1>3. MSTyped
  BY DEF MSQueueInv
<1>4. CASE MS!CallEnq(t)
  BY <1>2, <1>3, <1>4, CallEnqStep
<1>5. CASE MS!EnqLink(t) /\ pc'[t] = "enq_swing"
  BY <1>2, <1>3, <1>5, LinkStep
<1>6. CASE \/ MS!EnqTail(t) \/ MS!EnqNext(t) \/ MS!EnqCheck(t) \/ MS!EnqHelp(t)
           \/ MS!EnqLink(t) /\ pc'[t] # "enq_swing"
  BY <1>2, <1>3, <1>6, EnqQuietStep
<1>7. CASE MS!EnqSwing(t)
  BY <1>2, <1>3, <1>7, EnqSwingStep
<1>8. CASE MS!CallDeq(t)
  BY <1>2, <1>3, <1>8, CallDeqStep
<1>9. CASE MS!DeqNext(t)
  BY <1>2, <1>3, <1>9, DeqNextStep
<1>10. CASE MS!DeqCheck(t) /\ pc'[t] = "idle"
  BY <1>2, <1>3, <1>10, DeqEmptyStep
<1>11. CASE MS!DeqCas(t) /\ pc'[t] = "idle"
  BY <1>2, <1>3, <1>11, DeqCasStep
<1>12. CASE \/ MS!DeqHead(t) \/ MS!DeqTail(t) \/ MS!DeqHelp(t) \/ MS!DeqData(t)
            \/ (MS!DeqCheck(t) \/ MS!DeqCas(t)) /\ pc'[t] # "idle"
  BY <1>2, <1>3, <1>12, DeqQuietStep
<1>. QED
  BY <1>4, <1>5, <1>6, <1>7, <1>8, <1>9, <1>10, <1>11, <1>12 DEF MS!QueueStep

\* What rmv follows is a node.
LEMMA NextIsNode ==
  ASSUME MSQueueInv, NEW t \in Threads, pc[t] = "deq_data"
  PROVE  loc[t].next \notin {Null, Garbage}
<1>1. PICK q \in Seq(Nat) : \E h, k \in Nat : MSInvAt(q, h, k)
  BY DEF MSQueueInv
<1>2. PICK h \in Nat, k \in Nat : MSInvAt(q, h, k)
  BY <1>1
<1>3. PICK i \in 1 .. h, j \in 1 .. k : DeqAt(t, q, h, k, i, j)
  BY <1>2 DEF MSInvAt, DeqThread, Dequeuing
<1>4. i \in Nat /\ j \in Nat /\ i < j /\ loc[t].next = q[i + 1]
  BY <1>3 DEF DeqAt
<1>5. k \in h .. Len(q)
  BY <1>2 DEF MSInvAt, Linked
<1>6. i + 1 \in 1 .. Len(q)
  BY <1>4, <1>5
<1>7. q[i + 1] \in Nat
  BY <1>6
<1>. QED
  BY <1>4, <1>7, PointersAssumption

Suspects == {"address used again", "deleted node written"}

\* What the first flaw may be; and a thread that has nothing to do does nothing.
LEMMA FirstFlaw ==
  ASSUME MSQueueInv, flaws = {}, NEW t \in Threads, MS!QueueStep(t)
  PROVE  flaws' \subseteq Suspects /\ destroyed' = destroyed
<1>1. ASSUME NEW place, NEW m, NEW l, NEW found \in SUBSET Suspects,
             MS!FlawedStep(t, place, m, l, found)
      PROVE  flaws' \subseteq Suspects /\ destroyed' = destroyed
  BY <1>1, MSStepIs
<1>2. ASSUME NEW m, NEW answer, NEW found \in SUBSET Suspects,
             MS!FlawedReturn(t, m, answer, found)
      PROVE  flaws' \subseteq Suspects /\ destroyed' = destroyed
  BY <1>2, MSReturnIs
<1>3. ASSUME NEW place, NEW m, NEW l, MS!CallAdd(t, place, m, l) \/ MS!CallRmv(t, place, m, l)
      PROVE  flaws' \subseteq Suspects /\ destroyed' = destroyed
  BY <1>3, MSCallIs
<1>4. \A pointer, expected : MS!Reused(pointer, expected) \in SUBSET Suspects
  BY DEF MS!Reused, Suspects
<1>5. {} \in SUBSET Suspects /\ {"deleted node written"} \in SUBSET Suspects
  BY DEF Suspects
<1>. HIDE DEF Suspects
<1>6. CASE MS!CallEnq(t) \/ MS!CallDeq(t)
  BY <1>3, <1>6 DEF MS!CallEnq, MS!CallDeq
<1>7. CASE MS!EnqTail(t) \/ MS!EnqNext(t) \/ MS!DeqHead(t) \/ MS!DeqTail(t) \/ MS!DeqNext(t)
  BY <1>1, <1>5, <1>7 DEF MS!EnqTail, MS!EnqNext, MS!DeqHead, MS!DeqTail, MS!DeqNext, MS!Step
<1>8. CASE MS!EnqCheck(t) \/ MS!EnqLink(t)
  BY <1>1, <1>4, <1>5, <1>8 DEF MS!EnqCheck, MS!EnqLink, MS!Step
<1>9. CASE MS!EnqSwing(t)
  BY <1>2, <1>4, <1>5, <1>9 DEF MS!EnqSwing, MS!Return
<1>10. CASE MS!EnqHelp(t) \/ MS!DeqHelp(t)
  BY <1>1, <1>4, <1>5, <1>10 DEF MS!EnqHelp, MS!DeqHelp, MS!Help, MS!Step
<1>11. CASE MS!DeqCheck(t)
  BY <1>1, <1>2, <1>4, <1>5, <1>11 DEF MS!DeqCheck, MS!Step
<1>12. CASE MS!DeqData(t)
  <2>1. loc[t].next \notin {Null, Garbage}
    BY <1>12, NextIsNode DEF MS!DeqData
  <2>. QED
    BY <1>1, <1>5, <1>12, <2>1 DEF MS!DeqData, MS!Step
<1>13. CASE MS!DeqCas(t)
  BY <1>1, <1>2, <1>4, <1>5, <1>13 DEF MS!DeqCas, MS!Step
<1>. QED
  BY <1>6, <1>7, <1>8, <1>9, <1>10, <1>11, <1>12, <1>13 DEF MS!QueueStep

LEMMA NothingToDo ==
  ASSUME NEW t \in Threads, MS!QueueStep(t) PROVE pc[t] # "idle" \/ prog[t] # <<>>
<1>1. MS!CallEnq(t) \/ MS!CallDeq(t) => prog[t] # <<>>
  BY MSCallIs DEF MS!CallEnq, MS!CallDeq
<1>. QED
  BY <1>1
  DEF MS!QueueStep, MS!EnqTail, MS!EnqNext, MS!EnqCheck, MS!EnqLink, MS!EnqSwing, MS!EnqHelp,
      MS!DeqHead, MS!DeqTail, MS!DeqNext, MS!DeqCheck, MS!DeqHelp, MS!DeqData, MS!DeqCas
----------------------------------------------------------------------------
(* The destructor. *)

LEMMA MSDestroyIs ==
  ASSUME NEW first, MS!DestroyList(first)
  PROVE  /\ ~destroyed /\ destroyed' = TRUE
         /\ \A t \in Threads : pc[t] = "idle" /\ prog[t] = <<>>
         /\ \E d : /\ DOMAIN d = DOMAIN mem.deleted \cup Reached(mem.next, first)
                   /\ mem' = [mem EXCEPT !.deleted = d]
         /\ flaws' = flaws \cup (IF Reached(mem.next, first) \cap DOMAIN mem.deleted = {}
                                 THEN {} ELSE {"deleted twice"})
         /\ UNCHANGED <<prog, pc, explanations>>
<1>. DEFINE met == MS!Reached(mem.next, first)
            d == [n \in DOMAIN mem.deleted \cup met |-> MS!Cardinality(DOMAIN mem.next)]
<1>1. met = Reached(mem.next, first)
  BY MSHeap
<1>2. /\ mem' = [mem EXCEPT !.deleted = d]
      /\ flaws' = flaws \cup (IF met \cap DOMAIN mem.deleted = {} THEN {} ELSE {"deleted twice"})
      /\ ~destroyed /\ destroyed' = TRUE
      /\ \A t \in Threads : pc[t] = "idle" /\ prog[t] = <<>>
      /\ UNCHANGED <<prog, pc, explanations>>
  BY DEF MS!DestroyList, MS!FlawedDestroy, MS!clientVars
<1>3. DOMAIN d = DOMAIN mem.deleted \cup met
  OBVIOUS
<1>. HIDE DEF met, d
<1>. QED
  BY <1>1, <1>2, <1>3

\* The walk from head meets the nodes from head on.
LEMMA ReachedFromHead ==
  ASSUME MSTyped, NEW q \in Seq(Nat), NEW h \in Nat, NEW k \in Nat, Linked(q, h, k)
  PROVE  Reached(mem.next, mem.head) = {q[i] : i \in h .. Len(q)}
<1>1. PICK L \in Nat : L = Len(q)
  OBVIOUS
<1>2. PICK N \in Nat : N = Len(mem.next) /\ DOMAIN mem.next = 1 .. N
  BY DEF MSTyped
<1>3. IsFiniteSet(DOMAIN mem.next) /\ Cardinality(DOMAIN mem.next) = N
  BY <1>2, HeapFacts
<1>4. /\ h \in 1 .. L /\ mem.head = q[h]
      /\ \A i, j \in 1 .. L : q[i] = q[j] => i = j
      /\ \A i \in 1 .. L : q[i] \in 1 .. N /\ mem.next[q[i]] = IF i = L THEN Null ELSE q[i + 1]
  BY <1>1, <1>2 DEF Linked
<1>5. L <= N
  <2>. DEFINE f == [i \in 1 .. L |-> q[i]]
  <2>1. f \in Injection(1 .. L, 1 .. N)
    BY <1>4 DEF Injection, IsInjective
  <2>. HIDE DEF f
  <2>2. 1 \in Int /\ L \in Int /\ N \in Int
    OBVIOUS
  <2>3. IsFiniteSet(1 .. L) /\ Cardinality(1 .. L) = L /\ IsFiniteSet(1 .. N) /\ Cardinality(1 .. N) = N
    BY <2>2, FS_Interval
  <2>. QED
    BY <2>1, <2>3, FS_Injection
<1>6. IsPath(mem.next, q, h, L)
  <2>1. ASSUME NEW i \in h .. L
        PROVE  q[i] # Null /\ mem.next[q[i]] = IF i = L THEN Null ELSE q[i + 1]
    <3>1. i \in 1 .. L
      BY <1>4
    <3>2. q[i] \in Nat
      BY <1>4, <3>1
    <3>. QED
      BY <1>4, <3>1, <3>2, PointersAssumption
  <2>. QED
    BY <2>1 DEF IsPath
<1>7. h <= L /\ L - h <= Cardinality(DOMAIN mem.next)
  BY <1>3, <1>4, <1>5
<1>8. Reached(mem.next, q[h]) = {q[i] : i \in h .. L}
  <2>1. h \in Nat /\ L \in Nat
    OBVIOUS
  <2>2. Reached(mem.next, q[h]) = Along(q, h, L)
    BY <1>3, <1>6, <1>7, <2>1, ReachedIsPath
  <2>. QED
    BY <2>2 DEF Along
<1>. QED
  BY <1>1, <1>4, <1>8

LEMMA DestroyStep ==
  ASSUME IsFiniteSet(Threads), MSQueueInv, flaws = {}, MS!Destroy
  PROVE  destroyed' = TRUE /\ flaws' = {} /\ MSDestroyed'
<1>1. PICK q \in Seq(Nat) : \E h, k \in Nat : MSInvAt(q, h, k)
  BY DEF MSQueueInv
<1>2. PICK h \in Nat, k \in Nat : MSInvAt(q, h, k)
  BY <1>1
<1>. DEFINE met == Reached(mem.next, mem.head)
<1>3. /\ destroyed' = TRUE
      /\ \A t \in Threads : pc[t] = "idle" /\ prog[t] = <<>>
      /\ \E d : DOMAIN d = DOMAIN mem.deleted \cup met /\ mem' = [mem EXCEPT !.deleted = d]
      /\ flaws' = flaws \cup (IF met \cap DOMAIN mem.deleted = {} THEN {} ELSE {"deleted twice"})
      /\ UNCHANGED <<prog, pc, explanations>>
  BY MSDestroyIs DEF MS!Destroy
<1>4. MSTyped /\ Linked(q, h, k) /\ Unlinked(q) /\ MSExplained(q, h)
  BY <1>2 DEF MSQueueInv, MSInvAt
<1>5. PICK L \in Nat : L = Len(q)
  OBVIOUS
<1>6. met = {q[i] : i \in h .. L}
  BY <1>4, <1>5, ReachedFromHead
<1>. HIDE DEF met
<1>7. /\ h \in 1 .. L /\ DOMAIN mem.deleted = {q[i] : i \in 1 .. h - 1}
      /\ \A i, j \in 1 .. L : q[i] = q[j] => i = j
      /\ \A i \in 1 .. L : q[i] \in 1 .. Len(mem.next)
  BY <1>4, <1>5 DEF Linked
<1>8. \A i : /\ i \in 1 .. h - 1 => i \in 1 .. L /\ i < h
             /\ i \in h .. L => i \in 1 .. L /\ h <= i
             /\ i \in 1 .. L => i \in 1 .. h - 1 \/ i \in h .. L
  BY <1>7
<1>9. met \cap DOMAIN mem.deleted = {}
  <2>. SUFFICES ASSUME NEW i \in h .. L, NEW j \in 1 .. h - 1, q[i] = q[j] PROVE FALSE
    BY <1>6, <1>7
  <2>1. i = j
    BY <1>7, <1>8
  <2>. QED
    BY <1>8, <2>1
<1>10. DOMAIN mem.next = 1 .. Len(mem.next)
  BY <1>4 DEF MSTyped
<1>11. \A n \in 1 .. Len(mem.next) : \E i \in 1 .. L : n = q[i]
  BY <1>3, <1>4, <1>5 DEF Unlinked, Linking
<1>12. DOMAIN mem.deleted \cup met = DOMAIN mem.next
  <2>1. \A n \in DOMAIN mem.next : n \in DOMAIN mem.deleted \cup met
    BY <1>6, <1>7, <1>8, <1>10, <1>11
  <2>2. \A n \in DOMAIN mem.deleted \cup met : n \in DOMAIN mem.next
    BY <1>6, <1>7, <1>8, <1>10
  <2>. QED
    BY <2>1, <2>2
<1>13. DOMAIN mem'.deleted = DOMAIN mem'.next
  <2>1. IsQueue(mem)
    BY <1>4 DEF MSTyped
  <2>. QED
    BY <1>3, <1>12, <2>1 DEF IsQueue
<1>14. explanations # {}
  <2>1. explanations \in SUBSET AllExplanations /\ "queue" \in Adts /\ {} \in SUBSET FoundEmpty
    BY <1>4 DEF MSTyped, Adts
  <2>. QED
    BY <1>4, <2>1, ExplanationLeft DEF MSExplained
<1>. QED
  BY <1>3, <1>9, <1>13, <1>14 DEF MSDestroyed
----------------------------------------------------------------------------
(* The program. *)

LEMMA MSInit ==
  ASSUME IsFiniteSet(Threads), Init PROVE MSInv
<1>1. /\ added = [t \in Threads |-> 0] /\ mem = Start(impl)
      /\ pc = [t \in Threads |-> "idle"] /\ loc = [t \in Threads |-> NoLocals]
      /\ explanations = Object!NothingHappened
      /\ destroyed = FALSE
  BY DEF Init, ClientInit, ImplementationInit
<1>. SUFFICES ASSUME impl = "msqueue" PROVE MSQueueInv
  BY <1>1 DEF MSInv
<1>2. mem = [adt |-> "queue", head |-> 1, tail |-> 1, next |-> <<Null>>,
             data |-> <<NoVal>>, deleted |-> MS!EmptyMap]
  BY <1>1 DEF Start, MS!Start
<1>3. PICK q : q = <<1>>
  OBVIOUS
<1>4. q \in Seq(Nat) /\ Len(q) = 1 /\ q[1] = 1
  BY <1>3
<1>5. /\ "idle" \notin Linking /\ "idle" \notin Enqueuing /\ "idle" \notin Dequeuing
  BY DEF Linking, Enqueuing, Dequeuing
<1>6. /\ explanations \in SUBSET AllExplanations
      /\ [object |-> <<>>, doing |-> [t \in Threads |-> NotCalled]] \in ByNow("queue", explanations)
  BY <1>1, NothingExplained DEF Adts, NotCalled
<1>7. MSTyped
  <2>1. <<NoVal>> \in Seq(Items) /\ <<Null>> \in Seq(Nat \cup {Null})
    BY DEF Items
  <2>2. IsQueue(mem) /\ Len(mem.next) = Len(mem.data)
    BY <1>2 DEF IsQueue
  <2>3. pc \in [Threads -> {"idle"} \cup Enqueuing \cup Dequeuing] /\ added \in [Threads -> Nat]
        /\ loc = [t \in Threads |-> loc[t]]
    BY <1>1
  <2>. QED
    BY <1>2, <1>6, <2>1, <2>2, <2>3 DEF MSTyped
<1>8. Linked(q, 1, 1)
  <2>1. Len(mem.next) = 1 /\ mem.next[1] = Null /\ mem.head = 1 /\ mem.tail = 1
    BY <1>2
  <2>2. DOMAIN mem.deleted = {} /\ 1 .. 1 - 1 = {}
    BY <1>2 DEF MS!EmptyMap
  <2>. QED
    BY <1>4, <2>1, <2>2 DEF Linked
<1>9. Unlinked(q)
  <2>1. \A n \in 1 .. Len(mem.next) : n = q[1] /\ 1 \in 1 .. Len(q)
    BY <1>2, <1>4
  <2>2. \A t \in Threads : pc[t] \notin Linking
    BY <1>1, <1>5
  <2>. QED
    BY <2>1, <2>2 DEF Unlinked
<1>10. \A t \in Threads : EnqThread(t, q, 1) /\ DeqThread(t, q, 1, 1)
  BY <1>1, <1>5 DEF EnqThread, DeqThread
<1>11. MSExplained(q, 1)
  <2>1. FoundEmpty = {}
    BY <1>1 DEF FoundEmpty
  <2>2. DoingWith({}) = [t \in Threads |-> NotCalled]
    BY <1>1 DEF DoingWith, MSCallOf, NotCalled
  <2>3. Queued(mem.data, q, 1) = <<>>
    BY <1>4, QueuedEmpty
  <2>. QED
    BY <1>6, <2>1, <2>2, <2>3 DEF MSExplained
<1>. QED
  BY <1>4, <1>7, <1>8, <1>9, <1>10, <1>11 DEF MSQueueInv, MSInvAt

\* A step of the program, while there is no flaw.
LEMMA MSStep ==
  ASSUME IsFiniteSet(Threads), MSInv, impl = "msqueue", flaws = {}, Next
  PROVE  /\ flaws' \subseteq Suspects
         /\ flaws' = {} => IF destroyed' THEN MSDestroyed' ELSE MSQueueInv'
<1>1. (\E t \in Threads : MS!QueueStep(t)) \/ MS!Destroy
  BY DEF Next, ThreadStep, Destroy
<1>2. CASE MS!Destroy
  <2>1. ~destroyed
    BY <1>2, MSDestroyIs DEF MS!Destroy
  <2>2. MSQueueInv
    BY <2>1 DEF MSInv
  <2>. QED
    BY <1>2, <2>2, DestroyStep
<1>3. ASSUME NEW t \in Threads, MS!QueueStep(t)
      PROVE  /\ flaws' \subseteq Suspects
             /\ flaws' = {} => IF destroyed' THEN MSDestroyed' ELSE MSQueueInv'
  <2>1. ~destroyed /\ MSQueueInv
    BY <1>3, NothingToDo DEF MSInv, MSDestroyed
  <2>2. flaws' \subseteq Suspects /\ ~destroyed'
    BY <1>3, <2>1, FirstFlaw
  <2>3. flaws' = {} => MSQueueInv'
    BY <1>3, <2>1, MSQueueNext
  <2>. QED
    BY <2>2, <2>3
<1>. QED
  BY <1>1, <1>2, <1>3

LEMMA MSFlawsKept ==
  ASSUME impl = "msqueue", Next PROVE flaws \subseteq flaws'
<1>1. (\E t \in Threads : MS!QueueStep(t)) \/ MS!Destroy
  BY DEF Next, ThreadStep, Destroy
<1>2. CASE MS!Destroy
  BY <1>2, MSDestroyIs DEF MS!Destroy
<1>3. ASSUME NEW t \in Threads, MS!QueueStep(t) PROVE flaws \subseteq flaws'
  <2>1. ASSUME NEW place, NEW m, NEW l, NEW found, MS!FlawedStep(t, place, m, l, found)
        PROVE  flaws \subseteq flaws'
    BY <2>1, MSStepIs
  <2>2. ASSUME NEW m, NEW answer, NEW found, MS!FlawedReturn(t, m, answer, found)
        PROVE  flaws \subseteq flaws'
    BY <2>2, MSReturnIs
  <2>3. ASSUME NEW place, NEW m, NEW l, MS!CallAdd(t, place, m, l) \/ MS!CallRmv(t, place, m, l)
        PROVE  flaws \subseteq flaws'
    BY <2>3, MSCallIs
  <2>4. ASSUME NEW found, MS!Crash(found) PROVE flaws \subseteq flaws'
    BY <2>4 DEF MS!Crash
  <2>5. CASE MS!CallEnq(t) \/ MS!CallDeq(t)
    BY <2>3, <2>5 DEF MS!CallEnq, MS!CallDeq
  <2>6. CASE MS!EnqTail(t) \/ MS!EnqNext(t) \/ MS!DeqHead(t) \/ MS!DeqTail(t) \/ MS!DeqNext(t)
    BY <2>1, <2>6 DEF MS!EnqTail, MS!EnqNext, MS!DeqHead, MS!DeqTail, MS!DeqNext, MS!Step
  <2>7. CASE MS!EnqCheck(t) \/ MS!EnqLink(t)
    BY <2>1, <2>7 DEF MS!EnqCheck, MS!EnqLink, MS!Step
  <2>8. CASE MS!EnqSwing(t)
    BY <2>2, <2>8 DEF MS!EnqSwing, MS!Return
  <2>9. CASE MS!EnqHelp(t) \/ MS!DeqHelp(t)
    BY <2>1, <2>9 DEF MS!EnqHelp, MS!DeqHelp, MS!Help, MS!Step
  <2>10. CASE MS!DeqCheck(t)
    BY <2>1, <2>2, <2>10 DEF MS!DeqCheck, MS!Step
  <2>11. CASE MS!DeqData(t)
    BY <2>1, <2>4, <2>11 DEF MS!DeqData, MS!Step
  <2>12. CASE MS!DeqCas(t)
    BY <2>1, <2>2, <2>12 DEF MS!DeqCas, MS!Step
  <2>. QED
    BY <1>3, <2>5, <2>6, <2>7, <2>8, <2>9, <2>10, <2>11, <2>12 DEF MS!QueueStep
<1>. QED
  BY <1>1, <1>2, <1>3

LEMMA MSNext ==
  ASSUME IsFiniteSet(Threads), MSInv, [Next]_allVars PROVE MSInv'
<1>1. CASE UNCHANGED allVars
  <2>1. UNCHANGED <<prog, added, mem, pc, loc, explanations, flaws, destroyed, impl>>
    BY <1>1 DEF allVars, implVars, clientVars
  <2>2. /\ \A S : DoingWith(S)' = DoingWith(S)
        /\ FoundEmpty' = FoundEmpty
    BY <2>1 DEF DoingWith, MSCallOf, FoundEmpty
  <2>3. ASSUME MSQueueInv PROVE MSQueueInv'
    <3>1. MSTyped'
      BY <2>1, <2>3 DEF MSQueueInv, MSTyped, IsQueue
    <3>2. ASSUME NEW q \in Seq(Nat), NEW h \in Nat, NEW k \in Nat, MSInvAt(q, h, k)
          PROVE  MSInvAt(q, h, k)'
      <4>1. Linked(q, h, k)'
        BY <2>1, <3>2 DEF MSInvAt, Linked
      <4>2. Unlinked(q)'
        BY <2>1, <3>2 DEF MSInvAt, Unlinked
      <4>3. ASSUME NEW t \in Threads PROVE EnqThread(t, q, k)' /\ DeqThread(t, q, h, k)'
        BY <2>1, <3>2 DEF MSInvAt, EnqThread, EnqAt, DeqThread, DeqAt
      <4>4. MSExplained(q, h)'
        BY <2>1, <2>2, <3>2 DEF MSInvAt, MSExplained
      <4>. QED
        BY <4>1, <4>2, <4>3, <4>4 DEF MSInvAt
    <3>. QED
      BY <2>3, <3>1, <3>2 DEF MSQueueInv
  <2>4. MSDestroyed => MSDestroyed'
    BY <2>1 DEF MSDestroyed
  <2>. QED
    BY <2>1, <2>3, <2>4 DEF MSInv
<1>2. CASE Next
  <2>1. impl' = impl
    BY <1>2 DEF Next
  <2>2. impl = "msqueue" => flaws \subseteq flaws'
    BY <1>2, MSFlawsKept
  <2>. QED
    BY <1>2, <2>1, <2>2, MSStep DEF MSInv
<1>. QED
  BY <1>1, <1>2

\* Michael and Scott's queue, with its nodes deleted as soon as they are
\* removed, answers what a queue answers at an instant of each call until the
\* first flaw: WrongOnlyByFlaw holds of it for every number of threads.
THEOREM MSQueueIsCorrect ==
  ASSUME IsFiniteSet(Threads)
  PROVE  Spec => [](impl = "msqueue" => WrongOnlyByFlaw)
<1>1. MSInv => (impl = "msqueue" => WrongOnlyByFlaw)
  <2>. SUFFICES ASSUME MSInv, impl = "msqueue", flaws = {} PROVE explanations # {}
    BY DEF WrongOnlyByFlaw
  <2>1. CASE destroyed
    BY <2>1 DEF MSInv, MSDestroyed
  <2>2. CASE ~destroyed
    <3>1. PICK q \in Seq(Nat) : \E h, k \in Nat : MSInvAt(q, h, k)
      BY <2>2 DEF MSInv, MSQueueInv
    <3>2. PICK h \in Nat : MSExplained(q, h)
      BY <3>1 DEF MSInvAt
    <3>3. /\ explanations \in SUBSET AllExplanations
          /\ "queue" \in Adts /\ {} \in SUBSET FoundEmpty
      BY <2>2 DEF MSInv, MSQueueInv, MSTyped, Adts
    <3>. QED
      BY <3>2, <3>3, ExplanationLeft DEF MSExplained
  <2>. QED
    BY <2>1, <2>2
<1>2. Init => MSInv
  BY MSInit
<1>3. MSInv /\ [Next]_allVars => MSInv'
  BY MSNext
<1>. QED
  BY <1>1, <1>2, <1>3, PTL DEF Spec

\* The checks of tail, head and next in msqueue.cpp catch every stale read
\* before it is followed: the first thing that goes wrong is never a wild
\* pointer and never a node deleted twice, and until then the destructor
\* leaves no node behind.
THEOREM MSQueueFirstFlaw ==
  ASSUME IsFiniteSet(Threads)
  PROVE  Spec => [][impl = "msqueue" /\ Unflawed =>
                      (NoWildPointer /\ NodesAreDeletedOnce)']_allVars
<1>1. MSInv /\ MSInv' /\ [Next]_allVars =>
        [impl = "msqueue" /\ Unflawed => (NoWildPointer /\ NodesAreDeletedOnce)']_allVars
  <2>. SUFFICES ASSUME MSInv, MSInv', Next, impl = "msqueue", flaws = {}
                PROVE  (NoWildPointer /\ NodesAreDeletedOnce)'
    BY DEF Unflawed
  <2>1. impl' = "msqueue"
    BY DEF Next
  <2>2. flaws' \subseteq Suspects
    BY MSStep
  <2>3. "wild pointer" \notin flaws' /\ "deleted twice" \notin flaws'
    BY <2>2 DEF Suspects
  <2>4. destroyed' /\ flaws' = {} => DOMAIN mem'.deleted = DOMAIN mem'.next
    BY <2>1 DEF MSInv, MSDestroyed
  <2>. QED
    BY <2>3, <2>4 DEF NoWildPointer, NodesAreDeletedOnce
<1>2. Init => MSInv
  BY MSInit
<1>3. MSInv /\ [Next]_allVars => MSInv'
  BY MSNext
<1>. QED
  BY <1>1, <1>2, <1>3, PTL DEF Spec
----------------------------------------------------------------------------
(***************************************************************************)
(* elim_backoff: a call takes effect as it exchanges top, or finds it      *)
(* null, and returns; or a push and a pop take effect one after the other  *)
(* when the second of them answers the offer of the first.  The invariant  *)
(* follows the nodes on the stack, q[1] the top.                           *)
(***************************************************************************)

Pushing == {"push_top", "push_cas"}
Popping == {"pop_top", "pop_next", "pop_cas"}
Waiting == {"wait", "withdraw", "removeB"}
Answering == {"delete_item", "take_item"}
ElimPlaces == {"idle", "visit", "addA", "addB", "read_item"} \cup Pushing \cup Popping
                \cup Waiting \cup Answering

Slots == [ptr : Nat \cup {Null}, stamp : {"EMPTY", "WAITING", "BUSY"}]

ElimLocals == [n : Nat \cup {Null}, y : Items, m : Pointers, output : Pointers,
               x : Slots, sr : Slots]

\* The fields of elim_backoff's State.
ElimMemory(m) ==
  /\ m = [adt |-> m.adt, top |-> m.top, value |-> m.value, next |-> m.next,
          deleted |-> m.deleted, slot |-> m.slot, item |-> m.item,
          deletedItems |-> m.deletedItems]
  /\ m.adt = "stack"
  /\ m.next \in Seq(Nat \cup {Null}) /\ m.value \in Seq(Items) /\ Len(m.next) = Len(m.value)
  /\ m.slot \in Slots /\ m.item \in Seq(Items)

\* A push knows its node and its value, a pop neither.
IsElimLocals(l) == l \in ElimLocals /\ (l.n = Null <=> l.y = NoVal)

ElimTyped ==
  /\ ElimMemory(mem) /\ ClientTypeOK
  /\ pc \in [Threads -> ElimPlaces]
  /\ loc = [t \in Threads |-> loc[t]]
  /\ \A t \in Threads : pc[t] # "idle" => IsElimLocals(loc[t])
  /\ explanations \in SUBSET AllExplanations

OnStack(q, n) == \E i \in 1 .. Len(q) : q[i] = n

\* The nodes on the stack.
Stacked(q) ==
  /\ mem.top = IF Len(q) = 0 THEN Null ELSE q[1]
  /\ \A i, j \in 1 .. Len(q) : q[i] = q[j] => i = j
  /\ \A i \in 1 .. Len(q) :
       /\ q[i] \in 1 .. Len(mem.next) /\ q[i] \notin DOMAIN mem.deleted
       /\ mem.next[q[i]] = IF i = Len(q) THEN Null ELSE q[i + 1]
  /\ DOMAIN mem.deleted \subseteq 1 .. Len(mem.next)

Owns(t, n) == pc[t] # "idle" /\ loc[t].n = n

\* The node of a push that has not put it on the stack.
OwnNode(t, q, n) ==
  /\ n \notin DOMAIN mem.deleted /\ mem.value[n] = loc[t].y
  /\ ~OnStack(q, n)

\* The nodes that were made and are neither on the stack nor deleted, each
\* of one push.
Private(q) ==
  /\ \A t \in Threads, n \in 1 .. Len(mem.next) : Owns(t, n) =>
       /\ OwnNode(t, q, n)
       /\ \A u \in Threads : Owns(u, n) => u = t
  /\ \A t \in Threads : pc[t] # "idle" => loc[t].n \in 1 .. Len(mem.next) \cup {Null}
  /\ \A n \in 1 .. Len(mem.next) :
       n \in DOMAIN mem.deleted \/ OnStack(q, n) \/ (\E t \in Threads : Owns(t, n))

\* What a thread has read of the stack: a node that was on it, whose next
\* field has not changed since.
ReadsStack(t) ==
  /\ pc[t] \in Pushing => loc[t].n # Null
  /\ pc[t] \in Popping => loc[t].n = Null
  /\ pc[t] = "push_cas" => mem.next[loc[t].n] = loc[t].m
  /\ pc[t] \in {"pop_next", "pop_cas"} =>
       /\ loc[t].output \in 1 .. Len(mem.next)
       /\ \A u \in Threads : ~Owns(u, loc[t].output)
  /\ pc[t] = "pop_cas" /\ loc[t].output \notin DOMAIN mem.deleted =>
       loc[t].m = mem.next[loc[t].output]

ElimHeap(q) == Stacked(q) /\ Private(q) /\ \A t \in Threads : ReadsStack(t)

\* What a thread knows of the exchanger.
ReadsSlot(t) ==
  /\ pc[t] = "addA" => loc[t].x = Exchanger!EmptySlot
  /\ pc[t] = "addB" => loc[t].x.stamp = "WAITING"
  /\ pc[t] \in {"wait", "withdraw"} =>
       /\ loc[t].sr.stamp = "WAITING"
       /\ loc[t].sr.ptr \in DOMAIN mem.item /\ mem.item[loc[t].sr.ptr] = loc[t].y
       /\ mem.slot.stamp = "WAITING" => mem.slot = loc[t].sr
  /\ pc[t] = "removeB" => mem.slot.stamp = "BUSY" /\ loc[t].sr = mem.slot
  /\ pc[t] = "read_item" => loc[t].sr.ptr \in DOMAIN mem.item
  /\ pc[t] \in Answering => loc[t].x.ptr \in DOMAIN mem.item

\* The slot is occupied as long as one thread waits.
ElimSlot ==
  /\ mem.slot.stamp = "EMPTY" <=> \A t \in Threads : pc[t] \notin Waiting
  /\ mem.slot.stamp = "EMPTY" => mem.slot = Exchanger!EmptySlot
  /\ mem.slot.stamp = "BUSY" => mem.slot.ptr \in DOMAIN mem.item
  /\ \A t, u \in Threads : pc[t] \in Waiting /\ pc[u] \in Waiting => t = u
  /\ \A t \in Threads : ReadsSlot(t)

\* The threads that have met another, and what it has offered.
Met(t) ==
  \/ pc[t] = "read_item" \/ pc[t] \in Answering
  \/ pc[t] \in Waiting /\ mem.slot.stamp = "BUSY"

OtherOf(t) ==
  IF pc[t] = "read_item" THEN mem.item[loc[t].sr.ptr]
  ELSE IF pc[t] \in Answering THEN mem.item[loc[t].x.ptr]
  ELSE mem.item[mem.slot.ptr]

\* The call that a thread is in; it has taken effect if it is a push that has
\* met a pop or a pop that has met a push.
ElimCallOf(t) ==
  IF pc[t] = "idle" THEN NotCalled
  ELSE IF Met(t) /\ ~(loc[t].y = NoVal <=> OtherOf(t) = NoVal)
       THEN [op |-> "did", val |-> OtherOf(t)]
  ELSE IF loc[t].y = NoVal THEN [op |-> "rmv", val |-> NoVal]
  ELSE [op |-> "add", val |-> loc[t].y]

ElimDoing == [t \in Threads |-> ElimCallOf(t)]

ValuesAlong(value, q) == [i \in 1 .. Len(q) |-> value[q[i]]]

ElimExplained(q) ==
  [object |-> ValuesAlong(mem.value, q), doing |-> ElimDoing] \in ByNow("stack", explanations)

ElimAt(q) == ElimTyped /\ ElimSlot /\ ElimHeap(q) /\ ElimExplained(q)

ElimStackInv == \E q \in Seq(Nat) : ElimAt(q)

ElimInv ==
  impl = "elim_backoff" /\ flaws = {} => IF destroyed THEN MSDestroyed ELSE ElimStackInv

----------------------------------------------------------------------------
(* The steps of Exchanger are those of Implementation. *)

LEMMA ElimByNow ==
  ASSUME NEW adt, NEW es
  PROVE  Exchanger!Object!ByNow(adt, es) = Object!ByNow(adt, es)
BY Zenon
DEF Exchanger!Object!ByNow, Exchanger!Object!TakeEffect, Exchanger!Object!Doing,
    Exchanger!Object!Cardinality, Exchanger!Object!IsFiniteSet,
    Object!ByNow, Object!TakeEffect, Object!Doing,
    Object!Cardinality, Object!IsFiniteSet

LEMMA ElimReturnIs ==
  ASSUME NEW t, NEW m, NEW answer, NEW found, Exchanger!FlawedReturn(t, m, answer, found)
  PROVE  /\ mem' = m /\ Moves(t, "idle", NoLocals)
         /\ explanations' = Object!AfterReturn(mem.adt, explanations, t, answer)
         /\ flaws' = flaws \cup found
         /\ UNCHANGED <<prog, added, destroyed>>
<1>1. Exchanger!Object!AfterReturn(mem.adt, explanations, t, answer) =
        Object!AfterReturn(mem.adt, explanations, t, answer)
  BY ElimByNow, Zenon
  DEF Exchanger!Object!AfterReturn, Exchanger!Object!Doing, Exchanger!Object!Idle,
      Object!AfterReturn, Object!Doing, Object!Idle
<1>. QED
  BY <1>1 DEF Exchanger!FlawedReturn, Exchanger!Go, Exchanger!NoLocals, NoLocals,
              Exchanger!clientVars, Moves

LEMMA ElimStepIs ==
  ASSUME NEW t, NEW place, NEW m, NEW l, NEW found, Exchanger!FlawedStep(t, place, m, l, found)
  PROVE  /\ mem' = m /\ Moves(t, place, l)
         /\ flaws' = flaws \cup found
         /\ UNCHANGED <<prog, added, explanations, destroyed>>
BY DEF Exchanger!FlawedStep, Exchanger!Go, Exchanger!clientVars, Moves

LEMMA ElimCallIs ==
  ASSUME NEW t, NEW place, NEW m, NEW l
  PROVE  /\ Exchanger!CallAdd(t, place, m, l) =>
              /\ explanations' = Object!AfterCall(explanations, t, "add", NextValue(t))
              /\ ClientAdd(t)
         /\ Exchanger!CallRmv(t, place, m, l) =>
              /\ explanations' = Object!AfterCall(explanations, t, "rmv", NoVal)
              /\ ClientRmv(t)
         /\ Exchanger!CallAdd(t, place, m, l) \/ Exchanger!CallRmv(t, place, m, l) =>
              /\ pc[t] = "idle" /\ mem' = m /\ Moves(t, place, l)
              /\ UNCHANGED <<flaws, destroyed>>
BY DEF Exchanger!CallAdd, Exchanger!CallRmv, Exchanger!Go, Exchanger!ClientAdd,
       Exchanger!ClientRmv, ClientAdd, ClientRmv, Exchanger!NextValue, NextValue, Moves,
       Exchanger!Object!AfterCall, Exchanger!Object!Doing, Object!AfterCall, Object!Doing

LEMMA ElimHeapIs ==
  ASSUME NEW next, NEW first, NEW deleted, NEW n
  PROVE  /\ Exchanger!Fresh(next) = Fresh(next)
         /\ Exchanger!Delete(deleted, n, next) = Delete(deleted, n, next)
         /\ Exchanger!Reached(next, first) = Reached(next, first)
         /\ Exchanger!Read(next, deleted, n) = Read(next, deleted, n)
         /\ Exchanger!Has(deleted, n) = Has(deleted, n)
<1>1. Exchanger!Fresh(next) = Fresh(next)
  BY DEF Exchanger!Fresh, Fresh, Exchanger!Cardinality, Exchanger!IsFiniteSet,
         Cardinality, IsFiniteSet
<1>2. Exchanger!Delete(deleted, n, next) = Delete(deleted, n, next)
  BY DEF Exchanger!Delete, Delete, Exchanger!With, With,
         Exchanger!Cardinality, Exchanger!IsFiniteSet, Cardinality, IsFiniteSet
<1>3. Exchanger!Reached(next, first) = Reached(next, first)
  BY Zenon DEF Exchanger!Reached, Reached, Exchanger!Cardinality, Exchanger!IsFiniteSet,
               Cardinality, IsFiniteSet
<1>4. /\ Exchanger!Has(deleted, n) = Has(deleted, n)
      /\ Exchanger!Read(next, deleted, n) = Read(next, deleted, n)
  BY DEF Exchanger!Read, Read, Exchanger!Has, Has
<1>. QED
  BY <1>1, <1>2, <1>3, <1>4

LEMMA ElimMovesIs ==
  ASSUME ElimTyped, NEW t \in Threads, NEW place \in ElimPlaces, NEW l, Moves(t, place, l)
  PROVE  /\ pc'[t] = place /\ loc'[t] = l
         /\ \A u \in Threads \ {t} : pc'[u] = pc[u] /\ loc'[u] = loc[u]
         /\ pc' \in [Threads -> ElimPlaces] /\ loc' = [u \in Threads |-> loc'[u]]
<1>1. pc \in [Threads -> ElimPlaces] /\ loc = [u \in Threads |-> loc[u]]
  BY DEF ElimTyped
<1>. HIDE DEF ElimPlaces
<1>. QED
  BY <1>1 DEF Moves

LEMMA ElimTypedStep ==
  ASSUME ElimTyped, NEW t \in Threads, NEW place \in ElimPlaces, NEW l, Moves(t, place, l),
         place # "idle" => IsElimLocals(l),
         ElimMemory(mem'), ClientTypeOK', explanations' \in SUBSET AllExplanations
  PROVE  ElimTyped'
<1>1. /\ pc'[t] = place /\ loc'[t] = l
      /\ \A u \in Threads \ {t} : pc'[u] = pc[u] /\ loc'[u] = loc[u]
      /\ pc' \in [Threads -> ElimPlaces] /\ loc' = [u \in Threads |-> loc'[u]]
  BY ElimMovesIs
<1>2. \A u \in Threads : pc'[u] # "idle" => IsElimLocals(loc'[u])
  BY <1>1 DEF ElimTyped
<1>. QED
  BY <1>1, <1>2 DEF ElimTyped, IsElimLocals

\* What a thread that does not step owns and has read, if the others only
\* change nodes of their own.
LEMMA OthersHeap ==
  ASSUME NEW q, ElimHeap(q), NEW t \in Threads, NEW u \in Threads \ {t},
         \A w \in Threads \ {t} : pc'[w] = pc[w] /\ loc'[w] = loc[w],
         \A n \in 1 .. Len(mem.next) :
           /\ n \in 1 .. Len(mem'.next)
           /\ ~Owns(t, n) => mem'.next[n] = mem.next[n] /\ ~Owns(t, n)'
           /\ n \in DOMAIN mem.deleted => n \in DOMAIN mem'.deleted
  PROVE  ReadsStack(u)'
<1>1. pc'[u] = pc[u] /\ loc'[u] = loc[u] /\ ReadsStack(u)
  BY DEF ElimHeap
<1>2. ASSUME NEW n, n \in 1 .. Len(mem.next), \A w \in Threads : ~Owns(w, n)
      PROVE  \A w \in Threads : ~Owns(w, n)'
  BY <1>2 DEF Owns
<1>3. CASE pc[u] = "push_cas"
  <2>1. Owns(u, loc[u].n) /\ loc[u].n \in 1 .. Len(mem.next)
    BY <1>1, <1>3 DEF Owns, ReadsStack, ElimHeap, Private, Pushing
  <2>2. ~Owns(t, loc[u].n)
    BY <2>1 DEF ElimHeap, Private
  <2>. QED
    BY <1>1, <1>3, <2>1, <2>2 DEF ReadsStack
<1>4. CASE pc[u] \in {"pop_next", "pop_cas"}
  <2>1. /\ loc[u].output \in 1 .. Len(mem.next) /\ \A w \in Threads : ~Owns(w, loc[u].output)
        /\ loc[u].n = Null
    BY <1>1, <1>4 DEF ReadsStack, Popping
  <2>2. /\ \A w \in Threads : ~Owns(w, loc[u].output)'
        /\ mem'.next[loc[u].output] = mem.next[loc[u].output]
        /\ loc[u].output \in 1 .. Len(mem'.next)
        /\ loc[u].output \in DOMAIN mem.deleted => loc[u].output \in DOMAIN mem'.deleted
    BY <1>2, <2>1
  <2>. QED
    BY <1>1, <1>4, <2>1, <2>2 DEF ReadsStack, Pushing
<1>5. CASE pc[u] \notin {"push_cas", "pop_next", "pop_cas"}
  BY <1>1, <1>5 DEF ReadsStack
<1>. QED
  BY <1>3, <1>4, <1>5

\* A step of t makes a stack of q2 that takes nothing but nodes of its own
\* from elsewhere.
LEMMA ElimHeapStep ==
  ASSUME NEW q, ElimHeap(q), NEW q2, Stacked(q2)', NEW t \in Threads, ReadsStack(t)',
         \A u \in Threads \ {t} : pc'[u] = pc[u] /\ loc'[u] = loc[u],
         \A n \in 1 .. Len(mem.next) :
           /\ n \in 1 .. Len(mem'.next)
           /\ ~Owns(t, n) => /\ mem'.next[n] = mem.next[n] /\ mem'.value[n] = mem.value[n]
                             /\ ~Owns(t, n)'
                             /\ OnStack(q2, n) => OnStack(q, n)
                             /\ OnStack(q, n) => OnStack(q2, n) \/ n \in DOMAIN mem'.deleted
                             /\ n \in DOMAIN mem'.deleted => n \in DOMAIN mem.deleted \/ OnStack(q, n)
           /\ n \in DOMAIN mem.deleted => n \in DOMAIN mem'.deleted
           /\ Owns(t, n) => Owns(t, n)' \/ OnStack(q2, n) \/ n \in DOMAIN mem'.deleted,
         \A n \in 1 .. Len(mem'.next) :
           /\ Owns(t, n)' => OwnNode(t, q2, n)'
           /\ n \notin 1 .. Len(mem.next) => Owns(t, n)',
         pc'[t] # "idle" => loc'[t].n \in 1 .. Len(mem'.next) \cup {Null}
  PROVE  ElimHeap(q2)'
<1>1. \A u \in Threads : ReadsStack(u)'
  BY OthersHeap
<1>2. \A u \in Threads \ {t} : \A n : Owns(u, n)' <=> Owns(u, n)
  BY DEF Owns
<1>3. Private(q)
  BY DEF ElimHeap
<1>4. ASSUME NEW u \in Threads, NEW n \in 1 .. Len(mem'.next), Owns(u, n)'
      PROVE  OwnNode(u, q2, n)' /\ \A w \in Threads : Owns(w, n)' => w = u
  <2>1. CASE u = t
    <3>1. ASSUME NEW w \in Threads \ {t} PROVE ~Owns(w, n)'
      <4>. SUFFICES ASSUME Owns(w, n) PROVE FALSE
        BY <1>2
      <4>1. n \in 1 .. Len(mem.next) \cup {Null} /\ n # Null
        BY <1>3, PointersAssumption DEF Private, Owns
      <4>2. ~Owns(t, n)
        BY <1>3, <4>1 DEF Private
      <4>. QED
        BY <1>4, <2>1, <4>1, <4>2
    <3>. QED
      BY <1>4, <2>1, <3>1
  <2>2. CASE u # t
    <3>1. Owns(u, n)
      BY <1>2, <1>4, <2>2
    <3>2. n \in 1 .. Len(mem.next) \cup {Null} /\ n # Null
      BY <1>3, <3>1, PointersAssumption DEF Private, Owns
    <3>3. n \in 1 .. Len(mem.next) /\ OwnNode(u, q, n) /\ \A w \in Threads : Owns(w, n) => w = u
      BY <1>3, <3>1, <3>2 DEF Private
    <3>4. ~Owns(t, n) /\ ~OnStack(q, n) /\ n \notin DOMAIN mem.deleted
      BY <2>2, <3>3 DEF OwnNode
    <3>5. OwnNode(u, q2, n)'
      BY <2>2, <3>3, <3>4 DEF OwnNode, OnStack
    <3>. QED
      BY <1>2, <3>3, <3>4, <3>5
  <2>. QED
    BY <2>1, <2>2
<1>5. ASSUME NEW u \in Threads, pc'[u] # "idle"
      PROVE  loc'[u].n \in 1 .. Len(mem'.next) \cup {Null}
  BY <1>3, <1>5 DEF Private
<1>6. ASSUME NEW n \in 1 .. Len(mem'.next)
      PROVE  n \in DOMAIN mem'.deleted \/ OnStack(q2, n)' \/ \E u \in Threads : Owns(u, n)'
  <2>0. OnStack(q2, n)' <=> OnStack(q2, n)
    BY DEF OnStack
  <2>1. CASE n \notin 1 .. Len(mem.next) \/ Owns(t, n)
    BY <2>0, <2>1
  <2>2. CASE n \in 1 .. Len(mem.next) /\ ~Owns(t, n)
    <3>1. n \in DOMAIN mem.deleted \/ OnStack(q, n) \/ (\E u \in Threads : Owns(u, n))
      BY <1>3, <2>2 DEF Private
    <3>. QED
      BY <1>2, <2>0, <2>2, <3>1
  <2>. QED
    BY <2>1, <2>2
<1>7. Private(q2)'
  BY <1>4, <1>5, <1>6 DEF Private
<1>. QED
  BY <1>1, <1>7 DEF ElimHeap

\* A step that leaves the nodes alone.
LEMMA ElimHeapKept ==
  ASSUME NEW q, ElimHeap(q), NEW t \in Threads, ReadsStack(t)',
         \A u \in Threads \ {t} : pc'[u] = pc[u] /\ loc'[u] = loc[u],
         mem'.top = mem.top, mem'.next = mem.next, mem'.value = mem.value,
         mem'.deleted = mem.deleted,
         \A n \in 1 .. Len(mem.next) : Owns(t, n)' <=> Owns(t, n),
         \A n \in 1 .. Len(mem.next) : Owns(t, n)' => loc'[t].y = loc[t].y,
         pc'[t] # "idle" => loc'[t].n \in 1 .. Len(mem.next) \cup {Null}
  PROVE  ElimHeap(q)'
<1>1. Stacked(q)'
  BY DEF ElimHeap, Stacked
<1>2. ASSUME NEW n \in 1 .. Len(mem.next), Owns(t, n)' PROVE OwnNode(t, q, n)'
  <2>1. Owns(t, n) /\ OwnNode(t, q, n) /\ loc'[t].y = loc[t].y
    BY <1>2 DEF ElimHeap, Private
  <2>. QED
    BY <2>1 DEF OwnNode, OnStack
<1>. QED
  BY <1>1, <1>2, ElimHeapStep
----------------------------------------------------------------------------
(* The exchanger. *)

\* Items are made, and those there are stay as they are.
ItemsKept ==
  \A p \in DOMAIN mem.item : p \in DOMAIN mem'.item /\ mem'.item[p] = mem.item[p]

\* What the threads that do not step know of the exchanger, if they do not
\* wait or the slot is left alone.
LEMMA OthersSlot ==
  ASSUME ElimSlot, ItemsKept, NEW u \in Threads, pc'[u] = pc[u], loc'[u] = loc[u],
         pc[u] \in Waiting => mem'.slot = mem.slot
  PROVE  ReadsSlot(u)' /\ ElimCallOf(u)' = ElimCallOf(u)
<1>1. ReadsSlot(u) /\ (mem.slot.stamp = "BUSY" => mem.slot.ptr \in DOMAIN mem.item)
  BY DEF ElimSlot
<1>2. CASE pc[u] \in Waiting
  <2>1. mem'.slot = mem.slot /\ pc[u] # "read_item" /\ pc[u] \notin Answering
    BY <1>2 DEF Waiting, Answering
  <2>2. ReadsSlot(u)'
    BY <1>1, <1>2, <2>1 DEF ReadsSlot, Waiting, ItemsKept
  <2>3. (Met(u)' <=> Met(u)) /\ (Met(u) => OtherOf(u)' = OtherOf(u))
    BY <1>1, <2>1 DEF Met, OtherOf, ItemsKept
  <2>. QED
    BY <2>2, <2>3 DEF ElimCallOf
<1>3. CASE pc[u] \notin Waiting
  <2>1. ReadsSlot(u)'
    BY <1>1, <1>3 DEF ReadsSlot, Waiting, ItemsKept
  <2>2. (Met(u)' <=> Met(u)) /\ (Met(u) => OtherOf(u)' = OtherOf(u))
    <3>1. CASE pc[u] = "read_item"
      BY <1>1, <3>1 DEF Met, OtherOf, ItemsKept, ReadsSlot
    <3>2. CASE pc[u] \in Answering
      BY <1>1, <3>2 DEF Met, OtherOf, ItemsKept, ReadsSlot, Answering
    <3>3. CASE pc[u] # "read_item" /\ pc[u] \notin Answering
      BY <1>3, <3>3 DEF Met
    <3>. QED
      BY <3>1, <3>2, <3>3
  <2>. QED
    BY <2>1, <2>2 DEF ElimCallOf
<1>. QED
  BY <1>2, <1>3

\* A step that leaves the slot alone.
LEMMA ElimSlotKept ==
  ASSUME ElimSlot, NEW t \in Threads, ItemsKept, mem'.slot = mem.slot,
         \A u \in Threads \ {t} : pc'[u] = pc[u] /\ loc'[u] = loc[u],
         pc'[t] \in Waiting <=> pc[t] \in Waiting, ReadsSlot(t)'
  PROVE  ElimSlot' /\ \A u \in Threads \ {t} : ElimCallOf(u)' = ElimCallOf(u)
<1>1. \A u \in Threads \ {t} : ReadsSlot(u)' /\ ElimCallOf(u)' = ElimCallOf(u)
  BY OthersSlot
<1>2. \A u \in Threads : pc'[u] \in Waiting <=> pc[u] \in Waiting
  OBVIOUS
<1>3. mem'.slot.stamp = "BUSY" => mem'.slot.ptr \in DOMAIN mem'.item
  BY DEF ElimSlot, ItemsKept
<1>4. \A u \in Threads : ReadsSlot(u)'
  BY <1>1
<1>. HIDE DEF Waiting
<1>5. mem'.slot.stamp = "EMPTY" <=> \A u \in Threads : pc'[u] \notin Waiting
  BY <1>2 DEF ElimSlot
<1>6. \A v, u \in Threads : pc'[v] \in Waiting /\ pc'[u] \in Waiting => v = u
  BY <1>2 DEF ElimSlot
<1>. QED
  BY <1>1, <1>3, <1>4, <1>5, <1>6 DEF ElimSlot

\* The one that waits empties the slot.
LEMMA ElimSlotEmptied ==
  ASSUME ElimSlot, NEW t \in Threads, ItemsKept, mem'.slot = Exchanger!EmptySlot,
         \A u \in Threads \ {t} : pc'[u] = pc[u] /\ loc'[u] = loc[u],
         pc[t] \in Waiting, pc'[t] \notin Waiting, ReadsSlot(t)'
  PROVE  ElimSlot' /\ \A u \in Threads \ {t} : ElimCallOf(u)' = ElimCallOf(u)
<1>. HIDE DEF Waiting
<1>1. \A u \in Threads \ {t} : pc[u] \notin Waiting
  BY DEF ElimSlot
<1>2. \A u \in Threads \ {t} : ReadsSlot(u)' /\ ElimCallOf(u)' = ElimCallOf(u)
  BY <1>1, OthersSlot
<1>3. mem'.slot.stamp = "EMPTY"
  BY DEF Exchanger!EmptySlot, Exchanger!Slot
<1>4. \A u \in Threads : ReadsSlot(u)' /\ pc'[u] \notin Waiting
  BY <1>1, <1>2
<1>. QED
  BY <1>2, <1>3, <1>4 DEF ElimSlot

\* A thread waits in the slot, which was empty.
LEMMA ElimSlotTaken ==
  ASSUME ElimSlot, NEW t \in Threads, ItemsKept, mem.slot.stamp = "EMPTY",
         mem'.slot.stamp = "WAITING",
         \A u \in Threads \ {t} : pc'[u] = pc[u] /\ loc'[u] = loc[u],
         pc'[t] \in Waiting, ReadsSlot(t)'
  PROVE  ElimSlot' /\ \A u \in Threads \ {t} : ElimCallOf(u)' = ElimCallOf(u)
<1>. HIDE DEF Waiting
<1>1. \A u \in Threads \ {t} : pc[u] \notin Waiting
  BY DEF ElimSlot
<1>2. \A u \in Threads \ {t} : ReadsSlot(u)' /\ ElimCallOf(u)' = ElimCallOf(u)
  BY <1>1, OthersSlot
<1>3. \A u \in Threads : ReadsSlot(u)' /\ (pc'[u] \in Waiting <=> u = t)
  BY <1>1, <1>2
<1>. QED
  BY <1>2, <1>3 DEF ElimSlot

\* A thread answers the offer of w, which waits.
LEMMA ElimSlotAnswered ==
  ASSUME ElimSlot, NEW t \in Threads, NEW w \in Threads, pc[w] \in Waiting, pc[t] \notin Waiting,
         ItemsKept, mem.slot.stamp = "WAITING",
         mem'.slot.stamp = "BUSY", mem'.slot.ptr \in DOMAIN mem'.item,
         \A u \in Threads \ {t} : pc'[u] = pc[u] /\ loc'[u] = loc[u],
         pc'[t] \notin Waiting, ReadsSlot(t)'
  PROVE  ElimSlot' /\ \A u \in Threads \ {t, w} : ElimCallOf(u)' = ElimCallOf(u)
<1>1. \A u \in Threads : pc[u] \in Waiting <=> u = w
  BY DEF ElimSlot
<1>2. \A u \in Threads \ {t, w} : ReadsSlot(u)' /\ ElimCallOf(u)' = ElimCallOf(u)
  BY <1>1, OthersSlot
<1>3. ReadsSlot(w)'
  <2>1. w # t /\ ReadsSlot(w) /\ pc[w] # "removeB"
    BY DEF ElimSlot, ReadsSlot
  <2>2. pc[w] \in {"wait", "withdraw"} /\ pc'[w] = pc[w] /\ loc'[w] = loc[w]
    BY <2>1 DEF Waiting
  <2>. QED
    BY <2>1, <2>2 DEF ReadsSlot, ItemsKept, Answering
<1>. HIDE DEF Waiting
<1>4. \A u \in Threads : ReadsSlot(u)' /\ (pc'[u] \in Waiting <=> u = w)
  BY <1>1, <1>2, <1>3
<1>. QED
  BY <1>2, <1>4 DEF ElimSlot

----------------------------------------------------------------------------
(* How the explanations are carried on. *)

LEMMA ElimAdt == "stack" \in Adts
BY DEF Adts

\* A step that no call takes effect in.
LEMMA ElimNothingNew ==
  ASSUME NEW q, ElimExplained(q), NEW q2,
         ValuesAlong(mem.value, q2)' = ValuesAlong(mem.value, q),
         explanations' = explanations, \A u \in Threads : ElimCallOf(u)' = ElimCallOf(u)
  PROVE  ElimExplained(q2)'
<1>1. ElimDoing' = ElimDoing
  BY DEF ElimDoing
<1>. QED
  BY <1>1 DEF ElimExplained

LEMMA ElimCalled ==
  ASSUME IsFiniteSet(Threads), ElimTyped, NEW q, ElimExplained(q),
         NEW t \in Threads, pc[t] = "idle", NEW op \in {"add", "rmv"}, NEW v \in Items,
         explanations' = Object!AfterCall(explanations, t, op, v),
         ValuesAlong(mem.value, q)' = ValuesAlong(mem.value, q),
         ElimCallOf(t)' = [op |-> op, val |-> v],
         \A u \in Threads \ {t} : ElimCallOf(u)' = ElimCallOf(u)
  PROVE  explanations' \in SUBSET AllExplanations /\ ElimExplained(q)'
<1>. DEFINE f == [object |-> ValuesAlong(mem.value, q), doing |-> ElimDoing]
<1>0. explanations \in SUBSET AllExplanations
  BY DEF ElimTyped
<1>1. f \in ByNow("stack", explanations) /\ f.doing = ElimDoing
      /\ f.object = ValuesAlong(mem.value, q)
  BY DEF ElimExplained
<1>2. ElimDoing[t].op = "idle"
  BY DEF ElimDoing, ElimCallOf, NotCalled
<1>3. WithDoing(f, t, op, v) = [object |-> ValuesAlong(mem.value, q), doing |-> ElimDoing']
  <2>1. ElimDoing' = [ElimDoing EXCEPT ![t] = [op |-> op, val |-> v]]
    BY DEF ElimDoing
  <2>. QED
    BY <2>1 DEF WithDoing
<1>. HIDE DEF f
<1>4. /\ Object!AfterCall(explanations, t, op, v) \in SUBSET AllExplanations
      /\ WithDoing(f, t, op, v) \in ByNow("stack", Object!AfterCall(explanations, t, op, v))
  BY <1>0, <1>1, <1>2, ElimAdt, CallExplained
<1>. QED
  BY <1>3, <1>4 DEF ElimExplained

\* A call that has taken effect, by meeting another, returns.
LEMMA ElimReturned ==
  ASSUME IsFiniteSet(Threads), ElimTyped, NEW q, ElimExplained(q),
         NEW t \in Threads, NEW v, ElimCallOf(t) = [op |-> "did", val |-> v],
         explanations' = Object!AfterReturn("stack", explanations, t, v),
         ValuesAlong(mem.value, q)' = ValuesAlong(mem.value, q),
         ElimCallOf(t)' = NotCalled,
         \A u \in Threads \ {t} : ElimCallOf(u)' = ElimCallOf(u)
  PROVE  explanations' \in SUBSET AllExplanations /\ ElimExplained(q)'
<1>. DEFINE f == [object |-> ValuesAlong(mem.value, q), doing |-> ElimDoing]
<1>0. explanations \in SUBSET AllExplanations
  BY DEF ElimTyped
<1>1. f \in ByNow("stack", explanations) /\ f.doing = ElimDoing
      /\ f.object = ValuesAlong(mem.value, q)
  BY DEF ElimExplained
<1>2. ElimDoing[t] = [op |-> "did", val |-> v]
  BY DEF ElimDoing
<1>3. WithDoing(f, t, "idle", NoVal) = [object |-> ValuesAlong(mem.value, q), doing |-> ElimDoing']
  <2>1. ElimDoing' = [ElimDoing EXCEPT ![t] = [op |-> "idle", val |-> NoVal]]
    BY DEF ElimDoing, NotCalled
  <2>. QED
    BY <2>1 DEF WithDoing
<1>. HIDE DEF f
<1>4. /\ Object!AfterReturn("stack", explanations, t, v) \in SUBSET AllExplanations
      /\ WithDoing(f, t, "idle", NoVal) \in
           ByNow("stack", Object!AfterReturn("stack", explanations, t, v))
  BY <1>0, <1>1, <1>2, ElimAdt, ReturnExplained
<1>. QED
  BY <1>3, <1>4 DEF ElimExplained

\* A call takes effect on the stack and returns.
LEMMA ElimEffect ==
  ASSUME IsFiniteSet(Threads), ElimTyped, NEW q, ElimExplained(q), NEW q2,
         NEW t \in Threads, ElimCallOf(t).op \in {"add", "rmv"},
         explanations' = Object!AfterReturn("stack", explanations, t,
                                            AnswerOf(ValuesAlong(mem.value, q), ElimCallOf(t))),
         ValuesAlong(mem.value, q2)' = ObjectAfter("stack", ValuesAlong(mem.value, q), ElimCallOf(t)),
         ElimCallOf(t)' = NotCalled,
         \A u \in Threads \ {t} : ElimCallOf(u)' = ElimCallOf(u)
  PROVE  explanations' \in SUBSET AllExplanations /\ ElimExplained(q2)'
<1>. DEFINE f == [object |-> ValuesAlong(mem.value, q), doing |-> ElimDoing]
            answer == AnswerOf(ValuesAlong(mem.value, q), ElimCallOf(t))
<1>0. explanations \in SUBSET AllExplanations
  BY DEF ElimTyped
<1>1. f \in ByNow("stack", explanations) /\ f.doing = ElimDoing
      /\ f.object = ValuesAlong(mem.value, q)
  BY DEF ElimExplained
<1>2. ElimDoing[t] = ElimCallOf(t)
  BY DEF ElimDoing
<1>3. ElimDoing' = [ElimDoing EXCEPT ![t] = [op |-> "idle", val |-> NoVal]]
  BY DEF ElimDoing, NotCalled
<1>. HIDE DEF f
<1>4. Running(f, t) /\ answer = AnswerOf(f.object, f.doing[t])
  BY <1>1, <1>2 DEF Running
<1>. HIDE DEF answer
<1>5. /\ Object!AfterReturn("stack", explanations, t, answer) \in SUBSET AllExplanations
      /\ [object |-> ObjectAfter("stack", f.object, f.doing[t]),
          doing  |-> [f.doing EXCEPT ![t] = [op |-> "idle", val |-> NoVal]]]
           \in ByNow("stack", Object!AfterReturn("stack", explanations, t, answer))
  BY <1>0, <1>1, <1>4, ElimAdt, EffectExplained
<1>. QED
  BY <1>1, <1>2, <1>3, <1>5 DEF ElimExplained, answer

\* A push and a pop that meet: the pop removes what the push has just added.
LEMMA ElimPair ==
  ASSUME IsFiniteSet(Threads), ElimTyped, NEW q, ElimExplained(q), NEW t \in Threads, NEW u \in Threads,
         NEW v, ElimCallOf(t) = [op |-> "add", val |-> v],
         ElimCallOf(u) = [op |-> "rmv", val |-> NoVal],
         ValuesAlong(mem.value, q)' = ValuesAlong(mem.value, q), explanations' = explanations,
         ElimCallOf(t)' = [op |-> "did", val |-> NoVal],
         ElimCallOf(u)' = [op |-> "did", val |-> v],
         \A w \in Threads \ {t, u} : ElimCallOf(w)' = ElimCallOf(w)
  PROVE  ElimExplained(q)'
<1>. PICK o : o = ValuesAlong(mem.value, q)
  OBVIOUS
<1>. PICK f : f = [object |-> o, doing |-> ElimDoing]
  OBVIOUS
<1>0. explanations \in SUBSET AllExplanations
  BY DEF ElimTyped
<1>1. f \in ByNow("stack", explanations) /\ f.doing = ElimDoing /\ f.object = o
  BY DEF ElimExplained
<1>2. ElimDoing[t] = [op |-> "add", val |-> v] /\ ElimDoing[u] = [op |-> "rmv", val |-> NoVal] /\ t # u
  BY DEF ElimDoing
<1>3. f \in AllExplanations /\ o \in Seq(Items) /\ v \in Items
  <2>1. f \in AllExplanations
    BY <1>0, <1>1, ElimAdt, ByNowType
  <2>2. f.doing[t] \in Doings
    BY <2>1 DEF AllExplanations
  <2>. QED
    BY <1>1, <1>2, <2>1, <2>2 DEF AllExplanations, Doings
<1>4. PICK g : g = TakeEffect("stack", f, t)
  OBVIOUS
<1>5. g \in ByNow("stack", explanations)
  BY <1>0, <1>1, <1>2, <1>4, ElimAdt, ByNowEffect DEF Running
<1>6. g = [object |-> <<v>> \o o, doing |-> [ElimDoing EXCEPT ![t] = [op |-> "did", val |-> NoVal]]]
  <2>1. /\ AnswerOf(f.object, f.doing[t]) = NoVal
        /\ ObjectAfter("stack", f.object, f.doing[t]) = <<v>> \o o
    BY <1>1, <1>2 DEF AnswerOf, ObjectAfter
  <2>. QED
    BY <1>1, <1>4, <2>1, TakeEffectIs
<1>7. g.doing[u] = [op |-> "rmv", val |-> NoVal]
  BY <1>2, <1>6 DEF ElimDoing
<1>8. PICK h : h = TakeEffect("stack", g, u)
  OBVIOUS
<1>9. h \in ByNow("stack", explanations)
  BY <1>0, <1>5, <1>7, <1>8, ElimAdt, ByNowEffect DEF Running
<1>10. <<v>> \o o # <<>> /\ Head(<<v>> \o o) = v /\ Tail(<<v>> \o o) = o
  <2>1. <<v>> \in Seq(Items) /\ Len(<<v>>) = 1 /\ <<v>>[1] = v
    BY <1>3
  <2>. PICK c : c = <<v>> \o o
    OBVIOUS
  <2>2. /\ c \in Seq(Items) /\ Len(c) = 1 + Len(o) /\ c[1] = v
        /\ \A i \in 1 .. Len(o) : c[i + 1] = o[i]
    BY <1>3, <2>1
  <2>3. c # <<>> /\ Head(c) = v /\ Len(Tail(c)) = Len(o) /\ Tail(c) \in Seq(Items)
        /\ \A i \in 1 .. Len(o) : Tail(c)[i] = o[i]
    BY <1>3, <2>2
  <2>. QED
    BY <1>3, <2>3, SeqEqual
<1>11. h = [object |-> o,
            doing |-> [[ElimDoing EXCEPT ![t] = [op |-> "did", val |-> NoVal]]
                         EXCEPT ![u] = [op |-> "did", val |-> v]]]
  <2>. PICK c : c = <<v>> \o o
    OBVIOUS
  <2>0. g.object = c /\ c # <<>> /\ Head(c) = v /\ Tail(c) = o
    BY <1>6, <1>10
  <2>1. /\ AnswerOf(g.object, g.doing[u]) = v
        /\ ObjectAfter("stack", g.object, g.doing[u]) = o
    BY ONLY <1>7, <2>0 DEF AnswerOf, ObjectAfter
  <2>. QED
    BY <1>6, <1>8, <2>1, TakeEffectIs
<1>12. ElimDoing' = [[ElimDoing EXCEPT ![t] = [op |-> "did", val |-> NoVal]]
                       EXCEPT ![u] = [op |-> "did", val |-> v]]
  BY <1>2 DEF ElimDoing
<1>. QED
  BY <1>9, <1>11, <1>12 DEF ElimExplained
----------------------------------------------------------------------------
(* The steps in which no call takes effect. *)

LEMMA ElimQuiet ==
  ASSUME NEW q \in Seq(Nat), ElimAt(q),
         NEW t \in Threads, NEW place \in ElimPlaces, NEW l, Moves(t, place, l),
         pc[t] # "idle", place # "idle", IsElimLocals(l), l.y = loc[t].y,
         ElimMemory(mem'), mem'.slot = mem.slot, ItemsKept,
         ElimHeap(q)', ValuesAlong(mem.value, q)' = ValuesAlong(mem.value, q),
         place \in Waiting <=> pc[t] \in Waiting, ReadsSlot(t)',
         ElimCallOf(t)' = ElimCallOf(t), UNCHANGED <<prog, added, explanations>>
  PROVE  ElimStackInv'
<1>0. ElimTyped /\ ElimSlot /\ ElimExplained(q)
  BY DEF ElimAt
<1>1. /\ pc'[t] = place /\ \A u \in Threads \ {t} : pc'[u] = pc[u] /\ loc'[u] = loc[u]
  BY <1>0, ElimMovesIs
<1>2. ClientTypeOK' /\ explanations' \in SUBSET AllExplanations
  BY <1>0 DEF ElimTyped, ClientTypeOK
<1>3. ElimTyped'
  BY <1>0, <1>2, ElimTypedStep
<1>4. pc'[t] \in Waiting <=> pc[t] \in Waiting
  BY <1>1
<1>5. ElimSlot' /\ \A u \in Threads \ {t} : ElimCallOf(u)' = ElimCallOf(u)
  BY <1>0, <1>1, <1>4, ElimSlotKept
<1>6. \A u \in Threads : ElimCallOf(u)' = ElimCallOf(u)
  BY <1>5
<1>7. ElimExplained(q)'
  BY <1>0, <1>6, ElimNothingNew
<1>. QED
  BY <1>3, <1>5, <1>7 DEF ElimStackInv, ElimAt

\* If it leaves the nodes alone, too.
LEMMA ElimQuietRead ==
  ASSUME NEW q \in Seq(Nat), ElimAt(q),
         NEW t \in Threads, NEW place \in ElimPlaces, NEW l, Moves(t, place, l),
         pc[t] # "idle", place # "idle", IsElimLocals(l), l.n = loc[t].n, l.y = loc[t].y,
         ElimMemory(mem'), mem'.slot = mem.slot, ItemsKept,
         mem'.top = mem.top, mem'.next = mem.next, mem'.value = mem.value,
         mem'.deleted = mem.deleted, ReadsStack(t)',
         place \in Waiting <=> pc[t] \in Waiting, ReadsSlot(t)',
         ElimCallOf(t)' = ElimCallOf(t), UNCHANGED <<prog, added, explanations>>
  PROVE  ElimStackInv'
<1>0. ElimTyped /\ ElimHeap(q)
  BY DEF ElimAt
<1>1. /\ pc'[t] = place /\ loc'[t] = l
      /\ \A u \in Threads \ {t} : pc'[u] = pc[u] /\ loc'[u] = loc[u]
  BY <1>0, ElimMovesIs
<1>2. /\ \A n \in 1 .. Len(mem.next) : Owns(t, n)' <=> Owns(t, n)
      /\ \A n \in 1 .. Len(mem.next) : Owns(t, n)' => loc'[t].y = loc[t].y
      /\ pc'[t] # "idle" => loc'[t].n \in 1 .. Len(mem.next) \cup {Null}
  BY <1>0, <1>1 DEF Owns, ElimHeap, Private
<1>3. ElimHeap(q)'
  BY <1>0, <1>1, <1>2, ElimHeapKept
<1>. QED
  BY <1>3, ElimQuiet

\* A thread that has met nobody before the step or after it.
LEMMA ElimUnmet ==
  ASSUME NEW t \in Threads, pc[t] # "idle", pc'[t] # "idle", loc'[t].y = loc[t].y,
         ~Met(t), ~Met(t)'
  PROVE  ElimCallOf(t)' = ElimCallOf(t)
BY DEF ElimCallOf

\* The node on top is nobody's.
LEMMA TopIsNode ==
  ASSUME NEW q \in Seq(Nat), ElimHeap(q), mem.top # Null
  PROVE  /\ mem.top = q[1] /\ 1 \in 1 .. Len(q) /\ mem.top \in 1 .. Len(mem.next)
         /\ \A u \in Threads : ~Owns(u, mem.top)
<1>1. mem.top = q[1] /\ 1 \in 1 .. Len(q)
  BY DEF ElimHeap, Stacked
<1>2. OnStack(q, mem.top) /\ mem.top \in 1 .. Len(mem.next)
  BY <1>1 DEF ElimHeap, Stacked, OnStack
<1>. QED
  BY <1>1, <1>2 DEF ElimHeap, Private, OwnNode

LEMMA StillNobodys ==
  ASSUME NEW t \in Threads, \A u \in Threads \ {t} : pc'[u] = pc[u] /\ loc'[u] = loc[u],
         pc[t] # "idle", loc'[t].n = loc[t].n, NEW n, \A u \in Threads : ~Owns(u, n)
  PROVE  \A u \in Threads : ~(pc'[u] # "idle" /\ loc'[u].n = n)
<1>. TAKE u \in Threads
<1>1. CASE u = t
  BY <1>1 DEF Owns
<1>2. CASE u # t
  BY <1>2 DEF Owns
<1>. QED
  BY <1>1, <1>2

LEMMA ItemsSame ==
  ASSUME mem'.item = mem.item PROVE ItemsKept
BY DEF ItemsKept

\* The reads of top and next, and an exchange of top that fails.
LEMMA ElimStackQuiet ==
  ASSUME NEW q \in Seq(Nat), ElimAt(q), NEW t \in Threads,
         \/ Exchanger!PopTop(t) /\ mem.top # Null
         \/ Exchanger!PopNext(t)
         \/ (Exchanger!PushCas(t) \/ Exchanger!PopCas(t)) /\ pc'[t] # "idle"
  PROVE  ElimStackInv'
<1>0. ElimTyped /\ ElimHeap(q) /\ ElimSlot
  BY DEF ElimAt
<1>1. ASSUME NEW place, place \in {"pop_next", "pop_cas", "visit"},
             NEW l, IsElimLocals(l), l.n = loc[t].n, l.y = loc[t].y,
             pc[t] \in Pushing \cup Popping,
             Exchanger!Step(t, place, mem, l), ReadsStack(t)'
      PROVE  ElimStackInv'
  <2>1. /\ mem' = mem /\ Moves(t, place, l) /\ UNCHANGED <<prog, added, explanations>>
    BY <1>1, ElimStepIs DEF Exchanger!Step
  <2>2. /\ place \in ElimPlaces /\ place # "idle" /\ pc[t] # "idle"
        /\ place \in Waiting <=> pc[t] \in Waiting
    BY <1>1 DEF ElimPlaces, Pushing, Popping, Waiting
  <2>3. pc'[t] = place /\ loc'[t] = l
    BY <1>0, <2>1, <2>2, ElimMovesIs
  <2>4. ReadsSlot(t)' /\ ~Met(t) /\ ~Met(t)'
    BY <1>1, <2>3 DEF ReadsSlot, Met, Answering, Waiting, Pushing, Popping
  <2>5. ElimCallOf(t)' = ElimCallOf(t)
    BY <1>1, <2>2, <2>3, <2>4, ElimUnmet
  <2>6. ElimMemory(mem') /\ ItemsKept
    BY <1>0, <2>1, ItemsSame DEF ElimTyped
  <2>. QED
    BY <1>1, <2>1, <2>2, <2>4, <2>5, <2>6, ElimQuietRead
<1>2. pc[t] # "idle" => IsElimLocals(loc[t])
  BY <1>0 DEF ElimTyped
<1>3. ReadsStack(t)
  BY <1>0 DEF ElimHeap
<1>4. CASE Exchanger!PopTop(t) /\ mem.top # Null
  <2>. PICK l : l = [loc[t] EXCEPT !.output = mem.top]
    OBVIOUS
  <2>1. pc[t] = "pop_top" /\ Exchanger!Step(t, "pop_next", mem, l)
    BY <1>4 DEF Exchanger!PopTop
  <2>2. /\ mem.top \in 1 .. Len(mem.next) /\ mem.top \in Pointers
        /\ \A u \in Threads : ~Owns(u, mem.top)
    BY <1>0, <1>4, TopIsNode DEF Pointers
  <2>3. IsElimLocals(l) /\ l.n = loc[t].n /\ l.y = loc[t].y /\ l.output = mem.top
    BY <1>2, <2>1, <2>2 DEF IsElimLocals, ElimLocals
  <2>4. mem' = mem /\ pc'[t] = "pop_next" /\ loc'[t] = l
        /\ \A u \in Threads \ {t} : pc'[u] = pc[u] /\ loc'[u] = loc[u]
    <3>1. mem' = mem /\ Moves(t, "pop_next", l) /\ "pop_next" \in ElimPlaces
      BY <2>1, ElimStepIs DEF Exchanger!Step, ElimPlaces, Popping
    <3>. QED
      BY <1>0, <3>1, ElimMovesIs
  <2>5. \A u \in Threads : ~(pc'[u] # "idle" /\ loc'[u].n = mem.top)
    <3>1. pc[t] # "idle" /\ loc'[t].n = loc[t].n
      BY <2>1, <2>3, <2>4
    <3>. QED
      BY <2>2, <2>4, <3>1, StillNobodys
  <2>6. ReadsStack(t)'
    BY <1>3, <2>1, <2>2, <2>3, <2>4, <2>5 DEF ReadsStack, Pushing, Popping, Owns
  <2>. QED
    BY <1>1, <2>1, <2>3, <2>6 DEF Popping
<1>5. CASE Exchanger!PopNext(t)
  <2>1. PICK m \in Exchanger!Read(mem.next, mem.deleted, loc[t].output) :
          Exchanger!Step(t, "pop_cas", mem, [loc[t] EXCEPT !.m = m])
    BY <1>5 DEF Exchanger!PopNext
  <2>2. pc[t] = "pop_next"
    BY <1>5 DEF Exchanger!PopNext
  <2>. PICK l : l = [loc[t] EXCEPT !.m = m]
    OBVIOUS
  <2>3. loc[t].output \in 1 .. Len(mem.next) /\ \A u \in Threads : ~Owns(u, loc[t].output)
    BY <1>3, <2>2 DEF ReadsStack
  <2>4. m \in Pointers /\ (loc[t].output \notin DOMAIN mem.deleted => m = mem.next[loc[t].output])
    <3>1. m \in Read(mem.next, mem.deleted, loc[t].output)
      BY <2>1, ElimHeapIs
    <3>2. mem.next[loc[t].output] \in Nat \cup {Null}
      BY <1>0, <2>3 DEF ElimTyped, ElimMemory
    <3>. QED
      BY <3>1, <3>2 DEF Read, Has, Pointers
  <2>5. IsElimLocals(l) /\ l.n = loc[t].n /\ l.y = loc[t].y /\ l.output = loc[t].output /\ l.m = m
    BY <1>2, <2>2, <2>4 DEF IsElimLocals, ElimLocals
  <2>6. mem' = mem /\ pc'[t] = "pop_cas" /\ loc'[t] = l
        /\ \A u \in Threads \ {t} : pc'[u] = pc[u] /\ loc'[u] = loc[u]
    <3>1. mem' = mem /\ Moves(t, "pop_cas", l) /\ "pop_cas" \in ElimPlaces
      BY <2>1, ElimStepIs DEF Exchanger!Step, ElimPlaces, Popping
    <3>. QED
      BY <1>0, <3>1, ElimMovesIs
  <2>7. \A u \in Threads : ~(pc'[u] # "idle" /\ loc'[u].n = loc[t].output)
    <3>1. pc[t] # "idle" /\ loc'[t].n = loc[t].n
      BY <2>2, <2>5, <2>6
    <3>. QED
      BY <2>3, <2>6, <3>1, StillNobodys
  <2>8. ReadsStack(t)'
    BY <1>3, <2>2, <2>3, <2>4, <2>5, <2>6, <2>7 DEF ReadsStack, Pushing, Popping, Owns
  <2>. QED
    BY <1>1, <2>1, <2>2, <2>5, <2>8 DEF Popping
<1>6. CASE (Exchanger!PushCas(t) \/ Exchanger!PopCas(t)) /\ pc'[t] # "idle"
  <2>1. pc[t] \in {"push_cas", "pop_cas"}
    BY <1>6 DEF Exchanger!PushCas, Exchanger!PopCas
  <2>2. ASSUME NEW m, NEW answer, NEW found, Exchanger!FlawedReturn(t, m, answer, found)
        PROVE  FALSE
    <3>1. pc' = [pc EXCEPT ![t] = "idle"]
      BY <2>2, ElimReturnIs DEF Moves
    <3>. QED
      BY <1>0, <1>6, <3>1 DEF ElimTyped
  <2>3. Exchanger!Step(t, "visit", mem, loc[t])
    BY <1>6, <2>2 DEF Exchanger!PushCas, Exchanger!PopCas
  <2>4. mem' = mem /\ pc'[t] = "visit" /\ loc'[t] = loc[t]
    <3>1. mem' = mem /\ Moves(t, "visit", loc[t]) /\ "visit" \in ElimPlaces
      BY <2>3, ElimStepIs DEF Exchanger!Step, ElimPlaces
    <3>. QED
      BY <1>0, <3>1, ElimMovesIs
  <2>5. ReadsStack(t)'
    BY <2>4 DEF ReadsStack, Pushing, Popping
  <2>. QED
    BY <1>1, <1>2, <2>1, <2>3, <2>5 DEF Pushing, Popping
<1>. QED
  BY <1>4, <1>5, <1>6
----------------------------------------------------------------------------
(* The exchanger, while no two meet. *)

\* A thread that knows nothing of the stack.
LEMMA ReadsNothing ==
  ASSUME NEW t, pc[t] \notin {"push_cas", "pop_next", "pop_cas"},
         pc[t] = "push_top" => loc[t].n # Null, pc[t] = "pop_top" => loc[t].n = Null
  PROVE  ReadsStack(t)
BY DEF ReadsStack, Pushing, Popping

LEMMA AgainIs ==
  ASSUME NEW t
  PROVE  /\ Exchanger!Again(t) \in {"push_top", "pop_top"}
         /\ Exchanger!Again(t) = "push_top" <=> loc[t].n # Null
BY DEF Exchanger!Again

LEMMA ElimExchangerQuiet ==
  ASSUME NEW q \in Seq(Nat), ElimAt(q),
         NEW t \in Threads, NEW place \in ElimPlaces, NEW l, Moves(t, place, l),
         pc[t] # "idle", place \notin {"idle", "push_cas", "pop_next", "pop_cas"},
         place \in {"push_top", "pop_top"} => place = Exchanger!Again(t),
         IsElimLocals(l), l.n = loc[t].n, l.y = loc[t].y,
         ElimMemory(mem'), mem'.slot = mem.slot, ItemsKept,
         mem'.top = mem.top, mem'.next = mem.next, mem'.value = mem.value,
         mem'.deleted = mem.deleted,
         place \in Waiting <=> pc[t] \in Waiting, ReadsSlot(t)',
         ElimCallOf(t)' = ElimCallOf(t), UNCHANGED <<prog, added, explanations>>
  PROVE  ElimStackInv'
<1>1. pc'[t] = place /\ loc'[t] = l
  BY ElimMovesIs DEF ElimAt
<1>2. /\ place = "push_top" => l.n # Null
      /\ place = "pop_top" => l.n = Null
  BY AgainIs
<1>3. ReadsStack(t)'
  BY <1>1, <1>2 DEF ReadsStack, Pushing, Popping
<1>. QED
  BY <1>3, ElimQuietRead

LEMMA ElimLookQuiet ==
  ASSUME NEW q \in Seq(Nat), ElimAt(q), NEW t \in Threads,
         \/ Exchanger!Visit(t) \/ Exchanger!Wait(t)
         \/ Exchanger!Withdraw(t) /\ mem.slot # loc[t].sr
  PROVE  ElimStackInv'
<1>0. ElimTyped /\ ElimSlot
  BY DEF ElimAt
<1>1. ElimMemory(mem) /\ mem.slot \in Slots /\ ReadsSlot(t) /\ (pc[t] # "idle" => IsElimLocals(loc[t]))
  BY <1>0 DEF ElimTyped, ElimSlot, ElimMemory
<1>2. ASSUME NEW place \in ElimPlaces, NEW l, IsElimLocals(l), l.n = loc[t].n, l.y = loc[t].y,
             pc[t] # "idle", place \notin {"idle", "push_cas", "pop_next", "pop_cas"},
             place \in {"push_top", "pop_top"} => place = Exchanger!Again(t),
             Exchanger!Step(t, place, mem, l), place \in Waiting <=> pc[t] \in Waiting,
             mem' = mem /\ pc'[t] = place /\ loc'[t] = l => ReadsSlot(t)',
             mem' = mem /\ pc'[t] = place /\ loc'[t] = l => ElimCallOf(t)' = ElimCallOf(t)
      PROVE  ElimStackInv'
  <2>1. mem' = mem /\ Moves(t, place, l) /\ UNCHANGED <<prog, added, explanations>>
    BY <1>2, ElimStepIs DEF Exchanger!Step
  <2>2. pc'[t] = place /\ loc'[t] = l
    BY <1>0, <2>1, ElimMovesIs
  <2>3. ItemsKept
    BY <2>1, ItemsSame
  <2>4. ReadsSlot(t)' /\ ElimCallOf(t)' = ElimCallOf(t)
    BY <1>2, <2>1, <2>2
  <2>. QED
    BY <1>1, <1>2, <2>1, <2>3, <2>4, ElimExchangerQuiet
<1>3. CASE Exchanger!Visit(t)
  <2>1. pc[t] = "visit" /\ ~Met(t)
    BY <1>3 DEF Exchanger!Visit, Met, Waiting, Answering
  <2>2. ASSUME NEW place, place \in {"addA", "addB", "visit", "push_top", "pop_top"}
        PROVE  /\ place \in ElimPlaces /\ place \notin {"idle", "push_cas", "pop_next", "pop_cas"}
               /\ place \in Waiting <=> pc[t] \in Waiting
    BY <2>1, <2>2 DEF ElimPlaces, Pushing, Popping, Waiting
  <2>3. ASSUME NEW place, place \in {"addA", "addB", "visit", "push_top", "pop_top"},
               NEW l, l.y = loc[t].y, pc'[t] = place /\ loc'[t] = l
        PROVE  ElimCallOf(t)' = ElimCallOf(t)
    <3>1. ~Met(t)' /\ pc'[t] # "idle"
      BY <2>3 DEF Met, Waiting, Answering
    <3>. QED
      BY <2>1, <2>3, <3>1, ElimUnmet
  <2>4. CASE Exchanger!Timeout(t)
    <3>. PICK place : place = Exchanger!Again(t)
      OBVIOUS
    <3>1. place \in {"push_top", "pop_top"}
      BY AgainIs
    <3>2. Exchanger!Step(t, place, mem, loc[t])
      BY <2>4 DEF Exchanger!Timeout
    <3>3. pc'[t] = place => ReadsSlot(t)'
      BY <3>1 DEF ReadsSlot, Answering
    <3>. QED
      BY <1>1, <1>2, <2>1, <2>2, <2>3, <3>1, <3>2, <3>3
  <2>5. CASE ~Exchanger!Timeout(t)
    <3>. PICK place : place = CASE mem.slot.stamp = "EMPTY" -> "addA"
                                [] mem.slot.stamp = "WAITING" -> "addB"
                                [] OTHER -> "visit"
      OBVIOUS
    <3>. PICK l : l = [loc[t] EXCEPT !.x = mem.slot]
      OBVIOUS
    <3>1. /\ place \in {"addA", "addB", "visit"}
          /\ place = "addA" => mem.slot.stamp = "EMPTY"
          /\ place = "addB" => mem.slot.stamp = "WAITING"
      BY <1>1 DEF Slots
    <3>2. Exchanger!Step(t, place, mem, l)
      BY <1>3, <2>5 DEF Exchanger!Visit
    <3>3. IsElimLocals(l) /\ l.n = loc[t].n /\ l.y = loc[t].y /\ l.x = mem.slot
      BY <1>1, <2>1 DEF IsElimLocals, ElimLocals
    <3>4. mem' = mem /\ pc'[t] = place /\ loc'[t] = l => ReadsSlot(t)'
      BY <1>0, <3>1, <3>3 DEF ReadsSlot, Answering, ElimSlot
    <3>. QED
      BY <1>1, <1>2, <2>1, <2>2, <2>3, <3>1, <3>2, <3>3, <3>4
  <2>. QED
    BY <2>4, <2>5
<1>4. CASE Exchanger!Wait(t) \/ (Exchanger!Withdraw(t) /\ mem.slot # loc[t].sr)
  <2>1. pc[t] \in {"wait", "withdraw"}
    BY <1>4 DEF Exchanger!Wait, Exchanger!Withdraw
  <2>2. ASSUME NEW place, place \in Waiting
        PROVE  /\ place \in ElimPlaces /\ place \notin {"idle", "push_cas", "pop_next", "pop_cas"}
               /\ place \notin {"push_top", "pop_top"}
               /\ place \in Waiting <=> pc[t] \in Waiting
    BY <2>1, <2>2 DEF ElimPlaces, Waiting
  <2>3. ASSUME NEW place, place \in Waiting, NEW l, l.y = loc[t].y,
               mem' = mem /\ pc'[t] = place /\ loc'[t] = l
        PROVE  ElimCallOf(t)' = ElimCallOf(t)
    <3>1. (Met(t)' <=> Met(t)) /\ OtherOf(t)' = OtherOf(t)
      BY <2>1, <2>3 DEF Met, OtherOf, Waiting, Answering
    <3>2. pc'[t] # "idle" /\ pc[t] # "idle"
      BY <2>1, <2>3 DEF Waiting
    <3>. QED
      BY <2>3, <3>1, <3>2 DEF ElimCallOf
  <2>4. /\ "wait" \in Waiting /\ "withdraw" \in Waiting /\ "removeB" \in Waiting
        /\ pc[t] # "idle" /\ IsElimLocals(loc[t])
    BY <1>1, <2>1 DEF Waiting
  <2>5. ASSUME NEW place, place \in {"wait", "withdraw"},
               mem' = mem /\ pc'[t] = place /\ loc'[t] = loc[t]
        PROVE  ReadsSlot(t)'
    BY <1>1, <2>1, <2>5 DEF ReadsSlot, Answering
  <2>6. ASSUME NEW place, place \in {"wait", "withdraw"}, Exchanger!Step(t, place, mem, loc[t])
        PROVE  ElimStackInv'
    <3>1. place \in Waiting
      BY <2>4, <2>6
    <3>. QED
      BY <1>2, <2>2, <2>3, <2>4, <2>5, <2>6, <3>1
  <2>7. CASE /\ mem.slot.stamp = "BUSY"
             /\ Exchanger!Step(t, "removeB", mem, [loc[t] EXCEPT !.sr = mem.slot])
    <3>. PICK l : l = [loc[t] EXCEPT !.sr = mem.slot]
      OBVIOUS
    <3>1. IsElimLocals(l) /\ l.n = loc[t].n /\ l.y = loc[t].y /\ l.sr = mem.slot
      BY <1>1, <2>4 DEF IsElimLocals, ElimLocals
    <3>2. mem' = mem /\ pc'[t] = "removeB" /\ loc'[t] = l => ReadsSlot(t)'
      BY <2>7, <3>1 DEF ReadsSlot, Answering
    <3>. QED
      BY <1>2, <2>2, <2>3, <2>4, <2>7, <3>1, <3>2
  <2>. QED
    BY <1>4, <2>6, <2>7 DEF Exchanger!Wait, Exchanger!Withdraw
<1>. QED
  BY <1>3, <1>4

\* A thread makes an item of y, and writes the slot or does not.
Offered(y, slot) ==
  \/ slot = mem.slot /\ mem' = [mem EXCEPT !.item = Append(@, y)]
  \/ mem' = [[mem EXCEPT !.item = Append(@, y)] EXCEPT !.slot = slot]

NewItem == Len(mem.item) + 1

LEMMA OfferedIs ==
  ASSUME ElimMemory(mem), NEW y \in Items, NEW slot \in Slots, Offered(y, slot)
  PROVE  /\ ElimMemory(mem') /\ ItemsKept
         /\ mem'.slot = slot /\ NewItem \in DOMAIN mem'.item /\ mem'.item[NewItem] = y
         /\ mem'.top = mem.top /\ mem'.next = mem.next /\ mem'.value = mem.value
         /\ mem'.deleted = mem.deleted
<1>1. /\ mem'.item = Append(mem.item, y) /\ mem'.slot = slot /\ mem'.adt = mem.adt
      /\ mem'.top = mem.top /\ mem'.next = mem.next /\ mem'.value = mem.value
      /\ mem'.deleted = mem.deleted
      /\ mem' = [adt |-> mem'.adt, top |-> mem'.top, value |-> mem'.value, next |-> mem'.next,
                 deleted |-> mem'.deleted, slot |-> mem'.slot, item |-> mem'.item,
                 deletedItems |-> mem'.deletedItems]
  BY DEF ElimMemory, Offered
<1>2. mem.item \in Seq(Items)
  BY DEF ElimMemory
<1>. PICK s : s = Append(mem.item, y)
  OBVIOUS
<1>3. /\ s \in Seq(Items) /\ NewItem \in DOMAIN s /\ s[NewItem] = y
      /\ \A p \in DOMAIN mem.item : p \in DOMAIN s /\ s[p] = mem.item[p]
  BY <1>2 DEF NewItem
<1>4. ElimMemory(mem')
  BY <1>1, <1>3 DEF ElimMemory
<1>. QED
  BY <1>1, <1>3, <1>4 DEF ItemsKept

\* What AddA and AddB do.
LEMMA OfferIs ==
  ASSUME ElimTyped, NEW t \in Threads, pc[t] # "idle",
         NEW stamp \in {"WAITING", "BUSY"}, NEW success,
         Exchanger!Offer(t, stamp, success)
  PROVE  LET sr == [ptr |-> NewItem, stamp |-> stamp]
         IN  /\ sr \in Slots /\ loc[t].y \in Items
             /\ UNCHANGED <<prog, added, explanations>>
             /\ \/ /\ mem.slot = loc[t].x /\ Offered(loc[t].y, sr)
                   /\ Moves(t, success, [loc[t] EXCEPT !.sr = sr])
                \/ /\ mem.slot # loc[t].x /\ Offered(loc[t].y, mem.slot)
                   /\ Moves(t, "visit", loc[t])
<1>. PICK sr : sr = [ptr |-> NewItem, stamp |-> stamp]
  OBVIOUS
<1>1. mem.item \in Seq(Items) /\ loc[t].y \in Items
  BY DEF ElimTyped, ElimMemory, IsElimLocals, ElimLocals
<1>. PICK N \in Nat : N = Len(mem.item) /\ DOMAIN mem.item = 1 .. N
  BY <1>1
<1>2. Exchanger!Fresh(mem.item) = NewItem /\ NewItem \in Nat
  BY HeapFacts, ElimHeapIs DEF NewItem
<1>3. sr = Exchanger!Slot(Exchanger!Fresh(mem.item), stamp) /\ sr \in Slots
  BY <1>2 DEF Exchanger!Slot, Slots
<1>4. CASE mem.slot = loc[t].x
  <2>1. Exchanger!Step(t, success, [[mem EXCEPT !.item = Append(@, loc[t].y)] EXCEPT !.slot = sr],
                       [loc[t] EXCEPT !.sr = sr])
    BY <1>3, <1>4 DEF Exchanger!Offer
  <2>. QED
    BY <1>1, <1>3, <1>4, <2>1, ElimStepIs DEF Exchanger!Step, Offered
<1>5. CASE mem.slot # loc[t].x
  <2>1. Exchanger!Step(t, "visit", [mem EXCEPT !.item = Append(@, loc[t].y)], loc[t])
    BY <1>5 DEF Exchanger!Offer
  <2>. QED
    BY <1>1, <1>3, <1>5, <2>1, ElimStepIs DEF Exchanger!Step, Offered
<1>. QED
  BY <1>4, <1>5

\* An offer that comes too late.
LEMMA ElimOfferFails ==
  ASSUME NEW q \in Seq(Nat), ElimAt(q), NEW t \in Threads, pc[t] \in {"addA", "addB"},
         Offered(loc[t].y, mem.slot), Moves(t, "visit", loc[t]),
         UNCHANGED <<prog, added, explanations>>
  PROVE  ElimStackInv'
<1>1. ElimTyped /\ ElimMemory(mem) /\ IsElimLocals(loc[t]) /\ loc[t].y \in Items /\ mem.slot \in Slots
  BY DEF ElimAt, ElimTyped, ElimMemory, IsElimLocals, ElimLocals
<1>2. /\ ElimMemory(mem') /\ ItemsKept /\ mem'.slot = mem.slot
      /\ mem'.top = mem.top /\ mem'.next = mem.next /\ mem'.value = mem.value
      /\ mem'.deleted = mem.deleted
  BY <1>1, OfferedIs
<1>3. /\ "visit" \in ElimPlaces /\ "visit" \notin Waiting /\ pc[t] \notin Waiting /\ ~Met(t)
  BY DEF ElimPlaces, Waiting, Met, Answering
<1>4. pc'[t] = "visit" /\ loc'[t] = loc[t]
  BY <1>1, <1>3, ElimMovesIs
<1>5. ReadsSlot(t)' /\ ~Met(t)'
  BY <1>4 DEF ReadsSlot, Met, Waiting, Answering
<1>6. ElimCallOf(t)' = ElimCallOf(t)
  BY <1>3, <1>4, <1>5, ElimUnmet
<1>. QED
  BY <1>1, <1>2, <1>3, <1>5, <1>6, ElimExchangerQuiet

\* The first of two offers, and waits.
LEMMA ElimWaits ==
  ASSUME NEW q \in Seq(Nat), ElimAt(q), NEW t \in Threads, Exchanger!AddA(t)
  PROVE  ElimStackInv'
<1>0. ElimTyped /\ ElimSlot /\ ElimHeap(q) /\ ElimExplained(q)
  BY DEF ElimAt
<1>1. pc[t] = "addA" /\ loc[t].x = Exchanger!EmptySlot
  BY <1>0 DEF Exchanger!AddA, ElimSlot, ReadsSlot
<1>. PICK sr : sr = [ptr |-> NewItem, stamp |-> "WAITING"]
  OBVIOUS
<1>2. /\ sr \in Slots /\ loc[t].y \in Items
      /\ UNCHANGED <<prog, added, explanations>>
      /\ \/ /\ mem.slot = loc[t].x /\ Offered(loc[t].y, sr)
            /\ Moves(t, "wait", [loc[t] EXCEPT !.sr = sr])
         \/ Offered(loc[t].y, mem.slot) /\ Moves(t, "visit", loc[t])
  BY <1>0, <1>1, OfferIs DEF Exchanger!AddA
<1>3. CASE Offered(loc[t].y, mem.slot) /\ Moves(t, "visit", loc[t])
  BY <1>1, <1>2, <1>3, ElimOfferFails
<1>4. CASE /\ mem.slot = loc[t].x /\ Offered(loc[t].y, sr)
           /\ Moves(t, "wait", [loc[t] EXCEPT !.sr = sr])
  <2>. PICK l : l = [loc[t] EXCEPT !.sr = sr]
    OBVIOUS
  <2>1. IsElimLocals(l) /\ l.n = loc[t].n /\ l.y = loc[t].y /\ l.sr = sr /\ ElimMemory(mem)
    BY <1>0, <1>1, <1>2 DEF ElimTyped, IsElimLocals, ElimLocals
  <2>2. /\ ElimMemory(mem') /\ ItemsKept
        /\ mem'.slot = sr /\ NewItem \in DOMAIN mem'.item /\ mem'.item[NewItem] = loc[t].y
        /\ mem'.top = mem.top /\ mem'.next = mem.next /\ mem'.value = mem.value
        /\ mem'.deleted = mem.deleted
    BY <1>2, <1>4, <2>1, OfferedIs
  <2>3. "wait" \in ElimPlaces /\ "wait" \in Waiting
    BY DEF ElimPlaces, Waiting
  <2>4. /\ pc'[t] = "wait" /\ loc'[t] = l
        /\ \A u \in Threads \ {t} : pc'[u] = pc[u] /\ loc'[u] = loc[u]
    BY <1>0, <1>4, <2>3, ElimMovesIs
  <2>5. ReadsSlot(t)'
    BY <2>1, <2>2, <2>4 DEF ReadsSlot, Answering
  <2>6. mem.slot.stamp = "EMPTY" /\ mem'.slot.stamp = "WAITING"
    BY <1>1, <1>4, <2>2 DEF Exchanger!EmptySlot, Exchanger!Slot
  <2>7. ElimSlot' /\ \A u \in Threads \ {t} : ElimCallOf(u)' = ElimCallOf(u)
    BY <1>0, <2>2, <2>3, <2>4, <2>5, <2>6, ElimSlotTaken
  <2>8. ~Met(t) /\ ~Met(t)'
    BY <1>1, <2>4, <2>6 DEF Met, Waiting, Answering
  <2>9. ElimCallOf(t)' = ElimCallOf(t)
    BY <1>1, <2>1, <2>4, <2>8, ElimUnmet
  <2>10. ElimTyped'
    <3>1. ClientTypeOK' /\ explanations' \in SUBSET AllExplanations
      BY <1>0, <1>2 DEF ElimTyped, ClientTypeOK
    <3>. QED
      BY <1>0, <1>4, <2>1, <2>2, <2>3, <3>1, ElimTypedStep
  <2>11. ElimHeap(q)'
    <3>1. ReadsStack(t)'
      BY <2>4, ReadsNothing DEF ReadsStack, Pushing, Popping
    <3>2. /\ \A n \in 1 .. Len(mem.next) : Owns(t, n)' <=> Owns(t, n)
          /\ \A n \in 1 .. Len(mem.next) : Owns(t, n)' => loc'[t].y = loc[t].y
          /\ pc'[t] # "idle" => loc'[t].n \in 1 .. Len(mem.next) \cup {Null}
      BY <1>0, <1>1, <2>1, <2>4 DEF Owns, ElimHeap, Private
    <3>. QED
      BY <1>0, <2>2, <2>4, <3>1, <3>2, ElimHeapKept
  <2>12. ElimExplained(q)'
    <3>1. ValuesAlong(mem.value, q)' = ValuesAlong(mem.value, q)
      BY <2>2
    <3>2. \A u \in Threads : ElimCallOf(u)' = ElimCallOf(u)
      BY <2>7, <2>9
    <3>. QED
      BY <1>0, <1>2, <3>1, <3>2, ElimNothingNew
  <2>. QED
    BY <2>7, <2>10, <2>11, <2>12 DEF ElimStackInv, ElimAt
<1>. QED
  BY <1>2, <1>3, <1>4

----------------------------------------------------------------------------
(* Two threads meet. *)

LEMMA ElimMeets ==
  ASSUME IsFiniteSet(Threads), NEW q \in Seq(Nat), ElimAt(q), NEW t \in Threads, Exchanger!AddB(t)
  PROVE  ElimStackInv'
<1>0. ElimTyped /\ ElimSlot /\ ElimHeap(q) /\ ElimExplained(q)
  BY DEF ElimAt
<1>1. pc[t] = "addB" /\ loc[t].x.stamp = "WAITING"
  BY <1>0 DEF Exchanger!AddB, ElimSlot, ReadsSlot
<1>. PICK sr : sr = [ptr |-> NewItem, stamp |-> "BUSY"]
  OBVIOUS
<1>2. /\ sr \in Slots /\ loc[t].y \in Items
      /\ UNCHANGED <<prog, added, explanations>>
      /\ \/ /\ mem.slot = loc[t].x /\ Offered(loc[t].y, sr)
            /\ Moves(t, "delete_item", [loc[t] EXCEPT !.sr = sr])
         \/ Offered(loc[t].y, mem.slot) /\ Moves(t, "visit", loc[t])
  BY <1>0, <1>1, OfferIs DEF Exchanger!AddB
<1>3. CASE Offered(loc[t].y, mem.slot) /\ Moves(t, "visit", loc[t])
  BY <1>1, <1>2, <1>3, ElimOfferFails
<1>4. CASE /\ mem.slot = loc[t].x /\ Offered(loc[t].y, sr)
           /\ Moves(t, "delete_item", [loc[t] EXCEPT !.sr = sr])
  <2>. PICK l : l = [loc[t] EXCEPT !.sr = sr]
    OBVIOUS
  <2>1. /\ IsElimLocals(l) /\ l.n = loc[t].n /\ l.y = loc[t].y /\ l.x = loc[t].x
        /\ ElimMemory(mem)
    BY <1>0, <1>1, <1>2 DEF ElimTyped, IsElimLocals, ElimLocals
  <2>2. /\ ElimMemory(mem') /\ ItemsKept
        /\ mem'.slot = sr /\ NewItem \in DOMAIN mem'.item /\ mem'.item[NewItem] = loc[t].y
        /\ mem'.top = mem.top /\ mem'.next = mem.next /\ mem'.value = mem.value
        /\ mem'.deleted = mem.deleted
    BY <1>2, <1>4, <2>1, OfferedIs
  <2>3. "delete_item" \in ElimPlaces /\ "delete_item" \notin Waiting
        /\ "delete_item" \in Answering /\ "delete_item" # "read_item"
    BY DEF ElimPlaces, Waiting, Answering
  <2>4. /\ pc'[t] = "delete_item" /\ loc'[t] = l
        /\ \A u \in Threads \ {t} : pc'[u] = pc[u] /\ loc'[u] = loc[u]
    BY <1>0, <1>4, <2>3, ElimMovesIs
  <2>5. mem.slot.stamp = "WAITING" /\ mem'.slot.stamp = "BUSY" /\ mem'.slot.ptr = NewItem
    BY <1>1, <1>4, <2>2
  <2>6. PICK w \in Threads : pc[w] \in Waiting
    BY <1>0, <2>5 DEF ElimSlot
  <2>7. /\ pc[w] \in {"wait", "withdraw"} /\ mem.slot = loc[w].sr
        /\ mem.slot.ptr \in DOMAIN mem.item /\ mem.item[mem.slot.ptr] = loc[w].y
    <3>1. ReadsSlot(w)
      BY <1>0 DEF ElimSlot
    <3>. QED
      BY <2>5, <2>6, <3>1 DEF ReadsSlot, Waiting
  <2>8. w # t /\ pc'[w] = pc[w] /\ loc'[w] = loc[w] /\ pc[t] \notin Waiting
    BY <1>1, <2>4, <2>6 DEF Waiting
  <2>9. mem'.item[loc'[t].x.ptr] = loc[w].y /\ loc'[t].x.ptr \in DOMAIN mem'.item
    BY <1>4, <2>1, <2>2, <2>4, <2>7 DEF ItemsKept
  <2>10. ReadsSlot(t)'
    BY <2>4, <2>9 DEF ReadsSlot
  <2>11. ElimSlot' /\ \A u \in Threads \ {t, w} : ElimCallOf(u)' = ElimCallOf(u)
    BY <1>0, <2>2, <2>3, <2>4, <2>5, <2>6, <2>8, <2>10, ElimSlotAnswered
  <2>12. ~Met(t) /\ ~Met(w)
    BY <1>1, <2>5, <2>7 DEF Met, Waiting, Answering
  <2>13. Met(t)' /\ Met(w)' /\ OtherOf(t)' = loc[w].y /\ OtherOf(w)' = loc[t].y
    BY <2>2, <2>3, <2>4, <2>5, <2>7, <2>8, <2>9 DEF Met, OtherOf, Waiting, Answering
  <2>14. /\ pc[t] # "idle" /\ pc[w] # "idle" /\ pc'[t] # "idle" /\ pc'[w] # "idle"
         /\ loc'[t].y = loc[t].y /\ loc'[w].y = loc[w].y
    BY <1>1, <2>1, <2>4, <2>7, <2>8
  <2>15. ElimTyped'
    <3>1. ClientTypeOK' /\ explanations' \in SUBSET AllExplanations
      BY <1>0, <1>2 DEF ElimTyped, ClientTypeOK
    <3>. QED
      BY <1>0, <1>4, <2>1, <2>2, <2>3, <3>1, ElimTypedStep
  <2>16. ElimHeap(q)'
    <3>1. ReadsStack(t)'
      BY <2>4 DEF ReadsStack, Pushing, Popping
    <3>2. /\ \A n \in 1 .. Len(mem.next) : Owns(t, n)' <=> Owns(t, n)
          /\ \A n \in 1 .. Len(mem.next) : Owns(t, n)' => loc'[t].y = loc[t].y
          /\ pc'[t] # "idle" => loc'[t].n \in 1 .. Len(mem.next) \cup {Null}
      BY <1>0, <1>1, <2>1, <2>4 DEF Owns, ElimHeap, Private
    <3>. QED
      BY <1>0, <2>2, <2>4, <3>1, <3>2, ElimHeapKept
  <2>17. ElimExplained(q)'
    <3>1. ValuesAlong(mem.value, q)' = ValuesAlong(mem.value, q) /\ explanations' = explanations
      BY <1>2, <2>2
    <3>2. CASE loc[t].y = NoVal <=> loc[w].y = NoVal
      <4>1. ElimCallOf(t)' = ElimCallOf(t) /\ ElimCallOf(w)' = ElimCallOf(w)
        BY <2>12, <2>13, <2>14, <3>2 DEF ElimCallOf
      <4>2. \A u \in Threads : ElimCallOf(u)' = ElimCallOf(u)
        BY <2>11, <4>1
      <4>. QED
        BY <1>0, <3>1, <4>2, ElimNothingNew
    <3>3. CASE loc[t].y # NoVal /\ loc[w].y = NoVal
      <4>1. /\ ElimCallOf(t) = [op |-> "add", val |-> loc[t].y]
            /\ ElimCallOf(w) = [op |-> "rmv", val |-> NoVal]
            /\ ElimCallOf(t)' = [op |-> "did", val |-> NoVal]
            /\ ElimCallOf(w)' = [op |-> "did", val |-> loc[t].y]
        BY <2>12, <2>13, <2>14, <3>3 DEF ElimCallOf
      <4>. QED
        BY <1>0, <2>11, <3>1, <4>1, ElimPair
    <3>4. CASE loc[t].y = NoVal /\ loc[w].y # NoVal
      <4>1. /\ ElimCallOf(w) = [op |-> "add", val |-> loc[w].y]
            /\ ElimCallOf(t) = [op |-> "rmv", val |-> NoVal]
            /\ ElimCallOf(w)' = [op |-> "did", val |-> NoVal]
            /\ ElimCallOf(t)' = [op |-> "did", val |-> loc[w].y]
        BY <2>12, <2>13, <2>14, <3>4 DEF ElimCallOf
      <4>2. \A u \in Threads \ {w, t} : ElimCallOf(u)' = ElimCallOf(u)
        BY <2>11
      <4>. QED
        BY <1>0, <3>1, <4>1, <4>2, ElimPair
    <3>. QED
      BY <3>2, <3>3, <3>4
  <2>. QED
    BY <2>11, <2>15, <2>16, <2>17 DEF ElimStackInv, ElimAt
<1>. QED
  BY <1>2, <1>3, <1>4

\* A thread empties the slot: it withdraws its offer, or has met another.
LEMMA ElimLeaves ==
  ASSUME NEW q \in Seq(Nat), ElimAt(q), NEW t \in Threads,
         \/ Exchanger!Withdraw(t) /\ mem.slot = loc[t].sr
         \/ Exchanger!RemoveB(t)
  PROVE  ElimStackInv'
<1>0. ElimTyped /\ ElimSlot /\ ElimHeap(q) /\ ElimExplained(q)
  BY DEF ElimAt
<1>. PICK place : place = IF pc[t] = "withdraw" THEN Exchanger!Again(t) ELSE "read_item"
  OBVIOUS
<1>1. /\ pc[t] \in {"withdraw", "removeB"}
      /\ Exchanger!Step(t, place, [mem EXCEPT !.slot = Exchanger!EmptySlot], loc[t])
  BY DEF Exchanger!Withdraw, Exchanger!RemoveB
<1>2. /\ pc[t] = "withdraw" => mem.slot = loc[t].sr /\ loc[t].sr.stamp = "WAITING"
      /\ pc[t] = "removeB" => mem.slot.stamp = "BUSY" /\ loc[t].sr = mem.slot
                              /\ mem.slot.ptr \in DOMAIN mem.item
  BY <1>0 DEF Exchanger!Withdraw, Exchanger!RemoveB, ElimSlot, ReadsSlot
<1>3. /\ mem' = [mem EXCEPT !.slot = Exchanger!EmptySlot] /\ Moves(t, place, loc[t])
      /\ UNCHANGED <<prog, added, explanations>>
  BY <1>1, ElimStepIs DEF Exchanger!Step
<1>4. Exchanger!EmptySlot \in Slots
  BY DEF Exchanger!EmptySlot, Exchanger!Slot, Slots
<1>5. /\ ElimMemory(mem') /\ mem'.slot = Exchanger!EmptySlot /\ mem'.item = mem.item
      /\ mem'.top = mem.top /\ mem'.next = mem.next /\ mem'.value = mem.value
      /\ mem'.deleted = mem.deleted
  BY <1>0, <1>3, <1>4 DEF ElimTyped, ElimMemory
<1>6. /\ place \in {"push_top", "pop_top", "read_item"} /\ place \in ElimPlaces
      /\ place \notin Waiting /\ pc[t] \in Waiting /\ IsElimLocals(loc[t])
      /\ place = "read_item" <=> pc[t] = "removeB"
      /\ place = "push_top" => loc[t].n # Null
      /\ place = "pop_top" => loc[t].n = Null
  <2>1. /\ place \in {"push_top", "pop_top", "read_item"}
        /\ place = "read_item" <=> pc[t] = "removeB"
        /\ place = "push_top" => loc[t].n # Null
        /\ place = "pop_top" => loc[t].n = Null
    BY <1>1, AgainIs
  <2>2. place \in ElimPlaces /\ place \notin Waiting /\ pc[t] \in Waiting
    BY <1>1, <2>1 DEF ElimPlaces, Waiting, Pushing, Popping
  <2>3. IsElimLocals(loc[t])
    BY <1>0, <1>1 DEF ElimTyped
  <2>. QED
    BY <2>1, <2>2, <2>3
<1>7. /\ pc'[t] = place /\ loc'[t] = loc[t]
      /\ \A u \in Threads \ {t} : pc'[u] = pc[u] /\ loc'[u] = loc[u]
  BY <1>0, <1>3, <1>6, ElimMovesIs
<1>8. ReadsSlot(t)'
  BY <1>2, <1>5, <1>6, <1>7 DEF ReadsSlot, Answering
<1>9. ItemsKept
  BY <1>5, ItemsSame
<1>10. ElimSlot' /\ \A u \in Threads \ {t} : ElimCallOf(u)' = ElimCallOf(u)
  BY <1>0, <1>5, <1>6, <1>7, <1>8, <1>9, ElimSlotEmptied
<1>11. ElimCallOf(t)' = ElimCallOf(t)
  <2>1. (Met(t)' <=> Met(t)) /\ (Met(t) => OtherOf(t)' = OtherOf(t))
    BY <1>1, <1>2, <1>5, <1>6, <1>7 DEF Met, OtherOf, Waiting, Answering
  <2>2. pc[t] # "idle" /\ pc'[t] # "idle"
    BY <1>1, <1>6, <1>7
  <2>. QED
    BY <1>7, <2>1, <2>2 DEF ElimCallOf
<1>12. ElimTyped'
  <2>1. ClientTypeOK' /\ explanations' \in SUBSET AllExplanations
    BY <1>0, <1>3 DEF ElimTyped, ClientTypeOK
  <2>. QED
    BY <1>0, <1>3, <1>5, <1>6, <2>1, ElimTypedStep
<1>13. ElimHeap(q)'
  <2>1. ReadsStack(t)'
    BY <1>6, <1>7 DEF ReadsStack, Pushing, Popping
  <2>2. /\ \A n \in 1 .. Len(mem.next) : Owns(t, n)' <=> Owns(t, n)
        /\ \A n \in 1 .. Len(mem.next) : Owns(t, n)' => loc'[t].y = loc[t].y
        /\ pc'[t] # "idle" => loc'[t].n \in 1 .. Len(mem.next) \cup {Null}
    BY <1>0, <1>1, <1>6, <1>7 DEF Owns, ElimHeap, Private
  <2>. QED
    BY <1>0, <1>5, <1>7, <2>1, <2>2, ElimHeapKept
<1>14. ElimExplained(q)'
  <2>1. ValuesAlong(mem.value, q)' = ValuesAlong(mem.value, q)
    BY <1>5
  <2>2. \A u \in Threads : ElimCallOf(u)' = ElimCallOf(u)
    BY <1>10, <1>11
  <2>. QED
    BY <1>0, <1>3, <2>1, <2>2, ElimNothingNew
<1>. QED
  BY <1>10, <1>12, <1>13, <1>14 DEF ElimStackInv, ElimAt

\* Only items are deleted.
SameButItems(m) ==
  /\ ElimMemory(m) /\ m.slot = mem.slot /\ m.item = mem.item
  /\ m.top = mem.top /\ m.next = mem.next /\ m.value = mem.value /\ m.deleted = mem.deleted

LEMMA ItemsDeleted ==
  ASSUME ElimMemory(mem), NEW d
  PROVE  SameButItems([mem EXCEPT !.deletedItems = d])
<1>. PICK m : m = [mem EXCEPT !.deletedItems = d]
  OBVIOUS
<1>1. /\ m.slot = mem.slot /\ m.item = mem.item /\ m.adt = mem.adt
      /\ m.top = mem.top /\ m.next = mem.next /\ m.value = mem.value /\ m.deleted = mem.deleted
      /\ m = [adt |-> m.adt, top |-> m.top, value |-> m.value, next |-> m.next,
              deleted |-> m.deleted, slot |-> m.slot, item |-> m.item,
              deletedItems |-> m.deletedItems]
  BY DEF ElimMemory
<1>. QED
  BY <1>1 DEF SameButItems, ElimMemory

LEMMA NodeDeleted ==
  ASSUME NEW deleted, NEW n, NEW next
  PROVE  DOMAIN Exchanger!Delete(deleted, n, next) = DOMAIN deleted \cup {n}
<1>1. Exchanger!Delete(deleted, n, next) = Delete(deleted, n, next)
  BY ElimHeapIs
<1>. QED
  BY <1>1 DEF Delete, With

LEMMA ElimDeletesItem ==
  ASSUME NEW q \in Seq(Nat), ElimAt(q), NEW t \in Threads, Exchanger!DeleteItem(t)
  PROVE  ElimStackInv'
<1>0. ElimTyped /\ ElimSlot
  BY DEF ElimAt
<1>1. /\ pc[t] = "delete_item" /\ SameButItems(mem') /\ Moves(t, "take_item", loc[t])
      /\ UNCHANGED <<prog, added, explanations>>
  <2>1. ElimMemory(mem)
    BY <1>0 DEF ElimTyped
  <2>. QED
    BY <2>1, ItemsDeleted, ElimStepIs DEF Exchanger!DeleteItem, Exchanger!Step
<1>2. ReadsSlot(t) /\ IsElimLocals(loc[t])
  BY <1>0, <1>1 DEF ElimSlot, ElimTyped
<1>3. "take_item" \in ElimPlaces /\ "take_item" \notin Waiting /\ pc[t] \notin Waiting
  BY <1>1 DEF ElimPlaces, Answering, Waiting
<1>4. pc'[t] = "take_item" /\ loc'[t] = loc[t]
  BY <1>0, <1>1, <1>3, ElimMovesIs
<1>5. mem'.slot = mem.slot /\ mem'.item = mem.item /\ ItemsKept
  BY <1>1, ItemsSame DEF SameButItems
<1>6. ReadsSlot(t)'
  BY <1>1, <1>2, <1>4, <1>5 DEF ReadsSlot, Answering
<1>7. ElimCallOf(t)' = ElimCallOf(t)
  BY <1>1, <1>4, <1>5 DEF ElimCallOf, Met, OtherOf, Answering
<1>. QED
  BY <1>1, <1>2, <1>3, <1>5, <1>6, <1>7, ElimExchangerQuiet DEF SameButItems

\* A push or a pop that has met another returns, if that was one of the other
\* kind, and starts again if not.
LEMMA ElimExchanged ==
  ASSUME IsFiniteSet(Threads), NEW q \in Seq(Nat), ElimAt(q), NEW t \in Threads,
         pc[t] \in {"read_item", "take_item"}, NEW m, SameButItems(m),
         Exchanger!Exchanged(t, m, OtherOf(t), {})
  PROVE  ElimStackInv'
<1>0. ElimTyped /\ ElimSlot /\ ElimHeap(q) /\ ElimExplained(q)
  BY DEF ElimAt
<1>1. IsElimLocals(loc[t]) /\ Met(t) /\ pc[t] # "idle" /\ pc[t] \notin Waiting
      /\ (loc[t].n = Null <=> loc[t].y = NoVal)
  BY <1>0 DEF ElimTyped, IsElimLocals, Met, Answering, Waiting
<1>. PICK r : r = OtherOf(t)
  OBVIOUS
<1>2. CASE loc[t].n = Null <=> r = NoVal
  <2>. PICK place : place = Exchanger!Again(t)
    OBVIOUS
  <2>1. mem' = m /\ Moves(t, place, loc[t]) /\ UNCHANGED <<prog, added, explanations>>
    <3>1. Exchanger!FlawedStep(t, place, m, loc[t], {})
      BY <1>2 DEF Exchanger!Exchanged
    <3>. QED
      BY <3>1, ElimStepIs
  <2>2. place \in {"push_top", "pop_top"}
    BY AgainIs
  <2>3. place \in ElimPlaces /\ place \notin Waiting
        /\ place \notin {"idle", "push_cas", "pop_next", "pop_cas"}
    BY <2>2 DEF ElimPlaces, Waiting, Pushing, Popping
  <2>4. pc'[t] = place /\ loc'[t] = loc[t]
    BY <1>0, <2>1, <2>3, ElimMovesIs
  <2>5. ReadsSlot(t)' /\ ~Met(t)'
    BY <2>2, <2>4 DEF ReadsSlot, Met, Waiting, Answering
  <2>6. ElimCallOf(t)' = ElimCallOf(t)
    BY <1>1, <1>2, <2>3, <2>4, <2>5 DEF ElimCallOf
  <2>7. ItemsKept
    BY <2>1, ItemsSame DEF SameButItems
  <2>. QED
    BY <1>1, <2>1, <2>3, <2>5, <2>6, <2>7, ElimExchangerQuiet DEF SameButItems
<1>3. CASE ~(loc[t].n = Null <=> r = NoVal)
  <2>1. ElimCallOf(t) = [op |-> "did", val |-> r]
    BY <1>1, <1>3 DEF ElimCallOf
  <2>2. ASSUME NEW d, mem' = d, ElimMemory(d), d.item = mem.item, d.slot = mem.slot,
               d.value = mem.value, Moves(t, "idle", NoLocals),
               explanations' = Object!AfterReturn(mem.adt, explanations, t, r),
               UNCHANGED <<prog, added>>, ElimHeap(q)'
        PROVE  ElimStackInv'
    <3>1. "idle" \in ElimPlaces /\ "idle" \notin Waiting
      BY DEF ElimPlaces, Waiting
    <3>2. /\ pc'[t] = "idle" /\ \A u \in Threads \ {t} : pc'[u] = pc[u] /\ loc'[u] = loc[u]
      BY <1>0, <2>2, <3>1, ElimMovesIs
    <3>3. ReadsSlot(t)' /\ ElimCallOf(t)' = NotCalled
      BY <3>2 DEF ReadsSlot, Answering, ElimCallOf
    <3>4. ItemsKept /\ pc'[t] \notin Waiting
      BY <2>2, <3>1, <3>2, ItemsSame
    <3>5. ElimSlot' /\ \A u \in Threads \ {t} : ElimCallOf(u)' = ElimCallOf(u)
      BY <1>0, <1>1, <2>2, <3>2, <3>3, <3>4, ElimSlotKept
    <3>6. mem.adt = "stack" /\ ValuesAlong(mem.value, q)' = ValuesAlong(mem.value, q)
      BY <1>0, <2>2 DEF ElimTyped, ElimMemory
    <3>7. explanations' \in SUBSET AllExplanations /\ ElimExplained(q)'
      BY <1>0, <2>1, <2>2, <3>3, <3>5, <3>6, ElimReturned
    <3>8. ElimTyped'
      <4>1. ClientTypeOK'
        BY <1>0, <2>2 DEF ElimTyped, ClientTypeOK
      <4>. QED
        BY <1>0, <2>2, <3>1, <3>7, <4>1, ElimTypedStep
    <3>. QED
      BY <2>2, <3>5, <3>7, <3>8 DEF ElimStackInv, ElimAt
  <2>3. ASSUME Moves(t, "idle", NoLocals)
        PROVE  /\ pc'[t] = "idle" /\ \A n : ~Owns(t, n)'
               /\ \A u \in Threads \ {t} : pc'[u] = pc[u] /\ loc'[u] = loc[u]
               /\ ReadsStack(t)'
    <3>1. "idle" \in ElimPlaces
      BY DEF ElimPlaces
    <3>2. pc'[t] = "idle" /\ \A u \in Threads \ {t} : pc'[u] = pc[u] /\ loc'[u] = loc[u]
      BY <1>0, <2>3, <3>1, ElimMovesIs
    <3>. QED
      BY <3>2 DEF Owns, ReadsStack, Pushing, Popping
  <2>4. CASE loc[t].n = Null
    <3>1. Exchanger!FlawedReturn(t, m, r, {})
      BY <1>3, <2>4 DEF Exchanger!Exchanged
    <3>2. /\ mem' = m /\ Moves(t, "idle", NoLocals) /\ UNCHANGED <<prog, added>>
          /\ explanations' = Object!AfterReturn(mem.adt, explanations, t, r)
      BY <3>1, ElimReturnIs
    <3>3. \A n \in 1 .. Len(mem.next) : ~Owns(t, n)
      BY <2>4, PointersAssumption DEF Owns
    <3>4. ElimHeap(q)'
      BY <1>0, <2>3, <3>2, <3>3, ElimHeapKept DEF SameButItems
    <3>. QED
      BY <2>2, <3>2, <3>4 DEF SameButItems
  <2>5. CASE loc[t].n # Null
    <3>. PICK n : n = loc[t].n
      OBVIOUS
    <3>. PICK d : d = Exchanger!Delete(mem.deleted, n, mem.next)
      OBVIOUS
    <3>. PICK e : e = [m EXCEPT !.deleted = d]
      OBVIOUS
    <3>1. Exchanger!FlawedReturn(t, e, NoVal, {}) /\ r = NoVal
      BY <1>3, <2>5 DEF Exchanger!Exchanged, SameButItems
    <3>2. /\ mem' = e /\ Moves(t, "idle", NoLocals) /\ UNCHANGED <<prog, added>>
          /\ explanations' = Object!AfterReturn(mem.adt, explanations, t, r)
      BY <3>1, ElimReturnIs
    <3>3. n \in 1 .. Len(mem.next) /\ Owns(t, n) /\ OwnNode(t, q, n)
      BY <1>0, <1>1, <2>5 DEF ElimHeap, Private, Owns
    <3>4. DOMAIN d = DOMAIN mem.deleted \cup {n}
      BY NodeDeleted
    <3>5. /\ ElimMemory(e) /\ e.item = mem.item /\ e.slot = mem.slot /\ e.value = mem.value
          /\ e.top = mem.top /\ e.next = mem.next /\ e.deleted = d
      BY DEF SameButItems, ElimMemory
    <3>6. Stacked(q)'
      <4>1. \A i \in 1 .. Len(q) : q[i] # n
        BY <3>3 DEF OwnNode, OnStack
      <4>. QED
        BY <1>0, <3>2, <3>3, <3>4, <3>5, <4>1 DEF ElimHeap, Stacked
    <3>7. \A k \in 1 .. Len(mem.next) : Owns(t, k) <=> k = n
      BY <1>1 DEF Owns
    <3>8. mem'.next = mem.next /\ mem'.value = mem.value /\ DOMAIN mem'.deleted = DOMAIN mem.deleted \cup {n}
      BY <3>2, <3>4, <3>5
    <3>9. ElimHeap(q)'
      BY <1>0, <2>3, <3>2, <3>6, <3>7, <3>8, ElimHeapStep
    <3>. QED
      BY <2>2, <3>2, <3>5, <3>9
  <2>. QED
    BY <2>4, <2>5
<1>. QED
  BY <1>2, <1>3

LEMMA ElimTakesItem ==
  ASSUME IsFiniteSet(Threads), NEW q \in Seq(Nat), ElimAt(q), flaws' = {}, NEW t \in Threads,
         Exchanger!ReadItem(t) \/ Exchanger!TakeItem(t)
  PROVE  ElimStackInv'
<1>0. ElimMemory(mem)
  BY DEF ElimAt, ElimTyped
<1>1. CASE Exchanger!ReadItem(t)
  <2>1. pc[t] = "read_item" /\ OtherOf(t) = mem.item[loc[t].sr.ptr]
    BY <1>1 DEF Exchanger!ReadItem, OtherOf
  <2>2. SameButItems(mem)
    BY <1>0 DEF SameButItems
  <2>3. CASE ~Exchanger!Has(mem.deletedItems, loc[t].sr.ptr)
    <3>1. Exchanger!Exchanged(t, mem, OtherOf(t), {})
      BY <1>1, <2>1, <2>3 DEF Exchanger!ReadItem
    <3>. QED
      BY <2>1, <2>2, <3>1, ElimExchanged
  <2>4. CASE Exchanger!Has(mem.deletedItems, loc[t].sr.ptr)
    <3>1. PICK r : Exchanger!Exchanged(t, mem, r, {"item read after delete"})
      BY <1>1, <2>4 DEF Exchanger!ReadItem
    <3>2. flaws' = flaws \cup {"item read after delete"}
      BY <3>1, ElimReturnIs, ElimStepIs DEF Exchanger!Exchanged
    <3>. QED
      BY <3>2
  <2>. QED
    BY <2>3, <2>4
<1>2. CASE Exchanger!TakeItem(t)
  <2>1. pc[t] = "take_item" /\ OtherOf(t) = mem.item[loc[t].x.ptr]
    BY <1>2 DEF Exchanger!TakeItem, OtherOf, Answering
  <2>. PICK d : d = Exchanger!Delete(mem.deletedItems, loc[t].x.ptr, mem.item)
    OBVIOUS
  <2>. PICK m : m = [mem EXCEPT !.deletedItems = d]
    OBVIOUS
  <2>2. Exchanger!Exchanged(t, m, OtherOf(t), {}) /\ SameButItems(m)
    BY <1>0, <1>2, <2>1, ItemsDeleted DEF Exchanger!TakeItem
  <2>. QED
    BY <2>1, <2>2, ElimExchanged
<1>. QED
  BY <1>1, <1>2

----------------------------------------------------------------------------
(* Calls. *)

LEMMA ClientsCall ==
  ASSUME ClientTypeOK, NEW t \in Threads, ClientAdd(t) \/ ClientRmv(t)
  PROVE  /\ ClientTypeOK'
         /\ ClientAdd(t) => NextValue(t) \in Items /\ NextValue(t) # NoVal
<1>1. /\ prog \in [Threads -> Seq({1, -1})] /\ added \in [Threads -> Nat]
      /\ \A u \in Threads : added[u] + Len(prog[u]) <= NumOps
      /\ prog[t] # <<>>
  BY DEF ClientTypeOK, ClientAdd, ClientRmv
<1>. PICK s : s = prog[t]
  OBVIOUS
<1>2. /\ s \in Seq({1, -1}) /\ Len(s) \in Nat /\ Len(s) > 0
      /\ Tail(s) \in Seq({1, -1}) /\ Len(Tail(s)) = Len(s) - 1
  BY <1>1
<1>3. prog' = [prog EXCEPT ![t] = Tail(s)] /\ added' \in [Threads -> Nat]
      /\ added'[t] \in {added[t], added[t] + 1}
      /\ \A u \in Threads \ {t} : added'[u] = added[u]
  <2>1. CASE ClientAdd(t)
    <3>1. prog' = [prog EXCEPT ![t] = Tail(s)] /\ added' = [added EXCEPT ![t] = added[t] + 1]
      BY <2>1 DEF ClientAdd
    <3>2. added[t] + 1 \in Nat
      BY <1>1
    <3>. QED
      BY ONLY <1>1, <3>1, <3>2, t \in Threads
  <2>2. CASE ClientRmv(t)
    BY <1>1, <2>2 DEF ClientRmv
  <2>. QED
    BY <2>1, <2>2
<1>4. ASSUME NEW u \in Threads
      PROVE  prog'[u] \in Seq({1, -1}) /\ added'[u] + Len(prog'[u]) <= NumOps
  <2>1. CASE u = t
    <3>1. prog'[t] = Tail(s)
      BY <1>1, <1>3
    <3>2. added[t] \in Nat /\ added[t] + Len(s) <= NumOps
      BY <1>1
    <3>. PICK a \in Nat : a = added[t]
      BY <3>2
    <3>. PICK b \in Nat : b = added'[t]
      BY <1>3
    <3>3. b \in {a, a + 1} /\ a + Len(s) <= NumOps
      BY <1>3, <3>2
    <3>4. b + Len(Tail(s)) <= NumOps
      BY ONLY <1>2, <3>3, a \in Nat, b \in Nat, NumOpsAssumption
    <3>. QED
      BY <1>2, <2>1, <3>1, <3>4
  <2>2. CASE u # t
    <3>1. prog'[u] = prog[u] /\ added'[u] = added[u]
      BY <1>1, <1>3, <2>2
    <3>. QED
      BY <1>1, <3>1
  <2>. QED
    BY <2>1, <2>2
<1>5. prog' \in [Threads -> Seq({1, -1})]
  BY <1>1, <1>2, <1>3
<1>6. NextValue(t) \in Items /\ NextValue(t) \in Values
  <2>1. added[t] \in Nat /\ added[t] + Len(s) <= NumOps
    BY <1>1
  <2>2. added[t] \in 0 .. NumOps - 1
    BY <1>2, <2>1, NumOpsAssumption
  <2>. QED
    BY <2>1, <2>2 DEF NextValue, Items, Values
<1>. QED
  BY <1>3, <1>4, <1>5, <1>6, NoValAssumption DEF ClientTypeOK

\* What a call changes besides the nodes.
LEMMA ElimCalls ==
  ASSUME IsFiniteSet(Threads), NEW q \in Seq(Nat), ElimAt(q), NEW t \in Threads, pc[t] = "idle",
         ClientTypeOK', NEW l, IsElimLocals(l), l.y # NoVal => l.y \in Items,
         NEW place \in {"push_top", "pop_top"}, Moves(t, place, l),
         ElimMemory(mem'), mem'.slot = mem.slot, mem'.item = mem.item,
         explanations' = Object!AfterCall(explanations, t,
                           IF l.y = NoVal THEN "rmv" ELSE "add", l.y),
         ElimHeap(q)', ValuesAlong(mem.value, q)' = ValuesAlong(mem.value, q)
  PROVE  ElimStackInv'
<1>0. ElimTyped /\ ElimSlot /\ ElimHeap(q) /\ ElimExplained(q)
  BY DEF ElimAt
<1>1. place \in ElimPlaces /\ place \notin Waiting /\ place # "idle" /\ "idle" \notin Waiting
  BY DEF ElimPlaces, Pushing, Popping, Waiting
<1>2. /\ pc'[t] = place /\ loc'[t] = l
      /\ \A u \in Threads \ {t} : pc'[u] = pc[u] /\ loc'[u] = loc[u]
  BY <1>0, <1>1, ElimMovesIs
<1>3. ReadsSlot(t)' /\ ItemsKept
  BY <1>2, ItemsSame DEF ReadsSlot, Answering
<1>4. ElimSlot' /\ \A u \in Threads \ {t} : ElimCallOf(u)' = ElimCallOf(u)
  BY <1>0, <1>1, <1>2, <1>3, ElimSlotKept
<1>. PICK op : op = IF l.y = NoVal THEN "rmv" ELSE "add"
  OBVIOUS
<1>5. ElimCallOf(t)' = [op |-> op, val |-> l.y]
  <2>1. ~Met(t)'
    BY <1>1, <1>2 DEF Met, Answering
  <2>. QED
    BY <1>1, <1>2, <2>1 DEF ElimCallOf
<1>6. explanations' \in SUBSET AllExplanations /\ ElimExplained(q)'
  <2>1. op \in {"add", "rmv"} /\ l.y \in Items
    BY DEF Items
  <2>. QED
    BY <1>0, <1>4, <1>5, <2>1, ElimCalled
<1>7. ElimTyped'
  BY <1>0, <1>1, <1>6, ElimTypedStep
<1>. QED
  BY <1>4, <1>6, <1>7 DEF ElimStackInv, ElimAt

LEMMA ElimLocalsOf ==
  ASSUME NEW n \in Nat \cup {Null}, NEW y \in Items, n = Null <=> y = NoVal
  PROVE  LET l == Exchanger!Locals(n, y) IN IsElimLocals(l) /\ l.n = n /\ l.y = y
BY DEF Exchanger!Locals, Exchanger!EmptySlot, Exchanger!Slot, IsElimLocals, ElimLocals, Pointers, Slots

LEMMA CallPopStep ==
  ASSUME IsFiniteSet(Threads), NEW q \in Seq(Nat), ElimAt(q), NEW t \in Threads, Exchanger!CallPop(t)
  PROVE  ElimStackInv'
<1>0. ElimTyped /\ ElimHeap(q) /\ ElimMemory(mem) /\ ClientTypeOK
  BY DEF ElimAt, ElimTyped
<1>. PICK l : l = Exchanger!Locals(Null, NoVal)
  OBVIOUS
<1>1. Exchanger!CallRmv(t, "pop_top", mem, l)
  BY DEF Exchanger!CallPop
<1>2. /\ pc[t] = "idle" /\ mem' = mem /\ Moves(t, "pop_top", l) /\ ClientRmv(t)
      /\ explanations' = Object!AfterCall(explanations, t, "rmv", NoVal)
  BY <1>1, ElimCallIs
<1>3. IsElimLocals(l) /\ l.n = Null /\ l.y = NoVal
  BY ElimLocalsOf DEF Items
<1>4. ClientTypeOK'
  BY <1>0, <1>2, ClientsCall
<1>5. "pop_top" \in ElimPlaces
  BY DEF ElimPlaces, Popping
<1>6. /\ pc'[t] = "pop_top" /\ loc'[t] = l
      /\ \A u \in Threads \ {t} : pc'[u] = pc[u] /\ loc'[u] = loc[u]
  BY <1>0, <1>2, <1>5, ElimMovesIs
<1>7. ElimHeap(q)'
  <2>1. \A n \in 1 .. Len(mem.next) : ~Owns(t, n) /\ ~Owns(t, n)'
    BY <1>2, <1>3, <1>6, PointersAssumption DEF Owns
  <2>2. ReadsStack(t)'
    BY <1>3, <1>6 DEF ReadsStack, Pushing
  <2>. QED
    BY <1>0, <1>2, <1>3, <1>6, <2>1, <2>2, ElimHeapKept
<1>8. ValuesAlong(mem.value, q)' = ValuesAlong(mem.value, q)
  BY <1>2
<1>. QED
  BY <1>0, <1>2, <1>3, <1>4, <1>7, <1>8, ElimCalls

LEMMA CallPushStep ==
  ASSUME IsFiniteSet(Threads), NEW q \in Seq(Nat), ElimAt(q), NEW t \in Threads, Exchanger!CallPush(t)
  PROVE  ElimStackInv'
<1>0. ElimTyped /\ ElimHeap(q) /\ Stacked(q) /\ ElimMemory(mem) /\ ClientTypeOK
  BY DEF ElimAt, ElimTyped, ElimHeap
<1>. PICK N \in Nat : N = Len(mem.next) /\ DOMAIN mem.next = 1 .. N
  BY <1>0 DEF ElimMemory
<1>. PICK n : n = N + 1
  OBVIOUS
<1>. PICK v : v = NextValue(t)
  OBVIOUS
<1>. PICK l : l = Exchanger!Locals(n, v)
  OBVIOUS
<1>. PICK m : m = [mem EXCEPT !.value = Append(@, v), !.next = Append(@, Null)]
  OBVIOUS
<1>1. Exchanger!CallAdd(t, "push_top", m, l)
  <2>1. Exchanger!Fresh(mem.next) = n
    BY HeapFacts, ElimHeapIs
  <2>2. Exchanger!NextValue(t) = v
    BY DEF Exchanger!NextValue, NextValue
  <2>. QED
    BY <2>1, <2>2 DEF Exchanger!CallPush
<1>2. /\ pc[t] = "idle" /\ mem' = m /\ Moves(t, "push_top", l) /\ ClientAdd(t)
      /\ explanations' = Object!AfterCall(explanations, t, "add", v)
  BY <1>1, ElimCallIs
<1>3. ClientTypeOK' /\ v \in Items /\ v # NoVal
  BY <1>0, <1>2, ClientsCall
<1>4. IsElimLocals(l) /\ l.n = n /\ l.y = v /\ n # Null /\ n \in Nat
  <2>1. n \in Nat /\ n # Null
    BY PointersAssumption
  <2>2. n \in Nat \cup {Null} /\ (n = Null <=> v = NoVal)
    BY <1>3, <2>1
  <2>. QED
    BY <1>3, <2>1, <2>2, ElimLocalsOf
<1>5. "push_top" \in ElimPlaces
  BY DEF ElimPlaces, Pushing
<1>6. /\ pc'[t] = "push_top" /\ loc'[t] = l
      /\ \A u \in Threads \ {t} : pc'[u] = pc[u] /\ loc'[u] = loc[u]
  BY <1>0, <1>2, <1>5, ElimMovesIs
<1>. PICK next : next = Append(mem.next, Null)
  OBVIOUS
<1>. PICK value : value = Append(mem.value, v)
  OBVIOUS
<1>7. /\ next \in Seq(Nat \cup {Null}) /\ Len(next) = n /\ value \in Seq(Items) /\ Len(value) = n
      /\ value[n] = v
      /\ \A i \in 1 .. N : next[i] = mem.next[i] /\ value[i] = mem.value[i]
  BY <1>0, <1>3 DEF ElimMemory
<1>8. /\ m.next = next /\ m.value = value /\ m.top = mem.top /\ m.deleted = mem.deleted
      /\ m.slot = mem.slot /\ m.item = mem.item /\ ElimMemory(m)
  BY <1>0, <1>7 DEF ElimMemory
<1>9. \A i \in 1 .. Len(q) : q[i] \in 1 .. N
  BY <1>0 DEF Stacked
<1>10. \A i \in 1 .. N : i \in 1 .. n /\ i # n
  OBVIOUS
<1>11. ElimHeap(q)'
  <2>1. Stacked(q)'
    BY <1>0, <1>2, <1>7, <1>8, <1>9, <1>10 DEF Stacked
  <2>2. \A k : Owns(t, k)' <=> k = n
    BY <1>4, <1>6 DEF Owns
  <2>3. OwnNode(t, q, n)'
    <3>1. n \notin DOMAIN mem.deleted
      BY <1>0, <1>10 DEF Stacked
    <3>2. ~OnStack(q, n)
      BY <1>9, <1>10 DEF OnStack
    <3>. QED
      BY <1>2, <1>4, <1>6, <1>7, <1>8, <3>1, <3>2 DEF OwnNode, OnStack
  <2>4. ReadsStack(t)'
    BY <1>4, <1>6 DEF ReadsStack, Popping
  <2>5. \A k : ~Owns(t, k)
    BY <1>2 DEF Owns
  <2>6. /\ Len(mem'.next) = n /\ mem'.deleted = mem.deleted
        /\ \A i \in 1 .. N : mem'.next[i] = mem.next[i] /\ mem'.value[i] = mem.value[i]
        /\ \A i \in 1 .. n : i \notin 1 .. N => i = n
        /\ loc'[t].n \in 1 .. n
    BY <1>2, <1>4, <1>6, <1>7, <1>8
  <2>. QED
    BY <1>0, <1>6, <1>10, <2>1, <2>2, <2>3, <2>4, <2>5, <2>6, ElimHeapStep
<1>12. ValuesAlong(mem.value, q)' = ValuesAlong(mem.value, q)
  BY <1>2, <1>7, <1>8, <1>9 DEF ValuesAlong
<1>. QED
  BY <1>2, <1>3, <1>4, <1>8, <1>11, <1>12, ElimCalls

----------------------------------------------------------------------------
(* The exchanges of top. *)

LEMMA ValuesAlongType ==
  ASSUME NEW q \in Seq(Nat), NEW value, \A i \in 1 .. Len(q) : value[q[i]] \in Items
  PROVE  /\ ValuesAlong(value, q) \in Seq(Items) /\ Len(ValuesAlong(value, q)) = Len(q)
         /\ \A i \in 1 .. Len(q) : ValuesAlong(value, q)[i] = value[q[i]]
BY DEF ValuesAlong

LEMMA PutOnTop ==
  ASSUME NEW S, NEW q \in Seq(S), NEW n \in S
  PROVE  /\ <<n>> \o q \in Seq(S) /\ Len(<<n>> \o q) = Len(q) + 1 /\ (<<n>> \o q)[1] = n
         /\ \A i \in 1 .. Len(q) : (<<n>> \o q)[i + 1] = q[i]
<1>1. <<n>> \in Seq(S) /\ Len(<<n>>) = 1 /\ <<n>>[1] = n
  OBVIOUS
<1>. QED
  BY <1>1

LEMMA FirstOrLater ==
  ASSUME NEW N \in Nat, NEW i \in 1 .. N + 1
  PROVE  i = 1 \/ \E k \in 1 .. N : i = k + 1
<1>1. CASE i # 1
  <2>1. i - 1 \in 1 .. N /\ i = (i - 1) + 1
    BY <1>1
  <2>. QED
    BY <2>1
<1>. QED
  BY <1>1

LEMMA ValuesPut ==
  ASSUME NEW q \in Seq(Nat), NEW n \in Nat, NEW value, value[n] \in Items,
         \A i \in 1 .. Len(q) : value[q[i]] \in Items
  PROVE  ValuesAlong(value, <<n>> \o q) = <<value[n]>> \o ValuesAlong(value, q)
<1>. PICK p : p = <<n>> \o q
  OBVIOUS
<1>. PICK N \in Nat : N = Len(q)
  OBVIOUS
<1>1. p \in Seq(Nat) /\ Len(p) = N + 1 /\ p[1] = n /\ \A i \in 1 .. N : p[i + 1] = q[i]
  BY PutOnTop
<1>2. \A i \in 1 .. N + 1 : i = 1 \/ \E k \in 1 .. N : i = k + 1
  BY FirstOrLater
<1>. PICK v : v = ValuesAlong(value, q)
  OBVIOUS
<1>3. v \in Seq(Items) /\ Len(v) = N /\ \A i \in 1 .. N : v[i] = value[q[i]]
  BY ValuesAlongType
<1>. PICK u : u = ValuesAlong(value, p)
  OBVIOUS
<1>4. u \in Seq(Items) /\ Len(u) = N + 1 /\ \A i \in 1 .. N + 1 : u[i] = value[p[i]]
  <2>1. \A i \in 1 .. Len(p) : value[p[i]] \in Items
    BY <1>1, <1>2
  <2>2. /\ u \in Seq(Items) /\ Len(u) = Len(p)
        /\ \A i \in 1 .. Len(p) : u[i] = value[p[i]]
    BY <1>1, <2>1, ValuesAlongType
  <2>. QED
    BY <1>1, <2>2
<1>. PICK w : w = <<value[n]>> \o v
  OBVIOUS
<1>5. w \in Seq(Items) /\ Len(w) = N + 1 /\ w[1] = value[n] /\ \A i \in 1 .. N : w[i + 1] = v[i]
  BY <1>3, PutOnTop
<1>6. \A i \in 1 .. N + 1 : u[i] = w[i]
  <2>. TAKE i \in 1 .. N + 1
  <2>1. 1 \in 1 .. N + 1
    OBVIOUS
  <2>2. CASE i = 1
    BY <1>1, <1>4, <1>5, <2>1, <2>2
  <2>3. ASSUME NEW k \in 1 .. N, i = k + 1 PROVE u[i] = w[i]
    <3>1. u[i] = value[p[i]] /\ p[i] = q[k] /\ w[i] = v[k]
      BY <1>1, <1>4, <1>5, <2>3
    <3>2. v[k] = value[q[k]]
      BY <1>3
    <3>. QED
      BY ONLY <3>1, <3>2
  <2>. QED
    BY <1>2, <2>2, <2>3
<1>7. u = w
  BY <1>4, <1>5, <1>6, SeqEqual
<1>. QED
  BY <1>7

LEMMA ValuesTaken ==
  ASSUME NEW q \in Seq(Nat), Len(q) # 0, NEW value, \A i \in 1 .. Len(q) : value[q[i]] \in Items
  PROVE  /\ ValuesAlong(value, q) # <<>> /\ Head(ValuesAlong(value, q)) = value[q[1]]
         /\ ValuesAlong(value, Tail(q)) = Tail(ValuesAlong(value, q))
<1>. PICK N \in Nat : N = Len(q) /\ N # 0
  OBVIOUS
<1>. PICK p : p = Tail(q)
  OBVIOUS
<1>. PICK v : v = ValuesAlong(value, q)
  OBVIOUS
<1>1. v \in Seq(Items) /\ Len(v) = N /\ \A i \in 1 .. N : v[i] = value[q[i]]
  BY ValuesAlongType
<1>2. p \in Seq(Nat) /\ Len(p) = N - 1 /\ \A i \in 1 .. N - 1 : p[i] = q[i + 1]
  OBVIOUS
<1>3. /\ v # <<>> /\ Head(v) = v[1] /\ Tail(v) \in Seq(Items) /\ Len(Tail(v)) = N - 1
      /\ \A i \in 1 .. N - 1 : Tail(v)[i] = v[i + 1]
  BY <1>1
<1>. PICK u : u = ValuesAlong(value, p)
  OBVIOUS
<1>0. \A i \in 1 .. N - 1 : i + 1 \in 1 .. N
  OBVIOUS
<1>4. u \in Seq(Items) /\ Len(u) = N - 1 /\ \A i \in 1 .. N - 1 : u[i] = value[p[i]]
  <2>1. \A i \in 1 .. Len(p) : value[p[i]] \in Items
    BY <1>0, <1>2
  <2>2. /\ u \in Seq(Items) /\ Len(u) = Len(p)
        /\ \A i \in 1 .. Len(p) : u[i] = value[p[i]]
    BY <1>2, <2>1, ValuesAlongType
  <2>. QED
    BY <1>2, <2>2
<1>5. u = Tail(v)
  <2>1. ASSUME NEW i \in 1 .. N - 1
        PROVE  u[i] = Tail(v)[i]
    <3>1. i + 1 \in 1 .. N
      BY <1>0
    <3>2. u[i] = value[p[i]] /\ p[i] = q[i + 1]
      BY <1>2, <1>4
    <3>3. Tail(v)[i] = v[i + 1] /\ v[i + 1] = value[q[i + 1]]
      BY <1>1, <1>3, <3>1
    <3>. QED
      BY ONLY <3>2, <3>3
  <2>. QED
    BY <1>3, <1>4, <2>1, SeqEqual
<1>. QED
  BY <1>1, <1>3, <1>5

\* A call that takes effect and returns.
LEMMA ElimReturns ==
  ASSUME IsFiniteSet(Threads), NEW q \in Seq(Nat), ElimAt(q), NEW q2 \in Seq(Nat), ElimHeap(q2)',
         NEW t \in Threads, pc[t] \in Pushing \cup Popping, Moves(t, "idle", NoLocals),
         ElimMemory(mem'), mem'.slot = mem.slot, mem'.item = mem.item, UNCHANGED <<prog, added>>,
         explanations' = Object!AfterReturn("stack", explanations, t,
                                            AnswerOf(ValuesAlong(mem.value, q), ElimCallOf(t))),
         ValuesAlong(mem.value, q2)' = ObjectAfter("stack", ValuesAlong(mem.value, q), ElimCallOf(t))
  PROVE  ElimStackInv'
<1>0. ElimTyped /\ ElimSlot /\ ElimExplained(q)
  BY DEF ElimAt
<1>1. /\ "idle" \in ElimPlaces /\ "idle" \notin Waiting /\ pc[t] \notin Waiting
      /\ pc[t] # "idle" /\ ~Met(t)
  BY DEF ElimPlaces, Waiting, Pushing, Popping, Met, Answering
<1>2. /\ pc'[t] = "idle"
      /\ \A u \in Threads \ {t} : pc'[u] = pc[u] /\ loc'[u] = loc[u]
  BY <1>0, <1>1, ElimMovesIs
<1>3. ReadsSlot(t)' /\ ItemsKept /\ ElimCallOf(t)' = NotCalled /\ pc'[t] \notin Waiting
  BY <1>1, <1>2, ItemsSame DEF ReadsSlot, Answering, ElimCallOf
<1>4. ElimSlot' /\ \A u \in Threads \ {t} : ElimCallOf(u)' = ElimCallOf(u)
  BY <1>0, <1>1, <1>2, <1>3, ElimSlotKept
<1>5. ElimCallOf(t).op \in {"add", "rmv"}
  BY <1>1 DEF ElimCallOf
<1>6. explanations' \in SUBSET AllExplanations /\ ElimExplained(q2)'
  BY <1>0, <1>3, <1>4, <1>5, ElimEffect
<1>7. ElimTyped'
  <2>1. ClientTypeOK'
    BY <1>0 DEF ElimTyped, ClientTypeOK
  <2>. QED
    BY <1>0, <1>1, <1>6, <2>1, ElimTypedStep
<1>. QED
  BY <1>4, <1>6, <1>7 DEF ElimStackInv, ElimAt

\* The node of a push points to the top that was read.
LEMMA PushTopStep ==
  ASSUME NEW q \in Seq(Nat), ElimAt(q), NEW t \in Threads, Exchanger!PushTop(t)
  PROVE  ElimStackInv'
<1>0. ElimTyped /\ ElimHeap(q) /\ Stacked(q) /\ Private(q) /\ ElimMemory(mem)
  BY DEF ElimAt, ElimTyped, ElimHeap
<1>. PICK n : n = loc[t].n
  OBVIOUS
<1>. PICK l : l = [loc[t] EXCEPT !.m = mem.top]
  OBVIOUS
<1>. PICK next : next = [mem.next EXCEPT ![n] = mem.top]
  OBVIOUS
<1>1. pc[t] = "push_top" /\ Exchanger!Step(t, "push_cas", [mem EXCEPT !.next = next], l)
  BY DEF Exchanger!PushTop
<1>2. /\ mem' = [mem EXCEPT !.next = next] /\ Moves(t, "push_cas", l)
      /\ UNCHANGED <<prog, added, explanations>>
  BY <1>1, ElimStepIs DEF Exchanger!Step
<1>3. n # Null /\ n \in 1 .. Len(mem.next) /\ Owns(t, n) /\ OwnNode(t, q, n)
  <2>1. n # Null
    BY <1>0, <1>1 DEF ElimHeap, ReadsStack, Pushing
  <2>. QED
    BY <1>0, <1>1, <2>1 DEF Private, Owns
<1>4. mem.top \in Nat \cup {Null}
  BY <1>0 DEF Stacked
<1>5. /\ next \in Seq(Nat \cup {Null}) /\ Len(next) = Len(mem.next) /\ next[n] = mem.top
      /\ \A k \in 1 .. Len(mem.next) : k # n => next[k] = mem.next[k]
  BY <1>0, <1>3, <1>4 DEF ElimMemory
<1>6. /\ mem'.next = next /\ mem'.value = mem.value /\ mem'.top = mem.top
      /\ mem'.deleted = mem.deleted /\ mem'.slot = mem.slot /\ mem'.item = mem.item
      /\ ElimMemory(mem')
  BY <1>0, <1>2, <1>5 DEF ElimMemory
<1>7. IsElimLocals(l) /\ l.n = n /\ l.y = loc[t].y /\ l.m = mem.top
  BY <1>0, <1>1, <1>4 DEF ElimTyped, IsElimLocals, ElimLocals, Pointers
<1>8. "push_cas" \in ElimPlaces /\ "push_cas" \notin Waiting /\ pc[t] \notin Waiting
  BY <1>1 DEF ElimPlaces, Pushing, Waiting
<1>9. /\ pc'[t] = "push_cas" /\ loc'[t] = l
      /\ \A u \in Threads \ {t} : pc'[u] = pc[u] /\ loc'[u] = loc[u]
  BY <1>0, <1>2, <1>8, ElimMovesIs
<1>10. ReadsSlot(t)' /\ ~Met(t) /\ ~Met(t)' /\ ItemsKept
  BY <1>1, <1>6, <1>9, ItemsSame DEF ReadsSlot, Met, Answering, Waiting
<1>11. ElimCallOf(t)' = ElimCallOf(t)
  BY <1>1, <1>7, <1>9, <1>10, ElimUnmet
<1>12. \A k : (Owns(t, k)' <=> k = n) /\ (Owns(t, k) <=> k = n)
  BY <1>1, <1>7, <1>9 DEF Owns
<1>13. \A i \in 1 .. Len(q) : q[i] # n
  BY <1>3 DEF OwnNode, OnStack
<1>14. Stacked(q)'
  BY <1>0, <1>5, <1>6, <1>13 DEF Stacked
<1>15. OwnNode(t, q, n)'
  BY <1>3, <1>6, <1>7, <1>9 DEF OwnNode, OnStack
<1>16. ReadsStack(t)'
  BY <1>3, <1>5, <1>6, <1>7, <1>9 DEF ReadsStack, Popping
<1>17. ElimHeap(q)'
  <2>1. \A k \in 1 .. Len(mem.next) :
          /\ k \in 1 .. Len(mem'.next)
          /\ ~Owns(t, k) => mem'.next[k] = mem.next[k] /\ mem'.value[k] = mem.value[k] /\ ~Owns(t, k)'
          /\ Owns(t, k) => Owns(t, k)'
    BY <1>5, <1>6, <1>12
  <2>2. \A k \in 1 .. Len(mem'.next) :
          /\ Owns(t, k)' => OwnNode(t, q, k)'
          /\ k \notin 1 .. Len(mem.next) => Owns(t, k)'
    BY <1>5, <1>6, <1>12, <1>15
  <2>3. loc'[t].n \in 1 .. Len(mem'.next)
    BY <1>3, <1>5, <1>6, <1>7, <1>9
  <2>. QED
    BY <1>0, <1>6, <1>9, <1>14, <1>16, <2>1, <2>2, <2>3, ElimHeapStep
<1>18. ValuesAlong(mem.value, q)' = ValuesAlong(mem.value, q)
  BY <1>6
<1>19. /\ pc[t] # "idle" /\ "push_cas" # "idle" /\ mem'.slot = mem.slot
       /\ "push_cas" \in Waiting <=> pc[t] \in Waiting
  BY <1>1, <1>6, <1>8
<1>20. UNCHANGED <<prog, added, explanations>> /\ Moves(t, "push_cas", l)
  BY <1>2
<1>. QED
  BY <1>6, <1>7, <1>8, <1>10, <1>11, <1>17, <1>18, <1>19, <1>20, ElimQuiet

\* A push takes effect: its node is the top.
LEMMA PushCasStep ==
  ASSUME IsFiniteSet(Threads), NEW q \in Seq(Nat), ElimAt(q), flaws' = {}, NEW t \in Threads,
         Exchanger!PushCas(t), pc'[t] = "idle"
  PROVE  ElimStackInv'
<1>0. /\ ElimTyped /\ ElimHeap(q) /\ Stacked(q) /\ Private(q) /\ ElimMemory(mem)
      /\ ReadsStack(t) /\ IsElimLocals(loc[t]) /\ pc[t] = "push_cas"
  BY DEF ElimAt, ElimTyped, ElimHeap, Exchanger!PushCas
<1>. PICK n : n = loc[t].n
  OBVIOUS
<1>1. PICK same \in Exchanger!Equal(mem.deleted, mem.top, loc[t].m) :
        IF same THEN Exchanger!FlawedReturn(t, [mem EXCEPT !.top = n], NoVal,
                                            Exchanger!Reused(mem.top, loc[t].m))
        ELSE Exchanger!Step(t, "visit", mem, loc[t])
  BY DEF Exchanger!PushCas
<1>2. same
  <2>. SUFFICES ASSUME ~same PROVE FALSE
    OBVIOUS
  <2>1. Moves(t, "visit", loc[t]) /\ "visit" \in ElimPlaces
    BY <1>1, ElimStepIs DEF Exchanger!Step, ElimPlaces
  <2>. QED
    BY <1>0, <2>1, ElimMovesIs
<1>. PICK found : found = Exchanger!Reused(mem.top, loc[t].m)
  OBVIOUS
<1>3. Exchanger!FlawedReturn(t, [mem EXCEPT !.top = n], NoVal, found)
  BY <1>1, <1>2
<1>4. /\ mem' = [mem EXCEPT !.top = n] /\ Moves(t, "idle", NoLocals)
      /\ explanations' = Object!AfterReturn("stack", explanations, t, NoVal)
      /\ flaws' = flaws \cup found
      /\ UNCHANGED <<prog, added>>
  BY <1>0, <1>3, ElimReturnIs DEF ElimMemory
<1>5. loc[t].m = mem.top
  <2>1. Exchanger!Reused(mem.top, loc[t].m) = {}
    BY <1>4
  <2>. QED
    BY <2>1 DEF Exchanger!Reused
<1>6. /\ n # Null /\ n \in 1 .. Len(mem.next) /\ Owns(t, n) /\ OwnNode(t, q, n)
      /\ mem.next[n] = mem.top
  <2>1. n # Null /\ mem.next[n] = mem.top
    BY <1>0, <1>5 DEF ReadsStack, Pushing
  <2>. QED
    BY <1>0, <2>1 DEF Private, Owns
<1>7. /\ ElimMemory(mem') /\ mem'.top = n /\ mem'.next = mem.next /\ mem'.value = mem.value
      /\ mem'.deleted = mem.deleted /\ mem'.slot = mem.slot /\ mem'.item = mem.item
  BY <1>0, <1>4 DEF ElimMemory
<1>8. /\ pc'[t] = "idle" /\ "idle" \notin Popping \cup Pushing
      /\ \A u \in Threads \ {t} : pc'[u] = pc[u] /\ loc'[u] = loc[u]
  <2>1. "idle" \in ElimPlaces
    BY DEF ElimPlaces
  <2>. QED
    BY <1>0, <1>4, <2>1, ElimMovesIs DEF Popping, Pushing
<1>. PICK N \in Nat : N = Len(q)
  OBVIOUS
<1>. PICK q2 : q2 = <<n>> \o q
  OBVIOUS
<1>9. /\ q2 \in Seq(Nat) /\ Len(q2) = N + 1 /\ q2[1] = n
      /\ \A i \in 1 .. N : q2[i + 1] = q[i]
  BY <1>6, PutOnTop
<1>10. \A i \in 1 .. N + 1 : i = 1 \/ \E k \in 1 .. N : i = k + 1
  BY FirstOrLater
<1>11. \A i \in 1 .. N : q[i] # n
  BY <1>6 DEF OwnNode, OnStack
<1>12. Stacked(q2)'
  <2>1. mem'.top = IF Len(q2) = 0 THEN Null ELSE q2[1]
    BY <1>7, <1>9
  <2>2. \A i, j \in 1 .. N + 1 : q2[i] = q2[j] => i = j
    <3>. TAKE i, j \in 1 .. N + 1
    <3>1. CASE i = 1 /\ j # 1
      BY <1>9, <1>10, <1>11, <3>1
    <3>2. CASE j = 1 /\ i # 1
      BY <1>9, <1>10, <1>11, <3>2
    <3>3. CASE i # 1 /\ j # 1
      <4>1. PICK a \in 1 .. N, b \in 1 .. N : i = a + 1 /\ j = b + 1
        BY <1>10, <3>3
      <4>2. q2[i] = q[a] /\ q2[j] = q[b] /\ (q[a] = q[b] => a = b)
        BY <1>0, <1>9, <4>1 DEF Stacked
      <4>. QED
        BY ONLY <4>1, <4>2
    <3>. QED
      BY <3>1, <3>2, <3>3
  <2>3. ASSUME NEW i \in 1 .. N + 1
        PROVE  /\ q2[i] \in 1 .. Len(mem.next) /\ q2[i] \notin DOMAIN mem.deleted
               /\ mem.next[q2[i]] = IF i = N + 1 THEN Null ELSE q2[i + 1]
    <3>1. CASE i = 1
      <4>1. mem.top = IF N = 0 THEN Null ELSE q[1]
        BY <1>0 DEF Stacked
      <4>2. N # 0 => q2[2] = q[1]
        <5>1. N # 0 => 1 \in 1 .. N /\ 1 + 1 = 2
          OBVIOUS
        <5>. QED
          BY <1>9, <5>1
      <4>3. n \notin DOMAIN mem.deleted
        BY <1>6 DEF OwnNode
      <4>. QED
        BY <1>6, <1>9, <3>1, <4>1, <4>2, <4>3
    <3>2. CASE i # 1
      <4>1. PICK k \in 1 .. N : i = k + 1
        BY <1>10, <3>2
      <4>2. /\ q[k] \in 1 .. Len(mem.next) /\ q[k] \notin DOMAIN mem.deleted
            /\ mem.next[q[k]] = IF k = N THEN Null ELSE q[k + 1]
        BY <1>0 DEF Stacked
      <4>3. k # N => q2[i + 1] = q[k + 1]
        <5>1. k # N => k + 1 \in 1 .. N
          OBVIOUS
        <5>. QED
          BY <1>9, <4>1, <5>1
      <4>4. q2[i] = q[k] /\ (k = N <=> i = N + 1)
        BY <1>9, <4>1
      <4>. QED
        BY ONLY <4>2, <4>3, <4>4
    <3>. QED
      BY <3>1, <3>2
  <2>4. DOMAIN mem.deleted \subseteq 1 .. Len(mem.next)
    BY <1>0 DEF Stacked
  <2>5. \A i \in 1 .. Len(q2) :
          /\ q2[i] \in 1 .. Len(mem'.next) /\ q2[i] \notin DOMAIN mem'.deleted
          /\ mem'.next[q2[i]] = IF i = Len(q2) THEN Null ELSE q2[i + 1]
    BY ONLY <1>7, <1>9, <2>3
  <2>6. \A i, j \in 1 .. Len(q2) : q2[i] = q2[j] => i = j
    BY ONLY <1>9, <2>2
  <2>7. DOMAIN mem'.deleted \subseteq 1 .. Len(mem'.next)
    BY <1>7, <2>4
  <2>. QED
    BY <2>1, <2>5, <2>6, <2>7 DEF Stacked
<1>13. \A k : OnStack(q2, k) <=> (k = n \/ OnStack(q, k))
  <2>. TAKE k
  <2>1. ASSUME OnStack(q2, k) PROVE k = n \/ OnStack(q, k)
    <3>1. PICK i \in 1 .. N + 1 : q2[i] = k
      BY <1>9, <2>1 DEF OnStack
    <3>. QED
      BY <1>9, <1>10, <3>1 DEF OnStack
  <2>2. ASSUME OnStack(q, k) PROVE OnStack(q2, k)
    <3>1. PICK i \in 1 .. N : q[i] = k
      BY <2>2 DEF OnStack
    <3>2. i + 1 \in 1 .. Len(q2) /\ q2[i + 1] = k
      BY <1>9, <3>1
    <3>. QED
      BY <3>2 DEF OnStack
  <2>3. OnStack(q2, n)
    <3>1. 1 \in 1 .. Len(q2)
      BY <1>9
    <3>. QED
      BY <1>9, <3>1 DEF OnStack
  <2>. QED
    BY <2>1, <2>2, <2>3
<1>14. \A k : ~Owns(t, k)' /\ (Owns(t, k) <=> k = n)
  BY <1>0, <1>8 DEF Owns
<1>15. ReadsStack(t)'
  BY <1>8 DEF ReadsStack, Popping, Pushing
<1>16. ElimHeap(q2)'
  <2>1. \A k \in 1 .. Len(mem.next) :
          /\ k \in 1 .. Len(mem'.next)
          /\ ~Owns(t, k) => /\ mem'.next[k] = mem.next[k] /\ mem'.value[k] = mem.value[k]
                            /\ ~Owns(t, k)'
                            /\ OnStack(q2, k) => OnStack(q, k)
                            /\ OnStack(q, k) => OnStack(q2, k)
          /\ Owns(t, k) => OnStack(q2, k)
    BY <1>7, <1>13, <1>14
  <2>2. \A k \in 1 .. Len(mem'.next) : ~Owns(t, k)' /\ k \in 1 .. Len(mem.next)
    BY <1>7, <1>14
  <2>. QED
    BY <1>0, <1>7, <1>8, <1>12, <1>15, <2>1, <2>2, ElimHeapStep
<1>17. ElimCallOf(t) = [op |-> "add", val |-> mem.value[n]]
  <2>1. ~Met(t)
    BY <1>0 DEF Met, Answering, Waiting
  <2>2. loc[t].y # NoVal /\ loc[t].y = mem.value[n]
    BY <1>0, <1>6 DEF IsElimLocals, OwnNode
  <2>. QED
    BY <1>0, <2>1, <2>2 DEF ElimCallOf
<1>18. ValuesAlong(mem.value, q2)' = <<mem.value[n]>> \o ValuesAlong(mem.value, q)
  <2>1. \A i \in 1 .. Len(q) : mem.value[q[i]] \in Items
    BY <1>0 DEF Stacked, ElimMemory
  <2>2. mem.value[n] \in Items /\ n \in Nat
    BY <1>0, <1>6 DEF ElimMemory
  <2>3. ValuesAlong(mem.value, q2) = <<mem.value[n]>> \o ValuesAlong(mem.value, q)
    BY <2>1, <2>2, ValuesPut
  <2>. QED
    BY <1>7, <2>3
<1>19. /\ ValuesAlong(mem.value, q2)' = ObjectAfter("stack", ValuesAlong(mem.value, q), ElimCallOf(t))
       /\ NoVal = AnswerOf(ValuesAlong(mem.value, q), ElimCallOf(t))
  <2>. PICK c : c = ElimCallOf(t)
    OBVIOUS
  <2>. PICK v : v = ValuesAlong(mem.value, q)
    OBVIOUS
  <2>1. c.op = "add" /\ c.val = mem.value[n]
    BY <1>17
  <2>2. ObjectAfter("stack", v, c) = <<mem.value[n]>> \o v /\ AnswerOf(v, c) = NoVal
    BY <2>1 DEF ObjectAfter, AnswerOf
  <2>. QED
    BY <1>18, <2>2
<1>. QED
  BY <1>0, <1>4, <1>7, <1>9, <1>16, <1>19, ElimReturns DEF Pushing

\* A pop finds nothing.
LEMMA PopTopStep ==
  ASSUME IsFiniteSet(Threads), NEW q \in Seq(Nat), ElimAt(q), NEW t \in Threads,
         Exchanger!PopTop(t), mem.top = Null
  PROVE  ElimStackInv'
<1>0. /\ ElimTyped /\ ElimHeap(q) /\ Stacked(q) /\ ElimMemory(mem)
      /\ ReadsStack(t) /\ IsElimLocals(loc[t]) /\ pc[t] = "pop_top"
  BY DEF ElimAt, ElimTyped, ElimHeap, Exchanger!PopTop
<1>1. /\ mem' = mem /\ Moves(t, "idle", NoLocals)
      /\ explanations' = Object!AfterReturn("stack", explanations, t, NoVal)
      /\ UNCHANGED <<prog, added>>
  BY <1>0, ElimReturnIs DEF ElimMemory, Exchanger!PopTop, Exchanger!Return
<1>2. /\ pc'[t] = "idle"
      /\ \A u \in Threads \ {t} : pc'[u] = pc[u] /\ loc'[u] = loc[u]
  <2>1. "idle" \in ElimPlaces
    BY DEF ElimPlaces
  <2>. QED
    BY <1>0, <1>1, <2>1, ElimMovesIs
<1>3. loc[t].n = Null
  BY <1>0 DEF ReadsStack, Popping
<1>4. ElimHeap(q)'
  <2>1. \A n \in 1 .. Len(mem.next) : ~Owns(t, n) /\ ~Owns(t, n)'
    BY <1>2, <1>3, PointersAssumption DEF Owns
  <2>2. ReadsStack(t)'
    BY <1>2 DEF ReadsStack, Popping, Pushing
  <2>. QED
    BY <1>0, <1>1, <1>2, <2>1, <2>2, ElimHeapKept
<1>5. ValuesAlong(mem.value, q)' = <<>> /\ ValuesAlong(mem.value, q) = <<>>
  <2>1. Len(q) = 0
    <3>1. Len(q) # 0 => 1 \in 1 .. Len(q)
      OBVIOUS
    <3>2. Len(q) # 0 => q[1] \in 1 .. Len(mem.next) /\ mem.top = q[1]
      BY <1>0, <3>1 DEF Stacked
    <3>. QED
      BY <3>2, PointersAssumption
  <2>2. \A i \in 1 .. Len(q) : mem.value[q[i]] \in Items
    BY <2>1
  <2>3. ValuesAlong(mem.value, q) \in Seq(Items) /\ Len(ValuesAlong(mem.value, q)) = 0
    BY <2>1, <2>2, ValuesAlongType
  <2>4. ValuesAlong(mem.value, q) = <<>>
    BY <2>3
  <2>. QED
    BY <1>1, <2>4
<1>6. ElimCallOf(t).op = "rmv"
  <2>1. ~Met(t) /\ loc[t].y = NoVal
    BY <1>0, <1>3 DEF Met, Answering, Waiting, IsElimLocals
  <2>. QED
    BY <1>0, <2>1 DEF ElimCallOf
<1>7. /\ ValuesAlong(mem.value, q)' = ObjectAfter("stack", ValuesAlong(mem.value, q), ElimCallOf(t))
      /\ NoVal = AnswerOf(ValuesAlong(mem.value, q), ElimCallOf(t))
  <2>. PICK c : c = ElimCallOf(t)
    OBVIOUS
  <2>1. ObjectAfter("stack", <<>>, c) = <<>> /\ AnswerOf(<<>>, c) = NoVal
    BY <1>6 DEF ObjectAfter, AnswerOf
  <2>. QED
    BY <1>5, <2>1
<1>8. ElimMemory(mem') /\ mem'.slot = mem.slot /\ mem'.item = mem.item
  BY <1>0, <1>1
<1>. QED
  BY <1>0, <1>1, <1>4, <1>7, <1>8, ElimReturns DEF Popping

\* A pop takes effect: the top is deleted, the next node is the top.
LEMMA PopCasStep ==
  ASSUME IsFiniteSet(Threads), NEW q \in Seq(Nat), ElimAt(q), flaws' = {}, NEW t \in Threads,
         Exchanger!PopCas(t), pc'[t] = "idle"
  PROVE  ElimStackInv'
<1>0. /\ ElimTyped /\ ElimHeap(q) /\ Stacked(q) /\ Private(q) /\ ElimMemory(mem)
      /\ ReadsStack(t) /\ IsElimLocals(loc[t]) /\ pc[t] = "pop_cas"
  BY DEF ElimAt, ElimTyped, ElimHeap, Exchanger!PopCas
<1>. PICK n : n = loc[t].output
  OBVIOUS
<1>. PICK m : m = [mem EXCEPT !.top = loc[t].m,
                             !.deleted = Exchanger!Delete(mem.deleted, mem.top, mem.next)]
  OBVIOUS
<1>1. PICK same \in Exchanger!Equal(mem.deleted, mem.top, n) :
        IF same THEN Exchanger!FlawedReturn(t, m, mem.value[mem.top],
                                            Exchanger!Reused(mem.top, n))
        ELSE Exchanger!Step(t, "visit", mem, loc[t])
  BY DEF Exchanger!PopCas
<1>2. same
  <2>. SUFFICES ASSUME ~same PROVE FALSE
    OBVIOUS
  <2>1. Moves(t, "visit", loc[t]) /\ "visit" \in ElimPlaces
    BY <1>1, ElimStepIs DEF Exchanger!Step, ElimPlaces
  <2>. QED
    BY <1>0, <2>1, ElimMovesIs
<1>. PICK found : found = Exchanger!Reused(mem.top, n)
  OBVIOUS
<1>3. Exchanger!FlawedReturn(t, m, mem.value[mem.top], found)
  BY <1>1, <1>2
<1>4. /\ mem' = m /\ Moves(t, "idle", NoLocals)
      /\ explanations' = Object!AfterReturn("stack", explanations, t, mem.value[mem.top])
      /\ flaws' = flaws \cup found
      /\ UNCHANGED <<prog, added>>
  BY <1>0, <1>3, ElimReturnIs DEF ElimMemory
<1>5. mem.top = n
  <2>1. Exchanger!Reused(mem.top, n) = {}
    BY <1>4
  <2>. QED
    BY <2>1 DEF Exchanger!Reused
<1>6. n \in 1 .. Len(mem.next) /\ loc[t].n = Null
  BY <1>0 DEF ReadsStack, Popping
<1>7. /\ n = q[1] /\ 1 \in 1 .. Len(q) /\ \A u \in Threads : ~Owns(u, n)
  <2>1. mem.top # Null
    BY <1>5, <1>6, PointersAssumption
  <2>. QED
    BY <1>0, <1>5, <2>1, TopIsNode
<1>8. n \notin DOMAIN mem.deleted /\ loc[t].m = mem.next[n]
  <2>1. n \notin DOMAIN mem.deleted
    BY <1>0, <1>7 DEF Stacked
  <2>. QED
    BY <1>0, <2>1 DEF ReadsStack
<1>9. /\ ElimMemory(mem') /\ mem'.top = mem.next[n] /\ mem'.next = mem.next
      /\ mem'.value = mem.value /\ mem'.slot = mem.slot /\ mem'.item = mem.item
      /\ DOMAIN mem'.deleted = DOMAIN mem.deleted \cup {n}
  <2>. PICK d : d = Exchanger!Delete(mem.deleted, mem.top, mem.next)
    OBVIOUS
  <2>1. DOMAIN d = DOMAIN mem.deleted \cup {n}
    <3>. PICK deleted, next : deleted = mem.deleted /\ next = mem.next
      OBVIOUS
    <3>1. DOMAIN Exchanger!Delete(deleted, n, next) = DOMAIN deleted \cup {n}
      BY ONLY NodeDeleted
    <3>2. d = Exchanger!Delete(deleted, n, next)
      BY <1>5
    <3>. QED
      BY <3>1, <3>2
  <2>2. mem' = [mem EXCEPT !.top = loc[t].m, !.deleted = d]
    BY <1>4
  <2>. QED
    BY <1>0, <1>8, <2>1, <2>2 DEF ElimMemory
<1>10. /\ pc'[t] = "idle" /\ "idle" \notin Popping \cup Pushing
       /\ \A u \in Threads \ {t} : pc'[u] = pc[u] /\ loc'[u] = loc[u]
  <2>1. "idle" \in ElimPlaces
    BY DEF ElimPlaces
  <2>. QED
    BY <1>0, <1>4, <2>1, ElimMovesIs DEF Popping, Pushing
<1>. PICK N \in Nat : N = Len(q) /\ N # 0
  BY <1>7
<1>. PICK q2 : q2 = Tail(q)
  OBVIOUS
<1>11. /\ q2 \in Seq(Nat) /\ Len(q2) = N - 1
       /\ \A i \in 1 .. N - 1 : q2[i] = q[i + 1]
  OBVIOUS
<1>12. \A i \in 1 .. N - 1 : i + 1 \in 1 .. N /\ i \in 1 .. N /\ i + 1 # 1
  OBVIOUS
<1>13. \A i \in 1 .. N : i = 1 \/ \E k \in 1 .. N - 1 : i = k + 1
  BY FirstOrLater
<1>14. \A i \in 1 .. N - 1 : q2[i] # n
  BY <1>0, <1>7, <1>11, <1>12 DEF Stacked
<1>15. Stacked(q2)'
  <2>1. mem'.top = IF Len(q2) = 0 THEN Null ELSE q2[1]
    <3>1. mem.next[q[1]] = IF 1 = N THEN Null ELSE q[1 + 1]
      BY <1>0, <1>7 DEF Stacked
    <3>2. N # 1 => q2[1] = q[1 + 1]
      <4>1. N # 1 => 1 \in 1 .. N - 1
        OBVIOUS
      <4>. QED
        BY <1>11, <4>1
    <3>3. Len(q2) = 0 <=> N = 1
      BY <1>11
    <3>. QED
      BY <1>7, <1>9, <3>1, <3>2, <3>3
  <2>2. \A i, j \in 1 .. Len(q2) : q2[i] = q2[j] => i = j
    <3>. TAKE i, j \in 1 .. Len(q2)
    <3>1. i \in 1 .. N - 1 /\ j \in 1 .. N - 1
      BY <1>11
    <3>2. q2[i] = q[i + 1] /\ q2[j] = q[j + 1] /\ i + 1 \in 1 .. N /\ j + 1 \in 1 .. N
      BY <1>11, <1>12, <3>1
    <3>3. q[i + 1] = q[j + 1] => i + 1 = j + 1
      BY <1>0, <3>2 DEF Stacked
    <3>. QED
      BY <3>1, <3>2, <3>3
  <2>3. ASSUME NEW i \in 1 .. N - 1
        PROVE  /\ q2[i] \in 1 .. Len(mem.next) /\ q2[i] \notin DOMAIN mem'.deleted
               /\ mem.next[q2[i]] = IF i = N - 1 THEN Null ELSE q2[i + 1]
    <3>1. i + 1 \in 1 .. N /\ q2[i] = q[i + 1] /\ q2[i] # n
      BY <1>11, <1>12, <1>14
    <3>2. /\ q[i + 1] \in 1 .. Len(mem.next) /\ q[i + 1] \notin DOMAIN mem.deleted
          /\ mem.next[q[i + 1]] = IF i + 1 = N THEN Null ELSE q[(i + 1) + 1]
      BY <1>0, <3>1 DEF Stacked
    <3>3. i # N - 1 => q2[i + 1] = q[(i + 1) + 1]
      <4>1. i # N - 1 => i + 1 \in 1 .. N - 1
        OBVIOUS
      <4>. QED
        BY <1>11, <4>1
    <3>4. i + 1 = N <=> i = N - 1
      OBVIOUS
    <3>. QED
      BY <1>9, <3>1, <3>2, <3>3, <3>4
  <2>4. DOMAIN mem'.deleted \subseteq 1 .. Len(mem'.next)
    BY <1>0, <1>6, <1>9 DEF Stacked
  <2>5. \A i \in 1 .. Len(q2) :
          /\ q2[i] \in 1 .. Len(mem'.next) /\ q2[i] \notin DOMAIN mem'.deleted
          /\ mem'.next[q2[i]] = IF i = Len(q2) THEN Null ELSE q2[i + 1]
    BY ONLY <1>9, <1>11, <2>3
  <2>. QED
    BY <2>1, <2>2, <2>4, <2>5 DEF Stacked
<1>16. \A k : (OnStack(q2, k) => OnStack(q, k)) /\ (OnStack(q, k) => OnStack(q2, k) \/ k = n)
  <2>. TAKE k
  <2>1. ASSUME OnStack(q2, k) PROVE OnStack(q, k)
    <3>1. PICK i \in 1 .. N - 1 : q2[i] = k
      BY <1>11, <2>1 DEF OnStack
    <3>2. q[i + 1] = k /\ i + 1 \in 1 .. N
      BY <1>11, <1>12, <3>1
    <3>. QED
      BY <3>2 DEF OnStack
  <2>2. ASSUME OnStack(q, k) PROVE OnStack(q2, k) \/ k = n
    <3>1. PICK i \in 1 .. N : q[i] = k
      BY <2>2 DEF OnStack
    <3>2. CASE i = 1
      BY <1>7, <3>1, <3>2
    <3>3. ASSUME NEW j \in 1 .. N - 1, i = j + 1 PROVE OnStack(q2, k)
      <4>1. j \in 1 .. Len(q2) /\ q2[j] = k
        BY <1>11, <3>1, <3>3
      <4>. QED
        BY <4>1 DEF OnStack
    <3>. QED
      BY <1>13, <3>2, <3>3
  <2>. QED
    BY <2>1, <2>2
<1>17. \A k \in 1 .. Len(mem.next) : ~Owns(t, k) /\ ~Owns(t, k)'
  BY <1>6, <1>10, PointersAssumption DEF Owns
<1>18. ReadsStack(t)'
  BY <1>10 DEF ReadsStack, Popping, Pushing
<1>19. ElimHeap(q2)'
  <2>1. OnStack(q, n)
    BY <1>7 DEF OnStack
  <2>2. \A k \in 1 .. Len(mem.next) :
          /\ k \in 1 .. Len(mem'.next)
          /\ mem'.next[k] = mem.next[k] /\ mem'.value[k] = mem.value[k]
          /\ OnStack(q2, k) => OnStack(q, k)
          /\ OnStack(q, k) => OnStack(q2, k) \/ k \in DOMAIN mem'.deleted
          /\ k \in DOMAIN mem'.deleted => k \in DOMAIN mem.deleted \/ OnStack(q, k)
          /\ k \in DOMAIN mem.deleted => k \in DOMAIN mem'.deleted
    BY <1>9, <1>16, <2>1
  <2>3. \A k \in 1 .. Len(mem'.next) : ~Owns(t, k)' /\ k \in 1 .. Len(mem.next)
    BY <1>9, <1>17
  <2>. QED
    BY <1>0, <1>10, <1>15, <1>17, <1>18, <2>2, <2>3, ElimHeapStep
<1>20. ElimCallOf(t).op = "rmv"
  <2>1. ~Met(t) /\ loc[t].y = NoVal
    BY <1>0, <1>6 DEF Met, Answering, Waiting, IsElimLocals
  <2>. QED
    BY <1>0, <2>1 DEF ElimCallOf
<1>21. /\ ValuesAlong(mem.value, q2)' = ObjectAfter("stack", ValuesAlong(mem.value, q), ElimCallOf(t))
       /\ mem.value[mem.top] = AnswerOf(ValuesAlong(mem.value, q), ElimCallOf(t))
  <2>. PICK c : c = ElimCallOf(t)
    OBVIOUS
  <2>. PICK v : v = ValuesAlong(mem.value, q)
    OBVIOUS
  <2>1. \A i \in 1 .. Len(q) : mem.value[q[i]] \in Items
    BY <1>0 DEF Stacked, ElimMemory
  <2>2. v # <<>> /\ Head(v) = mem.value[n] /\ ValuesAlong(mem.value, q2) = Tail(v)
    BY <1>7, <2>1, ValuesTaken
  <2>3. ObjectAfter("stack", v, c) = Tail(v) /\ AnswerOf(v, c) = Head(v)
    BY <1>20, <2>2 DEF ObjectAfter, AnswerOf
  <2>4. ValuesAlong(mem.value, q2)' = ValuesAlong(mem.value, q2)
    BY <1>9
  <2>. QED
    BY <1>5, <2>2, <2>3, <2>4
<1>. QED
  BY <1>0, <1>4, <1>9, <1>11, <1>19, <1>21, ElimReturns DEF Popping

LEMMA ElimStackNext ==
  ASSUME IsFiniteSet(Threads), ElimStackInv, flaws' = {}, NEW t \in Threads, Exchanger!StackStep(t)
  PROVE  ElimStackInv'
<1>1. PICK q \in Seq(Nat) : ElimAt(q)
  BY DEF ElimStackInv
<1>2. CASE Exchanger!CallPush(t) \/ Exchanger!CallPop(t) \/ Exchanger!PushTop(t)
  BY <1>1, <1>2, CallPushStep, CallPopStep, PushTopStep
<1>3. CASE Exchanger!PushCas(t)
  BY <1>1, <1>3, PushCasStep, ElimStackQuiet
<1>4. CASE Exchanger!PopTop(t) \/ Exchanger!PopNext(t)
  BY <1>1, <1>4, PopTopStep, ElimStackQuiet
<1>5. CASE Exchanger!PopCas(t)
  BY <1>1, <1>5, PopCasStep, ElimStackQuiet
<1>6. CASE Exchanger!Visit(t) \/ Exchanger!Wait(t) \/ Exchanger!Withdraw(t) \/ Exchanger!RemoveB(t)
  BY <1>1, <1>6, ElimLookQuiet, ElimLeaves
<1>7. CASE Exchanger!AddA(t) \/ Exchanger!AddB(t) \/ Exchanger!DeleteItem(t)
  BY <1>1, <1>7, ElimWaits, ElimMeets, ElimDeletesItem
<1>8. CASE Exchanger!ReadItem(t) \/ Exchanger!TakeItem(t)
  BY <1>1, <1>8, ElimTakesItem
<1>. QED
  BY <1>2, <1>3, <1>4, <1>5, <1>6, <1>7, <1>8 DEF Exchanger!StackStep

\* The flaws that a step may add.
Unsafe == {"address used again", "item read after delete"}

\* Of what changes: no step makes up for a flaw, none is a destructor.
Suspicious == flaws \subseteq flaws' /\ flaws' \subseteq flaws \cup Unsafe /\ destroyed' = destroyed

LEMMA ElimFlaws ==
  ASSUME NEW t \in Threads, Exchanger!StackStep(t) PROVE Suspicious
<1>1. ASSUME NEW place, NEW m, NEW l, NEW found \in SUBSET Unsafe,
             Exchanger!FlawedStep(t, place, m, l, found)
      PROVE  Suspicious
  BY <1>1, ElimStepIs DEF Suspicious
<1>2. ASSUME NEW m, NEW answer, NEW found \in SUBSET Unsafe,
             Exchanger!FlawedReturn(t, m, answer, found)
      PROVE  Suspicious
  BY <1>2, ElimReturnIs DEF Suspicious
<1>3. ASSUME NEW place, NEW m, NEW l,
             Exchanger!CallAdd(t, place, m, l) \/ Exchanger!CallRmv(t, place, m, l)
      PROVE  Suspicious
  BY <1>3, ElimCallIs DEF Suspicious
<1>4. \A pointer, expected : Exchanger!Reused(pointer, expected) \in SUBSET Unsafe
  BY DEF Exchanger!Reused, Unsafe
<1>5. {} \in SUBSET Unsafe /\ {"item read after delete"} \in SUBSET Unsafe
  BY DEF Unsafe
<1>. HIDE DEF Unsafe
<1>6. ASSUME NEW m, NEW r, NEW found \in SUBSET Unsafe, Exchanger!Exchanged(t, m, r, found)
      PROVE  Suspicious
  BY <1>1, <1>2, <1>6 DEF Exchanger!Exchanged
<1>7. ASSUME NEW stamp, NEW success, Exchanger!Offer(t, stamp, success) PROVE Suspicious
  BY <1>1, <1>5, <1>7 DEF Exchanger!Offer, Exchanger!Step
<1>8. CASE Exchanger!CallPush(t) \/ Exchanger!CallPop(t)
  BY <1>3, <1>8 DEF Exchanger!CallPush, Exchanger!CallPop
<1>9. CASE Exchanger!PushTop(t) \/ Exchanger!PopNext(t)
  BY <1>1, <1>5, <1>9 DEF Exchanger!PushTop, Exchanger!PopNext, Exchanger!Step
<1>10. CASE Exchanger!PushCas(t) \/ Exchanger!PopCas(t)
  BY <1>1, <1>2, <1>4, <1>5, <1>10 DEF Exchanger!PushCas, Exchanger!PopCas, Exchanger!Step
<1>11. CASE Exchanger!PopTop(t)
  BY <1>1, <1>2, <1>5, <1>11 DEF Exchanger!PopTop, Exchanger!Step, Exchanger!Return
<1>12. CASE Exchanger!Visit(t) \/ Exchanger!Wait(t) \/ Exchanger!Withdraw(t) \/ Exchanger!RemoveB(t)
            \/ Exchanger!DeleteItem(t)
  BY <1>1, <1>5, <1>12
  DEF Exchanger!Visit, Exchanger!Wait, Exchanger!Withdraw, Exchanger!RemoveB,
      Exchanger!DeleteItem, Exchanger!Timeout, Exchanger!Step
<1>13. CASE Exchanger!AddA(t) \/ Exchanger!AddB(t)
  BY <1>7, <1>13 DEF Exchanger!AddA, Exchanger!AddB
<1>14. CASE Exchanger!ReadItem(t) \/ Exchanger!TakeItem(t)
  BY <1>5, <1>6, <1>14 DEF Exchanger!ReadItem, Exchanger!TakeItem
<1>. QED
  BY <1>8, <1>9, <1>10, <1>11, <1>12, <1>13, <1>14 DEF Exchanger!StackStep

LEMMA ElimNothingToDo ==
  ASSUME NEW t \in Threads, Exchanger!StackStep(t) PROVE pc[t] # "idle" \/ prog[t] # <<>>
<1>1. Exchanger!CallPush(t) \/ Exchanger!CallPop(t) => prog[t] # <<>>
  BY ElimCallIs DEF Exchanger!CallPush, Exchanger!CallPop, ClientAdd, ClientRmv
<1>. QED
  BY <1>1
  DEF Exchanger!StackStep, Exchanger!PushTop, Exchanger!PushCas, Exchanger!PopTop,
      Exchanger!PopNext, Exchanger!PopCas, Exchanger!Visit, Exchanger!AddA, Exchanger!Wait,
      Exchanger!Withdraw, Exchanger!RemoveB, Exchanger!ReadItem, Exchanger!AddB,
      Exchanger!DeleteItem, Exchanger!TakeItem

----------------------------------------------------------------------------
(* The destructor. *)

LEMMA ElimDestroyIs ==
  ASSUME NEW first, Exchanger!DestroyList(first)
  PROVE  /\ ~destroyed /\ destroyed' = TRUE
         /\ \A t \in Threads : pc[t] = "idle" /\ prog[t] = <<>>
         /\ \E d : /\ DOMAIN d = DOMAIN mem.deleted \cup Reached(mem.next, first)
                   /\ mem' = [mem EXCEPT !.deleted = d]
         /\ flaws' = flaws \cup (IF Reached(mem.next, first) \cap DOMAIN mem.deleted = {}
                                 THEN {} ELSE {"deleted twice"})
         /\ UNCHANGED <<prog, pc, explanations>>
<1>. DEFINE met == Exchanger!Reached(mem.next, first)
            d == [n \in DOMAIN mem.deleted \cup met |-> Exchanger!Cardinality(DOMAIN mem.next)]
<1>1. met = Reached(mem.next, first)
  BY ElimHeapIs
<1>2. /\ mem' = [mem EXCEPT !.deleted = d]
      /\ flaws' = flaws \cup (IF met \cap DOMAIN mem.deleted = {} THEN {} ELSE {"deleted twice"})
      /\ ~destroyed /\ destroyed' = TRUE
      /\ \A t \in Threads : pc[t] = "idle" /\ prog[t] = <<>>
      /\ UNCHANGED <<prog, pc, explanations>>
  BY DEF Exchanger!DestroyList, Exchanger!FlawedDestroy, Exchanger!clientVars
<1>3. DOMAIN d = DOMAIN mem.deleted \cup met
  OBVIOUS
<1>. HIDE DEF met, d
<1>. QED
  BY <1>1, <1>2, <1>3

\* A walk from null meets nothing.
LEMMA ReachedFromNull ==
  ASSUME NEW next, IsFiniteSet(DOMAIN next)
  PROVE  Reached(next, Null) = {}
<1>. DEFINE C == Cardinality(DOMAIN next)
            F == [k \in 0 .. C |-> {}]
<1>1. C \in Nat
  BY FS_CardinalityType
<1>. HIDE DEF C
<1>2. \A k \in 0 .. C : F[k] = IF k = 0 THEN {Null} \ {Null}
                               ELSE F[k - 1] \cup ({next[n] : n \in F[k - 1]} \ {Null})
  <2>. TAKE k \in 0 .. C
  <2>1. k # 0 => k - 1 \in 0 .. C
    BY <1>1
  <2>. QED
    BY <2>1
<1>3. ReachedEquation(F, next, Null)
  BY <1>2 DEF ReachedEquation, C
<1>. HIDE DEF F
<1>4. ASSUME NEW R, ReachedEquation(R, next, Null) PROVE R[C] = {}
  <2>. DEFINE X == {k \in Nat : k \in 0 .. C => R[k] = {}}
  <2>1. \A k \in 0 .. C : R[k] = IF k = 0 THEN {Null} \ {Null}
                                  ELSE R[k - 1] \cup ({next[n] : n \in R[k - 1]} \ {Null})
    BY <1>4 DEF ReachedEquation, C
  <2>2. 0 \in X
    BY <1>1, <2>1
  <2>3. ASSUME NEW k \in Nat, k \in X PROVE k + 1 \in X
    <3>1. CASE k + 1 \in 0 .. C
      <4>1. k \in 0 .. C /\ k + 1 # 0 /\ (k + 1) - 1 = k
        BY <1>1, <3>1
      <4>2. R[k] = {}
        BY <2>3, <4>1
      <4>3. R[k + 1] = R[k] \cup ({next[n] : n \in R[k]} \ {Null})
        BY <2>1, <3>1, <4>1
      <4>4. R[k + 1] = {} /\ k + 1 \in Nat
        BY <4>2, <4>3
      <4>. QED
        BY <4>4
    <3>. QED
      BY <3>1
  <2>. HIDE DEF X
  <2>4. C \in X
    BY <1>1, <2>2, <2>3, NatSetInduction
  <2>. QED
    BY <1>1, <2>4 DEF X
<1>5. ReachedEquation(CHOOSE R : ReachedEquation(R, next, Null), next, Null)
  BY <1>3
<1>. QED
  BY <1>4, <1>5, ReachedIsChosen DEF C

\* The walk from top meets the nodes on the stack.
LEMMA ReachedFromTop ==
  ASSUME ElimMemory(mem), NEW q \in Seq(Nat), Stacked(q)
  PROVE  Reached(mem.next, mem.top) = {q[i] : i \in 1 .. Len(q)}
<1>1. PICK L \in Nat : L = Len(q)
  OBVIOUS
<1>2. PICK N \in Nat : N = Len(mem.next) /\ DOMAIN mem.next = 1 .. N
  BY DEF ElimMemory
<1>3. IsFiniteSet(DOMAIN mem.next) /\ Cardinality(DOMAIN mem.next) = N
  BY <1>2, HeapFacts
<1>4. /\ mem.top = IF L = 0 THEN Null ELSE q[1]
      /\ \A i, j \in 1 .. L : q[i] = q[j] => i = j
      /\ \A i \in 1 .. L : q[i] \in 1 .. N /\ mem.next[q[i]] = IF i = L THEN Null ELSE q[i + 1]
  BY <1>1, <1>2 DEF Stacked
<1>5. CASE L = 0
  <2>1. {q[i] : i \in 1 .. Len(q)} = {}
    BY <1>1, <1>5
  <2>2. Reached(mem.next, Null) = {}
    BY <1>3, ReachedFromNull
  <2>. QED
    BY <1>4, <1>5, <2>1, <2>2
<1>6. CASE L # 0
  <2>1. L <= N
    <3>. DEFINE f == [i \in 1 .. L |-> q[i]]
    <3>1. f \in Injection(1 .. L, 1 .. N)
      BY <1>4 DEF Injection, IsInjective
    <3>. HIDE DEF f
    <3>2. 1 \in Int /\ L \in Int /\ N \in Int
      OBVIOUS
    <3>3. /\ IsFiniteSet(1 .. L) /\ Cardinality(1 .. L) = L
          /\ IsFiniteSet(1 .. N) /\ Cardinality(1 .. N) = N
      BY <3>2, FS_Interval
    <3>. QED
      BY <3>1, <3>3, FS_Injection
  <2>2. IsPath(mem.next, q, 1, L)
    <3>1. ASSUME NEW i \in 1 .. L
          PROVE  q[i] # Null /\ mem.next[q[i]] = IF i = L THEN Null ELSE q[i + 1]
      <4>1. q[i] \in Nat
        BY <1>4
      <4>. QED
        BY <1>4, <4>1, PointersAssumption
    <3>. QED
      BY <3>1 DEF IsPath
  <2>3. 1 \in Nat /\ L \in Nat /\ 1 <= L /\ L - 1 <= Cardinality(DOMAIN mem.next)
    BY <1>3, <1>6, <2>1
  <2>4. Reached(mem.next, q[1]) = Along(q, 1, L)
    BY <1>3, <2>2, <2>3, ReachedIsPath
  <2>. QED
    BY <1>1, <1>4, <1>6, <2>4 DEF Along
<1>. QED
  BY <1>5, <1>6

LEMMA ElimDestroyStep ==
  ASSUME IsFiniteSet(Threads), ElimStackInv, flaws = {}, Exchanger!Destroy
  PROVE  destroyed' = TRUE /\ flaws' = {} /\ MSDestroyed'
<1>1. PICK q \in Seq(Nat) : ElimAt(q)
  BY DEF ElimStackInv
<1>2. ElimTyped /\ ElimMemory(mem) /\ Stacked(q) /\ Private(q) /\ ElimExplained(q)
  BY <1>1 DEF ElimAt, ElimTyped, ElimHeap
<1>. DEFINE met == Reached(mem.next, mem.top)
<1>3. /\ destroyed' = TRUE
      /\ \A t \in Threads : pc[t] = "idle" /\ prog[t] = <<>>
      /\ \E d : DOMAIN d = DOMAIN mem.deleted \cup met /\ mem' = [mem EXCEPT !.deleted = d]
      /\ flaws' = flaws \cup (IF met \cap DOMAIN mem.deleted = {} THEN {} ELSE {"deleted twice"})
      /\ UNCHANGED <<prog, pc, explanations>>
  BY ElimDestroyIs DEF Exchanger!Destroy
<1>4. met = {q[i] : i \in 1 .. Len(q)}
  BY <1>2, ReachedFromTop
<1>. HIDE DEF met
<1>5. met \cap DOMAIN mem.deleted = {}
  BY <1>2, <1>4 DEF Stacked
<1>6. DOMAIN mem.next = 1 .. Len(mem.next)
  BY <1>2 DEF ElimMemory
<1>7. DOMAIN mem.deleted \cup met = DOMAIN mem.next
  <2>1. ASSUME NEW n \in 1 .. Len(mem.next) PROVE n \in DOMAIN mem.deleted \cup met
    <3>1. \A t \in Threads : ~Owns(t, n)
      BY <1>3 DEF Owns
    <3>2. n \in DOMAIN mem.deleted \/ OnStack(q, n)
      BY <1>2, <3>1 DEF Private
    <3>. QED
      BY <1>4, <3>2 DEF OnStack
  <2>2. DOMAIN mem.deleted \subseteq 1 .. Len(mem.next) /\ met \subseteq 1 .. Len(mem.next)
    BY <1>2, <1>4 DEF Stacked
  <2>. QED
    BY <1>6, <2>1, <2>2
<1>8. DOMAIN mem'.deleted = DOMAIN mem'.next
  BY <1>2, <1>3, <1>7 DEF ElimMemory
<1>9. explanations # {}
  BY <1>2, ElimAdt, ExplanationLeft DEF ElimTyped, ElimExplained
<1>. QED
  BY <1>3, <1>5, <1>8, <1>9 DEF MSDestroyed

----------------------------------------------------------------------------
(* The program. *)

LEMMA ElimInit ==
  ASSUME IsFiniteSet(Threads), Init PROVE ElimInv
<1>1. /\ mem = Start(impl)
      /\ pc = [t \in Threads |-> "idle"] /\ loc = [t \in Threads |-> NoLocals]
      /\ explanations = Object!NothingHappened
      /\ destroyed = FALSE
  BY DEF Init, ClientInit, ImplementationInit
<1>. SUFFICES ASSUME impl = "elim_backoff" PROVE ElimStackInv
  BY <1>1 DEF ElimInv
<1>2. ClientTypeOK
  BY ProgramsAssumption, NumOpsAssumption DEF Init, ClientInit, ClientTypeOK
<1>3. mem = [adt |-> "stack", top |-> Null, value |-> <<>>, next |-> <<>>,
             deleted |-> Exchanger!EmptyMap, slot |-> Exchanger!EmptySlot,
             item |-> <<>>, deletedItems |-> Exchanger!EmptyMap]
  BY <1>1 DEF Start, Exchanger!Start
<1>4. PICK q : q = <<>>
  OBVIOUS
<1>5. q \in Seq(Nat) /\ Len(q) = 0
  BY <1>4
<1>6. /\ "idle" \notin Pushing /\ "idle" \notin Popping /\ "idle" \notin Waiting
      /\ "idle" \notin Answering /\ "idle" \in ElimPlaces
  BY DEF Pushing, Popping, Waiting, Answering, ElimPlaces
<1>7. /\ explanations \in SUBSET AllExplanations
      /\ [object |-> <<>>, doing |-> [t \in Threads |-> NotCalled]] \in ByNow("stack", explanations)
  BY <1>1, NothingExplained, ElimAdt DEF NotCalled
<1>8. Exchanger!EmptySlot \in Slots /\ Exchanger!EmptySlot.stamp = "EMPTY"
  BY DEF Slots, Exchanger!EmptySlot, Exchanger!Slot
<1>9. ElimTyped
  <2>1. ElimMemory(mem)
    <3>1. /\ <<>> \in Seq(Nat \cup {Null}) /\ <<>> \in Seq(Items) /\ Len(<<>>) = Len(<<>>)
      OBVIOUS
    <3>. QED
      BY <1>3, <1>8, <3>1 DEF ElimMemory
  <2>2. pc \in [Threads -> ElimPlaces] /\ loc = [t \in Threads |-> loc[t]]
    BY <1>1, <1>6
  <2>. QED
    BY <1>1, <1>2, <1>7, <2>1, <2>2 DEF ElimTyped
<1>10. ElimSlot
  <2>1. \A t \in Threads : ReadsSlot(t) /\ pc[t] \notin Waiting
    BY <1>1, <1>6 DEF ReadsSlot
  <2>. QED
    BY <1>3, <1>8, <2>1 DEF ElimSlot
<1>11. ElimHeap(q)
  <2>1. Len(mem.next) = 0 /\ mem.top = Null /\ DOMAIN mem.deleted = {}
    BY <1>3 DEF Exchanger!EmptyMap
  <2>2. Stacked(q)
    BY <1>5, <2>1 DEF Stacked
  <2>3. Private(q)
    BY <1>1, <2>1 DEF Private
  <2>4. \A t \in Threads : ReadsStack(t)
    BY <1>1, <1>6 DEF ReadsStack
  <2>. QED
    BY <2>2, <2>3, <2>4 DEF ElimHeap
<1>12. ElimExplained(q)
  <2>1. ElimDoing = [t \in Threads |-> NotCalled]
    BY <1>1 DEF ElimDoing, ElimCallOf
  <2>2. ValuesAlong(mem.value, q) = <<>>
    BY <1>5 DEF ValuesAlong
  <2>. QED
    BY <1>7, <2>1, <2>2 DEF ElimExplained
<1>. QED
  BY <1>5, <1>9, <1>10, <1>11, <1>12 DEF ElimStackInv, ElimAt

\* A step of the program, while there is no flaw.
LEMMA ElimStep ==
  ASSUME IsFiniteSet(Threads), ElimInv, impl = "elim_backoff", flaws = {}, Next
  PROVE  /\ flaws' \subseteq Unsafe
         /\ flaws' = {} => IF destroyed' THEN MSDestroyed' ELSE ElimStackInv'
<1>1. (\E t \in Threads : Exchanger!StackStep(t)) \/ Exchanger!Destroy
  BY DEF Next, ThreadStep, Destroy
<1>2. CASE Exchanger!Destroy
  <2>1. ~destroyed
    BY <1>2, ElimDestroyIs DEF Exchanger!Destroy
  <2>2. ElimStackInv
    BY <2>1 DEF ElimInv
  <2>. QED
    BY <1>2, <2>2, ElimDestroyStep
<1>3. ASSUME NEW t \in Threads, Exchanger!StackStep(t)
      PROVE  /\ flaws' \subseteq Unsafe
             /\ flaws' = {} => IF destroyed' THEN MSDestroyed' ELSE ElimStackInv'
  <2>1. ~destroyed /\ ElimStackInv
    BY <1>3, ElimNothingToDo DEF ElimInv, MSDestroyed
  <2>2. flaws' \subseteq Unsafe /\ ~destroyed'
    BY <1>3, <2>1, ElimFlaws DEF Suspicious
  <2>3. flaws' = {} => ElimStackInv'
    BY <1>3, <2>1, ElimStackNext
  <2>. QED
    BY <2>2, <2>3
<1>. QED
  BY <1>1, <1>2, <1>3

LEMMA ElimFlawsKept ==
  ASSUME impl = "elim_backoff", Next PROVE flaws \subseteq flaws'
<1>1. (\E t \in Threads : Exchanger!StackStep(t)) \/ Exchanger!Destroy
  BY DEF Next, ThreadStep, Destroy
<1>2. CASE Exchanger!Destroy
  BY <1>2, ElimDestroyIs DEF Exchanger!Destroy
<1>3. ASSUME NEW t \in Threads, Exchanger!StackStep(t) PROVE flaws \subseteq flaws'
  BY <1>3, ElimFlaws DEF Suspicious
<1>. QED
  BY <1>1, <1>2, <1>3

LEMMA ElimNext ==
  ASSUME IsFiniteSet(Threads), ElimInv, [Next]_allVars PROVE ElimInv'
<1>1. CASE UNCHANGED allVars
  <2>1. UNCHANGED <<prog, added, mem, pc, loc, explanations, flaws, destroyed, impl>>
    BY <1>1 DEF allVars, implVars, clientVars
  <2>2. ASSUME NEW q \in Seq(Nat), ElimAt(q) PROVE ElimAt(q)'
    <3>1. ElimTyped'
      BY <2>1, <2>2 DEF ElimAt, ElimTyped, ElimMemory, ClientTypeOK
    <3>2. ElimSlot'
      BY <2>1, <2>2 DEF ElimAt, ElimSlot, ReadsSlot
    <3>3. Stacked(q)'
      BY <2>1, <2>2 DEF ElimAt, ElimHeap, Stacked
    <3>4. \A t, n : Owns(t, n)' <=> Owns(t, n)
      BY <2>1 DEF Owns
    <3>5. Private(q)'
      BY <2>1, <2>2, <3>4 DEF ElimAt, ElimHeap, Private, OwnNode, OnStack
    <3>6. \A t \in Threads : ReadsStack(t)'
      BY <2>1, <2>2, <3>4 DEF ElimAt, ElimHeap, ReadsStack
    <3>7. \A t \in Threads : ElimCallOf(t)' = ElimCallOf(t)
      BY <2>1 DEF ElimCallOf, Met, OtherOf
    <3>8. ElimExplained(q)'
      <4>1. ElimDoing' = ElimDoing
        BY <3>7 DEF ElimDoing
      <4>2. ElimExplained(q)
        BY <2>2 DEF ElimAt
      <4>. QED
        BY <2>1, <4>1, <4>2 DEF ElimExplained
    <3>. QED
      BY <3>1, <3>2, <3>3, <3>5, <3>6, <3>8 DEF ElimAt, ElimHeap
  <2>3. ElimStackInv => ElimStackInv'
    BY <2>2 DEF ElimStackInv
  <2>4. MSDestroyed => MSDestroyed'
    BY <2>1 DEF MSDestroyed
  <2>. QED
    BY <2>1, <2>3, <2>4 DEF ElimInv
<1>2. CASE Next
  <2>1. impl' = impl
    BY <1>2 DEF Next
  <2>2. impl = "elim_backoff" => flaws \subseteq flaws'
    BY <1>2, ElimFlawsKept
  <2>. QED
    BY <1>2, <2>1, <2>2, ElimStep DEF ElimInv
<1>. QED
  BY <1>1, <1>2

\* The stack of elim_backoff.cpp, whose pushes and pops that fail to exchange
\* top meet in an exchanger, answers what a stack answers at an instant of
\* each call until the first flaw: WrongOnlyByFlaw holds of it for every
\* number of threads and of items offered.
THEOREM ElimBackoffIsCorrect ==
  ASSUME IsFiniteSet(Threads)
  PROVE  Spec => [](impl = "elim_backoff" => WrongOnlyByFlaw)
<1>1. ElimInv => (impl = "elim_backoff" => WrongOnlyByFlaw)
  <2>. SUFFICES ASSUME ElimInv, impl = "elim_backoff", flaws = {} PROVE explanations # {}
    BY DEF WrongOnlyByFlaw
  <2>1. CASE destroyed
    BY <2>1 DEF ElimInv, MSDestroyed
  <2>2. CASE ~destroyed
    <3>1. PICK q \in Seq(Nat) : ElimAt(q)
      BY <2>2 DEF ElimInv, ElimStackInv
    <3>. QED
      BY <3>1, ElimAdt, ExplanationLeft DEF ElimAt, ElimTyped, ElimExplained
  <2>. QED
    BY <2>1, <2>2
<1>2. Init => ElimInv
  BY ElimInit
<1>3. ElimInv /\ [Next]_allVars => ElimInv'
  BY ElimNext
<1>. QED
  BY <1>1, <1>2, <1>3, PTL DEF Spec

\* The first thing that goes wrong in elim_backoff is an exchange of top that
\* takes one node for another at its address, or an item read after it was
\* deleted, and never a node deleted twice; until then the destructor leaves
\* no node behind, not even one whose push met a pop.
THEOREM ElimBackoffFirstFlaw ==
  ASSUME IsFiniteSet(Threads)
  PROVE  Spec => [][impl = "elim_backoff" /\ Unflawed =>
                      (flaws \subseteq Unsafe /\ NodesAreDeletedOnce)']_allVars
<1>1. ElimInv /\ ElimInv' /\ [Next]_allVars =>
        [impl = "elim_backoff" /\ Unflawed => (flaws \subseteq Unsafe /\ NodesAreDeletedOnce)']_allVars
  <2>. SUFFICES ASSUME ElimInv, ElimInv', Next, impl = "elim_backoff", flaws = {}
                PROVE  (flaws \subseteq Unsafe /\ NodesAreDeletedOnce)'
    BY DEF Unflawed
  <2>1. impl' = "elim_backoff"
    BY DEF Next
  <2>2. flaws' \subseteq Unsafe
    BY ElimStep
  <2>3. "deleted twice" \notin flaws'
    BY <2>2 DEF Unsafe
  <2>4. destroyed' /\ flaws' = {} => DOMAIN mem'.deleted = DOMAIN mem'.next
    BY <2>1 DEF ElimInv, MSDestroyed
  <2>. QED
    BY <2>2, <2>3, <2>4 DEF NodesAreDeletedOnce
<1>2. Init => ElimInv
  BY ElimInit
<1>3. ElimInv /\ [Next]_allVars => ElimInv'
  BY ElimNext
<1>. QED
  BY <1>1, <1>2, <1>3, PTL DEF Spec

----------------------------------------------------------------------------
(* The implementations that delete nothing, or no node of a list. *)

\* A step that is no destructor and deletes no node that was deleted.
Harmless ==
  destroyed' = destroyed /\ ("deleted twice" \in flaws' => "deleted twice" \in flaws)

LEMMA HWHarmless ==
  ASSUME NEW t \in Threads, HW!QueueStep(t) PROVE Harmless
<1>1. ASSUME NEW place, NEW m, NEW l, NEW found, HW!FlawedStep(t, place, m, l, found),
             "deleted twice" \notin found
      PROVE  Harmless
  BY <1>1 DEF HW!FlawedStep, HW!Go, Harmless
<1>2. ASSUME NEW m, NEW answer, NEW found, HW!FlawedReturn(t, m, answer, found),
             "deleted twice" \notin found
      PROVE  Harmless
  BY <1>2 DEF HW!FlawedReturn, HW!Go, Harmless
<1>3. ASSUME NEW place, NEW m, NEW l,
             HW!CallAdd(t, place, m, l) \/ HW!CallRmv(t, place, m, l)
      PROVE  Harmless
  BY <1>3 DEF HW!CallAdd, HW!CallRmv, Harmless
<1>4. CASE HW!CallEnq(t) \/ HW!CallDeq(t)
  BY <1>3, <1>4 DEF HW!CallEnq, HW!CallDeq
<1>5. CASE HW!FetchAdd(t)
  BY <1>1, <1>5 DEF HW!FetchAdd, HW!Step
<1>6. CASE HW!Store(t)
  BY <1>2, <1>6 DEF HW!Store, HW!Return
<1>7. CASE HW!Exchange(t)
  BY <1>1, <1>2, <1>7 DEF HW!Exchange, HW!Step
<1>. QED
  BY <1>4, <1>5, <1>6, <1>7 DEF HW!QueueStep

LEMMA TSHarmless ==
  ASSUME NEW t \in Threads, TS!StackStep(t) PROVE Harmless
<1>1. ASSUME NEW place, NEW m, NEW l, NEW found, TS!FlawedStep(t, place, m, l, found),
             "deleted twice" \notin found
      PROVE  Harmless
  BY <1>1 DEF TS!FlawedStep, TS!Go, Harmless
<1>2. ASSUME NEW m, NEW answer, NEW found, TS!FlawedReturn(t, m, answer, found),
             "deleted twice" \notin found
      PROVE  Harmless
  BY <1>2 DEF TS!FlawedReturn, TS!Go, Harmless
<1>3. ASSUME NEW place, NEW m, NEW l,
             TS!CallAdd(t, place, m, l) \/ TS!CallRmv(t, place, m, l)
      PROVE  Harmless
  BY <1>3 DEF TS!CallAdd, TS!CallRmv, Harmless
<1>4. ASSUME NEW l, TS!NextPool(t, l) PROVE Harmless
  BY <1>1, <1>4 DEF TS!NextPool, TS!Remove, TS!Step
<1>5. CASE TS!CallPush(t) \/ TS!CallPop(t)
  BY <1>3, <1>5 DEF TS!CallPush, TS!CallPop
<1>6. CASE TS!GetTs(t) \/ TS!GetTsRead(t) \/ TS!Link(t) \/ TS!Walk(t) \/ TS!Top(t) \/ TS!Mark(t) \/ TS!CasTop(t) \/ TS!LinkTop(t)
  BY <1>1, <1>6
  DEF TS!GetTs, TS!GetTsRead, TS!Link, TS!Walk, TS!Top, TS!Mark, TS!CasTop, TS!LinkTop, TS!Step
<1>7. CASE TS!GetTsWrite(t) \/ TS!Publish(t)
  BY <1>1, <1>7 DEF TS!GetTsWrite, TS!Publish
<1>8. CASE TS!Skip(t)
  BY <1>2, <1>8 DEF TS!Skip, TS!Return
<1>9. CASE TS!Youngest(t)
  BY <1>1, <1>4, <1>9 DEF TS!Youngest, TS!Remove, TS!Step
<1>10. CASE TS!Recheck(t)
  BY <1>1, <1>2, <1>10 DEF TS!Recheck, TS!Return, TS!Step
<1>. QED
  BY <1>5, <1>6, <1>7, <1>8, <1>9, <1>10 DEF TS!StackStep

LEMMA ScalHarmless ==
  ASSUME NEW t \in Threads, Scal!StackStep(t) PROVE Harmless
<1>1. ASSUME NEW place, NEW m, NEW l, NEW found, Scal!FlawedStep(t, place, m, l, found),
             "deleted twice" \notin found
      PROVE  Harmless
  BY <1>1 DEF Scal!FlawedStep, Scal!Go, Harmless
<1>2. ASSUME NEW m, NEW answer, NEW found, Scal!FlawedReturn(t, m, answer, found),
             "deleted twice" \notin found
      PROVE  Harmless
  BY <1>2 DEF Scal!FlawedReturn, Scal!Go, Harmless
<1>3. ASSUME NEW place, NEW m, NEW l,
             Scal!CallAdd(t, place, m, l) \/ Scal!CallRmv(t, place, m, l)
      PROVE  Harmless
  BY <1>3 DEF Scal!CallAdd, Scal!CallRmv, Harmless
<1>4. ASSUME NEW m, NEW item, NEW found, Scal!Eliminated(t, m, item, found),
             "deleted twice" \notin found
      PROVE  Harmless
  BY <1>2, <1>4 DEF Scal!Eliminated
<1>5. ASSUME NEW m, Scal!NotEliminated(t, m) PROVE Harmless
  BY <1>1, <1>5 DEF Scal!NotEliminated, Scal!Step
<1>6. CASE Scal!CallPush(t) \/ Scal!CallPop(t)
  BY <1>3, <1>6 DEF Scal!CallPush, Scal!CallPop
<1>7. CASE Scal!Post(t) \/ Scal!Locate(t) \/ Scal!Collide(t) \/ Scal!Look(t) \/ Scal!Check(t) \/ Scal!PushTop(t)
  BY <1>1, <1>7
  DEF Scal!Post, Scal!Locate, Scal!Collide, Scal!Look, Scal!Check, Scal!PushTop, Scal!Step
<1>8. CASE Scal!Claim(t) \/ Scal!Leave(t)
  BY <1>1, <1>4, <1>5, <1>8 DEF Scal!Claim, Scal!Leave, Scal!Step
<1>9. CASE Scal!TryCollision(t)
  <2>. PICK found : found = IF mem.operations[loc[t].other].opcode = loc[t].opcode
                            THEN {"met its own kind"} ELSE {}
    OBVIOUS
  <2>1. "deleted twice" \notin found
    OBVIOUS
  <2>. QED
    BY <1>1, <1>4, <1>5, <1>9, <2>1 DEF Scal!TryCollision
<1>10. CASE Scal!Grab(t) \/ Scal!Fetch(t)
  BY <1>4, <1>10 DEF Scal!Grab, Scal!Fetch, Scal!TakeData
<1>11. CASE Scal!PushCas(t) \/ Scal!PopTop(t) \/ Scal!PopCas(t)
  BY <1>1, <1>2, <1>11 DEF Scal!PushCas, Scal!PopTop, Scal!PopCas, Scal!Return, Scal!Step
<1>. QED
  BY <1>6, <1>7, <1>8, <1>9, <1>10, <1>11 DEF Scal!StackStep

LEMMA CollisionHarmless ==
  ASSUME NEW t \in Threads, Collision!StackStep(t) PROVE Harmless
<1>1. ASSUME NEW place, NEW m, NEW l, NEW found, Collision!FlawedStep(t, place, m, l, found),
             "deleted twice" \notin found
      PROVE  Harmless
  BY <1>1 DEF Collision!FlawedStep, Collision!Go, Harmless
<1>2. ASSUME NEW m, NEW answer, NEW found, Collision!FlawedReturn(t, m, answer, found),
             "deleted twice" \notin found
      PROVE  Harmless
  BY <1>2 DEF Collision!FlawedReturn, Collision!Go, Harmless
<1>3. ASSUME NEW place, NEW m, NEW l,
             Collision!CallAdd(t, place, m, l) \/ Collision!CallRmv(t, place, m, l)
      PROVE  Harmless
  BY <1>3 DEF Collision!CallAdd, Collision!CallRmv, Harmless
<1>4. ASSUME NEW found, Collision!Crash(found), "deleted twice" \notin found PROVE Harmless
  BY <1>4 DEF Collision!Crash, Harmless
<1>5. ASSUME NEW m, NEW cell, NEW found, Collision!Finish(t, m, cell, found),
             "deleted twice" \notin found
      PROVE  Harmless
  BY <1>2, <1>4, <1>5 DEF Collision!Finish
<1>6. CASE Collision!CallPush(t) \/ Collision!CallPop(t)
  BY <1>3, <1>6 DEF Collision!CallPush, Collision!CallPop
<1>7. CASE Collision!StackTop(t)
  BY <1>1, <1>5, <1>7 DEF Collision!StackTop, Collision!Step
<1>8. CASE Collision!PushCas(t) \/ Collision!PopCas(t)
  BY <1>1, <1>5, <1>8 DEF Collision!PushCas, Collision!PopCas, Collision!Reused, Collision!Step
<1>9. CASE Collision!PopNext(t) \/ Collision!Locate(t) \/ Collision!Collide(t) \/ Collision!Look(t)
  BY <1>1, <1>9 DEF Collision!PopNext, Collision!Locate, Collision!Collide, Collision!Look, Collision!Step
<1>10. CASE Collision!Claim(t) \/ Collision!Leave(t)
  BY <1>1, <1>5, <1>10 DEF Collision!Claim, Collision!Leave, Collision!TakeBack, Collision!Step
<1>11. CASE Collision!FinishCollision(t)
  BY <1>4, <1>5, <1>11 DEF Collision!FinishCollision
<1>12. CASE Collision!TryCollision(t)
  BY <1>1, <1>5, <1>12 DEF Collision!TryCollision, Collision!Step
<1>. QED
  BY <1>6, <1>7, <1>8, <1>9, <1>10, <1>11, <1>12 DEF Collision!StackStep

DeleteNodes == {"coarse_queue", "msqueue", "elim_backoff"}

NodesInv ==
  /\ CoarseInv /\ MSInv /\ ElimInv
  /\ impl \notin DeleteNodes => ~destroyed

CoarseNodes == impl \in Coarse => NodesAreDeletedOnce

LEMMA NodesInit ==
  ASSUME IsFiniteSet(Threads), Init PROVE NodesInv
BY CoarseInit, MSInit, ElimInit DEF NodesInv, Init, ImplementationInit

LEMMA NodesNext ==
  ASSUME IsFiniteSet(Threads), NodesInv, [Next]_allVars
  PROVE  /\ NodesInv'
         /\ impl \notin DeleteNodes /\ Next => Harmless
<1>1. CoarseInv' /\ MSInv' /\ ElimInv'
  BY CoarseNext, MSNext, ElimNext DEF NodesInv
<1>2. CASE UNCHANGED allVars
  <2>1. destroyed' = destroyed /\ impl' = impl /\ flaws' = flaws
    BY <1>2 DEF allVars, implVars
  <2>. QED
    BY <1>1, <2>1, <1>2 DEF NodesInv, Harmless
<1>3. CASE Next
  <2>1. impl' = impl
    BY <1>3 DEF Next
  <2>2. ASSUME impl \notin DeleteNodes PROVE Harmless
    <3>1. impl \notin {"coarse_queue", "msqueue", "elim_backoff"}
      BY <2>2 DEF DeleteNodes
    <3>2. PICK t \in Threads : ThreadStep(t)
      BY <1>3, <3>1 DEF Next, Destroy
    <3>3. CASE impl = "coarse_stack"
      <4>1. CoarseInv /\ CoarseInv'
        BY <1>1 DEF NodesInv
      <4>2. ~destroyed /\ flaws' = {} /\ ~destroyed'
        BY <2>1, <3>3, <4>1 DEF CoarseInv, CoarseStackInv
      <4>3. Locked!StackStep(t)
        BY <3>2, <3>3 DEF ThreadStep
      <4>4. destroyed' = destroyed
        BY <4>3
        DEF Locked!StackStep, Locked!CallPush, Locked!CallPop, Locked!Lock, Locked!Push, Locked!Pop,
            Locked!CallAdd, Locked!CallRmv, Locked!Step, Locked!FlawedStep, Locked!Return,
            Locked!FlawedReturn
      <4>. QED
        BY <4>2, <4>4 DEF Harmless
    <3>4. CASE HW!QueueStep(t) \/ TS!StackStep(t) \/ Scal!StackStep(t) \/ Collision!StackStep(t)
      BY <3>4, HWHarmless, TSHarmless, ScalHarmless, CollisionHarmless
    <3>. QED
      BY <3>1, <3>2, <3>3, <3>4 DEF ThreadStep
  <2>3. impl' \notin DeleteNodes => ~destroyed'
    BY <2>1, <2>2 DEF NodesInv, Harmless
  <2>. QED
    BY <1>1, <2>2, <2>3 DEF NodesInv
<1>. QED
  BY <1>1, <1>2, <1>3

\* Whatever the implementation, until its first flaw no node is deleted twice,
\* and the destructors of coarse_queue, msqueue and elim_backoff, together
\* with the removals, delete every node: NodesAreDeletedOnce holds of the
\* states that the run looks at, those that a step from an unflawed state
\* reaches.
THEOREM EachNodeDeletedOnce ==
  ASSUME IsFiniteSet(Threads)
  PROVE  Spec => NodesAreDeletedOnce /\ [][Unflawed => NodesAreDeletedOnce']_allVars
<1>1. Init => NodesAreDeletedOnce
  BY DEF Init, ImplementationInit, NodesAreDeletedOnce
<1>2. NodesInv /\ NodesInv' /\ CoarseNodes' /\ [Next]_allVars =>
        [Unflawed => NodesAreDeletedOnce']_allVars
  <2>. SUFFICES ASSUME NodesInv, NodesInv', CoarseNodes', Next, flaws = {}
                PROVE  NodesAreDeletedOnce'
    BY DEF Unflawed
  <2>1. impl' = impl
    BY DEF Next
  <2>2. CASE impl \in Coarse
    BY <2>1, <2>2 DEF CoarseNodes
  <2>3. CASE impl = "msqueue"
    <3>1. flaws' \subseteq Suspects
      BY <2>3, MSStep DEF NodesInv
    <3>2. destroyed' /\ flaws' = {} => DOMAIN mem'.deleted = DOMAIN mem'.next
      BY <2>1, <2>3 DEF NodesInv, MSInv, MSDestroyed
    <3>. QED
      BY <3>1, <3>2 DEF Suspects, NodesAreDeletedOnce
  <2>4. CASE impl = "elim_backoff"
    <3>1. flaws' \subseteq Unsafe
      BY <2>4, ElimStep DEF NodesInv
    <3>2. destroyed' /\ flaws' = {} => DOMAIN mem'.deleted = DOMAIN mem'.next
      BY <2>1, <2>4 DEF NodesInv, ElimInv, MSDestroyed
    <3>. QED
      BY <3>1, <3>2 DEF Unsafe, NodesAreDeletedOnce
  <2>5. CASE impl \notin DeleteNodes
    <3>1. Harmless /\ ~destroyed'
      BY <2>1, <2>5, NodesNext DEF NodesInv
    <3>. QED
      BY <3>1 DEF Harmless, NodesAreDeletedOnce
  <2>. QED
    BY <2>2, <2>3, <2>4, <2>5 DEF Coarse, DeleteNodes
<1>3. Init => NodesInv
  BY NodesInit
<1>4. NodesInv /\ [Next]_allVars => NodesInv'
  BY NodesNext
<1>5. Spec => []CoarseNodes
  <2>1. (impl \in Coarse => /\ WrongOnlyByFlaw /\ explanations # {} /\ Unflawed
                            /\ NodesAreDeletedOnce) => CoarseNodes
    BY DEF CoarseNodes
  <2>. QED
    BY <2>1, CoarseIsCorrect, PTL
<1>. QED
  BY <1>1, <1>2, <1>3, <1>4, <1>5, PTL DEF Spec
=============================================================================
