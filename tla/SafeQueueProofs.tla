---------------------------- MODULE SafeQueueProofs ----------------------------
(* Theorems about SafeQueue, for all finite sets of producers and consumers, all *)
(* capacities and any number of values.                                          *)
EXTENDS SafeQueue, FiniteSetTheorems, TLAPS

\* A producer inside push has a value to push.
PushHasValue == \A p \in Producer : pc[p] # "idle" => pushed[p] # 0

\* The inductive invariant.
IndInv ==
  /\ TypeOK
  /\ PushHasValue
  /\ MutexHeldInside
  /\ NoMissedNotEmpty
  /\ NoMissedNotFull

\* The threads on their way to the queue are finitely many.
LEMMA ComingFinite ==
  /\ IsFiniteSet(Coming(Producer)) /\ Cardinality(Coming(Producer)) \in Nat
  /\ IsFiniteSet(Coming(Consumer)) /\ Cardinality(Coming(Consumer)) \in Nat
<1>1. Coming(Producer) \in SUBSET Producer /\ Coming(Consumer) \in SUBSET Consumer
  BY DEF Coming
<1>2. QED
  BY <1>1, ThreadAssumption, FS_Subset, FS_CardinalityType

\* A thread joins those on their way.
LEMMA Joins ==
  ASSUME NEW S, IsFiniteSet(S), NEW x, x \notin S
  PROVE  Cardinality(S \cup {x}) = Cardinality(S) + 1
BY FS_AddElement

\* A thread leaves those on their way.
LEMMA Leaves ==
  ASSUME NEW S, IsFiniteSet(S), NEW x, x \in S
  PROVE  Cardinality(S \ {x}) = Cardinality(S) - 1
BY FS_RemoveElement

------------------------------------------------------------------------------
(* Mutual exclusion and types *)

\* The thread that leaves the queue, and one it may wake.
LEMMA LeaveEffect ==
  ASSUME TypeOK, NEW t \in Thread, NEW W \in SUBSET Thread,
         pc[t] = "check", \A w \in W : pc[w] = "wait", LeaveAndNotify(t, W)
  PROVE  /\ pc' \in [Thread -> {"idle", "lock", "check", "wait"}]
         /\ pc'[t] = "idle"
         /\ \A s \in Thread \ {t} : pc'[s] = pc[s] \/ (s \in W /\ pc'[s] = "lock")
         /\ W = {} => \A s \in Thread \ {t} : pc'[s] = pc[s]
         /\ W # {} => \E w \in W :
                        pc'[w] = "lock" /\ \A s \in Thread \ {t, w} : pc'[s] = pc[s]
<1>1. CASE W = {}
  BY <1>1 DEF LeaveAndNotify, TypeOK
<1>2. CASE W # {}
  <2>1. PICK w \in W : pc' = [pc EXCEPT ![t] = "idle", ![w] = "lock"]
    BY <1>2 DEF LeaveAndNotify
  <2>2. w # t /\ w \in Thread
    OBVIOUS
  <2>3. QED
    BY <1>2, <2>1, <2>2 DEF TypeOK
<1>3. QED
  BY <1>1, <1>2

\* Who waits on which condition variable, and that they can be notified.
LEMMA WaitSets ==
  /\ WaitsNotEmpty \in SUBSET Thread /\ \A w \in WaitsNotEmpty : pc[w] = "wait"
  /\ WaitsNotFull \in SUBSET Thread /\ \A w \in WaitsNotFull : pc[w] = "wait"
BY DEF WaitsNotEmpty, WaitsNotFull, Thread

\* Every step keeps the types.
LEMMA TypeKept ==
  ASSUME TypeOK, PushHasValue, [Next]_vars
  PROVE  TypeOK'
<1>1. ASSUME NEW t \in Thread, Lock(t) \/ WaitTimeout(t)
      PROVE  TypeOK'
  BY <1>1 DEF Lock, WaitTimeout, TypeOK
<1>2. ASSUME NEW p \in Producer, PushCall(p) PROVE TypeOK'
  <2>1. pushed[p] + 1 \in 0..MaxPush
    BY <1>2, SizeAssumption DEF PushCall, TypeOK
  <2>2. p \in Thread
    BY DEF Thread
  <2>3. QED
    BY <1>2, <2>1, <2>2 DEF PushCall, TypeOK
<1>3. ASSUME NEW p \in Producer, PushWait(p) PROVE TypeOK'
  BY <1>3 DEF PushWait, TypeOK, Thread
<1>4. ASSUME NEW p \in Producer, PushEmplace(p) PROVE TypeOK'
  <2>1. <<p, pushed[p]>> \in Value
    BY <1>4, SizeAssumption DEF PushEmplace, PushHasValue, Value, TypeOK
  <2>2. p \in Thread
    BY DEF Thread
  <2>3. pc' \in [Thread -> {"idle", "lock", "check", "wait"}]
    BY <1>4, <2>2, WaitSets, LeaveEffect DEF PushEmplace
  <2>4. QED
    BY <1>4, <2>1, <2>3 DEF PushEmplace, TypeOK
<1>5. ASSUME NEW c \in Consumer, PopCall(c) \/ PopWait(c) PROVE TypeOK'
  BY <1>5 DEF PopCall, PopWait, TypeOK, Thread
<1>6. ASSUME NEW c \in Consumer, PopTake(c) PROVE TypeOK'
  <2>1. queue_ # <<>> /\ Head(queue_) \in Value /\ Tail(queue_) \in Seq(Value)
    BY <1>6 DEF PopTake, isEmptyWithoutLock, TypeOK
  <2>2. c \in Thread
    BY DEF Thread
  <2>3. pc' \in [Thread -> {"idle", "lock", "check", "wait"}]
    BY <1>6, <2>2, WaitSets, LeaveEffect DEF PopTake
  <2>4. QED
    BY <1>6, <2>1, <2>3 DEF PopTake, TypeOK
<1>7. CASE UNCHANGED vars
  BY <1>7 DEF vars, TypeOK
<1>8. QED
  BY <1>1, <1>2, <1>3, <1>4, <1>5, <1>6, <1>7
    DEF Next, ProducerStep, ConsumerStep, Thread

\* Every step keeps the mutex with whoever examines the queue.
LEMMA MutexKept ==
  ASSUME TypeOK, MutexHeldInside, [Next]_vars
  PROVE  MutexHeldInside'
<1>1. ASSUME NEW t \in Thread, Lock(t) PROVE MutexHeldInside'
  BY <1>1, ThreadAssumption DEF Lock, TypeOK, MutexHeldInside
<1>2. ASSUME NEW t \in Thread, WaitTimeout(t) PROVE MutexHeldInside'
  BY <1>2 DEF WaitTimeout, TypeOK, MutexHeldInside
<1>3. ASSUME NEW p \in Producer, PushCall(p) PROVE MutexHeldInside'
  BY <1>3 DEF PushCall, TypeOK, MutexHeldInside, Thread
<1>4. ASSUME NEW p \in Producer, PushWait(p) PROVE MutexHeldInside'
  BY <1>4, ThreadAssumption DEF PushWait, TypeOK, MutexHeldInside, Thread
<1>5. ASSUME NEW t \in Thread, NEW W \in SUBSET Thread, pc[t] = "check",
             \A w \in W : pc[w] = "wait", LeaveAndNotify(t, W), mutex_' = NoThread
      PROVE  MutexHeldInside'
  <2>1. \A s \in Thread : pc'[s] # "check"
    BY <1>5, LeaveEffect DEF MutexHeldInside
  <2>2. \A s \in Thread : mutex_' # s
    BY <1>5, ThreadAssumption
  <2>3. QED
    BY <2>1, <2>2 DEF MutexHeldInside
<1>6. ASSUME NEW p \in Producer, PushEmplace(p) PROVE MutexHeldInside'
  BY <1>5, <1>6, WaitSets DEF PushEmplace, Thread
<1>7. ASSUME NEW c \in Consumer, PopCall(c) PROVE MutexHeldInside'
  BY <1>7 DEF PopCall, TypeOK, MutexHeldInside, Thread
<1>8. ASSUME NEW c \in Consumer, PopWait(c) PROVE MutexHeldInside'
  BY <1>8, ThreadAssumption DEF PopWait, TypeOK, MutexHeldInside, Thread
<1>9. ASSUME NEW c \in Consumer, PopTake(c) PROVE MutexHeldInside'
  BY <1>5, <1>9, WaitSets DEF PopTake, Thread
<1>10. CASE UNCHANGED vars
  BY <1>10 DEF vars, MutexHeldInside
<1>11. QED
  BY <1>1, <1>2, <1>3, <1>4, <1>6, <1>7, <1>8, <1>9, <1>10
    DEF Next, ProducerStep, ConsumerStep, Thread

\* Every step keeps a value for every producer inside push.
LEMMA ValueKept ==
  ASSUME TypeOK, PushHasValue, [Next]_vars
  PROVE  PushHasValue'
<1>1. ASSUME NEW t \in Thread, Lock(t) \/ WaitTimeout(t) PROVE PushHasValue'
  BY <1>1 DEF Lock, WaitTimeout, TypeOK, PushHasValue, Thread
<1>2. ASSUME NEW p \in Producer, PushCall(p) PROVE PushHasValue'
  BY <1>2, SizeAssumption DEF PushCall, TypeOK, PushHasValue, Thread
<1>3. ASSUME NEW p \in Producer, PushWait(p) PROVE PushHasValue'
  BY <1>3 DEF PushWait, TypeOK, PushHasValue, Thread
<1>4. ASSUME NEW t \in Thread, NEW W \in SUBSET Thread, pc[t] = "check",
             \A w \in W : pc[w] = "wait", LeaveAndNotify(t, W), UNCHANGED pushed
      PROVE  PushHasValue'
  <2>1. \A s \in Thread : pc'[s] # "idle" => pc[s] # "idle"
    BY <1>4, LeaveEffect
  <2>2. QED
    BY <1>4, <2>1 DEF PushHasValue, Thread
<1>5. ASSUME NEW p \in Producer, PushEmplace(p) PROVE PushHasValue'
  BY <1>4, <1>5, WaitSets DEF PushEmplace, Thread
<1>6. ASSUME NEW c \in Consumer, PopCall(c) \/ PopWait(c) PROVE PushHasValue'
  BY <1>6, ThreadAssumption DEF PopCall, PopWait, TypeOK, PushHasValue, Thread
<1>7. ASSUME NEW c \in Consumer, PopTake(c) PROVE PushHasValue'
  BY <1>4, <1>7, WaitSets DEF PopTake, Thread
<1>8. CASE UNCHANGED vars
  BY <1>8 DEF vars, PushHasValue
<1>9. QED
  BY <1>1, <1>2, <1>3, <1>5, <1>6, <1>7, <1>8
    DEF Next, ProducerStep, ConsumerStep, Thread

------------------------------------------------------------------------------
(* No wake-up is missed *)

\* The same after a step.
LEMMA ComingFiniteNext ==
  /\ IsFiniteSet(Coming(Producer)') /\ Cardinality(Coming(Producer)') \in Nat
  /\ IsFiniteSet(Coming(Consumer)') /\ Cardinality(Coming(Consumer)') \in Nat
<1>1. Coming(Producer)' \in SUBSET Producer /\ Coming(Consumer)' \in SUBSET Consumer
  BY DEF Coming
<1>2. QED
  BY <1>1, ThreadAssumption, FS_Subset, FS_CardinalityType

\* A thread of the other side than the one that leaves is woken: it is on its way.
LEMMA OtherSideWoken ==
  ASSUME TypeOK,
         NEW G \in SUBSET Thread, NEW t \in Thread \ G, pc[t] = "check",
         NEW W, W = {s \in G : pc[s] = "wait"}, LeaveAndNotify(t, W)
  PROVE  \/ W = {} /\ \A s \in G : pc'[s] = pc[s]
         \/ \E w \in G : /\ w \notin Coming(G)
                         /\ Coming(G)' = Coming(G) \cup {w}
<1>1. W \in SUBSET Thread /\ \A w \in W : pc[w] = "wait"
  OBVIOUS
<1>2. CASE W = {}
  BY <1>1, <1>2, LeaveEffect
<1>3. CASE W # {}
  <2>1. PICK w \in W : pc'[w] = "lock" /\ \A s \in Thread \ {t, w} : pc'[s] = pc[s]
    BY <1>1, <1>3, LeaveEffect
  <2>2. w \in G /\ pc[w] = "wait"
    OBVIOUS
  <2>3. \A s \in G \ {w} : pc'[s] = pc[s]
    BY <2>1
  <2>4. w \notin Coming(G) /\ Coming(G)' = Coming(G) \cup {w}
    BY <2>1, <2>2, <2>3 DEF Coming
  <2>5. QED
    BY <2>2, <2>4
<1>4. QED
  BY <1>2, <1>3

\* Of its own side only the thread that leaves moves.
LEMMA OwnSideLeaves ==
  ASSUME TypeOK,
         NEW G \in SUBSET Thread, NEW t \in G, pc[t] = "check",
         NEW W \in SUBSET Thread, W \cap G = {}, \A w \in W : pc[w] = "wait",
         LeaveAndNotify(t, W)
  PROVE  /\ t \in Coming(G) /\ Coming(G)' = Coming(G) \ {t}
         /\ \A s \in G : pc'[s] = "wait" <=> pc[s] = "wait"
<1>1. pc'[t] = "idle" /\ \A s \in G \ {t} : pc'[s] = pc[s]
  BY LeaveEffect
<1>2. QED
  BY <1>1 DEF Coming

\* A step that pushes and pops nothing only adds to those on their way.
LEMMA LocalSteps ==
  ASSUME TypeOK, NEW t \in Thread,
         \/ Lock(t) \/ WaitTimeout(t)
         \/ t \in Producer /\ PushCall(t)
         \/ t \in Consumer /\ PopCall(t)
  PROVE  /\ UNCHANGED <<queue_, maxSize_>>
         /\ WaitsNotEmpty' \subseteq WaitsNotEmpty
         /\ WaitsNotFull' \subseteq WaitsNotFull
         /\ Cardinality(Coming(Producer)) <= Cardinality(Coming(Producer)')
         /\ Cardinality(Coming(Consumer)) <= Cardinality(Coming(Consumer)')
<1>1. /\ UNCHANGED <<queue_, maxSize_>>
      /\ pc[t] \in {"idle", "lock", "wait"} /\ pc'[t] \in {"lock", "check"}
      /\ \A s \in Thread \ {t} : pc'[s] = pc[s]
  BY DEF Lock, WaitTimeout, PushCall, PopCall, TypeOK
<1>2. /\ WaitsNotEmpty' \subseteq WaitsNotEmpty
      /\ WaitsNotFull' \subseteq WaitsNotFull
  BY <1>1 DEF WaitsNotEmpty, WaitsNotFull, Thread
<1>3. /\ Coming(Producer) \in SUBSET Coming(Producer)'
      /\ Coming(Consumer) \in SUBSET Coming(Consumer)'
  BY <1>1 DEF Coming, Thread
<1>4. QED
  BY <1>1, <1>2, <1>3, ComingFiniteNext, FS_Subset

\* While a consumer sleeps, every queued value has a consumer on its way.
LEMMA NotEmptyKept ==
  ASSUME TypeOK, NoMissedNotEmpty, [Next]_vars
  PROVE  NoMissedNotEmpty'
<1>1. Len(queue_) \in Nat
  BY DEF TypeOK
<1>2. ASSUME NEW t \in Thread,
             \/ Lock(t) \/ WaitTimeout(t)
             \/ t \in Producer /\ PushCall(t)
             \/ t \in Consumer /\ PopCall(t)
      PROVE  NoMissedNotEmpty'
  BY <1>1, <1>2, LocalSteps, ComingFinite, ComingFiniteNext DEF NoMissedNotEmpty
<1>3. ASSUME NEW p \in Producer, PushWait(p) PROVE NoMissedNotEmpty'
  <2>1. \A c \in Consumer : pc'[c] = pc[c]
    BY <1>3, ThreadAssumption DEF PushWait, TypeOK, Thread
  <2>2. WaitsNotEmpty' = WaitsNotEmpty /\ Coming(Consumer)' = Coming(Consumer)
    BY <2>1 DEF WaitsNotEmpty, Coming
  <2>3. QED
    BY <1>3, <2>2 DEF PushWait, NoMissedNotEmpty
<1>4. ASSUME NEW p \in Producer, PushEmplace(p) PROVE NoMissedNotEmpty'
  <2>1. Len(queue_') = Len(queue_) + 1
    BY <1>4 DEF PushEmplace, TypeOK
  <2>2. Consumer \in SUBSET Thread /\ p \in Thread \ Consumer
    BY ThreadAssumption DEF Thread
  <2>3. CASE WaitsNotEmpty = {}
    <3>1. \A s \in Thread \ {p} : pc'[s] = pc[s]
      BY <1>4, <2>2, <2>3, WaitSets, LeaveEffect DEF PushEmplace
    <3>2. WaitsNotEmpty' = {}
      BY <2>2, <2>3, <3>1 DEF WaitsNotEmpty
    <3>3. QED
      BY <3>2 DEF NoMissedNotEmpty
  <2>4. CASE WaitsNotEmpty # {}
    <3>1. PICK w \in Consumer : /\ w \notin Coming(Consumer)
                                /\ Coming(Consumer)' = Coming(Consumer) \cup {w}
      BY <1>4, <2>2, <2>4, OtherSideWoken DEF PushEmplace, WaitsNotEmpty
    <3>2. Cardinality(Coming(Consumer)') = Cardinality(Coming(Consumer)) + 1
      BY <3>1, ComingFinite, Joins
    <3>3. QED
      BY <1>1, <2>1, <2>4, <3>2, ComingFinite DEF NoMissedNotEmpty
  <2>5. QED
    BY <2>3, <2>4
<1>5. ASSUME NEW c \in Consumer, PopWait(c) PROVE NoMissedNotEmpty'
  <2>1. Len(queue_') = 0
    BY <1>5 DEF PopWait, isEmptyWithoutLock
  <2>2. QED
    BY <2>1, ComingFiniteNext DEF NoMissedNotEmpty
<1>6. ASSUME NEW c \in Consumer, PopTake(c) PROVE NoMissedNotEmpty'
  <2>1. Len(queue_') = Len(queue_) - 1
    BY <1>6 DEF PopTake, isEmptyWithoutLock, TypeOK
  <2>2. Consumer \in SUBSET Thread /\ WaitsNotFull \cap Consumer = {}
    BY ThreadAssumption DEF Thread, WaitsNotFull
  <2>3. /\ c \in Coming(Consumer) /\ Coming(Consumer)' = Coming(Consumer) \ {c}
        /\ \A s \in Consumer : pc'[s] = "wait" <=> pc[s] = "wait"
    BY <1>6, <2>2, WaitSets, OwnSideLeaves DEF PopTake
  <2>4. WaitsNotEmpty' = WaitsNotEmpty
    BY <2>3 DEF WaitsNotEmpty
  <2>5. Cardinality(Coming(Consumer)') = Cardinality(Coming(Consumer)) - 1
    BY <2>3, ComingFinite, Leaves
  <2>6. QED
    BY <1>1, <2>1, <2>4, <2>5, ComingFinite DEF NoMissedNotEmpty
<1>7. CASE UNCHANGED vars
  BY <1>7 DEF vars, NoMissedNotEmpty, WaitsNotEmpty, Coming
<1>8. QED
  BY <1>2, <1>3, <1>4, <1>5, <1>6, <1>7
    DEF Next, ProducerStep, ConsumerStep, Thread

\* While a producer sleeps, every free slot has a producer on its way.
LEMMA NotFullKept ==
  ASSUME TypeOK, NoMissedNotFull, [Next]_vars
  PROVE  NoMissedNotFull'
<1>1. Len(queue_) \in Nat /\ maxSize_ \in Nat
  BY SizeAssumption DEF TypeOK
<1>2. ASSUME NEW t \in Thread,
             \/ Lock(t) \/ WaitTimeout(t)
             \/ t \in Producer /\ PushCall(t)
             \/ t \in Consumer /\ PopCall(t)
      PROVE  NoMissedNotFull'
  BY <1>1, <1>2, LocalSteps, ComingFinite, ComingFiniteNext DEF NoMissedNotFull
<1>3. ASSUME NEW p \in Producer, PushWait(p) PROVE NoMissedNotFull'
  <2>1. maxSize_' <= Len(queue_') /\ Len(queue_') \in Nat /\ maxSize_' \in Nat
    BY <1>1, <1>3 DEF PushWait, isFullWithoutLock
  <2>2. QED
    BY <2>1, ComingFiniteNext DEF NoMissedNotFull
<1>4. ASSUME NEW p \in Producer, PushEmplace(p) PROVE NoMissedNotFull'
  <2>1. Len(queue_') = Len(queue_) + 1 /\ maxSize_' = maxSize_
    BY <1>4 DEF PushEmplace, TypeOK
  <2>2. Producer \in SUBSET Thread /\ WaitsNotEmpty \cap Producer = {}
    BY ThreadAssumption DEF Thread, WaitsNotEmpty
  <2>3. /\ p \in Coming(Producer) /\ Coming(Producer)' = Coming(Producer) \ {p}
        /\ \A s \in Producer : pc'[s] = "wait" <=> pc[s] = "wait"
    BY <1>4, <2>2, WaitSets, OwnSideLeaves DEF PushEmplace
  <2>4. WaitsNotFull' = WaitsNotFull
    BY <2>3 DEF WaitsNotFull
  <2>5. Cardinality(Coming(Producer)') = Cardinality(Coming(Producer)) - 1
    BY <2>3, ComingFinite, Leaves
  <2>6. QED
    BY <1>1, <2>1, <2>4, <2>5, ComingFinite DEF NoMissedNotFull
<1>5. ASSUME NEW c \in Consumer, PopWait(c) PROVE NoMissedNotFull'
  <2>1. \A p \in Producer : pc'[p] = pc[p]
    BY <1>5, ThreadAssumption DEF PopWait, TypeOK, Thread
  <2>2. WaitsNotFull' = WaitsNotFull /\ Coming(Producer)' = Coming(Producer)
    BY <2>1 DEF WaitsNotFull, Coming
  <2>3. QED
    BY <1>5, <2>2 DEF PopWait, NoMissedNotFull
<1>6. ASSUME NEW c \in Consumer, PopTake(c) PROVE NoMissedNotFull'
  <2>1. Len(queue_') = Len(queue_) - 1 /\ maxSize_' = maxSize_
    BY <1>6 DEF PopTake, isEmptyWithoutLock, TypeOK
  <2>2. Producer \in SUBSET Thread /\ c \in Thread \ Producer
    BY ThreadAssumption DEF Thread
  <2>3. CASE WaitsNotFull = {}
    <3>1. \A s \in Thread \ {c} : pc'[s] = pc[s]
      BY <1>6, <2>2, <2>3, WaitSets, LeaveEffect DEF PopTake
    <3>2. WaitsNotFull' = {}
      BY <2>2, <2>3, <3>1 DEF WaitsNotFull
    <3>3. QED
      BY <3>2 DEF NoMissedNotFull
  <2>4. CASE WaitsNotFull # {}
    <3>1. PICK w \in Producer : /\ w \notin Coming(Producer)
                                /\ Coming(Producer)' = Coming(Producer) \cup {w}
      BY <1>6, <2>2, <2>4, OtherSideWoken DEF PopTake, WaitsNotFull
    <3>2. Cardinality(Coming(Producer)') = Cardinality(Coming(Producer)) + 1
      BY <3>1, ComingFinite, Joins
    <3>3. QED
      BY <1>1, <2>1, <2>4, <3>2, ComingFinite DEF NoMissedNotFull
  <2>5. QED
    BY <2>3, <2>4
<1>7. CASE UNCHANGED vars
  BY <1>7 DEF vars, NoMissedNotFull, WaitsNotFull, Coming
<1>8. QED
  BY <1>2, <1>3, <1>4, <1>5, <1>6, <1>7
    DEF Next, ProducerStep, ConsumerStep, Thread

------------------------------------------------------------------------------
(* Theorems *)

\* The inductive invariant holds in every reachable state.
THEOREM Invariance == Spec => []IndInv
<1>1. Init => IndInv
  <2> SUFFICES ASSUME Init PROVE IndInv
    OBVIOUS
  <2>1. TypeOK
    BY SizeAssumption DEF Init, TypeOK
  <2>2. PushHasValue /\ MutexHeldInside
    BY ThreadAssumption DEF Init, PushHasValue, MutexHeldInside, Thread
  <2>3. WaitsNotEmpty = {} /\ WaitsNotFull = {}
    BY DEF Init, WaitsNotEmpty, WaitsNotFull, Thread
  <2>4. QED
    BY <2>1, <2>2, <2>3 DEF IndInv, NoMissedNotEmpty, NoMissedNotFull
<1>2. IndInv /\ [Next]_vars => IndInv'
  BY TypeKept, MutexKept, ValueKept, NotEmptyKept, NotFullKept DEF IndInv
<1>3. QED
  BY <1>1, <1>2, PTL DEF Spec

\* Every variable of the queue keeps its type.
THEOREM Typing == Spec => []TypeOK
<1>1. IndInv => TypeOK
  BY DEF IndInv
<1>2. QED
  BY <1>1, Invariance, PTL

\* Only the holder of mutex_ examines or changes the queue.
THEOREM MutualExclusion == Spec => []MutexHeldInside
<1>1. IndInv => MutexHeldInside
  BY DEF IndInv
<1>2. QED
  BY <1>1, Invariance, PTL

\* One notify_one per push is enough.
THEOREM NoConsumerIsMissed == Spec => []NoMissedNotEmpty
<1>1. IndInv => NoMissedNotEmpty
  BY DEF IndInv
<1>2. QED
  BY <1>1, Invariance, PTL

\* One notify_one per pop is enough.
THEOREM NoProducerIsMissed == Spec => []NoMissedNotFull
<1>1. IndInv => NoMissedNotFull
  BY DEF IndInv
<1>2. QED
  BY <1>1, Invariance, PTL

\* The queue with its locks and waits behaves as a bounded FIFO queue.
THEOREM QueueIsFifo == Spec => ImplementsFifo
<1>1. Init => Fifo!Init
  BY SizeAssumption DEF Init, Fifo!Init
<1>2. IndInv /\ [Next]_vars => [Fifo!Next]_Fifo!fifoVars
  <2> SUFFICES ASSUME IndInv, [Next]_vars
               PROVE  Fifo!Next \/ UNCHANGED Fifo!fifoVars
    OBVIOUS
  <2>1. ASSUME NEW p \in Producer, PushEmplace(p) PROVE Fifo!Next
    <3>1. <<p, pushed[p]>> \in Value
      BY <2>1, SizeAssumption DEF IndInv, PushEmplace, PushHasValue, Value, TypeOK
    <3>2. maxSize_ = 0 \/ Len(queue_) < maxSize_
      BY <2>1, SizeAssumption DEF PushEmplace, isFullWithoutLock, IndInv, TypeOK
    <3>3. Fifo!Put(<<p, pushed[p]>>)
      BY <2>1, <3>2 DEF PushEmplace, Fifo!Put, Fifo!HasRoom
    <3>4. QED
      BY <3>1, <3>3 DEF Fifo!Next
  <2>2. ASSUME NEW c \in Consumer, PopTake(c) PROVE Fifo!Next
    <3>1. queue_ # <<>>
      BY <2>2 DEF PopTake, isEmptyWithoutLock
    <3>2. Fifo!Take(c)
      BY <2>2, <3>1 DEF PopTake, Fifo!Take
    <3>3. QED
      BY <3>2 DEF Fifo!Next
  <2>3. ASSUME NEW t \in Thread,
               Lock(t) \/ WaitTimeout(t) \/ PushCall(t) \/ PushWait(t)
                 \/ PopCall(t) \/ PopWait(t)
        PROVE  UNCHANGED Fifo!fifoVars
    BY <2>3 DEF Lock, WaitTimeout, PushCall, PushWait, PopCall, PopWait, Fifo!fifoVars
  <2>4. CASE UNCHANGED vars
    BY <2>4 DEF vars, Fifo!fifoVars
  <2>5. QED
    BY <2>1, <2>2, <2>3, <2>4 DEF Next, ProducerStep, ConsumerStep, Thread
<1>3. QED
  BY <1>1, <1>2, Invariance, PTL DEF Spec, ImplementsFifo, Fifo!Spec
==============================================================================
