------------------------------ MODULE SafeQueue ------------------------------
(***************************************************************************)
(* SafeQueue<T> (SafeQueue.h): a queue guarded by one mutex, with one      *)
(* condition variable for producers (condNotFull_) and one for consumers   *)
(* (condNotEmpty_), both waited on for at most one second at a time.  The  *)
(* server hands every request from the loop thread to the worker thread    *)
(* through one of these.                                                   *)
(*                                                                         *)
(* A thread is at one of four places of push() or pop():                   *)
(*   idle   outside the queue                                              *)
(*   lock   contending for mutex_ (on entry, or waking from wait_for)      *)
(*   check  holding mutex_, about to evaluate the while condition          *)
(*   wait   inside wait_for: mutex_ released, in the condition's wait set  *)
(***************************************************************************)
EXTENDS Naturals, Sequences, FiniteSets

CONSTANTS
  Producer,   \* threads that call push
  Consumer,   \* threads that call pop
  MaxSizes,   \* the constructor arguments considered for maxSize_
  MaxPush,    \* bound: how many values one producer pushes
  NoThread,   \* mutex_ is free
  NoValue     \* nothing popped yet

Thread == Producer \cup Consumer
Value  == Producer \X (1..MaxPush)

ASSUME ThreadAssumption ==
  /\ Producer \cap Consumer = {}
  /\ NoThread \notin Thread
  /\ IsFiniteSet(Producer)
  /\ IsFiniteSet(Consumer)
ASSUME SizeAssumption == MaxSizes \subseteq Nat /\ MaxPush \in Nat
ASSUME ValueAssumption == NoValue \notin Value

VARIABLES
  queue_,     \* the std::queue
  maxSize_,   \* set by the constructor, never changed
  mutex_,     \* the thread that holds the mutex, or NoThread
  pc,         \* where each thread is
  pushed,     \* pushed[p]: how many pushes p has started
  temp        \* temp[c]: what c's last pop returned

vars == <<queue_, maxSize_, mutex_, pc, pushed, temp>>

TypeOK ==
  /\ queue_ \in Seq(Value)
  /\ maxSize_ \in MaxSizes
  /\ mutex_ \in Thread \cup {NoThread}
  /\ pc \in [Thread -> {"idle", "lock", "check", "wait"}]
  /\ pushed \in [Producer -> 0..MaxPush]
  /\ temp \in [Consumer -> Value \cup {NoValue}]

Init ==
  /\ queue_ = <<>>
  /\ maxSize_ \in MaxSizes
  /\ mutex_ = NoThread
  /\ pc = [t \in Thread |-> "idle"]
  /\ pushed = [p \in Producer |-> 0]
  /\ temp = [c \in Consumer |-> NoValue]

isFullWithoutLock == maxSize_ # 0 /\ Len(queue_) >= maxSize_

isEmptyWithoutLock == Len(queue_) = 0

\* The wait sets of the two condition variables.
WaitsNotFull  == {p \in Producer : pc[p] = "wait"}
WaitsNotEmpty == {c \in Consumer : pc[c] = "wait"}

------------------------------------------------------------------------------
(* Steps both operations share. *)

Lock(t) ==
  /\ pc[t] = "lock"
  /\ mutex_ = NoThread
  /\ mutex_' = t
  /\ pc' = [pc EXCEPT ![t] = "check"]
  /\ UNCHANGED <<queue_, maxSize_, pushed, temp>>

\* wait_for gives up after a second, or wakes spuriously.
WaitTimeout(t) ==
  /\ pc[t] = "wait"
  /\ pc' = [pc EXCEPT ![t] = "lock"]
  /\ UNCHANGED <<queue_, maxSize_, mutex_, pushed, temp>>

\* t leaves the queue; notify_one moves one thread of the wait set W, if there
\* is any, from wait to the contention for the mutex.
LeaveAndNotify(t, W) ==
  IF W = {}
  THEN pc' = [pc EXCEPT ![t] = "idle"]
  ELSE \E w \in W : pc' = [pc EXCEPT ![t] = "idle", ![w] = "lock"]

------------------------------------------------------------------------------
(* push(x) *)

PushCall(p) ==
  /\ pc[p] = "idle"
  /\ pushed[p] < MaxPush
  /\ pushed' = [pushed EXCEPT ![p] = @ + 1]
  /\ pc' = [pc EXCEPT ![p] = "lock"]
  /\ UNCHANGED <<queue_, maxSize_, mutex_, temp>>

PushWait(p) ==
  /\ pc[p] = "check"
  /\ isFullWithoutLock
  /\ mutex_' = NoThread
  /\ pc' = [pc EXCEPT ![p] = "wait"]
  /\ UNCHANGED <<queue_, maxSize_, pushed, temp>>

\* A slip a rewrite of push could make: wake a consumer only when the queue
\* was empty, since "otherwise one is already awake".
PushEmplaceNotifyOnEmpty(p) ==
  /\ pc[p] = "check"
  /\ ~isFullWithoutLock
  /\ queue_' = Append(queue_, <<p, pushed[p]>>)
  /\ LeaveAndNotify(p, IF isEmptyWithoutLock THEN WaitsNotEmpty ELSE {})
  /\ mutex_' = NoThread
  /\ UNCHANGED <<maxSize_, pushed, temp>>

\* A slip: the capacity is not tested again after the wait.
PushEmplaceUnchecked(p) ==
  /\ pc[p] = "check"
  /\ queue_' = Append(queue_, <<p, pushed[p]>>)
  /\ LeaveAndNotify(p, WaitsNotEmpty)
  /\ mutex_' = NoThread
  /\ UNCHANGED <<maxSize_, pushed, temp>>

\* emplace, notify_one and the unlock of the scope's end happen under mutex_.
PushEmplace(p) ==
  /\ pc[p] = "check"
  /\ ~isFullWithoutLock
  /\ queue_' = Append(queue_, <<p, pushed[p]>>)
  /\ LeaveAndNotify(p, WaitsNotEmpty)
  /\ mutex_' = NoThread
  /\ UNCHANGED <<maxSize_, pushed, temp>>

------------------------------------------------------------------------------
(* pop() *)

PopCall(c) ==
  /\ pc[c] = "idle"
  /\ pc' = [pc EXCEPT ![c] = "lock"]
  /\ UNCHANGED <<queue_, maxSize_, mutex_, pushed, temp>>

PopWait(c) ==
  /\ pc[c] = "check"
  /\ isEmptyWithoutLock
  /\ mutex_' = NoThread
  /\ pc' = [pc EXCEPT ![c] = "wait"]
  /\ UNCHANGED <<queue_, maxSize_, pushed, temp>>

\* A slip: pop forgets to tell the producers that a slot is free.
PopTakeSilent(c) ==
  /\ pc[c] = "check"
  /\ ~isEmptyWithoutLock
  /\ temp' = [temp EXCEPT ![c] = Head(queue_)]
  /\ queue_' = Tail(queue_)
  /\ LeaveAndNotify(c, {})
  /\ mutex_' = NoThread
  /\ UNCHANGED <<maxSize_, pushed>>

\* A slip: the copy is returned but the element stays in the queue.
PopTakeCopy(c) ==
  /\ pc[c] = "check"
  /\ ~isEmptyWithoutLock
  /\ temp' = [temp EXCEPT ![c] = Head(queue_)]
  /\ LeaveAndNotify(c, WaitsNotFull)
  /\ mutex_' = NoThread
  /\ UNCHANGED <<queue_, maxSize_, pushed>>

PopTake(c) ==
  /\ pc[c] = "check"
  /\ ~isEmptyWithoutLock
  /\ temp' = [temp EXCEPT ![c] = Head(queue_)]
  /\ queue_' = Tail(queue_)
  /\ LeaveAndNotify(c, WaitsNotFull)
  /\ mutex_' = NoThread
  /\ UNCHANGED <<maxSize_, pushed>>

------------------------------------------------------------------------------
ProducerStep(p) ==
  \/ Lock(p)
  \/ WaitTimeout(p)
  \/ PushCall(p)
  \/ PushWait(p)
  \/ PushEmplace(p)

ConsumerStep(c) ==
  \/ Lock(c)
  \/ WaitTimeout(c)
  \/ PopCall(c)
  \/ PopWait(c)
  \/ PopTake(c)

Next ==
  \/ \E p \in Producer : ProducerStep(p)
  \/ \E c \in Consumer : ConsumerStep(c)

Spec == Init /\ [][Next]_vars

(***************************************************************************)
(* Scheduling.  A thread that runs keeps running (weak fairness), a thread *)
(* that contends for the mutex is not passed over for ever (strong         *)
(* fairness of Lock), and a consumer calls pop again, as                   *)
(* MessageProcessThread::run does.  Nothing is assumed about when          *)
(* producers push, and nothing about time-outs: what must happen may not   *)
(* depend on a wait being cut short.                                       *)
(***************************************************************************)
Fairness ==
  /\ \A t \in Thread : SF_vars(Lock(t))
  /\ \A p \in Producer : WF_vars(PushWait(p) \/ PushEmplace(p))
  /\ \A c \in Consumer : WF_vars(PopCall(c) \/ PopWait(c) \/ PopTake(c))

FairSpec == Spec /\ Fairness

------------------------------------------------------------------------------
(* Correctness *)

\* mutex_ is held exactly by the thread that examines or changes the queue.
MutexHeldInside == \A t \in Thread : pc[t] = "check" <=> mutex_ = t

\* Threads that will examine the queue without being notified again.
Coming(S) == {t \in S : pc[t] \in {"lock", "check"}}

\* While some consumer sleeps in pop's wait_for, every queued value already has
\* a consumer on its way to it: notify_one under the lock, once per push, is
\* enough, and the one-second time-out is never what saves a value from waiting.
NoMissedNotEmpty ==
  WaitsNotEmpty # {} => Len(queue_) <= Cardinality(Coming(Consumer))

\* While some producer sleeps in push's wait_for, every free slot already has a
\* producer on its way to it.
NoMissedNotFull ==
  WaitsNotFull # {} =>
    maxSize_ <= Len(queue_) + Cardinality(Coming(Producer))

\* The queue with its locks and waits behaves as a bounded FIFO queue: no push
\* is lost, doubled or reordered, no two pops return the same element, and
\* maxSize_ (when not 0) bounds the length.
Fifo == INSTANCE FifoQueue WITH
          items <- queue_, capacity <- maxSize_, holds <- temp

ImplementsFifo == Fifo!Spec

\* The values whose push has returned.
Returned == {v \in Value : v[2] < pushed[v[1]] \/ (v[2] = pushed[v[1]] /\ pc[v[1]] = "idle")}

\* As long as pushes are under way, pushes return, even if no time-out ever fires: the
\* producers are never all left waiting by the consumers.  Which of them returns is
\* not promised: notify_one may pass over the same sleeper for as long as other
\* producers come, so that a single push is sure to return only when they stop.
SomePushReturns ==
  \A n \in 0 .. Cardinality(Value) - 1 :
    (Cardinality(Returned) = n /\ \E p \in Producer : pc[p] # "idle")
      ~> Cardinality(Returned) > n

\* Every value that is queued leaves the queue: while there are values, pops return,
\* even if no time-out ever fires.  Which of several consumers gets one is not promised.
ValuePopped ==
  \A v \in Value :
    (\E i \in DOMAIN queue_ : queue_[i] = v)
      ~> ~(\E i \in DOMAIN queue_ : queue_[i] = v)
==============================================================================
