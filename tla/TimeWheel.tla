------------------------------- MODULE TimeWheel -------------------------------
(***************************************************************************)
(* The wheel that closes idle connections (TimeWheel.cpp) and what the     *)
(* loop thread does with it (LoopThread.cpp).  Everything here runs on the *)
(* loop thread.  LoopThread::init makes the timer and leaves its           *)
(* registration commented out: this module, and IdleTimer with the timer   *)
(* itself, are the component as written, with the timer registered.        *)
(***************************************************************************)
EXTENDS Integers, FiniteSets

CONSTANTS
  Fd,    \* descriptors of accepted sockets
  Size   \* buckets of the wheel

ASSUME WheelAssumption == Size \in Nat \ {0}

VARIABLES
  bucket_,             \* the descriptors to close at each place of the wheel
  index_,              \* the place of the next tick
  connectionManager_,  \* the descriptors of open connections
  refIndex,            \* the index_ of each connection's session
  age,                 \* ticks since the last event
  ignored,             \* connections whose last event the wheel did not record
  leftover             \* descriptors left behind in a bucket

historyVars == <<age, ignored, leftover>>
vars == <<bucket_, index_, connectionManager_, refIndex, historyVars>>

Place == 0 .. Size - 1

TypeOK ==
  /\ bucket_ \in [Place -> SUBSET Fd]
  /\ index_ \in Place
  /\ connectionManager_ \subseteq Fd
  /\ refIndex \in [Fd -> Place]
  /\ age \in [Fd -> 0..Size]
  /\ ignored \subseteq Fd
  /\ leftover \subseteq Fd

Init ==
  /\ bucket_ = [i \in Place |-> {}]
  /\ index_ = 0
  /\ connectionManager_ = {}
  /\ refIndex = [fd \in Fd |-> 0]
  /\ age = [fd \in Fd |-> 0]
  /\ ignored = {}
  /\ leftover = {}

\* A slip: new entries are due at the next tick.
lastIsNext == index_

\* Where addSock puts an entry: the place that is due last.
last == (index_ - 1) % Size

addSock(fd, buckets) ==
  /\ bucket_' = [buckets EXCEPT ![last] = @ \cup {fd}]
  /\ refIndex' = [refIndex EXCEPT ![fd] = last]
  /\ age' = [age EXCEPT ![fd] = 0]

\* The buckets without the entry of fd.
erased(fd) == [bucket_ EXCEPT ![refIndex[fd]] = @ \ {fd}]

------------------------------------------------------------------------------
addConnection(fd) ==
  /\ fd \notin connectionManager_
  /\ connectionManager_' = connectionManager_ \cup {fd}
  /\ addSock(fd, bucket_)
  /\ UNCHANGED <<index_, ignored, leftover>>

\* An event of the connection.  One whose entry is due at the next tick stays due.
resetSock(fd) ==
  /\ fd \in connectionManager_
  /\ \/ /\ refIndex[fd] # index_
        /\ addSock(fd, erased(fd))
        /\ UNCHANGED ignored
     \/ /\ refIndex[fd] = index_
        /\ age' = [age EXCEPT ![fd] = 0]
        /\ ignored' = ignored \cup {fd}
        /\ UNCHANGED <<bucket_, refIndex>>
  /\ UNCHANGED <<index_, connectionManager_, leftover>>

\* A slip: the entry always stays.
removeConnectionKeeps(fd) ==
  /\ fd \in connectionManager_
  /\ connectionManager_' = connectionManager_ \ {fd}
  /\ ignored' = ignored \ {fd}
  /\ UNCHANGED <<bucket_, index_, refIndex, age, leftover>>

\* An entry that is due at the next tick stays.
remove(fd) ==
  \/ /\ refIndex[fd] = index_
     /\ leftover' = leftover \cup {fd}
     /\ UNCHANGED bucket_
  \/ /\ refIndex[fd] # index_
     /\ bucket_' = erased(fd)
     /\ UNCHANGED leftover

removeConnection(fd) ==
  /\ fd \in connectionManager_
  /\ connectionManager_' = connectionManager_ \ {fd}
  /\ remove(fd)
  /\ ignored' = ignored \ {fd}
  /\ UNCHANGED <<index_, refIndex, age>>

\* Other entries of a connection that is closed are not looked for.
onTimerRemoveClient(sock) ==
  /\ connectionManager_' = connectionManager_ \ sock
  /\ ignored' = ignored \ sock

\* A descriptor stays left behind as long as an entry of it is in the wheel.
stillLeft == leftover' = {fd \in leftover : \E i \in Place : fd \in bucket_'[i]}

\* A slip: the last place is never reached.
onTimerShort ==
  /\ onTimerRemoveClient(bucket_[index_])
  /\ bucket_' = [bucket_ EXCEPT ![index_] = {}]
  /\ index_' = (index_ + 1) % (Size - 1)
  /\ age' = [fd \in Fd |-> IF fd \in connectionManager_' /\ age[fd] < Size THEN age[fd] + 1 ELSE 0]
  /\ stillLeft
  /\ UNCHANGED refIndex

onTimer ==
  /\ onTimerRemoveClient(bucket_[index_])
  /\ bucket_' = [bucket_ EXCEPT ![index_] = {}]
  /\ index_' = (index_ + 1) % Size
  /\ age' = [fd \in Fd |-> IF fd \in connectionManager_' THEN age[fd] + 1 ELSE 0]
  /\ stillLeft
  /\ UNCHANGED refIndex

Next ==
  \/ \E fd \in Fd : addConnection(fd) \/ resetSock(fd) \/ removeConnection(fd)
  \/ onTimer

Spec == Init /\ [][Next]_vars

------------------------------------------------------------------------------
(* Correctness *)

\* Every open connection has its entry where its session says, and that place is
\* due exactly when the connection has seen Size ticks without an event: an idle
\* connection is closed by then.  One whose last event came when it was due already
\* is due all the same.
ExpiryIsAge ==
  \A fd \in connectionManager_ :
    /\ fd \in bucket_[refIndex[fd]]
    /\ fd \notin ignored => age[fd] + ((refIndex[fd] - index_) % Size) = Size - 1
    /\ fd \in ignored => refIndex[fd] = index_

\* A tick closes only connections that were idle that long, with two exceptions.
\* An event that comes after Size - 1 ticks without any, and not before, saves its
\* connection no more.  And when a connection was closed just before its own tick its
\* entry stays: while it does, whoever gets the descriptor next is closed instead.
OnlyIdleAreClosed ==
  [][\A fd \in connectionManager_ :
       /\ index_' # index_ /\ fd \notin connectionManager_' =>
            age[fd] = Size - 1 \/ fd \in ignored \cup leftover
       /\ fd \in ignored' \ ignored => age[fd] = Size - 1]_vars
==============================================================================
