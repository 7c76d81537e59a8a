---------------------------- MODULE TimeWheelProofs ----------------------------
(* Theorems about TimeWheel and IdleTimer, for every set of descriptors, every  *)
(* number of buckets and every interval.                                        *)
EXTENDS IdleTimer, TLAPS

\* The inductive invariant: an entry of a bucket belongs to the open connection
\* whose session names that bucket, or was left behind.
EntriesAreExplained ==
  \A fd \in Fd, i \in Place :
    fd \in bucket_[i] =>
      \/ fd \in connectionManager_ /\ refIndex[fd] = i
      \/ fd \in leftover

\* No tick has come since an event that was not recorded.
IgnoredAreDue ==
  /\ ignored \subseteq connectionManager_
  /\ \A fd \in ignored : age[fd] = 0

IndInv == TypeOK /\ ExpiryIsAge /\ EntriesAreExplained /\ IgnoredAreDue

\* What % means here.
LEMMA ModOfPlace ==
  ASSUME NEW i \in Place, NEW j \in Place
  PROVE  (i - j) % Size = IF j <= i THEN i - j ELSE i - j + Size
BY WheelAssumption DEF Place

\* The place of the tick after the one at i.
LEMMA NextPlace ==
  ASSUME NEW i \in Place
  PROVE  (i + 1) % Size = IF i = Size - 1 THEN 0 ELSE i + 1
BY WheelAssumption DEF Place

\* The place addSock uses is the one before index_.
LEMMA LastPlace ==
  ASSUME index_ \in Place
  PROVE  last = IF index_ = 0 THEN Size - 1 ELSE index_ - 1
BY WheelAssumption DEF Place, last

\* An entry added there is due after all the other places.
LEMMA LastIsPlace ==
  ASSUME index_ \in Place
  PROVE  last \in Place /\ (last - index_) % Size = Size - 1
<1>1. last \in Place
  BY LastPlace, WheelAssumption DEF Place
<1>2. (last - index_) % Size = IF index_ <= last THEN last - index_ ELSE last - index_ + Size
  BY <1>1, ModOfPlace
<1>3. QED
  BY <1>1, <1>2, LastPlace, WheelAssumption DEF Place

\* A new entry, with the buckets it is added to, keeps the invariant.
LEMMA AddSockKeeps ==
  ASSUME IndInv, NEW fd \in Fd, NEW buckets \in [Place -> SUBSET Fd],
         addSock(fd, buckets),
         \A g \in Fd, i \in Place : g \in buckets[i] => g \in bucket_[i],
         \A g \in Fd \ {fd}, i \in Place : g \in bucket_[i] => g \in buckets[i],
         \A i \in Place : fd \in buckets[i] => fd \in leftover,
         connectionManager_' = connectionManager_ \cup {fd}, fd \notin ignored,
         UNCHANGED <<index_, ignored, leftover>>
  PROVE  IndInv'
<1>1. last \in Place /\ (last - index_) % Size = Size - 1
  BY LastIsPlace DEF IndInv, TypeOK
<1>2. TypeOK'
  BY <1>1, WheelAssumption DEF IndInv, TypeOK, addSock
<1>3. ExpiryIsAge'
  <2> SUFFICES ASSUME NEW g \in connectionManager_'
               PROVE  /\ g \in bucket_'[refIndex'[g]]
                      /\ g \notin ignored' => age'[g] + ((refIndex'[g] - index_') % Size) = Size - 1
                      /\ g \in ignored' => refIndex'[g] = index_'
    BY DEF ExpiryIsAge
  <2>1. CASE g = fd
    <3>1. refIndex'[g] = last /\ age'[g] = 0 /\ index_' = index_
      BY <2>1 DEF addSock, IndInv, TypeOK
    <3>2. g \in bucket_'[last]
      BY <2>1, <1>1 DEF addSock
    <3>3. QED
      BY <2>1, <3>1, <3>2, <1>1, WheelAssumption
  <2>2. CASE g # fd
    <3>1. g \in connectionManager_ /\ g \in Fd
      BY <2>2 DEF IndInv, TypeOK
    <3>2. refIndex'[g] = refIndex[g] /\ age'[g] = age[g] /\ index_' = index_
          /\ refIndex[g] \in Place
      BY <2>2, <3>1 DEF addSock, IndInv, TypeOK
    <3>3. /\ g \in bucket_[refIndex[g]]
          /\ g \notin ignored => age[g] + ((refIndex[g] - index_) % Size) = Size - 1
          /\ g \in ignored => refIndex[g] = index_
      BY <3>1 DEF IndInv, ExpiryIsAge
    <3>4. g \in buckets[refIndex[g]]
      BY <2>2, <3>1, <3>2, <3>3
    <3>5. g \in bucket_'[refIndex[g]]
      BY <3>2, <3>4 DEF addSock
    <3>6. QED
      BY <3>2, <3>3, <3>5
  <2>3. QED
    BY <2>1, <2>2
<1>4. EntriesAreExplained'
  <2> SUFFICES ASSUME NEW g \in Fd, NEW i \in Place, g \in bucket_'[i]
               PROVE  (g \in connectionManager_' /\ refIndex'[g] = i) \/ g \in leftover'
    BY DEF EntriesAreExplained
  <2>1. g \in buckets[i] \/ (g = fd /\ i = last)
    BY <1>1 DEF addSock
  <2>2. CASE g = fd /\ i = last
    BY <2>2, <1>1 DEF addSock, IndInv, TypeOK
  <2>3. CASE g \in buckets[i] /\ g = fd
    BY <2>3
  <2>4. CASE g \in buckets[i] /\ g # fd
    <3>1. g \in bucket_[i]
      BY <2>4
    <3>2. (g \in connectionManager_ /\ refIndex[g] = i) \/ g \in leftover
      BY <3>1 DEF IndInv, EntriesAreExplained
    <3>3. QED
      BY <2>4, <3>2 DEF addSock, IndInv, TypeOK
  <2>5. QED
    BY <2>1, <2>2, <2>3, <2>4
<1>5. IgnoredAreDue'
  BY DEF addSock, IndInv, TypeOK, IgnoredAreDue
<1>6. QED
  BY <1>2, <1>3, <1>4, <1>5 DEF IndInv

\* The buckets without the entry of an open connection that is not due.
LEMMA Erased ==
  ASSUME IndInv, NEW fd \in connectionManager_
  PROVE  /\ fd \in Fd
         /\ erased(fd) \in [Place -> SUBSET Fd]
         /\ \A g \in Fd, i \in Place : g \in erased(fd)[i] => g \in bucket_[i]
         /\ \A g \in Fd \ {fd}, i \in Place : g \in bucket_[i] => g \in erased(fd)[i]
         /\ \A i \in Place : fd \in erased(fd)[i] => fd \in leftover
<1>1. fd \in Fd
  BY DEF IndInv, TypeOK
<1>2. \A i \in Place : erased(fd)[i] = IF i = refIndex[fd] THEN bucket_[i] \ {fd} ELSE bucket_[i]
  BY DEF IndInv, TypeOK, erased
<1>3. erased(fd) \in [Place -> SUBSET Fd]
  BY DEF IndInv, TypeOK, erased
<1>4. \A i \in Place : fd \in erased(fd)[i] => fd \in leftover
  BY <1>1, <1>2 DEF IndInv, EntriesAreExplained
<1>5. QED
  BY <1>1, <1>2, <1>3, <1>4

\* A new connection has no entry in the wheel that was not left behind.
LEMMA AddConnectionKeeps ==
  ASSUME IndInv, NEW fd \in Fd, addConnection(fd)
  PROVE  IndInv'
<1>1. \A i \in Place : fd \in bucket_[i] => fd \in leftover
  BY DEF IndInv, EntriesAreExplained, addConnection
<1>2. QED
  BY <1>1, AddSockKeeps DEF addConnection, IndInv, TypeOK, IgnoredAreDue

\* An event moves the entry of its connection, or is not recorded.
LEMMA ResetSockKeeps ==
  ASSUME IndInv, NEW fd \in Fd, resetSock(fd)
  PROVE  IndInv'
<1>1. fd \in connectionManager_ /\ connectionManager_' = connectionManager_ \cup {fd}
  BY DEF resetSock
<1>2. CASE refIndex[fd] # index_
  <2>1. addSock(fd, erased(fd)) /\ UNCHANGED <<index_, ignored, leftover>>
    BY <1>2 DEF resetSock
  <2>2. fd \notin ignored
    BY <1>1, <1>2 DEF IndInv, ExpiryIsAge
  <2>. QED
    BY <1>1, <2>1, <2>2, Erased, AddSockKeeps
<1>3. CASE refIndex[fd] = index_
  <2>1. /\ age' = [age EXCEPT ![fd] = 0] /\ ignored' = ignored \cup {fd}
        /\ UNCHANGED <<bucket_, refIndex, index_, connectionManager_, leftover>>
    BY <1>3 DEF resetSock
  <2>2. TypeOK'
    BY <2>1, WheelAssumption DEF IndInv, TypeOK
  <2>3. ExpiryIsAge'
    BY <1>3, <2>1 DEF IndInv, TypeOK, ExpiryIsAge
  <2>4. EntriesAreExplained' /\ IgnoredAreDue'
    BY <1>1, <2>1 DEF IndInv, TypeOK, EntriesAreExplained, IgnoredAreDue
  <2>. QED
    BY <2>2, <2>3, <2>4 DEF IndInv
<1>. QED
  BY <1>2, <1>3

\* Closing a connection erases its entry or leaves it behind.
LEMMA RemoveConnectionKeeps ==
  ASSUME IndInv, NEW fd \in Fd, removeConnection(fd)
  PROVE  IndInv'
<1>1. fd \in connectionManager_
  BY DEF removeConnection
<1>2. CASE refIndex[fd] = index_
  BY <1>1, <1>2
    DEF IndInv, TypeOK, ExpiryIsAge, EntriesAreExplained, IgnoredAreDue, removeConnection, remove
<1>3. CASE refIndex[fd] # index_
  <2>1. bucket_' = erased(fd) /\ leftover' = leftover
    BY <1>3 DEF removeConnection, remove
  <2>2. TypeOK'
    BY <1>1, <2>1, Erased DEF IndInv, TypeOK, removeConnection
  <2>3. ExpiryIsAge'
    BY <1>1, <2>1, Erased DEF IndInv, TypeOK, ExpiryIsAge, removeConnection
  <2>4. EntriesAreExplained'
    BY <1>1, <2>1, Erased DEF IndInv, EntriesAreExplained, removeConnection
  <2>5. IgnoredAreDue'
    BY DEF IndInv, IgnoredAreDue, removeConnection
  <2>6. QED
    BY <2>2, <2>3, <2>4, <2>5 DEF IndInv
<1>4. QED
  BY <1>2, <1>3

\* A tick brings every surviving connection one place nearer to its own.
LEMMA OnTimerKeeps ==
  ASSUME IndInv, onTimer
  PROVE  IndInv'
<1>1. index_ \in Place /\ index_' = IF index_ = Size - 1 THEN 0 ELSE index_ + 1
  BY NextPlace DEF IndInv, TypeOK, onTimer
<1>2. index_' \in Place
  BY <1>1, WheelAssumption DEF Place
<1>3. ASSUME NEW fd \in connectionManager_'
      PROVE  /\ fd \in Fd /\ fd \in connectionManager_
             /\ refIndex[fd] \in Place /\ refIndex[fd] # index_
             /\ age[fd] \in 0..Size /\ age'[fd] = age[fd] + 1 /\ fd \notin ignored
             /\ fd \in bucket_'[refIndex[fd]]
             /\ age[fd] + ((refIndex[fd] - index_) % Size) = Size - 1
  <2>1. fd \in connectionManager_ /\ fd \notin bucket_[index_] /\ fd \in Fd
    BY DEF onTimer, onTimerRemoveClient, IndInv, TypeOK
  <2>2. /\ fd \in bucket_[refIndex[fd]] /\ fd \notin ignored
        /\ age[fd] + ((refIndex[fd] - index_) % Size) = Size - 1
    BY <2>1 DEF IndInv, ExpiryIsAge
  <2>3. refIndex[fd] \in Place /\ age[fd] \in 0..Size
    BY <2>1 DEF IndInv, TypeOK
  <2>4. age'[fd] = age[fd] + 1
    BY <2>1 DEF onTimer
  <2>5. refIndex[fd] # index_
    BY <2>1, <2>2
  <2>6. fd \in bucket_'[refIndex[fd]]
    BY <2>2, <2>3, <2>5 DEF onTimer, IndInv, TypeOK
  <2>7. QED
    BY <2>1, <2>2, <2>3, <2>4, <2>5, <2>6
<1>4. ASSUME NEW fd \in connectionManager_'
      PROVE  age'[fd] + ((refIndex[fd] - index_') % Size) = Size - 1
  <2>1. (refIndex[fd] - index_) % Size
          = IF index_ <= refIndex[fd] THEN refIndex[fd] - index_ ELSE refIndex[fd] - index_ + Size
    BY <1>1, <1>3, ModOfPlace
  <2>2. (refIndex[fd] - index_') % Size
          = IF index_' <= refIndex[fd] THEN refIndex[fd] - index_' ELSE refIndex[fd] - index_' + Size
    BY <1>2, <1>3, ModOfPlace
  <2>3. /\ index_ \in 0 .. Size - 1 /\ refIndex[fd] \in 0 .. Size - 1
        /\ age[fd] \in Nat /\ age'[fd] = age[fd] + 1 /\ refIndex[fd] # index_
        /\ age[fd] + ((refIndex[fd] - index_) % Size) = Size - 1
    BY <1>1, <1>3 DEF Place
  <2>4. ((refIndex[fd] - index_) % Size) - 1 = (refIndex[fd] - index_') % Size
    <3>1. CASE index_ = Size - 1
      <4>1. index_' = 0 /\ refIndex[fd] < index_
        BY <1>1, <2>3, <3>1, WheelAssumption
      <4>2. (refIndex[fd] - index_) % Size = refIndex[fd] + 1
        BY <2>1, <2>3, <3>1, <4>1, WheelAssumption
      <4>3. (refIndex[fd] - index_') % Size = refIndex[fd]
        BY <2>2, <2>3, <4>1, WheelAssumption
      <4>4. QED
        BY <2>3, <4>2, <4>3
    <3>2. CASE index_ # Size - 1
      <4>1. index_' = index_ + 1
        BY <1>1, <3>2
      <4>2. CASE index_ < refIndex[fd]
        <5>1. index_' <= refIndex[fd] /\ index_ <= refIndex[fd]
          BY <2>3, <4>1, <4>2, WheelAssumption
        <5>2. /\ (refIndex[fd] - index_) % Size = refIndex[fd] - index_
              /\ (refIndex[fd] - index_') % Size = refIndex[fd] - index_'
          BY <2>1, <2>2, <5>1
        <5>3. QED
          BY <2>3, <4>1, <5>2, WheelAssumption
      <4>3. CASE refIndex[fd] < index_
        <5>1. ~(index_' <= refIndex[fd]) /\ ~(index_ <= refIndex[fd])
          BY <2>3, <4>1, <4>3, WheelAssumption
        <5>2. /\ (refIndex[fd] - index_) % Size = refIndex[fd] - index_ + Size
              /\ (refIndex[fd] - index_') % Size = refIndex[fd] - index_' + Size
          BY <2>1, <2>2, <5>1
        <5>3. QED
          BY <2>3, <4>1, <5>2, WheelAssumption
      <4>4. QED
        BY <2>3, <4>2, <4>3, WheelAssumption
    <3>3. QED
      BY <3>1, <3>2
  <2>5. (refIndex[fd] - index_) % Size \in Int
    BY <2>1, <2>3, WheelAssumption
  <2>6. QED
    BY <2>3, <2>4, <2>5, WheelAssumption
<1>5. TypeOK'
  <2>1. \A fd \in connectionManager_' : age'[fd] \in 0..Size
    <3> SUFFICES ASSUME NEW fd \in connectionManager_'
                 PROVE  age'[fd] \in 0..Size
      OBVIOUS
    <3>1. (refIndex[fd] - index_) % Size
            = IF index_ <= refIndex[fd] THEN refIndex[fd] - index_ ELSE refIndex[fd] - index_ + Size
      BY <1>1, <1>3, ModOfPlace
    <3>2. QED
      BY <1>1, <1>3, <3>1, WheelAssumption DEF Place
  <2>2. age' = [fd \in Fd |-> IF fd \in connectionManager_' THEN age[fd] + 1 ELSE 0]
    BY DEF onTimer
  <2>3. age' \in [Fd -> 0..Size]
    BY <2>1, <2>2, WheelAssumption
  <2>4. QED
    BY <1>2, <2>3 DEF IndInv, TypeOK, onTimer, onTimerRemoveClient, stillLeft
<1>6. ExpiryIsAge'
  BY <1>3, <1>4 DEF ExpiryIsAge, onTimer, onTimerRemoveClient
<1>7. EntriesAreExplained'
  <2> SUFFICES ASSUME NEW fd \in Fd, NEW i \in Place, fd \in bucket_'[i]
               PROVE  (fd \in connectionManager_' /\ refIndex'[fd] = i) \/ fd \in leftover'
    BY DEF EntriesAreExplained
  <2>1. i # index_ /\ fd \in bucket_[i]
    BY <1>1 DEF onTimer, IndInv, TypeOK
  <2>2. CASE fd \in leftover
    BY <2>2 DEF onTimer, stillLeft
  <2>3. CASE fd \notin leftover
    <3>1. fd \in connectionManager_ /\ refIndex[fd] = i
      BY <2>1, <2>3 DEF IndInv, EntriesAreExplained
    <3>2. fd \notin bucket_[index_]
      BY <1>1, <2>1, <2>3, <3>1 DEF IndInv, EntriesAreExplained
    <3>3. QED
      BY <3>1, <3>2 DEF onTimer, onTimerRemoveClient
  <2>4. QED
    BY <2>2, <2>3
<1>8. IgnoredAreDue'
  BY <1>3 DEF IndInv, IgnoredAreDue, onTimer, onTimerRemoveClient
<1>9. QED
  BY <1>5, <1>6, <1>7, <1>8 DEF IndInv

\* The inductive invariant holds in every reachable state.
THEOREM Invariance == Spec => []IndInv
<1>1. Init => IndInv
  BY WheelAssumption
    DEF Init, IndInv, TypeOK, ExpiryIsAge, EntriesAreExplained, IgnoredAreDue, Place
<1>2. IndInv /\ [Next]_vars => IndInv'
  <2> SUFFICES ASSUME IndInv, [Next]_vars
               PROVE  IndInv'
    OBVIOUS
  <2>1. CASE UNCHANGED vars
    BY <2>1
      DEF vars, historyVars, IndInv, TypeOK, ExpiryIsAge, EntriesAreExplained, IgnoredAreDue
  <2>2. ASSUME NEW fd \in Fd, addConnection(fd) PROVE IndInv'
    BY <2>2, AddConnectionKeeps
  <2>3. ASSUME NEW fd \in Fd, resetSock(fd) PROVE IndInv'
    BY <2>3, ResetSockKeeps
  <2>4. ASSUME NEW fd \in Fd, removeConnection(fd) PROVE IndInv'
    BY <2>4, RemoveConnectionKeeps
  <2>5. CASE onTimer
    BY <2>5, OnTimerKeeps
  <2>6. QED
    BY <2>1, <2>2, <2>3, <2>4, <2>5 DEF Next
<1>3. QED
  BY <1>1, <1>2, PTL DEF Spec

\* Every variable of the wheel keeps its type.
THEOREM Typing == Spec => []TypeOK
<1>1. IndInv => TypeOK
  BY DEF IndInv
<1>2. QED
  BY <1>1, Invariance, PTL

\* Every open connection's entry is where its session says and is due on time.
THEOREM ExpiryIsExact == Spec => []ExpiryIsAge
<1>1. IndInv => ExpiryIsAge
  BY DEF IndInv
<1>2. QED
  BY <1>1, Invariance, PTL

\* An open connection that is due, its last event recorded, has seen Size - 1 ticks.
LEMMA DueAge ==
  ASSUME IndInv, NEW fd \in connectionManager_, fd \notin ignored, refIndex[fd] = index_
  PROVE  age[fd] = Size - 1
<1>1. fd \in Fd /\ index_ \in Place
  BY DEF IndInv, TypeOK
<1>2. (refIndex[fd] - index_) % Size = 0
  BY <1>1, ModOfPlace, WheelAssumption DEF Place
<1>. QED
  BY <1>1, <1>2, WheelAssumption DEF IndInv, ExpiryIsAge, TypeOK

\* A tick closes idle connections only, and those whose descriptor was left behind or
\* whose last event came when they were due.
THEOREM OnlyIdleConnectionsAreClosed == Spec => OnlyIdleAreClosed
<1> DEFINE Closed ==
      \A fd \in connectionManager_ :
        /\ index_' # index_ /\ fd \notin connectionManager_' =>
             age[fd] = Size - 1 \/ fd \in ignored \cup leftover
        /\ fd \in ignored' \ ignored => age[fd] = Size - 1
<1>1. IndInv /\ [Next]_vars => [Closed]_vars
  <2> SUFFICES ASSUME IndInv, Next, NEW fd \in connectionManager_
               PROVE  /\ index_' # index_ /\ fd \notin connectionManager_' =>
                           age[fd] = Size - 1 \/ fd \in ignored \cup leftover
                      /\ fd \in ignored' \ ignored => age[fd] = Size - 1
    OBVIOUS
  <2>1. ASSUME index_' # index_, fd \notin connectionManager_', fd \notin ignored \cup leftover
        PROVE  age[fd] = Size - 1
    <3>1. onTimer
      BY <2>1 DEF Next, addConnection, resetSock, removeConnection
    <3>2. fd \in bucket_[index_] /\ fd \in Fd /\ index_ \in Place
      BY <2>1, <3>1 DEF onTimer, onTimerRemoveClient, IndInv, TypeOK
    <3>3. refIndex[fd] = index_
      BY <2>1, <3>2 DEF IndInv, EntriesAreExplained
    <3>. QED
      BY DueAge, <2>1, <3>3
  <2>2. ASSUME fd \in ignored' \ ignored
        PROVE  age[fd] = Size - 1
    <3>1. resetSock(fd) /\ refIndex[fd] = index_
      BY <2>2 DEF Next, addConnection, resetSock, removeConnection, onTimer, onTimerRemoveClient
    <3>. QED
      BY DueAge, <2>2, <3>1
  <2>. QED
    BY <2>1, <2>2
<1>. QED
  BY <1>1, Invariance, PTL DEF Spec, OnlyIdleAreClosed

------------------------------------------------------------------------------
(* The timer *)

\* With the timer the wheel makes the steps it makes without.
THEOREM TimerTurnsWheel == TimerSpec => Spec
<1>1. TimerInit => Init
  BY DEF TimerInit
<1>2. [TimerNext]_allVars => [Next]_vars
  BY DEF TimerNext, accept, event, leave, pass, cancle, readHandler, Next, allVars
<1>. QED
  BY <1>1, <1>2, PTL DEF TimerSpec, Spec

\* How long the last tick is ago, at least.
SinceTick == IF ~registered THEN 0 ELSE IF ready THEN Interval ELSE Interval - left

\* A connection that has seen ticks has been idle from the first of them on.
IdleLongEnough ==
  \A fd \in connectionManager_ :
    age[fd] > 0 => idle[fd] >= (age[fd] - 1) * Interval + SinceTick

IdleInv == TimerTypeOK /\ IdleLongEnough

\* Intervals add up.
LEMMA Intervals ==
  ASSUME NEW n \in Nat, NEW m \in Nat, n <= m
  PROVE  /\ n * Interval \in Nat
         /\ (n + 1) * Interval = n * Interval + Interval
         /\ n * Interval <= m * Interval
BY IntervalAssumption

\* idle never has to count beyond its bound.
LEMMA MaxIdleIsEnough ==
  ASSUME IndInv, NEW fd \in connectionManager_, age[fd] > 0
  PROVE  /\ fd \in Fd /\ age[fd] \in 1..(Size - 1) /\ MaxIdle \in Nat
         /\ (age[fd] - 1) * Interval \in Nat
         /\ age[fd] * Interval = (age[fd] - 1) * Interval + Interval
         /\ (age[fd] - 1) * Interval + Interval <= MaxIdle
<1>1. fd \in Fd /\ age[fd] \in Nat /\ refIndex[fd] \in Place /\ index_ \in Place
  BY DEF IndInv, TypeOK
<1>2. (refIndex[fd] - index_) % Size \in Nat
  BY <1>1, WheelAssumption DEF Place
<1>3. age[fd] + ((refIndex[fd] - index_) % Size) = Size - 1
  BY DEF IndInv, ExpiryIsAge, IgnoredAreDue
<1>4. age[fd] \in 1..(Size - 1)
  BY <1>1, <1>2, <1>3, WheelAssumption
<1>5. age[fd] - 1 \in Nat /\ Size - 1 \in Nat /\ age[fd] <= Size - 1 /\ age[fd] \in Nat
  BY <1>4, WheelAssumption
<1>6. /\ (age[fd] - 1) * Interval \in Nat
      /\ ((age[fd] - 1) + 1) * Interval = (age[fd] - 1) * Interval + Interval
      /\ age[fd] * Interval <= (Size - 1) * Interval
      /\ (Size - 1) * Interval \in Nat
  BY <1>5, Intervals
<1>7. (age[fd] - 1) + 1 = age[fd]
  BY <1>5
<1>. QED
  BY <1>1, <1>4, <1>6, <1>7 DEF MaxIdle

\* Every step of wheel and timer keeps the bound on idleness.
LEMMA IdleStep ==
  ASSUME IndInv, IndInv', IdleInv, [TimerNext]_allVars
  PROVE  IdleInv'
<1> USE DEF IdleInv
<1>0. Interval \in Nat \ {0} /\ MaxIdle \in Nat
  <2>1. Size - 1 \in Nat
    BY WheelAssumption
  <2>. QED
    BY <2>1, Intervals, IntervalAssumption DEF MaxIdle
<1>1. ASSUME NEW fd \in Fd, accept(fd) \/ event(fd)
      PROVE  IdleInv'
  <2>1. /\ idle' = [idle EXCEPT ![fd] = 0] /\ age' = [age EXCEPT ![fd] = 0]
        /\ UNCHANGED timerVars /\ connectionManager_' = connectionManager_ \cup {fd}
        /\ registered' = registered
    BY <1>1 DEF accept, event, seen, timerVars, addConnection, resetSock, addSock
  <2>2. TimerTypeOK'
    BY <1>0, <2>1 DEF TimerTypeOK, timerVars
  <2>3. IdleLongEnough'
    <3> SUFFICES ASSUME NEW g \in connectionManager_', age'[g] > 0
                 PROVE  idle'[g] >= (age'[g] - 1) * Interval + SinceTick'
      BY DEF IdleLongEnough
    <3>1. g # fd /\ g \in connectionManager_ /\ g \in Fd
      BY <2>1 DEF IndInv, TypeOK
    <3>2. age'[g] = age[g] /\ idle'[g] = idle[g] /\ SinceTick' = SinceTick
      BY <2>1, <3>1 DEF IndInv, TypeOK, TimerTypeOK, SinceTick, timerVars
    <3>3. age[g] > 0
      BY <3>2
    <3>. QED
      BY <3>1, <3>2, <3>3 DEF IdleLongEnough
  <2>. QED
    BY <2>2, <2>3
<1>2. ASSUME NEW fd \in Fd, leave(fd)
      PROVE  IdleInv'
  BY <1>2 DEF leave, removeConnection, timerVars, TimerTypeOK, IdleLongEnough, SinceTick
<1>3. CASE pass
  <2>1. TimerTypeOK'
    BY <1>0, <1>3 DEF pass, TimerTypeOK
  <2>2. IdleLongEnough'
    <3> SUFFICES ASSUME NEW g \in connectionManager_', age'[g] > 0
                 PROVE  idle'[g] >= (age'[g] - 1) * Interval + SinceTick'
      BY DEF IdleLongEnough
    <3>1. g \in connectionManager_ /\ age'[g] = age[g] /\ age[g] > 0
      BY <1>3 DEF pass, vars, historyVars
    <3>2. /\ g \in Fd /\ (age[g] - 1) * Interval \in Nat
          /\ (age[g] - 1) * Interval + Interval <= MaxIdle
      BY <3>1, MaxIdleIsEnough
    <3>3. idle[g] >= (age[g] - 1) * Interval + SinceTick
      BY <3>1 DEF IdleLongEnough
    <3>4. idle'[g] = IF idle[g] < MaxIdle THEN idle[g] + 1 ELSE MaxIdle
      BY <1>3, <3>2 DEF pass
    <3>5. SinceTick \in Nat /\ SinceTick' \in Nat /\ SinceTick' <= SinceTick + 1 /\ SinceTick' <= Interval
      BY <1>0, <1>3, <2>1 DEF pass, SinceTick, TimerTypeOK
    <3>6. idle[g] \in Nat
      BY <1>0, <3>2 DEF TimerTypeOK
    <3> DEFINE b == (age[g] - 1) * Interval
    <3>7. b \in Nat /\ b + Interval <= MaxIdle /\ idle[g] >= b + SinceTick
      BY <3>2, <3>3
    <3> HIDE DEF b
    <3>8. idle'[g] >= b + SinceTick'
      BY <1>0, <3>4, <3>5, <3>6, <3>7
    <3>. QED
      BY <3>1, <3>8 DEF b
  <2>. QED
    BY <2>1, <2>2
<1>4. CASE cancle
  BY <1>4 DEF cancle, vars, historyVars, TimerTypeOK, IdleLongEnough, SinceTick
<1>5. CASE readHandler
  <2>1. TimerTypeOK' /\ UNCHANGED idle /\ ready /\ registered
    <3>1. ready /\ registered /\ UNCHANGED <<cancleFlag_, idle>>
      BY <1>5 DEF readHandler
    <3>2. left' \in 1..Interval
      <4>1. left' = Interval \/ left' = left
        BY <1>5, Zenon DEF readHandler, setTime
      <4>. QED
        BY <1>0, <4>1 DEF TimerTypeOK
    <3>3. ready' \in BOOLEAN /\ registered' \in BOOLEAN
      BY <1>5, Zenon DEF readHandler, setTime, TimerTypeOK
    <3>. QED
      BY <3>1, <3>2, <3>3 DEF TimerTypeOK
  <2>2. SinceTick = Interval
    BY <2>1 DEF SinceTick
  <2>3. IdleLongEnough'
    <3> SUFFICES ASSUME NEW g \in connectionManager_', age'[g] > 0
                 PROVE  idle'[g] >= (age'[g] - 1) * Interval + SinceTick'
      BY DEF IdleLongEnough
    <3>1. SinceTick' = 0
      <4>1. CASE ~cancleFlag_
        <5>1. registered' = registered /\ ready' = FALSE /\ left' = Interval
          BY <1>5, <4>1, Zenon DEF readHandler, setTime
        <5>. QED
          BY <1>0, <5>1 DEF SinceTick
      <4>2. CASE cancleFlag_
        BY <1>5, <4>2 DEF readHandler, SinceTick
      <4>. QED
        BY <4>1, <4>2
    <3>2. g \in connectionManager_ /\ age'[g] = age[g] + 1 /\ g \in Fd
      BY <1>5 DEF readHandler, onTimer, onTimerRemoveClient, IndInv, TypeOK
    <3>3. age[g] \in Nat /\ idle'[g] = idle[g] /\ idle[g] \in Nat
      BY <1>0, <2>1, <3>2 DEF TimerTypeOK, IndInv, TypeOK
    <3>4. age'[g] - 1 = age[g]
      BY <3>2, <3>3
    <3>5. CASE age[g] = 0
      <4>1. age'[g] - 1 = 0
        BY <3>4, <3>5
      <4>2. (age'[g] - 1) * Interval = 0 * Interval /\ 0 * Interval = 0
        BY <4>1, <1>0
      <4>. QED
        BY <3>1, <3>3, <4>2
    <3>6. CASE age[g] > 0
      <4>. DEFINE b == age[g] * Interval
      <4>1. b = (age[g] - 1) * Interval + Interval
        BY <3>2, <3>6, MaxIdleIsEnough
      <4>2. idle[g] >= (age[g] - 1) * Interval + Interval
        BY <1>5, <2>2, <3>2, <3>6 DEF IdleLongEnough, readHandler
      <4>3. idle[g] >= b
        BY <4>1, <4>2, Zenon
      <4>4. b \in Nat
        BY <3>3, Intervals
      <4>5. (age'[g] - 1) * Interval = b
        BY <3>4, Zenon
      <4>. HIDE DEF b
      <4>. QED
        BY <3>1, <3>3, <4>3, <4>4, <4>5
    <3>. QED
      BY <3>3, <3>5, <3>6
  <2>. QED
    BY <2>1, <2>3
<1>6. CASE UNCHANGED allVars
  BY <1>6 DEF allVars, vars, historyVars, timerVars, TimerTypeOK, IdleLongEnough, SinceTick
<1>. QED
  BY <1>1, <1>2, <1>3, <1>4, <1>5, <1>6 DEF TimerNext

\* The bound holds with the wheel's invariant in every reachable state.
THEOREM TimerInvariance == TimerSpec => [](IndInv /\ IdleInv)
<1>1. TimerSpec => []IndInv
  BY TimerTurnsWheel, Invariance
<1>2. TimerInit => IdleInv
  <2>1. Size - 1 \in Nat
    BY WheelAssumption
  <2>2. MaxIdle \in Nat
    BY <2>1, Intervals DEF MaxIdle
  <2>3. TimerInit => TimerTypeOK
    <3>1. Interval \in 1..Interval /\ 0 \in 0..MaxIdle
      BY <2>2, IntervalAssumption
    <3>. QED
      BY <3>1, Zenon DEF TimerInit, TimerTypeOK
  <2>4. TimerInit => IdleLongEnough
    BY DEF TimerInit, Init, IdleLongEnough
  <2>. QED
    BY <2>3, <2>4 DEF IdleInv
<1>3. IndInv /\ IndInv' /\ IdleInv /\ [TimerNext]_allVars => IdleInv'
  BY IdleStep
<1>. QED
  BY <1>1, <1>2, <1>3, PTL DEF TimerSpec

\* A connection that has seen n ticks, and waits for the next, has been idle for n - 1
\* intervals and the time since the last of them.
LEMMA IdleByAge ==
  ASSUME IndInv, IdleInv, NEW fd \in connectionManager_, age[fd] = Size - 1
  PROVE  /\ idle[fd] >= (Size - 2) * Interval
         /\ SinceTick = Interval => idle[fd] = MaxIdle
<1>1. fd \in Fd /\ idle[fd] \in 0..MaxIdle /\ Interval \in Nat \ {0} /\ SinceTick \in Nat
  BY IntervalAssumption DEF IndInv, TypeOK, IdleInv, TimerTypeOK, SinceTick
<1>2. CASE age[fd] = 0
  <2>1. Size = 1
    BY <1>2, WheelAssumption
  <2>2. MaxIdle = 0 /\ (Size - 2) * Interval = -Interval
    BY <1>1, <2>1 DEF MaxIdle
  <2>. QED
    BY <1>1, <2>2
<1>3. CASE age[fd] > 0
  <2>1. /\ age[fd] * Interval = (age[fd] - 1) * Interval + Interval
        /\ MaxIdle \in Nat /\ (age[fd] - 1) * Interval \in Nat
    BY <1>3, MaxIdleIsEnough
  <2>2. idle[fd] >= (age[fd] - 1) * Interval + SinceTick
    BY <1>3 DEF IdleInv, IdleLongEnough
  <2>3. age[fd] - 1 = Size - 2
    BY WheelAssumption
  <2>4. age[fd] * Interval = MaxIdle
    BY DEF MaxIdle
  <2> DEFINE b == (age[fd] - 1) * Interval
  <2>5. b \in Nat /\ MaxIdle = b + Interval /\ idle[fd] >= b + SinceTick
    BY <2>1, <2>2, <2>4
  <2>6. (Size - 2) * Interval = b
    BY <2>3
  <2> HIDE DEF b
  <2>. QED
    BY <1>1, <2>5, <2>6
<1>. QED
  BY <1>2, <1>3, <1>1, WheelAssumption DEF IndInv, TypeOK

\* No tick, however late the one before it came, closes a connection that has not
\* been idle for Size - 1 intervals, the owner of a descriptor left behind excepted and
\* one whose event came after Size - 2 intervals or more, when it was due.
THEOREM NeverTooSoon == TimerSpec => NotTooSoon
<1> DEFINE Closed ==
      \A fd \in connectionManager_ :
        /\ readHandler /\ fd \notin connectionManager_' =>
             idle[fd] = MaxIdle \/ fd \in ignored \cup leftover
        /\ fd \in ignored' \ ignored => idle[fd] >= (Size - 2) * Interval
<1>1. IndInv /\ IdleInv /\ [TimerNext]_allVars => [Closed]_allVars
  <2> SUFFICES ASSUME IndInv, IdleInv, TimerNext, NEW fd \in connectionManager_
               PROVE  /\ readHandler /\ fd \notin connectionManager_' =>
                           idle[fd] = MaxIdle \/ fd \in ignored \cup leftover
                      /\ fd \in ignored' \ ignored => idle[fd] >= (Size - 2) * Interval
    OBVIOUS
  <2>1. ASSUME readHandler, fd \notin connectionManager_', fd \notin ignored \cup leftover
        PROVE  idle[fd] = MaxIdle
    <3>1. fd \in bucket_[index_] /\ fd \in Fd /\ index_ \in Place /\ SinceTick = Interval
      BY <2>1 DEF readHandler, onTimer, onTimerRemoveClient, IndInv, TypeOK, SinceTick
    <3>2. refIndex[fd] = index_
      BY <2>1, <3>1 DEF IndInv, EntriesAreExplained
    <3>3. age[fd] = Size - 1
      BY DueAge, <2>1, <3>2
    <3>. QED
      BY <3>1, <3>3, IdleByAge
  <2>2. ASSUME fd \in ignored' \ ignored
        PROVE  idle[fd] >= (Size - 2) * Interval
    <3>1. refIndex[fd] = index_
      BY <2>2
        DEF TimerNext, accept, event, leave, pass, cancle, readHandler, vars, historyVars,
            addConnection, resetSock, removeConnection, onTimer, onTimerRemoveClient
    <3>. QED
      BY DueAge, <2>2, <3>1, IdleByAge
  <2>. QED
    BY <2>1, <2>2
<1>. QED
  BY <1>1, TimerInvariance, PTL DEF TimerSpec, NotTooSoon
==============================================================================
