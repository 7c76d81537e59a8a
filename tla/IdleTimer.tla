------------------------------ MODULE IdleTimer -------------------------------
(***************************************************************************)
(* The timer that turns the wheel: a timerfd that expires every Interval   *)
(* (TimeEvent.cpp) and its handler on the loop thread (TimeHandler.cpp),   *)
(* which runs late when the loop is busy.                                  *)
(***************************************************************************)
EXTENDS TimeWheel

CONSTANT Interval  \* units of time between two ticks

ASSUME IntervalAssumption == Interval \in Nat \ {0}

VARIABLES
  left,         \* time until the timer expires
  ready,        \* it has expired since it was last read or set
  registered,   \* the reactor has the handler
  cancleFlag_,
  idle          \* time since the last event

timerVars == <<left, ready, registered, cancleFlag_>>
allVars == <<vars, timerVars, idle>>

\* The bound of idle: counting stops here.
MaxIdle == (Size - 1) * Interval

TimerTypeOK ==
  /\ left \in 1..Interval
  /\ ready \in BOOLEAN /\ registered \in BOOLEAN /\ cancleFlag_ \in BOOLEAN
  /\ idle \in [Fd -> 0..MaxIdle]

\* A slip: the timer goes on with the period it is in.
setTimeKeepsPeriod == ready' = FALSE /\ UNCHANGED left

\* The timer begins anew.
setTime == left' = Interval /\ ready' = FALSE

\* getEvent, called by init, and the handler registered.
TimerInit ==
  /\ Init
  /\ left = Interval
  /\ ready = FALSE
  /\ registered = TRUE
  /\ cancleFlag_ = FALSE
  /\ idle = [fd \in Fd |-> 0]

\* Something happened on the connection.
seen(fd) == idle' = [idle EXCEPT ![fd] = 0] /\ UNCHANGED timerVars

accept(fd) == addConnection(fd) /\ seen(fd)

event(fd) == resetSock(fd) /\ seen(fd)

leave(fd) == removeConnection(fd) /\ UNCHANGED <<timerVars, idle>>

\* Time passes.  The timer is periodic by itself, too.
pass ==
  /\ left' = IF left = 1 THEN Interval ELSE left - 1
  /\ ready' = (ready \/ left = 1)
  /\ idle' = [fd \in Fd |-> IF idle[fd] < MaxIdle THEN idle[fd] + 1 ELSE MaxIdle]
  /\ UNCHANGED <<vars, registered, cancleFlag_>>

cancle ==
  /\ cancleFlag_' = TRUE
  /\ UNCHANGED <<vars, left, ready, registered, idle>>

\* The expiry is read, the wheel turns, and the timer is set again or closed.
readHandler ==
  /\ registered /\ ready
  /\ onTimer
  /\ \/ ~cancleFlag_ /\ setTime /\ UNCHANGED registered
     \/ cancleFlag_ /\ registered' = FALSE /\ ready' = FALSE /\ UNCHANGED left
  /\ UNCHANGED <<cancleFlag_, idle>>

TimerNext ==
  \/ \E fd \in Fd : accept(fd) \/ event(fd) \/ leave(fd)
  \/ pass \/ cancle \/ readHandler

\* The loop thread gets round to a timer that is ready.
TimerSpec ==
  /\ TimerInit /\ [][TimerNext]_allVars
  /\ WF_allVars(pass) /\ WF_allVars(readHandler)

------------------------------------------------------------------------------
(* Correctness *)

\* However late the ticks come, a connection that is closed by one has been idle
\* for at least Size - 1 intervals: a late tick is not made up for by an early one.
\* The owner of a descriptor left behind is excepted, and one whose event came too late,
\* after Size - 2 intervals or more.
NotTooSoon ==
  [][\A fd \in connectionManager_ :
       /\ readHandler /\ fd \notin connectionManager_' =>
            idle[fd] = MaxIdle \/ fd \in ignored \cup leftover
       /\ fd \in ignored' \ ignored => idle[fd] >= (Size - 2) * Interval]_allVars

\* A connection that is open for ever has for ever events that are recorded, unless
\* the timer is cancelled.
IdleIsClosed ==
  \A fd \in Fd :
    <>[](fd \in connectionManager_) =>
      []<><<event(fd) /\ fd \notin ignored'>>_allVars \/ <>cancleFlag_
==============================================================================
