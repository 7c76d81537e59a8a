------------------------------ MODULE FifoQueue ------------------------------
(***************************************************************************)
(* What a message queue of the server promises to the threads that use it: *)
(* a push puts one value at the back, a pop hands the value at the front   *)
(* to one consumer, nothing else ever changes the queue, and a queue with  *)
(* a capacity never exceeds it.  Locks, condition variables, buffers and   *)
(* waiting are invisible at this level.                                    *)
(***************************************************************************)
EXTENDS Naturals, Sequences

CONSTANTS
  Producer,   \* the threads that push
  Consumer,   \* the threads that pop
  Value,      \* what is pushed
  NoValue     \* what a consumer holds before its first pop

VARIABLES
  items,      \* the queued values, oldest first
  capacity,   \* the largest length allowed; 0 when there is no limit
  holds       \* holds[c]: the value consumer c popped last

fifoVars == <<items, capacity, holds>>

Init ==
  /\ items = <<>>
  /\ capacity \in Nat
  /\ holds = [c \in Consumer |-> NoValue]

HasRoom == capacity = 0 \/ Len(items) < capacity

Put(v) ==
  /\ HasRoom
  /\ items' = Append(items, v)
  /\ UNCHANGED <<capacity, holds>>

Take(c) ==
  /\ items # <<>>
  /\ holds' = [holds EXCEPT ![c] = Head(items)]
  /\ items' = Tail(items)
  /\ UNCHANGED capacity

Next ==
  \/ \E v \in Value : Put(v)
  \/ \E c \in Consumer : Take(c)

Spec == Init /\ [][Next]_fifoVars
==============================================================================
