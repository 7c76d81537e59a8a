------------------------------- MODULE PingPong -------------------------------
(***************************************************************************)
(* ProducerConsumerDoubleBuffer (DoubleBufferedQueue.h): one producer and  *)
(* one consumer share two cells through a single atomic word.  The         *)
(* producer writes the active cell, the consumer reads the other one, and  *)
(* the producer exchanges them when it leaves last.                        *)
(*                                                                         *)
(* m_state, from the lowest bit: the active cell, two bits that count the  *)
(* users, and a bit for each cell that holds a value to be read.  Every    *)
(* access to it is an action; the cells are accessed in between.           *)
(***************************************************************************)
EXTENDS Integers, Sequences

CONSTANTS
  MaxWrite,  \* bound: values written; the n-th value is n
  WordSize   \* the word wraps here

ASSUME WordAssumption == MaxWrite \in Nat /\ WordSize \in Nat /\ WordSize >= 32

VARIABLES
  m_state,      \* the atomic word
  m_buf,        \* the two cells; 0 is no value
  m_readState,  \* the consumer's copy of the word
  producer,     \* idle, writing, load, add or cas
  consumer,     \* idle, add, reading, load or sub
  wstate,       \* local variable state of end_writing
  rstate,       \* local variable state of end_reading
  wcell,        \* the cell start_writing returned
  rcell,        \* the cell start_reading returned
  written,      \* how many values were written
  read          \* the values read, in order

producerVars == <<producer, wstate, wcell, written>>
consumerVars == <<consumer, m_readState, rstate, rcell, read>>
vars == <<m_state, m_buf, producerVars, consumerVars>>

Bit(s, mask) == (s \div mask) % 2
active(s) == Bit(s, 1)
users(s) == Bit(s, 2) + 2 * Bit(s, 4)
full(cell) == IF cell = 0 THEN 8 ELSE 16
IsFull(s, cell) == Bit(s, full(cell)) = 1

\* state ^ 0x1
exchanged(s) == s + 1 - 2 * active(s)

TypeOK ==
  /\ m_state \in 0..31
  /\ m_buf \in [{0, 1} -> 0..MaxWrite]
  /\ m_readState \in 0..31
  /\ producer \in {"idle", "writing", "load", "add", "cas"}
  /\ consumer \in {"idle", "add", "reading", "load", "sub"}
  /\ wstate \in 0..31 /\ rstate \in 0..31
  /\ wcell \in {0, 1} /\ rcell \in {0, 1}
  /\ written \in 0..MaxWrite
  /\ read \in Seq(0..MaxWrite)

Init ==
  /\ m_state = 0
  /\ m_buf = [cell \in {0, 1} |-> 0]
  /\ m_readState = 0
  /\ producer = "idle" /\ consumer = "idle"
  /\ wstate = 0 /\ rstate = 0
  /\ wcell = 0 /\ rcell = 0
  /\ written = 0
  /\ read = <<>>

------------------------------------------------------------------------------
(* The producer *)

start_writing ==
  /\ producer = "idle"
  /\ written < MaxWrite
  /\ m_state' = (m_state + 2) % WordSize
  /\ wcell' = active(m_state)
  /\ producer' = "writing"
  /\ UNCHANGED <<m_buf, wstate, written, consumerVars>>

\* The caller writes the cell, and end_writing is called.
Write ==
  /\ producer = "writing"
  /\ written' = written + 1
  /\ m_buf' = [m_buf EXCEPT ![wcell] = written + 1]
  /\ producer' = "load"
  /\ UNCHANGED <<m_state, wstate, wcell, consumerVars>>

end_writing_load ==
  /\ producer = "load"
  /\ wstate' = m_state
  /\ producer' = "add"
  /\ UNCHANGED <<m_state, m_buf, wcell, written, consumerVars>>

\* The flag to add: the one of the active cell, unless it is set.
newFlag(s) == IF IsFull(s, active(s)) THEN 0 ELSE full(active(s))

\* A slip: the exchange is tried whoever else is there.
end_writing_add_swaps ==
  /\ producer = "add"
  /\ m_state' = (m_state + newFlag(wstate) - 2) % WordSize
  /\ wstate' = m_state'
  /\ producer' = "cas"
  /\ UNCHANGED <<m_buf, wcell, written, consumerVars>>

end_writing_add ==
  /\ producer = "add"
  /\ m_state' = (m_state + newFlag(wstate) - 2) % WordSize
  /\ wstate' = m_state'
  /\ producer' = IF users(m_state') = 0 THEN "cas" ELSE "idle"
  /\ UNCHANGED <<m_buf, wcell, written, consumerVars>>

\* A slip: the flag of the other cell is cleared, the one just written.
desiredClearsNew(s) ==
  IF IsFull(s, active(s)) THEN exchanged(s) - full(active(s)) ELSE exchanged(s)

\* The word after the exchange: what the new active cell held counts as read.
desired(s) ==
  IF IsFull(s, 1 - active(s)) THEN exchanged(s) - full(1 - active(s)) ELSE exchanged(s)

end_writing_cas ==
  /\ producer = "cas"
  /\ m_state' = IF m_state = wstate THEN desired(wstate) ELSE m_state
  /\ producer' = "idle"
  /\ UNCHANGED <<m_buf, wstate, wcell, written, consumerVars>>

ProducerStep ==
  start_writing \/ Write \/ end_writing_load \/ end_writing_add \/ end_writing_cas

------------------------------------------------------------------------------
(* The consumer *)

\* Without anything to read start_reading returns nullptr.
start_reading_load ==
  /\ consumer = "idle"
  /\ m_readState' = m_state
  /\ consumer' = IF IsFull(m_state, 1 - active(m_state)) THEN "add" ELSE "idle"
  /\ UNCHANGED <<m_state, m_buf, rstate, rcell, read, producerVars>>

start_reading_add ==
  /\ consumer = "add"
  /\ m_state' = (m_state + 2) % WordSize
  /\ m_readState' = m_state'
  /\ rcell' = 1 - active(m_state')
  /\ consumer' = "reading"
  /\ UNCHANGED <<m_buf, rstate, read, producerVars>>

\* The caller reads the cell, and end_reading is called: without the flag in
\* m_readState it returns at once.
Read ==
  /\ consumer = "reading"
  /\ read' = Append(read, m_buf[rcell])
  /\ consumer' = IF IsFull(m_readState, 1 - active(m_readState)) THEN "load" ELSE "idle"
  /\ UNCHANGED <<m_state, m_buf, m_readState, rstate, rcell, producerVars>>

end_reading_load ==
  /\ consumer = "load"
  /\ rstate' = m_state
  /\ consumer' = "sub"
  /\ UNCHANGED <<m_state, m_buf, m_readState, rcell, read, producerVars>>

\* A slip: the flag of the cell that was read stays.
end_reading_subKeeps ==
  /\ consumer = "sub"
  /\ m_state' = (m_state - 2) % WordSize
  /\ rstate' = m_state'
  /\ consumer' = "idle"
  /\ UNCHANGED <<m_buf, m_readState, rcell, read, producerVars>>

\* The consumer would exchange the cells if the flag, 8 or 16, were equal to 1: it
\* never is, and end_reading ends here.
end_reading_sub ==
  /\ consumer = "sub"
  /\ m_state' = (m_state - full(1 - active(rstate)) - 2) % WordSize
  /\ rstate' = m_state'
  /\ consumer' = "idle"
  /\ UNCHANGED <<m_buf, m_readState, rcell, read, producerVars>>

ConsumerStep ==
  start_reading_load \/ start_reading_add \/ Read \/ end_reading_load \/ end_reading_sub

Next == ProducerStep \/ ConsumerStep

\* The consumer asks again and again, the producer may stop at any point.
Spec == Init /\ [][Next]_vars /\ WF_vars(ConsumerStep)

------------------------------------------------------------------------------
(* Correctness *)

\* The producer and the consumer never have the same cell in their hands: while the
\* consumer counts as a user nobody exchanges the cells.
CellsApart == producer = "writing" /\ consumer = "reading" => wcell # rcell

\* Values may be overwritten before they are read, but the consumer never gets an
\* empty cell, a value twice, or an older value after a newer one.
ReadsInOrder ==
  \A i \in 1..Len(read) :
    /\ read[i] > 0
    /\ i > 1 => read[i] > read[i - 1]

\* A value whose cell the producer exchanged is read, or a newer one is.  A value
\* that was written while the consumer counted as a user has no such promise: its
\* cell stays active until the producer writes again.
ExchangedIsRead ==
  \A n \in 1..MaxWrite :
    written = n /\ producer = "idle" /\ active(m_state) # wcell
      ~> read # <<>> /\ read[Len(read)] >= n
==============================================================================
