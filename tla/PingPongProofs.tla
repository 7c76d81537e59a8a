---------------------------- MODULE PingPongProofs ----------------------------
(***************************************************************************)
(* Proofs about PingPong, for every number of values.  The word is taken   *)
(* apart once (WordBits, BitsOfWord); every access to it is then about one *)
(* of its parts.                                                           *)
(***************************************************************************)
EXTENDS PingPong, SequenceTheorems, TLAPS

Cell == {0, 1}

(* The parts of the word *)

Word(a, u, e, f) == a + 2 * u + 8 * e + 16 * f

\* Every word is made of its parts.
LEMMA WordBits ==
  ASSUME NEW s \in 0..31
  PROVE  /\ active(s) \in Cell /\ Bit(s, 8) \in Cell /\ Bit(s, 16) \in Cell
         /\ users(s) \in 0..3
         /\ s = Word(active(s), users(s), Bit(s, 8), Bit(s, 16))
BY DEF active, users, Bit, Word, Cell

\* The parts of a word are those it was made of.
LEMMA BitsOfWord ==
  ASSUME NEW a \in Cell, NEW u \in 0..3, NEW e \in Cell, NEW f \in Cell
  PROVE  /\ Word(a, u, e, f) \in 0..31
         /\ active(Word(a, u, e, f)) = a
         /\ users(Word(a, u, e, f)) = u
         /\ Bit(Word(a, u, e, f), 8) = e
         /\ Bit(Word(a, u, e, f), 16) = f
BY DEF active, users, Bit, Word, Cell

\* What is taken out of a word is a cell, a number of users, a flag.
LEMMA PartsTyped ==
  ASSUME NEW s \in 0..31
  PROVE  /\ active(s) \in Cell /\ 1 - active(s) \in Cell /\ users(s) \in 0..3
         /\ newFlag(s) \in {0, 8, 16}
BY WordBits DEF newFlag, full, Cell

\* A user enters.
LEMMA Enter ==
  ASSUME NEW s \in 0..31, users(s) < 3
  PROVE  /\ s + 2 \in 0..31
         /\ active(s + 2) = active(s)
         /\ users(s + 2) = users(s) + 1
         /\ \A c \in Cell : IsFull(s + 2, c) <=> IsFull(s, c)
<1>. DEFINE a == active(s)  u == users(s)  e == Bit(s, 8)  f == Bit(s, 16)
<1>1. s = Word(a, u, e, f) /\ a \in Cell /\ u \in 0..3 /\ e \in Cell /\ f \in Cell
  BY WordBits
<1>2. u + 1 \in 0..3
  BY <1>1
<1>3. s + 2 = Word(a, u + 1, e, f)
  BY <1>1 DEF Word, Cell
<1>. HIDE DEF a, u, e, f
<1>4. /\ s + 2 \in 0..31 /\ active(s + 2) = a /\ users(s + 2) = u + 1
      /\ Bit(s + 2, 8) = e /\ Bit(s + 2, 16) = f
  BY <1>1, <1>2, <1>3, BitsOfWord
<1>. QED
  BY <1>4 DEF a, u, e, f, IsFull, full, Cell

\* A user leaves.
LEMMA Leave ==
  ASSUME NEW s \in 0..31, users(s) > 0
  PROVE  /\ s - 2 \in 0..31
         /\ active(s - 2) = active(s)
         /\ users(s - 2) = users(s) - 1
         /\ \A c \in Cell : IsFull(s - 2, c) <=> IsFull(s, c)
<1>. DEFINE a == active(s)  u == users(s)  e == Bit(s, 8)  f == Bit(s, 16)
<1>1. s = Word(a, u, e, f) /\ a \in Cell /\ u \in 0..3 /\ e \in Cell /\ f \in Cell
  BY WordBits
<1>. DEFINE v == u - 1
<1>2. v \in 0..3 /\ s - 2 = Word(a, v, e, f)
  BY <1>1 DEF Word, Cell
<1>. HIDE DEF a, u, e, f, v
<1>3. /\ Word(a, v, e, f) \in 0..31 /\ active(Word(a, v, e, f)) = a
      /\ users(Word(a, v, e, f)) = v
      /\ Bit(Word(a, v, e, f), 8) = e /\ Bit(Word(a, v, e, f), 16) = f
  BY <1>1, <1>2, BitsOfWord
<1>4. /\ s - 2 \in 0..31 /\ active(s - 2) = a /\ users(s - 2) = v
      /\ Bit(s - 2, 8) = e /\ Bit(s - 2, 16) = f
  BY <1>2, <1>3, Zenon
<1>. QED
  BY <1>4 DEF a, u, v, e, f, IsFull, full, Cell

\* The flag of a cell is set.
LEMMA Raise ==
  ASSUME NEW s \in 0..31, NEW c \in Cell, ~IsFull(s, c)
  PROVE  /\ s + full(c) \in 0..31
         /\ active(s + full(c)) = active(s)
         /\ users(s + full(c)) = users(s)
         /\ IsFull(s + full(c), c)
         /\ IsFull(s + full(c), 1 - c) <=> IsFull(s, 1 - c)
<1>. DEFINE a == active(s)  u == users(s)  e == Bit(s, 8)  f == Bit(s, 16)
<1>1. s = Word(a, u, e, f) /\ a \in Cell /\ u \in 0..3 /\ e \in Cell /\ f \in Cell
  BY WordBits
<1>2. (c = 0 => e = 0) /\ (c = 1 => f = 0)
  BY <1>1 DEF IsFull, full, Cell
<1>. HIDE DEF a, u, e, f
<1>. DEFINE e1 == IF c = 0 THEN 1 ELSE e  f1 == IF c = 1 THEN 1 ELSE f
<1>3. s + full(c) = Word(a, u, e1, f1) /\ e1 \in Cell /\ f1 \in Cell
  BY <1>1, <1>2 DEF Word, Cell, full
<1>. HIDE DEF e1, f1
<1>4. /\ s + full(c) \in 0..31 /\ active(s + full(c)) = a /\ users(s + full(c)) = u
      /\ Bit(s + full(c), 8) = e1 /\ Bit(s + full(c), 16) = f1
  BY <1>1, <1>3, BitsOfWord
<1>5. IsFull(s + full(c), c)
  BY <1>4 DEF e1, f1, IsFull, full, Cell
<1>6. IsFull(s + full(c), 1 - c) <=> IsFull(s, 1 - c)
  BY <1>4 DEF e, f, e1, f1, IsFull, full, Cell
<1>. QED
  BY <1>4, <1>5, <1>6 DEF a, u

\* The flag of a cell is cleared.
LEMMA Lower ==
  ASSUME NEW s \in 0..31, NEW c \in Cell, IsFull(s, c)
  PROVE  /\ s - full(c) \in 0..31
         /\ active(s - full(c)) = active(s)
         /\ users(s - full(c)) = users(s)
         /\ ~IsFull(s - full(c), c)
         /\ IsFull(s - full(c), 1 - c) <=> IsFull(s, 1 - c)
<1>. DEFINE a == active(s)  u == users(s)  e == Bit(s, 8)  f == Bit(s, 16)
<1>1. s = Word(a, u, e, f) /\ a \in Cell /\ u \in 0..3 /\ e \in Cell /\ f \in Cell
  BY WordBits
<1>2. (c = 0 => e = 1) /\ (c = 1 => f = 1)
  BY <1>1 DEF IsFull, full, Cell
<1>. HIDE DEF a, u, e, f
<1>. DEFINE e1 == IF c = 0 THEN 0 ELSE e  f1 == IF c = 1 THEN 0 ELSE f
<1>3. s - full(c) = Word(a, u, e1, f1) /\ e1 \in Cell /\ f1 \in Cell
  BY <1>1, <1>2 DEF Word, Cell, full
<1>. HIDE DEF e1, f1
<1>4. /\ s - full(c) \in 0..31 /\ active(s - full(c)) = a /\ users(s - full(c)) = u
      /\ Bit(s - full(c), 8) = e1 /\ Bit(s - full(c), 16) = f1
  BY <1>1, <1>3, BitsOfWord
<1>5. ~IsFull(s - full(c), c)
  BY <1>4 DEF e1, f1, IsFull, full, Cell
<1>6. IsFull(s - full(c), 1 - c) <=> IsFull(s, 1 - c)
  BY <1>4 DEF e, f, e1, f1, IsFull, full, Cell
<1>. QED
  BY <1>4, <1>5, <1>6 DEF a, u

\* An exchange changes the active cell and nothing else.
LEMMA Exchange ==
  ASSUME NEW s \in 0..31
  PROVE  /\ exchanged(s) \in 0..31
         /\ active(exchanged(s)) = 1 - active(s)
         /\ users(exchanged(s)) = users(s)
         /\ \A c \in Cell : IsFull(exchanged(s), c) <=> IsFull(s, c)
<1>. DEFINE a == active(s)  u == users(s)  e == Bit(s, 8)  f == Bit(s, 16)
<1>1. s = Word(a, u, e, f) /\ a \in Cell /\ u \in 0..3 /\ e \in Cell /\ f \in Cell
  BY WordBits
<1>2. exchanged(s) = Word(1 - a, u, e, f) /\ 1 - a \in Cell
  BY <1>1 DEF exchanged, Word, Cell
<1>. HIDE DEF a, u, e, f
<1>3. /\ exchanged(s) \in 0..31 /\ active(exchanged(s)) = 1 - a /\ users(exchanged(s)) = u
      /\ Bit(exchanged(s), 8) = e /\ Bit(exchanged(s), 16) = f
  BY <1>1, <1>2, BitsOfWord
<1>. QED
  BY <1>3 DEF a, u, e, f, IsFull, full, Cell

\* The word never wraps.
LEMMA NoWrap ==
  ASSUME NEW s \in 0..31
  PROVE  s % WordSize = s
BY WordAssumption

------------------------------------------------------------------------------
(* The invariant *)

Writing == producer \in {"writing", "load", "add"}

Reading == consumer \in {"reading", "load", "sub"}

HasRead == consumer \in {"load", "sub"}

last == IF read = <<>> THEN 0 ELSE read[Len(read)]

\* The word counts who has a cell.
UsersCounted ==
  users(m_state) = (IF Writing THEN 1 ELSE 0) + (IF Reading THEN 1 ELSE 0)

\* The producer's cell is the active one, its copy of the word is right about that
\* cell, and there is a value left to write to it.
ProducerCell ==
  /\ producer = "writing" => written < MaxWrite
  /\ Writing \/ producer = "cas" => wcell = active(m_state)
  /\ producer = "add" =>
       active(wstate) = wcell /\ (IsFull(wstate, wcell) <=> IsFull(m_state, wcell))
  /\ producer = "cas" => active(wstate) = wcell /\ IsFull(wstate, wcell)
  /\ producer = "cas" => users(wstate) = 0

\* The consumer's cell is the other one, it is full, and the consumer's copies of the
\* word are right about it.
ConsumerCell ==
  /\ consumer = "add" => IsFull(m_state, 1 - active(m_state))
  /\ Reading =>
       /\ rcell = 1 - active(m_state)
       /\ IsFull(m_state, rcell)
       /\ active(m_readState) = active(m_state)
       /\ IsFull(m_readState, rcell)
  /\ consumer = "sub" => active(rstate) = active(m_state)

\* A full cell is newer than what was read, the active one newer than the other.
Newer ==
  /\ \A c \in Cell : m_buf[c] <= written
  /\ last <= written
  /\ \A c \in Cell : IsFull(m_state, c) /\ ~(HasRead /\ c = rcell) => m_buf[c] > last
  /\ HasRead => last = m_buf[rcell]
  /\ IsFull(m_state, active(m_state)) /\ IsFull(m_state, 1 - active(m_state)) =>
       m_buf[active(m_state)] > m_buf[1 - active(m_state)]
  /\ producer \in {"load", "add"} =>
       m_buf[wcell] = written /\ m_buf[1 - wcell] < written /\ last < written

IndInv ==
  TypeOK /\ UsersCounted /\ ProducerCell /\ ConsumerCell /\ Newer /\ ReadsInOrder

\* The last value read.
LEMMA LastTyped ==
  ASSUME TypeOK
  PROVE  /\ last \in Nat
         /\ read # <<>> => Len(read) \in Nat \ {0} /\ last = read[Len(read)]
         /\ read = <<>> => Len(read) = 0 /\ last = 0
<1>1. read \in Seq(0..MaxWrite)
  BY DEF TypeOK
<1>2. read # <<>> => Len(read) \in Nat \ {0}
  BY <1>1, EmptySeq
<1>3. read # <<>> => read[Len(read)] \in Nat
  BY <1>1, <1>2, WordAssumption
<1>. QED
  BY <1>2, <1>3 DEF last

\* The producer enters and gets the active cell.
LEMMA StartWriting == ASSUME IndInv, start_writing PROVE IndInv'
<1>. USE DEF IndInv, Cell
<1>1. /\ m_state' \in 0..31
      /\ active(m_state') = active(m_state) /\ active(m_state) \in Cell
      /\ users(m_state') = users(m_state) + 1
      /\ \A c \in Cell : IsFull(m_state', c) <=> IsFull(m_state, c)
  <2>1. m_state \in 0..31 /\ users(m_state) < 3
    BY PartsTyped DEF TypeOK, UsersCounted, Writing, Reading, start_writing
  <2>. QED
    BY <2>1, Enter, NoWrap, PartsTyped DEF start_writing
<1>2. TypeOK'
  BY <1>1 DEF TypeOK, start_writing, consumerVars
<1>3. UsersCounted'
  BY <1>1 DEF TypeOK, UsersCounted, Writing, Reading, start_writing, consumerVars
<1>4. ProducerCell'
  BY <1>1
     DEF TypeOK, ProducerCell, UsersCounted, Writing, Reading, start_writing, consumerVars
<1>5. ConsumerCell'
  BY <1>1
     DEF TypeOK, ConsumerCell, Reading, Writing, ProducerCell, UsersCounted, start_writing,
         consumerVars
<1>6. Newer'
  BY <1>1
     DEF TypeOK, Newer, HasRead, last, Writing, Reading, ProducerCell, ConsumerCell,
         UsersCounted, start_writing, consumerVars
<1>7. ReadsInOrder'
  BY <1>1 DEF TypeOK, ReadsInOrder, start_writing, consumerVars
<1>. QED
  BY <1>2, <1>3, <1>4, <1>5, <1>6, <1>7

\* The value written is newer than all others.
LEMMA Written == ASSUME IndInv, Write PROVE IndInv'
<1>. USE DEF IndInv, Cell
<1>1. active(m_state) \in Cell /\ users(m_state) \in 0..3
  BY PartsTyped DEF TypeOK
<1>2. TypeOK'
  BY <1>1, WordAssumption DEF TypeOK, ProducerCell, Write, consumerVars
<1>3. UsersCounted'
  BY <1>1 DEF TypeOK, UsersCounted, Writing, Reading, Write, consumerVars
<1>4. ProducerCell'
  BY <1>1 DEF TypeOK, ProducerCell, UsersCounted, Writing, Reading, Write, consumerVars
<1>5. ConsumerCell'
  BY <1>1
     DEF TypeOK, ConsumerCell, Reading, Writing, ProducerCell, UsersCounted, Write,
         consumerVars
<1>6. Newer'
  <2>1. /\ wcell \in Cell /\ wcell = active(m_state) /\ written' = written + 1
        /\ m_buf' \in [Cell -> Int] /\ m_buf'[wcell] = written + 1
        /\ m_buf'[1 - wcell] = m_buf[1 - wcell] /\ m_buf[1 - wcell] <= written
        /\ last' = last /\ last <= written /\ written \in Nat
        /\ (HasRead' <=> HasRead) /\ rcell' = rcell /\ wcell' = wcell /\ m_state' = m_state
    BY <1>1, <1>2 DEF TypeOK, Newer, HasRead, last, ProducerCell, Writing, Write, consumerVars
  <2>2. HasRead => rcell = 1 - wcell
    BY <1>1, <2>1 DEF ConsumerCell, Reading, HasRead
  <2>3. \A c \in Cell : c = wcell \/ c = 1 - wcell
    BY <2>1
  <2>4. last \in Int
    BY LastTyped
  <2>5. IsFull(m_state, 1 - wcell) /\ ~(HasRead /\ 1 - wcell = rcell) => m_buf[1 - wcell] > last
    BY <2>1 DEF Newer
  <2>6. HasRead => last = m_buf[rcell]
    BY DEF Newer
  <2>7. /\ \A c \in Cell : m_buf'[c] <= written'
        /\ \A c \in Cell : IsFull(m_state, c) /\ ~(HasRead /\ c = rcell) => m_buf'[c] > last
    BY <2>1, <2>3, <2>4, <2>5
  <2>8. HasRead => last = m_buf'[rcell]
    BY <2>1, <2>2, <2>6
  <2>9. m_buf'[wcell] > m_buf'[1 - wcell] /\ m_buf'[wcell] = written' /\ last < written'
    BY <2>1, <2>4 DEF TypeOK
  <2>. QED
    BY <2>1, <2>4, <2>7, <2>8, <2>9 DEF Newer, Write
<1>7. ReadsInOrder'
  BY <1>1 DEF TypeOK, ReadsInOrder, Write, consumerVars
<1>. QED
  BY <1>2, <1>3, <1>4, <1>5, <1>6, <1>7

\* The producer's copy of the word may be out of date soon, but not about its own cell.
LEMMA EndWritingLoad == ASSUME IndInv, end_writing_load PROVE IndInv'
<1>. USE DEF IndInv, Cell
<1>1. active(m_state) \in Cell /\ users(m_state) \in 0..3
  BY PartsTyped DEF TypeOK
<1>2. TypeOK'
  BY <1>1 DEF TypeOK, end_writing_load, consumerVars
<1>3. UsersCounted'
  BY <1>1 DEF TypeOK, UsersCounted, Writing, Reading, end_writing_load, consumerVars
<1>4. ProducerCell'
  BY <1>1
     DEF TypeOK, ProducerCell, UsersCounted, Writing, Reading, end_writing_load, consumerVars
<1>5. ConsumerCell'
  BY <1>1
     DEF TypeOK, ConsumerCell, Reading, Writing, ProducerCell, UsersCounted,
         end_writing_load, consumerVars
<1>6. Newer'
  BY <1>1
     DEF TypeOK, Newer, HasRead, last, Writing, Reading, ProducerCell, ConsumerCell,
         UsersCounted, end_writing_load, consumerVars
<1>7. ReadsInOrder'
  BY <1>1 DEF TypeOK, ReadsInOrder, end_writing_load, consumerVars
<1>. QED
  BY <1>2, <1>3, <1>4, <1>5, <1>6, <1>7

\* The producer leaves, and its cell is full.
LEMMA EndWritingAdd == ASSUME IndInv, end_writing_add PROVE IndInv'
<1>. USE DEF IndInv, Cell
<1>1. /\ m_state' \in 0..31
      /\ active(m_state') = active(m_state) /\ active(m_state) \in Cell
      /\ users(m_state') = users(m_state) - 1
      /\ IsFull(m_state', wcell)
      /\ IsFull(m_state', 1 - wcell) <=> IsFull(m_state, 1 - wcell)
  <2>. DEFINE s == m_state + newFlag(wstate)
  <2>1. m_state \in 0..31 /\ wstate \in 0..31 /\ wcell \in Cell /\ users(m_state) > 0
    BY PartsTyped DEF TypeOK, UsersCounted, Writing, Reading, end_writing_add
  <2>2. newFlag(wstate) = IF IsFull(m_state, wcell) THEN 0 ELSE full(wcell)
    BY DEF newFlag, ProducerCell, end_writing_add
  <2>3. /\ s \in 0..31 /\ active(s) = active(m_state) /\ users(s) = users(m_state)
        /\ IsFull(s, wcell) /\ (IsFull(s, 1 - wcell) <=> IsFull(m_state, 1 - wcell))
    <3>1. CASE IsFull(m_state, wcell)
      <4>1. s = m_state
        BY <2>1, <2>2, <3>1
      <4>. QED
        BY <2>1, <3>1, <4>1, Zenon
    <3>2. CASE ~IsFull(m_state, wcell)
      <4>1. s = m_state + full(wcell)
        BY <2>2, <3>2
      <4>. QED
        BY <2>1, <3>2, <4>1, Raise
    <3>. QED
      BY <3>1, <3>2
  <2>4. m_state' = (s - 2) % WordSize
    BY <2>1, PartsTyped DEF end_writing_add
  <2>. HIDE DEF s
  <2>5. s - 2 \in 0..31 /\ users(s) > 0
    BY <2>1, <2>3, Leave
  <2>6. m_state' = s - 2
    BY <2>4, <2>5, NoWrap
  <2>7. \A c \in Cell : IsFull(m_state', c) <=> IsFull(s, c)
    BY <2>3, <2>5, <2>6, Leave
  <2>8. active(m_state') = active(s) /\ users(m_state') = users(s) - 1
    BY <2>3, <2>5, <2>6, Leave
  <2>. QED
    BY <2>1, <2>3, <2>5, <2>6, <2>7, <2>8, PartsTyped
<1>2. TypeOK'
  BY <1>1 DEF TypeOK, end_writing_add, consumerVars
<1>3. UsersCounted'
  BY <1>1 DEF TypeOK, UsersCounted, Writing, Reading, end_writing_add, consumerVars
<1>4. ProducerCell'
  BY <1>1
     DEF TypeOK, ProducerCell, UsersCounted, Writing, Reading, end_writing_add, consumerVars
<1>5. ConsumerCell'
  BY <1>1
     DEF TypeOK, ConsumerCell, Reading, Writing, ProducerCell, UsersCounted, end_writing_add,
         consumerVars
<1>6. Newer'
  BY <1>1
     DEF TypeOK, Newer, HasRead, last, Writing, Reading, ProducerCell, ConsumerCell,
         UsersCounted, end_writing_add, consumerVars
<1>7. ReadsInOrder'
  BY <1>1 DEF TypeOK, ReadsInOrder, end_writing_add, consumerVars
<1>. QED
  BY <1>2, <1>3, <1>4, <1>5, <1>6, <1>7

\* An exchange succeeds only while nobody has a cell.
LEMMA EndWritingCas == ASSUME IndInv, end_writing_cas PROVE IndInv'
<1>. USE DEF IndInv, Cell
<1>1. /\ m_state' \in 0..31 /\ active(m_state) \in Cell /\ users(m_state) \in 0..3
      /\ users(m_state') = users(m_state)
      /\ \/ m_state' = m_state
         \/ /\ users(m_state) = 0 /\ ~Reading
            /\ active(m_state') = 1 - active(m_state)
            /\ IsFull(m_state', active(m_state)) /\ IsFull(m_state, active(m_state))
            /\ ~IsFull(m_state', 1 - active(m_state))
  <2>1. m_state \in 0..31 /\ active(m_state) \in Cell /\ users(m_state) \in 0..3
    BY PartsTyped DEF TypeOK
  <2>2. CASE m_state # wstate
    BY <2>1, <2>2 DEF end_writing_cas
  <2>3. CASE m_state = wstate
    <3>. DEFINE c == 1 - active(m_state)
    <3>1. /\ m_state' = desired(m_state) /\ users(m_state) = 0
          /\ IsFull(m_state, active(m_state))
      BY <2>3 DEF end_writing_cas, ProducerCell
    <3>2. ~Reading
      BY <3>1 DEF UsersCounted, Writing, end_writing_cas
    <3>3. /\ exchanged(m_state) \in 0..31 /\ active(exchanged(m_state)) = c /\ c \in Cell
          /\ users(exchanged(m_state)) = users(m_state)
          /\ IsFull(exchanged(m_state), active(m_state))
          /\ IsFull(exchanged(m_state), c) <=> IsFull(m_state, c)
      BY <2>1, <3>1, Exchange
    <3>4. /\ desired(m_state) \in 0..31 /\ active(desired(m_state)) = c
          /\ users(desired(m_state)) = users(m_state)
          /\ IsFull(desired(m_state), active(m_state)) /\ ~IsFull(desired(m_state), c)
      <4>. DEFINE x == exchanged(m_state)
      <4>1. 1 - c = active(m_state)
        BY <2>1
      <4>. HIDE DEF x, c
      <4>2. CASE IsFull(m_state, c)
        <5>1. /\ x - full(c) \in 0..31 /\ active(x - full(c)) = active(x)
              /\ users(x - full(c)) = users(x) /\ ~IsFull(x - full(c), c)
              /\ (IsFull(x - full(c), 1 - c) <=> IsFull(x, 1 - c))
          BY <3>3, <4>2, Lower DEF x
        <5>2. desired(m_state) = x - full(c)
          BY <4>2 DEF desired, x, c
        <5>. QED
          BY <3>3, <4>1, <5>1, <5>2 DEF x
      <4>3. CASE ~IsFull(m_state, c)
        <5>1. desired(m_state) = x
          BY <4>3 DEF desired, x, c
        <5>. QED
          BY <3>3, <4>3, <5>1 DEF x
      <4>. QED
        BY <4>2, <4>3
    <3>. QED
      BY <2>1, <3>1, <3>2, <3>4
  <2>. QED
    BY <2>2, <2>3
<1>2. TypeOK'
  BY <1>1 DEF TypeOK, end_writing_cas, consumerVars
<1>3. UsersCounted'
  BY <1>1 DEF TypeOK, UsersCounted, Writing, Reading, end_writing_cas, consumerVars
<1>4. ProducerCell'
  BY <1>1
     DEF TypeOK, ProducerCell, UsersCounted, Writing, Reading, end_writing_cas, consumerVars
<1>5. ConsumerCell'
  BY <1>1
     DEF TypeOK, ConsumerCell, Reading, Writing, ProducerCell, UsersCounted, end_writing_cas,
         consumerVars
<1>6. Newer'
  BY <1>1
     DEF TypeOK, Newer, HasRead, last, Writing, Reading, ProducerCell, ConsumerCell,
         UsersCounted, end_writing_cas, consumerVars
<1>7. ReadsInOrder'
  BY <1>1 DEF TypeOK, ReadsInOrder, end_writing_cas, consumerVars
<1>. QED
  BY <1>2, <1>3, <1>4, <1>5, <1>6, <1>7

\* The consumer finds a full cell or nothing.
LEMMA StartReadingLoad == ASSUME IndInv, start_reading_load PROVE IndInv'
<1>. USE DEF IndInv, Cell
<1>1. active(m_state) \in Cell /\ users(m_state) \in 0..3
  BY PartsTyped DEF TypeOK
<1>2. TypeOK'
  BY <1>1 DEF TypeOK, start_reading_load, producerVars
<1>3. UsersCounted'
  BY <1>1 DEF TypeOK, UsersCounted, Writing, Reading, start_reading_load, producerVars
<1>4. ProducerCell'
  BY <1>1
     DEF TypeOK, ProducerCell, UsersCounted, Writing, Reading, start_reading_load,
         producerVars
<1>5. ConsumerCell'
  BY <1>1
     DEF TypeOK, ConsumerCell, Reading, Writing, ProducerCell, UsersCounted,
         start_reading_load, producerVars
<1>6. Newer'
  BY <1>1
     DEF TypeOK, Newer, HasRead, last, Writing, Reading, ProducerCell, ConsumerCell,
         UsersCounted, start_reading_load, producerVars
<1>7. ReadsInOrder'
  BY <1>1 DEF TypeOK, ReadsInOrder, start_reading_load, producerVars
<1>. QED
  BY <1>2, <1>3, <1>4, <1>5, <1>6, <1>7

\* The consumer enters and gets the cell that is full and not active.
LEMMA StartReadingAdd == ASSUME IndInv, start_reading_add PROVE IndInv'
<1>. USE DEF IndInv, Cell
<1>1. /\ m_state' \in 0..31
      /\ active(m_state') = active(m_state) /\ active(m_state) \in Cell
      /\ users(m_state') = users(m_state) + 1
      /\ \A c \in Cell : IsFull(m_state', c) <=> IsFull(m_state, c)
  <2>1. m_state \in 0..31 /\ users(m_state) < 3
    BY PartsTyped DEF TypeOK, UsersCounted, Writing, Reading, start_reading_add
  <2>. QED
    BY <2>1, Enter, NoWrap, PartsTyped DEF start_reading_add
<1>2. TypeOK'
  BY <1>1 DEF TypeOK, start_reading_add, producerVars
<1>3. UsersCounted'
  BY <1>1 DEF TypeOK, UsersCounted, Writing, Reading, start_reading_add, producerVars
<1>4. ProducerCell'
  BY <1>1
     DEF TypeOK, ProducerCell, UsersCounted, Writing, Reading, start_reading_add, producerVars
<1>5. ConsumerCell'
  BY <1>1
     DEF TypeOK, ConsumerCell, Reading, Writing, ProducerCell, UsersCounted,
         start_reading_add, producerVars
<1>6. Newer'
  BY <1>1
     DEF TypeOK, Newer, HasRead, last, Writing, Reading, ProducerCell, ConsumerCell,
         UsersCounted, start_reading_add, producerVars
<1>7. ReadsInOrder'
  BY <1>1 DEF TypeOK, ReadsInOrder, start_reading_add, producerVars
<1>. QED
  BY <1>2, <1>3, <1>4, <1>5, <1>6, <1>7

\* What is read is newer than what was read before.
LEMMA ReadOne == ASSUME IndInv, Read PROVE IndInv'
<1>. USE DEF IndInv, Cell
<1>1. active(m_state) \in Cell /\ users(m_state) \in 0..3
  BY PartsTyped DEF TypeOK
<1>8. consumer' = "load" /\ rcell \in Cell /\ m_buf[rcell] > last
  <2>1. active(m_readState) = active(m_state) /\ rcell = 1 - active(m_state) /\ IsFull(m_readState, rcell)
    BY DEF ConsumerCell, Reading, Read
  <2>. QED
    BY <1>1, <2>1 DEF TypeOK, Newer, HasRead, ConsumerCell, Reading, Read
<1>2. TypeOK'
  BY <1>1 DEF TypeOK, Read, producerVars
<1>3. UsersCounted'
  BY <1>1, <1>8 DEF TypeOK, UsersCounted, Writing, Reading, Read, producerVars
<1>4. ProducerCell'
  BY <1>1 DEF TypeOK, ProducerCell, UsersCounted, Writing, Reading, Read, producerVars
<1>5. ConsumerCell'
  BY <1>1
     DEF TypeOK, ConsumerCell, Reading, Writing, ProducerCell, UsersCounted, Read,
         producerVars
<1>6. Newer'
  BY <1>1
     DEF TypeOK, Newer, HasRead, last, Writing, Reading, ProducerCell, ConsumerCell,
         UsersCounted, Read, producerVars
<1>7. ReadsInOrder'
  <2>1. /\ read \in Seq(0..MaxWrite) /\ m_buf[rcell] \in 0..MaxWrite
        /\ read' = Append(read, m_buf[rcell])
    BY <1>8 DEF TypeOK, Read
  <2>2. /\ Len(read') = Len(read) + 1 /\ Len(read) \in Nat
        /\ read'[Len(read) + 1] = m_buf[rcell]
        /\ \A i \in 1..Len(read) : read'[i] = read[i]
    BY <2>1, AppendProperties, LenProperties
  <2>3. m_buf[rcell] > 0 /\ (Len(read) > 0 => m_buf[rcell] > read[Len(read)])
    BY <1>8, <2>1, <2>2, LastTyped
  <2>. QED
    BY <2>2, <2>3 DEF ReadsInOrder
<1>. QED
  BY <1>2, <1>3, <1>4, <1>5, <1>6, <1>7

\* While the consumer counts as a user the active cell stays the same.
LEMMA EndReadingLoad == ASSUME IndInv, end_reading_load PROVE IndInv'
<1>. USE DEF IndInv, Cell
<1>1. active(m_state) \in Cell /\ users(m_state) \in 0..3
  BY PartsTyped DEF TypeOK
<1>2. TypeOK'
  BY <1>1 DEF TypeOK, end_reading_load, producerVars
<1>3. UsersCounted'
  BY <1>1 DEF TypeOK, UsersCounted, Writing, Reading, end_reading_load, producerVars
<1>4. ProducerCell'
  BY <1>1
     DEF TypeOK, ProducerCell, UsersCounted, Writing, Reading, end_reading_load, producerVars
<1>5. ConsumerCell'
  BY <1>1
     DEF TypeOK, ConsumerCell, Reading, Writing, ProducerCell, UsersCounted,
         end_reading_load, producerVars
<1>6. Newer'
  BY <1>1
     DEF TypeOK, Newer, HasRead, last, Writing, Reading, ProducerCell, ConsumerCell,
         UsersCounted, end_reading_load, producerVars
<1>7. ReadsInOrder'
  BY <1>1 DEF TypeOK, ReadsInOrder, end_reading_load, producerVars
<1>. QED
  BY <1>2, <1>3, <1>4, <1>5, <1>6, <1>7

\* The consumer leaves, and its cell is empty.
LEMMA EndReadingSub == ASSUME IndInv, end_reading_sub PROVE IndInv'
<1>. USE DEF IndInv, Cell
<1>1. /\ m_state' \in 0..31
      /\ active(m_state') = active(m_state) /\ active(m_state) \in Cell
      /\ users(m_state') = users(m_state) - 1
      /\ ~IsFull(m_state', rcell)
      /\ IsFull(m_state', 1 - rcell) <=> IsFull(m_state, 1 - rcell)
  <2>. DEFINE s == m_state - full(rcell)
  <2>1. /\ m_state \in 0..31 /\ rcell \in Cell /\ users(m_state) > 0
        /\ rcell = 1 - active(rstate) /\ IsFull(m_state, rcell)
    BY PartsTyped DEF TypeOK, UsersCounted, Writing, Reading, ConsumerCell, end_reading_sub
  <2>2. /\ s \in 0..31 /\ active(s) = active(m_state) /\ users(s) = users(m_state)
        /\ ~IsFull(s, rcell) /\ (IsFull(s, 1 - rcell) <=> IsFull(m_state, 1 - rcell))
    BY <2>1, Lower
  <2>3. m_state' = (s - 2) % WordSize
    BY <2>1 DEF end_reading_sub
  <2>. HIDE DEF s
  <2>4. s - 2 \in 0..31 /\ users(s) > 0
    BY <2>1, <2>2, Leave
  <2>5. m_state' = s - 2
    BY <2>3, <2>4, NoWrap
  <2>6. \A c \in Cell : IsFull(m_state', c) <=> IsFull(s, c)
    BY <2>2, <2>4, <2>5, Leave
  <2>7. active(m_state') = active(s) /\ users(m_state') = users(s) - 1
    BY <2>2, <2>4, <2>5, Leave
  <2>. QED
    BY <2>1, <2>2, <2>4, <2>5, <2>6, <2>7, PartsTyped
<1>2. TypeOK'
  BY <1>1 DEF TypeOK, end_reading_sub, producerVars
<1>3. UsersCounted'
  BY <1>1 DEF TypeOK, UsersCounted, Writing, Reading, end_reading_sub, producerVars
<1>4. ProducerCell'
  BY <1>1
     DEF TypeOK, ProducerCell, ConsumerCell, UsersCounted, Writing, Reading, end_reading_sub,
         producerVars
<1>5. ConsumerCell'
  BY <1>1
     DEF TypeOK, ConsumerCell, Reading, Writing, ProducerCell, UsersCounted, end_reading_sub,
         producerVars
<1>6. Newer'
  BY <1>1
     DEF TypeOK, Newer, HasRead, last, Writing, Reading, ProducerCell, ConsumerCell,
         UsersCounted, end_reading_sub, producerVars
<1>7. ReadsInOrder'
  BY <1>1 DEF TypeOK, ReadsInOrder, end_reading_sub, producerVars
<1>. QED
  BY <1>2, <1>3, <1>4, <1>5, <1>6, <1>7

\* The invariant holds at first.
LEMMA InitInv == Init => IndInv
<1>1. ASSUME Init PROVE IndInv
  <2>1. active(0) = 0 /\ users(0) = 0 /\ ~IsFull(0, 0) /\ ~IsFull(0, 1)
    BY DEF active, users, IsFull, Bit, full
  <2>2. TypeOK
    BY <1>1, WordAssumption DEF Init, TypeOK
  <2>3. UsersCounted /\ ProducerCell /\ ConsumerCell
    BY <1>1, <2>1 DEF Init, UsersCounted, ProducerCell, ConsumerCell, Writing, Reading
  <2>4. Newer
    BY <1>1, <2>1 DEF Init, Newer, HasRead, last, Cell
  <2>5. ReadsInOrder
    BY <1>1 DEF Init, ReadsInOrder
  <2>. QED
    BY <2>2, <2>3, <2>4, <2>5 DEF IndInv
<1>. QED
  BY <1>1

\* Every step keeps it.
LEMMA StepInv == IndInv /\ [Next]_vars => IndInv'
<1>. SUFFICES ASSUME IndInv, [Next]_vars PROVE IndInv'
  OBVIOUS
<1>1. CASE UNCHANGED vars
  BY <1>1 DEF IndInv, TypeOK, UsersCounted, ProducerCell, ConsumerCell, Newer, ReadsInOrder,
              Writing, Reading, HasRead, last, vars, producerVars, consumerVars
<1>2. CASE ProducerStep
  BY <1>2, StartWriting, Written, EndWritingLoad, EndWritingAdd, EndWritingCas
     DEF ProducerStep
<1>3. CASE ConsumerStep
  BY <1>3, StartReadingLoad, StartReadingAdd, ReadOne, EndReadingLoad, EndReadingSub
     DEF ConsumerStep
<1>. QED
  BY <1>1, <1>2, <1>3 DEF Next

\* The invariant: the word tells who has which cell, and a full cell is newer than
\* what was read.
THEOREM Invariance == Spec => []IndInv
BY InitInv, StepInv, PTL DEF Spec

------------------------------------------------------------------------------
(* The results *)

\* No addition or subtraction of a flag carries into another bit of the word, and it
\* never wraps.
THEOREM TypeCorrect == Spec => []TypeOK
<1>1. IndInv => TypeOK
  BY DEF IndInv
<1>. QED
  BY <1>1, Invariance, PTL

\* The producer and the consumer never have the same cell.
THEOREM CellsAreApart == Spec => []CellsApart
<1>1. ASSUME IndInv PROVE CellsApart
  BY <1>1, PartsTyped
     DEF IndInv, TypeOK, ProducerCell, ConsumerCell, Writing, Reading, CellsApart, Cell
<1>. QED
  BY <1>1, Invariance, PTL

\* What is read is ever newer.
THEOREM ReadInOrder == Spec => []ReadsInOrder
<1>1. IndInv => ReadsInOrder
  BY DEF IndInv
<1>. QED
  BY <1>1, Invariance, PTL
==============================================================================
