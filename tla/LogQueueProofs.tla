---------------------------- MODULE LogQueueProofs ----------------------------
(* Theorems about LogQueue, for every set of writers and every number of lines. *)
EXTENDS LogQueue, SequenceTheorems, FiniteSetTheorems, TLAPS

Thread == Writer \cup {logger}

\* pc is a function on the threads.
PlacesOK == pc \in [Thread -> WriterPlace \cup LoggerPlace]

\* A writer inside push has a line to push.
PutHasLine == \A w \in Writer : pc[w] # "idle" => puts[w] # 0

\* mutex_ is held by the writer in emplace or by the log thread that has exchanged
\* the queues, and by nobody else.
MutexHeld ==
  /\ \A w \in Writer : pc[w] = "emplace" <=> mutex_ = w
  /\ pc[logger] = "swapped" <=> mutex_ = logger

\* A writer fills the queue that is not being read.
WriteSide == \A w \in Writer : pc[w] = "emplace" => target[w] = 1 - index_

\* The log thread exchanges the queues when the one it reads is empty, and takes a
\* line when it is not; what it appends is a line.
ReadSide ==
  /\ pc[logger] = "lock" => queues_[index_] = <<>>
  /\ pc[logger] = "swapped" => queues_[1 - index_] = <<>>
  /\ pc[logger] = "take" => queues_[index_] # <<>>
  /\ pc[logger] = "append" => temp # NoLine

\* The inductive invariant.
IndInv ==
  /\ TypeOK
  /\ PlacesOK
  /\ PutHasLine
  /\ MutexHeld
  /\ WriteSide
  /\ ReadSide

\* Adding a line to the other queue adds it behind what the two hold together.
LEMMA AppendToSecond ==
  ASSUME NEW S, NEW x \in S, NEW a \in Seq(S), NEW b \in Seq(S)
  PROVE  Append(a \o b, x) = a \o Append(b, x)
OBVIOUS

\* The same of the queues of the log.
LEMMA PutBehind ==
  ASSUME NEW line \in Line,
         queues_[index_] \in Seq(Line), queues_[1 - index_] \in Seq(Line)
  PROVE  Append(queues_[index_] \o queues_[1 - index_], line)
           = queues_[index_] \o Append(queues_[1 - index_], line)
BY AppendToSecond, Zenon

\* Taking a line from the queue that is read takes the first of all.
LEMMA TakeFromFirst ==
  ASSUME NEW S, NEW a \in Seq(S), NEW b \in Seq(S), a # <<>>
  PROVE  /\ a \o b # <<>>
         /\ Head(a \o b) = Head(a)
         /\ Tail(a \o b) = Tail(a) \o b
         /\ Head(a) \in S /\ Tail(a) \in Seq(S)
OBVIOUS

\* An empty queue does not show.
LEMMA EmptySide ==
  ASSUME NEW S, NEW a \in Seq(S)
  PROVE  a \o <<>> = a /\ <<>> \o a = a
OBVIOUS

------------------------------------------------------------------------------
(* Types *)

\* Every step keeps the places and who may be where.
LEMMA PlacesKept ==
  ASSUME IndInv, NEW t \in Thread, NEW place \in WriterPlace \cup LoggerPlace,
         Goto(t, place),
         t \in Writer => place \in WriterPlace, t = logger => place \in LoggerPlace
  PROVE  /\ PlacesOK'
         /\ \A w \in Writer : pc'[w] \in WriterPlace
         /\ pc'[logger] \in LoggerPlace
         /\ pc'[t] = place
         /\ \A s \in Thread \ {t} : pc'[s] = pc[s]
<1>1. /\ PlacesOK' /\ pc'[t] = place
      /\ \A s \in Thread \ {t} : pc'[s] = pc[s]
  BY DEF IndInv, PlacesOK, Goto
<1>2. \A w \in Writer : pc'[w] \in WriterPlace
  BY <1>1 DEF IndInv, TypeOK, Thread
<1>3. pc'[logger] \in LoggerPlace
  BY <1>1 DEF IndInv, TypeOK, Thread
<1>4. QED
  BY <1>1, <1>2, <1>3

\* Every step of the log keeps the types.
LEMMA TypeKept ==
  ASSUME IndInv, [Next]_vars
  PROVE  TypeOK' /\ PlacesOK'
<1> USE DEF TypeOK, Thread, queueVars, writerVars, fileVars, handlerVars
<1>1. ASSUME NEW w \in Writer, put(w) PROVE TypeOK' /\ PlacesOK'
  <2>1. puts[w] + 1 \in 0..MaxPut
    BY <1>1, LogAssumption DEF put, IndInv
  <2>2. puts' \in [Writer -> 0..MaxPut]
    BY <1>1, <2>1 DEF put, IndInv
  <2>3. PICK place \in {"idle", "lock"} : Goto(w, place)
    BY <1>1 DEF put
  <2>4. QED
    BY <1>1, <2>2, <2>3, PlacesKept, LogAssumption DEF put, IndInv, WriterPlace
<1>2. ASSUME NEW w \in Writer, pushLock(w) PROVE TypeOK' /\ PlacesOK'
  <2>1. target' \in [Writer -> {0, 1}]
    BY <1>2 DEF pushLock, IndInv
  <2>2. QED
    BY <1>2, <2>1, PlacesKept, LogAssumption DEF pushLock, IndInv, WriterPlace
<1>3. ASSUME NEW w \in Writer, pushEmplace(w) PROVE TypeOK' /\ PlacesOK'
  <2>1. <<w, puts[w]>> \in Line
    BY <1>3, LogAssumption DEF pushEmplace, PutHasLine, Line, IndInv
  <2>2. queues_' \in [{0, 1} -> Seq(Line)]
    BY <1>3, <2>1 DEF pushEmplace, IndInv
  <2>3. QED
    BY <1>3, <2>1, <2>2, PlacesKept, LogAssumption DEF pushEmplace, IndInv, WriterPlace
<1>4. ASSUME popTest PROVE TypeOK' /\ PlacesOK'
  <2>1. PICK place \in {"lock", "take"} : Goto(logger, place)
    BY <1>4 DEF popTest
  <2>2. QED
    BY <1>4, <2>1, PlacesKept, LogAssumption DEF popTest, IndInv, LoggerPlace
<1>5. ASSUME popSwap PROVE TypeOK' /\ PlacesOK'
  BY <1>5, PlacesKept, LogAssumption DEF popSwap, IndInv, LoggerPlace
<1>6. ASSUME popSwapped PROVE TypeOK' /\ PlacesOK'
  <2>1. PICK place \in {"sleep", "test"} : Goto(logger, place)
    BY <1>6 DEF popSwapped
  <2>2. index_' \in {0, 1}
    BY <1>6 DEF popSwapped, IndInv
  <2>3. QED
    BY <1>6, <2>1, <2>2, PlacesKept, LogAssumption DEF popSwapped, IndInv, LoggerPlace
<1>7. ASSUME popWake PROVE TypeOK' /\ PlacesOK'
  BY <1>7, PlacesKept, LogAssumption DEF popWake, IndInv, LoggerPlace
<1>8. ASSUME popTake PROVE TypeOK' /\ PlacesOK'
  <2>1. queues_[index_] \in Seq(Line) /\ queues_[index_] # <<>>
    BY <1>8 DEF popTake, ReadSide, IndInv
  <2>2. Head(queues_[index_]) \in Line /\ Tail(queues_[index_]) \in Seq(Line)
    BY <2>1
  <2>3. queues_' \in [{0, 1} -> Seq(Line)] /\ temp' \in Line
    BY <1>8, <2>2 DEF popTake, IndInv
  <2>4. QED
    BY <1>8, <2>3, PlacesKept, LogAssumption DEF popTake, IndInv, LoggerPlace
<1>9. ASSUME append PROVE TypeOK' /\ PlacesOK'
  <2>1. temp \in Line
    BY <1>9 DEF append, ReadSide, IndInv
  <2>2. Append(buffer, temp) \in Seq(Line) /\ <<>> \in Seq(Line)
    BY <2>1 DEF IndInv
  <2>3. disk \o Append(buffer, temp) \in Seq(Line)
    BY <2>2 DEF IndInv
  <2>4. buffer' \in Seq(Line) /\ disk' \in Seq(Line)
    BY <1>9, <2>2, <2>3 DEF append, IndInv
  <2>5. QED
    BY <1>9, <2>4, PlacesKept, LogAssumption DEF append, IndInv, LoggerPlace
<1>10. ASSUME setCancel PROVE TypeOK' /\ PlacesOK'
  BY <1>10 DEF setCancel, IndInv, PlacesOK
<1>11. ASSUME isEmptySafe0 PROVE TypeOK' /\ PlacesOK'
  <2>1. wasEmpty' \in BOOLEAN
    BY <1>11, Zenon DEF isEmptySafe0
  <2>2. QED
    BY <1>11, <2>1 DEF isEmptySafe0, IndInv, PlacesOK
<1>12. ASSUME isEmptySafe1 \/ flushAgain \/ exitJoin PROVE TypeOK' /\ PlacesOK'
  BY <1>12 DEF isEmptySafe1, flushAgain, exitJoin, IndInv, PlacesOK
<1>13. disk \o buffer \in Seq(Line) /\ <<>> \in Seq(Line)
  BY DEF IndInv
<1>14. ASSUME flushFile PROVE TypeOK' /\ PlacesOK'
  BY <1>13, <1>14 DEF flushFile, IndInv, PlacesOK
<1>15. ASSUME flushFileRacing PROVE TypeOK' /\ PlacesOK'
  <2>1. CASE UNCHANGED <<buffer, pc>>
    BY <1>13, <1>15, <2>1 DEF flushFileRacing, IndInv, PlacesOK
  <2>2. CASE buffer' = <<>> /\ Goto(logger, "test")
    BY <1>13, <1>15, <2>2, PlacesKept, LogAssumption
      DEF flushFileRacing, IndInv, LoggerPlace
  <2>3. QED
    BY <1>15, <2>1, <2>2 DEF flushFileRacing
<1>16. CASE UNCHANGED vars
  BY <1>16 DEF vars, IndInv, PlacesOK
<1>17. QED
  BY <1>1, <1>2, <1>3, <1>4, <1>5, <1>6, <1>7, <1>8, <1>9, <1>10, <1>11, <1>12, <1>14,
     <1>15, <1>16
    DEF Next, WriterStep, LoggerStep, HandlerStep

------------------------------------------------------------------------------
(* Who has the mutex and which queue is whose *)

\* What the invariant says beside the types.
Sides == PutHasLine /\ MutexHeld /\ WriteSide /\ ReadSide

\* A step of a writer.
LEMMA WriterKeepsSides ==
  ASSUME IndInv, NEW w \in Writer, WriterStep(w)
  PROVE  Sides'
<1> USE DEF IndInv, PlacesOK, Sides
<1>0. w \in Thread /\ logger \in Thread /\ w # logger /\ w # NoThread /\ NoThread \notin Thread
  BY LogAssumption DEF Thread
<1>1. CASE put(w)
  <2>1. PICK place \in {"idle", "lock"} : Goto(w, place)
    BY <1>1 DEF put
  <2>2. /\ pc[w] = "idle" /\ pc'[w] \in {"idle", "lock"}
        /\ \A s \in Thread \ {w} : pc'[s] = pc[s]
    BY <1>0, <1>1, <2>1 DEF put, Goto
  <2>3. puts'[w] # 0 /\ \A v \in Writer \ {w} : puts'[v] = puts[v]
    BY <1>1, LogAssumption DEF put, TypeOK
  <2>4. UNCHANGED <<queues_, index_, mutex_, target, temp>>
    BY <1>1 DEF put, queueVars
  <2>5. PutHasLine'
    BY <2>2, <2>3 DEF PutHasLine, Thread
  <2>6. MutexHeld'
    BY <1>0, <2>2, <2>4 DEF MutexHeld, Thread
  <2>7. WriteSide'
    BY <2>2, <2>4 DEF WriteSide, Thread
  <2>8. ReadSide'
    BY <1>0, <2>2, <2>4 DEF ReadSide
  <2>9. QED
    BY <2>5, <2>6, <2>7, <2>8
<1>2. CASE pushLock(w)
  <2>1. /\ pc[w] = "lock" /\ pc'[w] = "emplace"
        /\ \A s \in Thread \ {w} : pc'[s] = pc[s]
    BY <1>0, <1>2 DEF pushLock, Goto
  <2>2. /\ mutex_ = NoThread /\ mutex_' = w
        /\ target'[w] = 1 - index_ /\ \A v \in Writer \ {w} : target'[v] = target[v]
        /\ UNCHANGED <<queues_, index_, puts, temp>>
    BY <1>2 DEF pushLock, TypeOK
  <2>3. PutHasLine'
    BY <2>1, <2>2 DEF PutHasLine, Thread
  <2>4. MutexHeld'
    BY <1>0, <2>1, <2>2, LogAssumption DEF MutexHeld, Thread
  <2>5. WriteSide'
    BY <2>1, <2>2 DEF WriteSide, Thread
  <2>6. ReadSide'
    BY <1>0, <2>1, <2>2 DEF ReadSide
  <2>7. QED
    BY <2>3, <2>4, <2>5, <2>6
<1>3. CASE pushEmplace(w)
  <2>1. /\ pc[w] = "emplace" /\ pc'[w] = "idle"
        /\ \A s \in Thread \ {w} : pc'[s] = pc[s]
    BY <1>0, <1>3 DEF pushEmplace, Goto
  <2>2. mutex_ = w /\ mutex_' = NoThread /\ UNCHANGED <<index_, target, puts, temp>>
    BY <1>3 DEF pushEmplace, MutexHeld
  <2>3. target[w] = 1 - index_ /\ index_ \in {0, 1} /\ index_ # 1 - index_
    BY <1>3 DEF pushEmplace, WriteSide, TypeOK
  <2>4. queues_'[index_] = queues_[index_]
    BY <1>3, <2>3 DEF pushEmplace, TypeOK
  <2>5. PutHasLine'
    BY <2>1, <2>2 DEF PutHasLine, Thread
  <2>6. MutexHeld'
    BY <1>0, <2>1, <2>2, LogAssumption DEF MutexHeld, Thread
  <2>7. WriteSide'
    BY <2>1, <2>2 DEF WriteSide, Thread
  <2>8. pc'[logger] # "swapped"
    BY <1>0, <2>1, <2>2 DEF MutexHeld
  <2>9. ReadSide'
    BY <1>0, <2>1, <2>2, <2>4, <2>8 DEF ReadSide
  <2>10. QED
    BY <2>5, <2>6, <2>7, <2>9
<1>4. QED
  BY <1>1, <1>2, <1>3 DEF WriterStep

\* A step of the log thread, with the end of flushFileRacing.
LEMMA LoggerKeepsSides ==
  ASSUME IndInv, LoggerStep
  PROVE  Sides'
<1> USE DEF IndInv, PlacesOK, Sides
<1>0. logger \in Thread /\ logger \notin Writer /\ logger # NoThread /\ NoThread \notin Writer
  BY LogAssumption DEF Thread
<1>1. ASSUME \A w \in Writer : pc'[w] = pc[w], UNCHANGED <<puts, target>>
      PROVE  PutHasLine' /\ (UNCHANGED index_ => WriteSide')
  BY <1>1 DEF PutHasLine, WriteSide
<1>2. \A place : Goto(logger, place) =>
        pc'[logger] = place /\ \A w \in Writer : pc'[w] = pc[w]
  BY <1>0 DEF Goto, Thread
<1>3. index_ \in {0, 1} /\ 1 - index_ \in {0, 1} /\ 1 - (1 - index_) = index_
      /\ index_ # 1 - index_
  BY DEF TypeOK
<1>4. CASE popTest
  <2>1. /\ pc[logger] = "test"
        /\ Goto(logger, IF queues_[index_] = <<>> THEN "lock" ELSE "take")
        /\ UNCHANGED <<queues_, index_, mutex_, target, puts, temp>>
    BY <1>4 DEF popTest, isEmpty, queueVars, writerVars
  <2>2. MutexHeld'
    BY <1>2, <2>1 DEF MutexHeld
  <2>3. ReadSide'
    BY <1>2, <2>1 DEF ReadSide
  <2>4. QED
    BY <1>1, <1>2, <2>1, <2>2, <2>3
<1>5. CASE popSwap
  <2>1. /\ pc[logger] = "lock" /\ Goto(logger, "swapped")
        /\ mutex_ = NoThread /\ mutex_' = logger /\ index_' = 1 - index_
        /\ UNCHANGED <<queues_, target, puts, temp>>
    BY <1>5 DEF popSwap, writerVars
  <2>2. MutexHeld'
    BY <1>0, <1>2, <2>1 DEF MutexHeld
  <2>3. WriteSide'
    BY <1>0, <1>2, <2>1 DEF MutexHeld, WriteSide
  <2>4. ReadSide'
    BY <1>2, <1>3, <2>1 DEF ReadSide
  <2>5. QED
    BY <1>1, <1>2, <2>1, <2>2, <2>3, <2>4
<1>6. CASE popSwapped
  <2>1. /\ pc[logger] = "swapped" /\ mutex_' = NoThread
        /\ Goto(logger, "sleep") \/ Goto(logger, "test")
        /\ UNCHANGED <<queues_, target, puts, temp>>
    BY <1>6 DEF popSwapped, writerVars
  <2>2. pc'[logger] \in {"sleep", "test"} /\ \A w \in Writer : pc'[w] = pc[w]
    BY <1>2, <2>1
  <2>3. mutex_ = logger /\ \A w \in Writer : pc[w] # "emplace"
    BY <1>0, <2>1 DEF MutexHeld
  <2>4. MutexHeld' /\ WriteSide'
    BY <1>0, <2>1, <2>2, <2>3 DEF MutexHeld, WriteSide
  <2>5. ReadSide'
    BY <2>2 DEF ReadSide
  <2>6. QED
    BY <1>1, <2>1, <2>2, <2>4, <2>5
<1>7. CASE popWake
  <2>1. /\ pc[logger] = "sleep" /\ Goto(logger, "test")
        /\ UNCHANGED <<queues_, index_, mutex_, target, puts, temp>>
    BY <1>7 DEF popWake, queueVars, writerVars
  <2>2. MutexHeld' /\ ReadSide'
    BY <1>2, <2>1 DEF MutexHeld, ReadSide
  <2>3. QED
    BY <1>1, <1>2, <2>1, <2>2
<1>8. CASE popTake
  <2>1. /\ pc[logger] = "take" /\ Goto(logger, "append")
        /\ temp' = Head(queues_[index_])
        /\ UNCHANGED <<index_, mutex_, target, puts>>
    BY <1>8 DEF popTake, writerVars
  <2>2. queues_[index_] \in Seq(Line) /\ queues_[index_] # <<>>
    BY <1>3, <2>1 DEF ReadSide, TypeOK
  <2>3. Head(queues_[index_]) \in Line
    BY <2>2
  <2>4. temp' # NoLine
    BY <2>1, <2>3, LogAssumption
  <2>5. MutexHeld' /\ ReadSide'
    BY <1>2, <2>1, <2>4 DEF MutexHeld, ReadSide
  <2>6. QED
    BY <1>1, <1>2, <2>1, <2>5
<1>9. CASE append
  <2>1. /\ pc[logger] = "append" /\ Goto(logger, "test")
        /\ UNCHANGED <<queues_, index_, mutex_, target, puts, temp>>
    BY <1>9 DEF append, queueVars, writerVars
  <2>2. MutexHeld' /\ ReadSide'
    BY <1>2, <2>1 DEF MutexHeld, ReadSide
  <2>3. QED
    BY <1>1, <1>2, <2>1, <2>2
<1>10. QED
  BY <1>4, <1>5, <1>6, <1>7, <1>8, <1>9 DEF LoggerStep

\* A step of the SIGINT handler.
LEMMA HandlerKeepsSides ==
  ASSUME IndInv, setCancel \/ HandlerStep
  PROVE  Sides'
<1> USE DEF IndInv, PlacesOK, Sides
<1>1. /\ UNCHANGED <<queues_, index_, mutex_, target, puts, temp>>
      /\ UNCHANGED pc \/ (pc[logger] = "append" /\ Goto(logger, "test"))
  BY DEF setCancel, HandlerStep, isEmptySafe0, isEmptySafe1, flushAgain, flushFile,
         flushFileRacing, exitJoin, queueVars, writerVars
<1>2. CASE UNCHANGED pc
  BY <1>1, <1>2 DEF PutHasLine, MutexHeld, WriteSide, ReadSide
<1>3. CASE pc[logger] = "append" /\ Goto(logger, "test")
  <2>1. pc'[logger] = "test" /\ \A w \in Writer : pc'[w] = pc[w]
    BY <1>3, LogAssumption DEF Goto, Thread
  <2>2. QED
    BY <1>1, <1>3, <2>1 DEF PutHasLine, MutexHeld, WriteSide, ReadSide
<1>4. QED
  BY <1>1, <1>2, <1>3

------------------------------------------------------------------------------
(* Theorems *)

\* The inductive invariant holds in every reachable state.
THEOREM Invariance == Spec => []IndInv
<1>1. Init => IndInv
  <2> SUFFICES ASSUME Init PROVE IndInv
    OBVIOUS
  <2>1. /\ \A w \in Writer : pc[w] = "idle"
        /\ pc[logger] \in {"test", "ended"}
    BY LogAssumption DEF Init
  <2>2. PlacesOK
    BY DEF Init, PlacesOK, Thread, WriterPlace, LoggerPlace
  <2>3. TypeOK
    <3>1. queues_ \in [{0, 1} -> Seq(Line)] /\ buffer \in Seq(Line) /\ disk \in Seq(Line)
      BY DEF Init
    <3>2. puts \in [Writer -> 0..MaxPut] /\ target \in [Writer -> {0, 1}]
      BY LogAssumption DEF Init
    <3>3. isCancel_ \in BOOLEAN /\ isFileExsit_ \in BOOLEAN /\ wasEmpty \in BOOLEAN
      BY Zenon DEF Init
    <3>4. /\ index_ \in {0, 1} /\ mutex_ = NoThread /\ temp = NoLine
          /\ queued = {} /\ owed = {} /\ handler = "none"
      BY DEF Init
    <3>5. QED
      BY <2>1, <3>1, <3>2, <3>3, <3>4 DEF TypeOK, WriterPlace, LoggerPlace
  <2>4. PutHasLine /\ WriteSide /\ ReadSide
    BY <2>1 DEF PutHasLine, WriteSide, ReadSide
  <2>5. mutex_ = NoThread
    BY DEF Init
  <2>6. MutexHeld
    BY <2>1, <2>5, LogAssumption DEF MutexHeld
  <2>7. QED
    BY <2>2, <2>3, <2>4, <2>6 DEF IndInv
<1>2. IndInv /\ [Next]_vars => IndInv'
  <2> SUFFICES ASSUME IndInv, [Next]_vars PROVE IndInv'
    OBVIOUS
  <2>1. TypeOK' /\ PlacesOK'
    BY TypeKept
  <2>2. ASSUME UNCHANGED vars PROVE Sides'
    BY <2>2 DEF vars, queueVars, writerVars, IndInv, Sides, PutHasLine, MutexHeld, WriteSide,
                ReadSide
  <2>3. Sides'
    BY <2>2, WriterKeepsSides, LoggerKeepsSides, HandlerKeepsSides
      DEF Next, IndInv, Sides
  <2>4. QED
    BY <2>1, <2>3 DEF IndInv, Sides
<1>3. QED
  BY <1>1, <1>2, PTL DEF Spec

\* Every variable of the log keeps its type.
THEOREM Typing == Spec => []TypeOK
<1>1. IndInv => TypeOK
  BY DEF IndInv
<1>2. QED
  BY <1>1, Invariance, PTL

\* The log thread's unlocked front() and pop() never meet a writer.
THEOREM NoRace == Spec => []RaceFree
<1>1. IndInv => RaceFree
  BY DEF IndInv, TypeOK, WriteSide, RaceFree
<1>2. QED
  BY <1>1, Invariance, PTL

\* The two queues and their exchange behave as one FIFO queue.
THEOREM QueuesAreFifo == Spec => ImplementsFifo
<1> DEFINE items == queues_[index_] \o queues_[1 - index_]
           holds == [t \in {logger} |-> temp]
<1>1. Init => Fifo!Init
  <2> SUFFICES ASSUME Init PROVE Fifo!Init
    OBVIOUS
  <2>1. queues_[index_] = <<>> /\ queues_[1 - index_] = <<>> /\ temp = NoLine
    BY DEF Init
  <2>2. items = <<>>
    BY <2>1
  <2>3. QED
    BY <2>1, <2>2 DEF Fifo!Init
<1>2. IndInv /\ [Next]_vars => [Fifo!Next]_Fifo!fifoVars
  <2> SUFFICES ASSUME IndInv, [Next]_vars
               PROVE  Fifo!Next \/ UNCHANGED Fifo!fifoVars
    OBVIOUS
  <2>1. /\ index_ \in {0, 1} /\ 1 - index_ \in {0, 1} /\ index_ # 1 - index_
        /\ 1 - (1 - index_) = index_
        /\ queues_[index_] \in Seq(Line) /\ queues_[1 - index_] \in Seq(Line)
    BY DEF IndInv, TypeOK
  <2>2. ASSUME UNCHANGED <<queues_, index_, temp>>
        PROVE  UNCHANGED Fifo!fifoVars
    BY <2>2 DEF Fifo!fifoVars
  <2>3. ASSUME NEW w \in Writer, pushEmplace(w) PROVE Fifo!Next
    <3>1. PICK line \in Line : line = <<w, puts[w]>>
      <4>1. <<w, puts[w]>> \in Line
        BY <2>3, LogAssumption DEF pushEmplace, PutHasLine, Line, IndInv, TypeOK
      <4>2. QED
        BY <4>1, Zenon
    <3>2. target[w] = 1 - index_
      BY <2>3 DEF pushEmplace, IndInv, WriteSide
    <3>3. /\ queues_'[index_] = queues_[index_]
          /\ queues_'[1 - index_] = Append(queues_[1 - index_], line)
          /\ index_' = index_ /\ temp' = temp
      BY <2>1, <2>3, <3>1, <3>2 DEF pushEmplace, IndInv, TypeOK
    <3>4. items' = Append(items, line)
      <4>1. items' = queues_[index_] \o Append(queues_[1 - index_], line)
        BY <3>3
      <4>2. Append(items, line) = queues_[index_] \o Append(queues_[1 - index_], line)
        BY <2>1, PutBehind
      <4>3. QED
        BY <4>1, <4>2
    <3>5. Fifo!Put(line)
      BY <3>3, <3>4 DEF Fifo!Put, Fifo!HasRoom
    <3>6. QED
      BY <3>5 DEF Fifo!Next
  <2>4. ASSUME popTake PROVE Fifo!Next
    <3>1. queues_[index_] # <<>>
      BY <2>4 DEF popTake, IndInv, ReadSide
    <3>2. /\ queues_'[index_] = Tail(queues_[index_])
          /\ queues_'[1 - index_] = queues_[1 - index_]
          /\ index_' = index_ /\ temp' = Head(queues_[index_])
      BY <2>1, <2>4 DEF popTake, IndInv, TypeOK
    <3>3. items # <<>> /\ Head(items) = Head(queues_[index_]) /\ items' = Tail(items)
      <4>1. items' = Tail(queues_[index_]) \o queues_[1 - index_]
        BY <3>2
      <4>2. /\ items # <<>> /\ Head(items) = Head(queues_[index_])
            /\ Tail(items) = Tail(queues_[index_]) \o queues_[1 - index_]
        BY <2>1, <3>1, TakeFromFirst
      <4>3. QED
        BY <4>1, <4>2
    <3>4. holds' = [holds EXCEPT ![logger] = Head(items)]
      BY <3>2, <3>3
    <3>5. Fifo!Take(logger)
      BY <3>3, <3>4 DEF Fifo!Take
    <3>6. QED
      BY <3>5 DEF Fifo!Next
  <2>5. ASSUME popSwap PROVE UNCHANGED Fifo!fifoVars
    <3>1. /\ queues_[index_] = <<>> /\ index_' = 1 - index_
          /\ UNCHANGED <<queues_, temp>>
      BY <2>5 DEF popSwap, IndInv, ReadSide
    <3>2. items = queues_[1 - index_] /\ items' = queues_[1 - index_]
      BY <2>1, <3>1, EmptySide
    <3>3. QED
      BY <3>1, <3>2 DEF Fifo!fifoVars
  <2>6. ASSUME popSwapped PROVE UNCHANGED Fifo!fifoVars
    <3>1. UNCHANGED <<queues_, temp>>
      BY <2>6 DEF popSwapped
    <3>2. CASE index_' = index_
      BY <2>2, <3>1, <3>2
    <3>3. CASE index_' # index_
      <4>1. queues_[index_] = <<>> /\ queues_[1 - index_] = <<>> /\ index_' = 1 - index_
        BY <2>6, <3>3 DEF popSwapped, isEmpty, IndInv, ReadSide
      <4>2. items = <<>> /\ items' = <<>>
        BY <2>1, <3>1, <4>1
      <4>3. QED
        BY <3>1, <4>2 DEF Fifo!fifoVars
    <3>4. QED
      BY <3>2, <3>3
  <2>7. ASSUME \/ \E w \in Writer : put(w) \/ pushLock(w)
               \/ popTest \/ popWake \/ append \/ setCancel \/ HandlerStep
               \/ UNCHANGED vars
        PROVE  UNCHANGED Fifo!fifoVars
    <3>1. UNCHANGED <<queues_, index_, temp>>
      BY <2>7
        DEF put, pushLock, popTest, popWake, append, setCancel, HandlerStep, isEmptySafe0,
            isEmptySafe1, flushAgain, flushFile, flushFileRacing, exitJoin, vars,
            queueVars
    <3>2. QED
      BY <2>2, <3>1
  <2>8. QED
    BY <2>3, <2>4, <2>5, <2>6, <2>7 DEF Next, WriterStep, LoggerStep
<1>3. QED
  BY <1>1, <1>2, Invariance, PTL DEF Spec, ImplementsFifo, Fifo!Spec
------------------------------------------------------------------------------
(* Where the queued lines are when Ctrl-C comes *)

\* A line is queued once: the number of the next is behind those of all that were.
LinesNumbered ==
  \A l \in queued : l[2] <= puts[l[1]] /\ (pc[l[1]] # "idle" => l[2] < puts[l[1]])

OwedQueued == owed \subseteq queued

InHand == IF pc[logger] = "append" THEN {temp} ELSE {}
InFile == Lines(disk) \cup Lines(buffer) \cup InHand
InQueues == Lines(queues_[0]) \cup Lines(queues_[1])

\* Until the handler has flushed the file nothing is lost.
NothingLost ==
  handler \in {"none", "size0", "size1", "sleep", "fflush"} =>
    queued \subseteq InFile \cup InQueues

\* What was found empty, or without a line that is owed, stays so: new lines are not
\* owed.
OwedGone ==
  /\ handler = "size1" /\ wasEmpty => owed \cap Lines(queues_[0]) = {}
  /\ handler = "fflush" => owed \cap InQueues = {}

\* After that a single line may be missing.
OneMissing ==
  handler \in {"exit", "gone"} => \E l \in Line \cup {NoLine} : owed \ Lines(disk) \subseteq {l}

DrainInv == LinesNumbered /\ OwedQueued /\ NothingLost /\ OwedGone /\ OneMissing

\* The empty sequence has no lines.
LEMMA NoLines == Lines(<<>>) = {}
BY DEF Lines

\* The lines of a sequence with one more at its end.
LEMMA LinesOfAppend ==
  ASSUME NEW S, NEW s \in Seq(S), NEW x \in S
  PROVE  Lines(Append(s, x)) = Lines(s) \cup {x}
<1>1. /\ DOMAIN Append(s, x) = DOMAIN s \cup {Len(s) + 1}
      /\ \A i \in DOMAIN s : Append(s, x)[i] = s[i]
      /\ Append(s, x)[Len(s) + 1] = x
  OBVIOUS
<1>2. QED
  BY <1>1, Zenon DEF Lines

\* The lines of two sequences put together.
LEMMA LinesOfConcat ==
  ASSUME NEW S, NEW s \in Seq(S), NEW t \in Seq(S)
  PROVE  Lines(s \o t) = Lines(s) \cup Lines(t)
<1>1. \A i \in DOMAIN s : i \in DOMAIN (s \o t) /\ (s \o t)[i] = s[i]
  OBVIOUS
<1>2. \A i \in DOMAIN t : Len(s) + i \in DOMAIN (s \o t) /\ (s \o t)[Len(s) + i] = t[i]
  OBVIOUS
<1>3. ASSUME NEW i \in DOMAIN (s \o t)
      PROVE  (s \o t)[i] \in Lines(s) \cup Lines(t)
  <2>1. CASE i \in DOMAIN s
    BY <1>1, <2>1 DEF Lines
  <2>2. CASE i \notin DOMAIN s
    <3>1. i - Len(s) \in DOMAIN t /\ (s \o t)[i] = t[i - Len(s)]
      BY <2>2
    <3>2. QED
      BY <3>1, Zenon DEF Lines
  <2>3. QED
    BY <2>1, <2>2
<1>4. Lines(s \o t) \subseteq Lines(s) \cup Lines(t)
  BY <1>3, Zenon DEF Lines
<1>5. Lines(s) \subseteq Lines(s \o t)
  BY <1>1, Zenon DEF Lines
<1>6. Lines(t) \subseteq Lines(s \o t)
  BY <1>2, Zenon DEF Lines
<1>7. QED
  BY <1>4, <1>5, <1>6

\* The lines of a sequence are its first one and the others.
LEMMA LinesOfTail ==
  ASSUME NEW S, NEW s \in Seq(S), s # <<>>
  PROVE  Lines(s) = {Head(s)} \cup Lines(Tail(s))
<1>1. /\ 1 \in DOMAIN s /\ s[1] = Head(s)
      /\ \A i \in DOMAIN Tail(s) : i + 1 \in DOMAIN s /\ s[i + 1] = Tail(s)[i]
  OBVIOUS
<1>2. ASSUME NEW i \in DOMAIN s, i # 1
      PROVE  i - 1 \in DOMAIN Tail(s) /\ s[i] = Tail(s)[i - 1]
  BY <1>2
<1>3. \A i \in DOMAIN s : s[i] \in {Head(s)} \cup Lines(Tail(s))
  <2>1. ASSUME NEW i \in DOMAIN s, i = 1 PROVE s[i] = Head(s)
    BY <1>1, <2>1
  <2>2. ASSUME NEW i \in DOMAIN s, i # 1 PROVE s[i] \in Lines(Tail(s))
    BY <1>2, <2>2, Zenon DEF Lines
  <2>3. QED
    BY <2>1, <2>2, Zenon
<1>4. Lines(s) \subseteq {Head(s)} \cup Lines(Tail(s))
  BY <1>3, Zenon DEF Lines
<1>5. Head(s) \in Lines(s)
  BY <1>1, Zenon DEF Lines
<1>6. Lines(Tail(s)) \subseteq Lines(s)
  BY <1>1, Zenon DEF Lines
<1>7. QED
  BY <1>4, <1>5, <1>6

\* A push adds a line nobody is owed.
LEMMA PushKeepsDrain ==
  ASSUME IndInv, DrainInv, NEW w \in Writer, WriterStep(w)
  PROVE  DrainInv'
<1> USE DEF queueVars, writerVars, fileVars, handlerVars
<1>1. pc[logger] = pc'[logger] /\ \A v \in Writer \ {w} : pc'[v] = pc[v]
  BY LogAssumption DEF WriterStep, put, pushLock, pushEmplace, Goto, IndInv, PlacesOK, Thread
<1>2. queued \subseteq Line /\ owed \subseteq queued
  BY DEF IndInv, TypeOK, DrainInv, OwedQueued
<1>3. ASSUME put(w) PROVE DrainInv'
  <2>1. /\ puts'[w] = puts[w] + 1 /\ puts[w] \in Nat
        /\ \A v \in Writer \ {w} : puts'[v] = puts[v]
    BY <1>3 DEF put, IndInv, TypeOK
  <2>2. ASSUME NEW l \in queued
        PROVE  l[2] <= puts'[l[1]] /\ (pc'[l[1]] # "idle" => l[2] < puts'[l[1]])
    <3>1. l[1] \in Writer /\ l[2] \in Nat
      BY <1>2, LogAssumption DEF Line
    <3>2. l[2] <= puts[l[1]] /\ (pc[l[1]] # "idle" => l[2] < puts[l[1]])
      BY DEF DrainInv, LinesNumbered
    <3>3. QED
      BY <1>1, <2>1, <3>1, <3>2
  <2>3. LinesNumbered'
    BY <1>3, <2>2 DEF put, LinesNumbered
  <2>4. QED
    BY <1>1, <1>3, <2>3
      DEF put, DrainInv, OwedQueued, NothingLost, OwedGone, OneMissing, InFile, InHand, InQueues
<1>4. ASSUME pushLock(w) PROVE DrainInv'
  <2>1. pc[w] # "idle" /\ puts' = puts /\ queued' = queued
    BY <1>4 DEF pushLock
  <2>2. LinesNumbered'
    <3>1. ASSUME NEW l \in queued
          PROVE  l[2] <= puts[l[1]] /\ (pc'[l[1]] # "idle" => l[2] < puts[l[1]])
      <4>1. l[1] \in Writer
        BY <1>2 DEF Line
      <4>2. QED
        BY <1>1, <2>1, <4>1 DEF DrainInv, LinesNumbered
    <3>2. QED
      BY <2>1, <3>1 DEF LinesNumbered
  <2>3. QED
    BY <1>1, <1>4, <2>2
      DEF pushLock, DrainInv, OwedQueued, NothingLost, OwedGone, OneMissing, InFile, InHand,
          InQueues
<1>5. ASSUME pushEmplace(w) PROVE DrainInv'
  <2>. DEFINE new == <<w, puts[w]>>
  <2>1. /\ pc[w] = "emplace" /\ pc'[w] = "idle" /\ puts' = puts
        /\ queued' = queued \cup {new} /\ owed' = owed /\ handler' = handler
    BY <1>5, LogAssumption DEF pushEmplace, Goto, IndInv, PlacesOK, Thread
  <2>2. new \notin queued /\ new \in Line /\ puts[w] \in Nat
    <3>1. puts[w] \in 0..MaxPut /\ puts[w] # 0
      BY <2>1 DEF IndInv, TypeOK, PutHasLine
    <3>2. \A l \in queued : l[1] = w => l[2] < puts[w]
      BY <2>1 DEF DrainInv, LinesNumbered
    <3>3. QED
      BY <3>1, <3>2, LogAssumption DEF Line
  <2>3. LinesNumbered'
    <3>1. ASSUME NEW l \in queued \cup {new}
          PROVE  l[2] <= puts[l[1]] /\ (pc'[l[1]] # "idle" => l[2] < puts[l[1]])
      <4>1. CASE l = new
        BY <2>1, <2>2, <4>1
      <4>2. CASE l \in queued
        <5>1. l[1] \in Writer
          BY <1>2, <4>2 DEF Line
        <5>2. QED
          BY <1>1, <2>1, <4>2, <5>1 DEF DrainInv, LinesNumbered
      <4>3. QED
        BY <4>1, <4>2
    <3>2. QED
      BY <2>1, <3>1 DEF LinesNumbered
  <2>4. OwedQueued'
    BY <1>2, <2>1 DEF OwedQueued
  <2>5. \A i \in {0, 1} : /\ Lines(queues_'[i]) \subseteq Lines(queues_[i]) \cup {new}
                          /\ Lines(queues_[i]) \subseteq Lines(queues_'[i])
    <3>1. \A i \in {0, 1} : queues_'[i] = queues_[i] \/ queues_'[i] = Append(queues_[i], new)
      BY <1>5 DEF pushEmplace, IndInv, TypeOK
    <3>2. QED
      <4>1. \A i \in {0, 1} :
              Lines(Append(queues_[i], new)) = Lines(queues_[i]) \cup {new}
        BY <2>2, LinesOfAppend DEF IndInv, TypeOK
      <4>2. QED
        BY <3>1, <4>1
  <2>6. new \in InQueues'
    <3>1. target[w] \in {0, 1} /\ queues_'[target[w]] = Append(queues_[target[w]], new)
      BY <1>5 DEF pushEmplace, IndInv, TypeOK
    <3>2. new \in Lines(queues_'[target[w]])
      BY <2>2, <3>1, LinesOfAppend DEF IndInv, TypeOK
    <3>3. QED
      BY <3>1, <3>2 DEF InQueues
  <2>7. InFile' = InFile /\ disk' = disk /\ wasEmpty' = wasEmpty
    BY <1>1, <1>5 DEF pushEmplace, InFile, InHand
  <2>8. NothingLost'
    BY <2>1, <2>5, <2>6, <2>7 DEF DrainInv, NothingLost, InQueues
  <2>9. OwedGone'
    BY <1>2, <2>1, <2>2, <2>5, <2>7 DEF DrainInv, OwedGone, InQueues
  <2>10. OneMissing'
    BY <2>1, <2>7 DEF DrainInv, OneMissing
  <2>. QED
    BY <2>3, <2>4, <2>8, <2>9, <2>10 DEF DrainInv
<1>. QED
  BY <1>3, <1>4, <1>5 DEF WriterStep

\* The log thread carries a line from a queue to the file.
LEMMA LoggerKeepsDrain ==
  ASSUME IndInv, DrainInv, LoggerStep
  PROVE  DrainInv'
<1> USE DEF queueVars, writerVars, fileVars, handlerVars
<1>1. /\ \A w \in Writer : pc'[w] = pc[w]
      /\ queued' = queued /\ owed' = owed /\ handler' = handler /\ puts' = puts
      /\ wasEmpty' = wasEmpty /\ queued \subseteq Line
  BY LogAssumption
    DEF LoggerStep, popTest, popSwap, popSwapped, popWake, popTake, append, Goto, IndInv,
        PlacesOK, Thread, TypeOK
<1>2. LinesNumbered' /\ OwedQueued'
  <2>1. \A l \in queued : l[1] \in Writer
    BY <1>1 DEF Line
  <2>2. QED
    BY <1>1, <2>1 DEF DrainInv, LinesNumbered, OwedQueued
<1>3. /\ InFile \cup InQueues \subseteq (InFile \cup InQueues)'
      /\ \A i \in {0, 1} : Lines(queues_'[i]) \subseteq Lines(queues_[i])
      /\ Lines(disk) \subseteq Lines(disk')
  <2>1. CASE popTest \/ popSwap \/ popSwapped \/ popWake
    <3>1. /\ queues_' = queues_ /\ disk' = disk /\ buffer' = buffer
          /\ pc[logger] # "append"
      BY <2>1 DEF popTest, popSwap, popSwapped, popWake
    <3>2. QED
      BY <3>1 DEF InFile, InHand, InQueues
  <2>2. CASE popTake
    <3>1. /\ index_ \in {0, 1} /\ queues_[index_] \in Seq(Line) /\ queues_[index_] # <<>>
          /\ temp' = Head(queues_[index_]) /\ queues_'[index_] = Tail(queues_[index_])
          /\ queues_'[1 - index_] = queues_[1 - index_]
          /\ disk' = disk /\ buffer' = buffer
      BY <2>2 DEF popTake, IndInv, TypeOK, ReadSide
    <3>2. pc[logger] = "take" /\ pc'[logger] = "append"
      BY <2>2 DEF popTake, Goto, IndInv, PlacesOK, Thread
    <3>3. Lines(queues_[index_]) = {temp'} \cup Lines(queues_'[index_])
      BY <3>1, LinesOfTail
    <3>4. InHand' = {temp'} /\ InHand = {}
      BY <3>2 DEF InHand
    <3>5. \A i \in {0, 1} : i = index_ \/ i = 1 - index_
      BY <3>1
    <3>6. InQueues = InQueues' \cup {temp'}
      <4>1. InQueues = Lines(queues_[index_]) \cup Lines(queues_[1 - index_])
        BY <3>1 DEF InQueues
      <4>2. InQueues' = Lines(queues_'[index_]) \cup Lines(queues_'[1 - index_])
        BY <3>1 DEF InQueues
      <4>3. QED
        BY <3>1, <3>3, <4>1, <4>2
    <3>7. QED
      BY <3>1, <3>3, <3>4, <3>5, <3>6 DEF InFile
  <2>3. CASE append
    <3>1. /\ temp \in Line /\ buffer \in Seq(Line) /\ disk \in Seq(Line)
          /\ Append(buffer, temp) \in Seq(Line)
          /\ pc[logger] = "append" /\ queues_' = queues_
      BY <2>3 DEF append, IndInv, TypeOK, ReadSide
    <3>2. InHand = {temp}
      BY <3>1 DEF InHand
    <3>3. Lines(disk') \cup Lines(buffer') = Lines(disk) \cup Lines(buffer) \cup {temp}
      <4>1. Lines(Append(buffer, temp)) = Lines(buffer) \cup {temp}
        BY <3>1, LinesOfAppend
      <4>2. Lines(disk \o Append(buffer, temp)) = Lines(disk) \cup Lines(Append(buffer, temp))
        BY <3>1, LinesOfConcat
      <4>3. CASE buffer' = Append(buffer, temp) /\ disk' = disk
        BY <4>1, <4>3
      <4>4. CASE buffer' = <<>> /\ disk' = disk \o Append(buffer, temp)
        BY <4>1, <4>2, <4>4, NoLines
      <4>5. QED
        BY <2>3, <4>3, <4>4 DEF append
    <3>4. Lines(disk) \subseteq Lines(disk')
      <4>1. CASE disk' = disk
        BY <4>1
      <4>2. CASE disk' = disk \o Append(buffer, temp)
        <5>1. Lines(disk \o Append(buffer, temp)) = Lines(disk) \cup Lines(Append(buffer, temp))
          BY <3>1, LinesOfConcat
        <5>2. QED
          BY <4>2, <5>1
      <4>3. QED
        BY <2>3, <4>1, <4>2 DEF append
    <3>5. QED
      BY <3>1, <3>2, <3>3, <3>4 DEF InFile, InQueues
  <2>4. QED
    BY <2>1, <2>2, <2>3 DEF LoggerStep
<1>4. NothingLost'
  BY <1>1, <1>3 DEF DrainInv, NothingLost
<1>5. OwedGone'
  BY <1>1, <1>3 DEF DrainInv, OwedGone, InQueues
<1>6. OneMissing'
  BY <1>1, <1>3 DEF DrainInv, OneMissing
<1>. QED
  BY <1>2, <1>4, <1>5, <1>6 DEF DrainInv

\* The handler finds nothing owed in either queue before it flushes.
LEMMA HandlerKeepsDrain ==
  ASSUME IndInv, DrainInv, setCancel \/ HandlerStep
  PROVE  DrainInv'
<1> USE DEF queueVars, writerVars, fileVars, handlerVars
<1>1. ASSUME setCancel PROVE DrainInv'
  BY <1>1 DEF setCancel, DrainInv, LinesNumbered, OwedQueued, NothingLost, OwedGone,
              OneMissing, InFile, InHand, InQueues
<1>2. ASSUME isEmptySafe0 PROVE DrainInv'
  <2>1. wasEmpty' => Lines(queues_[0]) = {}
    <3>1. wasEmpty' => queues_[0] = <<>>
      BY <1>2, Zenon DEF isEmptySafe0
    <3>2. QED
      BY <3>1, NoLines
  <2>2. QED
    BY <1>2, <2>1 DEF isEmptySafe0, DrainInv, LinesNumbered, OwedQueued, NothingLost,
                      OwedGone, OneMissing, InFile, InHand, InQueues
<1>3. ASSUME isEmptySafe1 PROVE DrainInv'
  <2>1. handler' = "fflush" => wasEmpty /\ Lines(queues_[1]) = {}
    BY <1>3 DEF isEmptySafe1, Lines
  <2>2. handler = "size1" /\ handler' \in {"fflush", "sleep"}
    BY <1>3 DEF isEmptySafe1
  <2>3. OwedGone'
    BY <1>3, <2>1, <2>2 DEF isEmptySafe1, DrainInv, OwedGone, InQueues
  <2>4. QED
    BY <1>3, <2>2, <2>3 DEF isEmptySafe1, DrainInv, LinesNumbered, OwedQueued, NothingLost,
                            OneMissing, InFile, InHand, InQueues
<1>4. ASSUME flushAgain \/ exitJoin PROVE DrainInv'
  BY <1>4 DEF flushAgain, exitJoin, DrainInv, LinesNumbered, OwedQueued, NothingLost, OwedGone,
              OneMissing, InFile, InHand, InQueues
<1>5. ASSUME flushFile \/ flushFileRacing PROVE DrainInv'
  <2>1. /\ handler = "fflush" /\ handler' = "exit" /\ disk' = disk \o buffer
        /\ owed' = owed /\ queued' = queued /\ puts' = puts /\ queued \subseteq Line
    BY <1>5 DEF flushFile, flushFileRacing, IndInv, TypeOK
  <2>2. \A w \in Writer : pc'[w] = pc[w]
    BY <1>5, LogAssumption DEF flushFile, flushFileRacing, Goto, IndInv, PlacesOK, Thread
  <2>3. LinesNumbered' /\ OwedQueued'
    <3>1. \A l \in queued : l[1] \in Writer
      BY <2>1 DEF Line
    <3>2. QED
      BY <2>1, <2>2, <3>1 DEF DrainInv, LinesNumbered, OwedQueued
  <2>4. Lines(disk') = Lines(disk) \cup Lines(buffer)
    BY <2>1, LinesOfConcat DEF IndInv, TypeOK
  <2>5. owed \subseteq InFile
    BY <2>1 DEF DrainInv, OwedQueued, NothingLost, OwedGone
  <2>6. owed \ Lines(disk') \subseteq {temp}
    BY <2>4, <2>5 DEF InFile, InHand
  <2>7. OneMissing'
    BY <2>1, <2>6 DEF OneMissing, IndInv, TypeOK
  <2>8. NothingLost' /\ OwedGone'
    BY <2>1 DEF NothingLost, OwedGone
  <2>. QED
    BY <2>3, <2>7, <2>8 DEF DrainInv
<1>. QED
  BY <1>1, <1>2, <1>3, <1>4, <1>5 DEF HandlerStep

\* When the handler is done no more than one line that was queued before Ctrl-C is
\* missing from the file.
THEOREM QueueIsDrained == Spec => []FlushDrains
<1>1. Init => DrainInv
  BY DEF Init, DrainInv, LinesNumbered, OwedQueued, NothingLost, OwedGone, OneMissing
<1>2. IndInv /\ DrainInv /\ [Next]_vars => DrainInv'
  <2> SUFFICES ASSUME IndInv, DrainInv, [Next]_vars PROVE DrainInv'
    OBVIOUS
  <2>1. CASE UNCHANGED vars
    BY <2>1 DEF vars, queueVars, writerVars, fileVars, handlerVars, DrainInv, LinesNumbered,
                OwedQueued, NothingLost, OwedGone, OneMissing, InFile, InHand, InQueues
  <2>2. QED
    BY <2>1, PushKeepsDrain, LoggerKeepsDrain, HandlerKeepsDrain DEF Next
<1>3. DrainInv => FlushDrains
  <2> SUFFICES ASSUME DrainInv, handler \in {"exit", "gone"}
               PROVE  Cardinality(owed \ Lines(disk)) <= 1
    BY DEF FlushDrains
  <2>1. PICK l : owed \ Lines(disk) \subseteq {l}
    BY DEF DrainInv, OneMissing
  <2>2. owed \ Lines(disk) = {} \/ owed \ Lines(disk) = {l}
    BY <2>1
  <2>3. Cardinality(owed \ Lines(disk)) \in {0, 1}
    <3>1. Cardinality({}) = 0 /\ Cardinality({l}) = 1
      BY FS_EmptySet, FS_Singleton
    <3>2. QED
      BY <2>2, <3>1, Zenon
  <2>4. QED
    BY <2>3
<1>4. QED
  BY <1>1, <1>2, <1>3, Invariance, PTL DEF Spec
==============================================================================
