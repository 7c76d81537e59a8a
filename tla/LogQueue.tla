------------------------------- MODULE LogQueue -------------------------------
(***************************************************************************)
(* The asynchronous log of one module: writers put lines into a            *)
(* DoubleBufferedQueue, the log thread (LogThread::run) takes them out and *)
(* appends them to the file, and the handler of SIGINT (processCtrl_C, on  *)
(* the main thread) stops the log, waits until it is drained, flushes the  *)
(* file and leaves through exit(0).                                        *)
(*                                                                         *)
(* The log thread reads queues_[index_] without a lock, the writers write  *)
(* the other queue under mutex_, and the handler reads the sizes of both   *)
(* without a lock.                                                         *)
(***************************************************************************)
EXTENDS Integers, Sequences, FiniteSets

CONSTANTS
  Writer,     \* threads that log
  logger,     \* the log thread
  MaxPut,     \* bound: how many lines one writer logs
  NoThread,   \* mutex_ is free
  NoLine      \* the log thread has taken no line yet

Line == Writer \X (1..MaxPut)

ASSUME LogAssumption ==
  /\ logger \notin Writer
  /\ NoThread \notin Writer \cup {logger}
  /\ NoLine \notin Line
  /\ MaxPut \in Nat

VARIABLES
  queues_,       \* the two std::queues
  index_,        \* the one the log thread reads
  mutex_,        \* the thread that holds it
  isCancel_,     \* the log takes no more lines
  isFileExsit_,  \* the file could be opened
  pc,            \* where each writer and the log thread are
  target,        \* the queue a writer in emplace has chosen
  puts,          \* puts[w]: how many times w has called put
  queued,        \* the lines whose push has returned
  temp,          \* the line the log thread took last
  buffer,        \* lines in the buffer of the FILE
  disk,          \* lines written to the file
  handler,       \* where the SIGINT handler is
  wasEmpty,      \* what flush found of queues_[0]
  owed           \* the lines queued before the log was cancelled

queueVars == <<queues_, index_, mutex_>>
writerVars == <<target, puts, queued>>
fileVars == <<buffer, disk>>
handlerVars == <<isCancel_, handler, wasEmpty, owed>>
vars == <<queueVars, isFileExsit_, pc, writerVars, temp, fileVars, handlerVars>>

WriterPlace == {"idle", "lock", "emplace"}
LoggerPlace == {"test", "lock", "swapped", "sleep", "take", "append", "ended"}

TypeOK ==
  /\ queues_ \in [{0, 1} -> Seq(Line)]
  /\ index_ \in {0, 1}
  /\ mutex_ \in Writer \cup {logger, NoThread}
  /\ isCancel_ \in BOOLEAN
  /\ isFileExsit_ \in BOOLEAN
  /\ \A w \in Writer : pc[w] \in WriterPlace
  /\ pc[logger] \in LoggerPlace
  /\ target \in [Writer -> {0, 1}]
  /\ puts \in [Writer -> 0..MaxPut]
  /\ queued \subseteq Line
  /\ temp \in Line \cup {NoLine}
  /\ buffer \in Seq(Line)
  /\ disk \in Seq(Line)
  /\ handler \in {"none", "size0", "size1", "sleep", "fflush", "exit", "gone"}
  /\ wasEmpty \in BOOLEAN
  /\ owed \subseteq Line

\* index_ is not initialised: either queue may be the first to be read.  Without a
\* file the log thread ends at once.
Init ==
  /\ queues_ = [i \in {0, 1} |-> <<>>]
  /\ index_ \in {0, 1}
  /\ mutex_ = NoThread
  /\ isCancel_ = FALSE
  /\ isFileExsit_ \in BOOLEAN
  /\ pc = [t \in Writer \cup {logger} |->
             IF t # logger THEN "idle" ELSE IF isFileExsit_ THEN "test" ELSE "ended"]
  /\ target = [w \in Writer |-> 0]
  /\ puts = [w \in Writer |-> 0]
  /\ queued = {}
  /\ temp = NoLine
  /\ buffer = <<>>
  /\ disk = <<>>
  /\ handler = "none"
  /\ wasEmpty = FALSE
  /\ owed = {}

\* Threads reach the end of their step at pc[t].
Goto(t, place) == pc' = [pc EXCEPT ![t] = place]

------------------------------------------------------------------------------
(* AsyncLog::put and DoubleBufferedQueue::push *)

\* isCancel_ is tested before the queue is looked for and not again.
put(w) ==
  /\ pc[w] = "idle"
  /\ puts[w] < MaxPut
  /\ puts' = [puts EXCEPT ![w] = @ + 1]
  /\ Goto(w, IF isCancel_ THEN "idle" ELSE "lock")
  /\ UNCHANGED <<queueVars, isFileExsit_, target, queued, temp, fileVars, handlerVars>>

pushLock(w) ==
  /\ pc[w] = "lock"
  /\ mutex_ = NoThread
  /\ mutex_' = w
  /\ target' = [target EXCEPT ![w] = 1 - index_]
  /\ Goto(w, "emplace")
  /\ UNCHANGED <<queues_, index_, isFileExsit_, puts, queued, temp, fileVars, handlerVars>>

pushEmplace(w) ==
  /\ pc[w] = "emplace"
  /\ queues_' = [queues_ EXCEPT ![target[w]] = Append(@, <<w, puts[w]>>)]
  /\ queued' = queued \cup {<<w, puts[w]>>}
  /\ mutex_' = NoThread
  /\ Goto(w, "idle")
  /\ UNCHANGED <<index_, isFileExsit_, target, puts, temp, fileVars, handlerVars>>

WriterStep(w) == put(w) \/ pushLock(w) \/ pushEmplace(w)

------------------------------------------------------------------------------
(* DoubleBufferedQueue::pop, called by LogThread::run for ever *)

isEmpty == queues_[index_] = <<>>

popTest ==
  /\ pc[logger] = "test"
  /\ Goto(logger, IF isEmpty THEN "lock" ELSE "take")
  /\ UNCHANGED <<queueVars, isFileExsit_, writerVars, temp, fileVars, handlerVars>>

\* A slip: the queues are exchanged without waiting for a writer in emplace.
popSwapUnlocked ==
  /\ pc[logger] = "lock"
  /\ index_' = 1 - index_
  /\ Goto(logger, "swapped")
  /\ UNCHANGED <<queues_, mutex_, isFileExsit_, writerVars, temp, fileVars, handlerVars>>

popSwap ==
  /\ pc[logger] = "lock"
  /\ mutex_ = NoThread
  /\ mutex_' = logger
  /\ index_' = 1 - index_
  /\ Goto(logger, "swapped")
  /\ UNCHANGED <<queues_, isFileExsit_, writerVars, temp, fileVars, handlerVars>>

\* A slip: the queues are exchanged back whatever was found.
popSwappedAlwaysBack ==
  /\ pc[logger] = "swapped"
  /\ mutex_' = NoThread
  /\ index_' = 1 - index_
  /\ Goto(logger, IF isEmpty THEN "sleep" ELSE "test")
  /\ UNCHANGED <<queues_, isFileExsit_, writerVars, temp, fileVars, handlerVars>>

\* Nothing in the other queue either: swap back and sleep for a second.
popSwapped ==
  /\ pc[logger] = "swapped"
  /\ mutex_' = NoThread
  /\ \/ /\ isEmpty
        /\ index_' = 1 - index_
        /\ Goto(logger, "sleep")
     \/ /\ ~isEmpty
        /\ Goto(logger, "test")
        /\ UNCHANGED index_
  /\ UNCHANGED <<queues_, isFileExsit_, writerVars, temp, fileVars, handlerVars>>

popWake ==
  /\ pc[logger] = "sleep"
  /\ Goto(logger, "test")
  /\ UNCHANGED <<queueVars, isFileExsit_, writerVars, temp, fileVars, handlerVars>>

\* A slip: the line stays in the queue.
popTakeCopy ==
  /\ pc[logger] = "take"
  /\ temp' = Head(queues_[index_])
  /\ Goto(logger, "append")
  /\ UNCHANGED <<queueVars, isFileExsit_, writerVars, fileVars, handlerVars>>

popTake ==
  /\ pc[logger] = "take"
  /\ temp' = Head(queues_[index_])
  /\ queues_' = [queues_ EXCEPT ![index_] = Tail(@)]
  /\ Goto(logger, "append")
  /\ UNCHANGED <<index_, mutex_, isFileExsit_, writerVars, fileVars, handlerVars>>

\* fwrite_unlocked; the buffer of the FILE is written out when it is full, or by
\* appendUnlock when enough was appended.
append ==
  /\ pc[logger] = "append"
  /\ \/ buffer' = Append(buffer, temp) /\ UNCHANGED disk
     \/ buffer' = <<>> /\ disk' = disk \o Append(buffer, temp)
  /\ Goto(logger, "test")
  /\ UNCHANGED <<queueVars, isFileExsit_, writerVars, temp, handlerVars>>

LoggerStep ==
  popTest \/ popSwap \/ popSwapped \/ popWake \/ popTake \/ append

------------------------------------------------------------------------------
(* processCtrl_C *)

\* SIGINT arrives (main() waits in join) and the handler calls setCancel.
setCancel ==
  /\ handler = "none"
  /\ isCancel_' = TRUE
  /\ owed' = queued
  /\ handler' = "size0"
  /\ UNCHANGED <<queueVars, isFileExsit_, pc, writerVars, temp, fileVars, wasEmpty>>

\* isEmptySafe reads the two sizes one after the other.
isEmptySafe0 ==
  /\ handler = "size0"
  /\ wasEmpty' = (queues_[0] = <<>>)
  /\ handler' = "size1"
  /\ UNCHANGED <<queueVars, isFileExsit_, pc, writerVars, temp, fileVars, isCancel_, owed>>

\* A slip: only the last size counts.
isEmptySafe1Only ==
  /\ handler = "size1"
  /\ handler' = IF queues_[1] = <<>> THEN "fflush" ELSE "sleep"
  /\ UNCHANGED <<queueVars, isFileExsit_, pc, writerVars, temp, fileVars, isCancel_,
                 wasEmpty, owed>>

isEmptySafe1 ==
  /\ handler = "size1"
  /\ handler' = IF wasEmpty /\ queues_[1] = <<>> THEN "fflush" ELSE "sleep"
  /\ UNCHANGED <<queueVars, isFileExsit_, pc, writerVars, temp, fileVars, isCancel_,
                 wasEmpty, owed>>

flushAgain ==
  /\ handler = "sleep"
  /\ handler' = "size0"
  /\ UNCHANGED <<queueVars, isFileExsit_, pc, writerVars, temp, fileVars, isCancel_,
                 wasEmpty, owed>>

flushFile ==
  /\ handler = "fflush"
  /\ handler' = "exit"
  /\ disk' = disk \o buffer
  /\ buffer' = <<>>
  /\ UNCHANGED <<queueVars, isFileExsit_, pc, writerVars, temp, isCancel_, wasEmpty, owed>>

\* fflush does not exclude the fwrite_unlocked of the log thread: when the two race,
\* that may put the buffer back as it was, to be written twice, or its line may be
\* lost.
flushFileRacing ==
  /\ handler = "fflush"
  /\ pc[logger] = "append"
  /\ handler' = "exit"
  /\ disk' = disk \o buffer
  /\ \/ UNCHANGED <<buffer, pc>>
     \/ buffer' = <<>> /\ Goto(logger, "test")
  /\ UNCHANGED <<queueVars, isFileExsit_, writerVars, temp, isCancel_, wasEmpty, owed>>

\* exit(0) destroys the AsyncLog, whose ThreadRAII joins the log thread.
exitJoin ==
  /\ handler = "exit"
  /\ pc[logger] = "ended"
  /\ handler' = "gone"
  /\ UNCHANGED <<queueVars, isFileExsit_, pc, writerVars, temp, fileVars, isCancel_,
                 wasEmpty, owed>>

HandlerStep ==
  isEmptySafe0 \/ isEmptySafe1 \/ flushAgain \/ flushFile \/ flushFileRacing
  \/ exitJoin

------------------------------------------------------------------------------
Next ==
  \/ \E w \in Writer : WriterStep(w)
  \/ LoggerStep
  \/ setCancel
  \/ HandlerStep

Spec == Init /\ [][Next]_vars

(***************************************************************************)
(* Scheduling: every thread that can run runs, and none is passed over for *)
(* ever at the mutex.  Nothing makes anybody log or press Ctrl-C.          *)
(***************************************************************************)
Fairness ==
  /\ WF_vars(LoggerStep)
  /\ SF_vars(popSwap)
  /\ WF_vars(HandlerStep)
  /\ \A w \in Writer : WF_vars(pushEmplace(w)) /\ SF_vars(pushLock(w))

FairSpec == Spec /\ Fairness

------------------------------------------------------------------------------
(* Correctness *)

\* The log thread's front() and pop() run without the mutex and never on the queue
\* a writer is filling at that moment.
RaceFree ==
  pc[logger] = "take" =>
    \A w \in Writer : pc[w] = "emplace" => target[w] # index_

\* The two queues behave as one unbounded FIFO queue, whichever is read first:
\* no line is lost, doubled or reordered by the exchange.
Fifo == INSTANCE FifoQueue WITH
          Producer <- Writer, Consumer <- {logger}, Value <- Line, NoValue <- NoLine,
          items <- queues_[index_] \o queues_[1 - index_], capacity <- 0,
          holds <- [t \in {logger} |-> temp]

ImplementsFifo == Fifo!Spec

Lines(s) == {s[i] : i \in DOMAIN s}

\* When the handler is done, every line that was queued before Ctrl-C is in the
\* file, except at most one: the line the log thread had in its hands just then.
FlushDrains ==
  handler \in {"exit", "gone"} /\ isFileExsit_ =>
    Cardinality(owed \ Lines(disk)) <= 1

\* A line is never stranded in a queue: the log thread finds it, although it looks
\* for work only once a second and swaps back when it found none.  Only the line
\* whose append races with the handler's fflush may be lost.
PutIsLogged ==
  \A l \in Line :
    (isFileExsit_ /\ l \in Lines(queues_[0]) \cup Lines(queues_[1]))
      ~> (\/ l \in Lines(buffer) \cup Lines(disk)
          \/ handler = "exit" /\ l = temp)

\* The handler's wait for empty queues ends.
FlushEnds ==
  (handler = "size0" /\ isFileExsit_) ~> (handler = "exit")

\* The handler announces "exit" and calls exit(0) (SigProcess.cpp:13): the process
\* ends.
ExitEnds == (handler = "exit") ~> (handler = "gone")
==============================================================================
