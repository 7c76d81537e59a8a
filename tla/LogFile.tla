------------------------------- MODULE LogFile -------------------------------
(***************************************************************************)
(* The file of a log that rolls (LogFile.cpp, FileUtil.h), from one start  *)
(* of the server to the next: the log thread appends lines and turns to    *)
(* another file when one is full, the handler of SIGINT flushes at any     *)
(* moment, midnight changes the names, and the process ends by a signal,   *)
(* the only way it ends once the log thread runs (LogQueue), with what is  *)
(* in the buffer of the FILE lost.                                         *)
(*                                                                         *)
(* A file is the sequence of its bytes, a byte of the n-th line is n.  The *)
(* file of LogFile(FILE* ) never rolls: LogQueue has that one, and what a  *)
(* flush that races with an fwrite_unlocked does.                          *)
(***************************************************************************)
EXTENDS Integers, Sequences

CONSTANTS
  rollSize_,   \* a file of this size is full
  BufferSize,  \* flush after more bytes than this
  NoFile,      \* no file is open
  MaxLine,     \* bound: lines
  MaxSize,     \* bound: bytes of a line
  MaxDay,      \* bound: midnights
  MaxStart     \* bound: starts of the server

ASSUME SizeAssumption ==
  /\ rollSize_ \in Nat \ {0}
  /\ BufferSize \in Nat
  /\ {MaxLine, MaxSize, MaxDay, MaxStart} \subseteq Nat
  /\ NoFile \notin Nat \X Nat

VARIABLES
  disk,        \* the files on disk
  day,         \* the date
  starts,      \* starts so far
  lines,       \* lines appended so far
  pc,          \* where the log thread is
  fileNames_,  \* how many names there are in fileNames_
  file,        \* the file that is open
  buffer,      \* the buffer of its FILE
  size_,
  flushSize_

fileVars == <<disk, file, buffer>>
vars == <<fileVars, day, starts, lines, pc, fileNames_, size_, flushSize_>>

File == Nat \X Nat

\* The log thread: create calls rollFile, "ended" without a file; "null" when
\* rollFile could not open the next file.
TypeOK ==
  /\ DOMAIN disk \subseteq File
  /\ disk \in [DOMAIN disk -> Seq(Nat)]
  /\ {day, starts, lines, fileNames_, size_, flushSize_} \subseteq Nat
  /\ pc \in {"down", "create", "ended", "idle", "appended", "close", "roll", "null"}
  /\ file \in DOMAIN disk \cup {NoFile}
  /\ buffer \in Seq(Nat)

Init ==
  /\ disk = [f \in {} |-> <<>>]
  /\ day = 0 /\ starts = 0 /\ lines = 0
  /\ pc = "down"
  /\ fileNames_ = 0
  /\ file = NoFile
  /\ buffer = <<>>
  /\ size_ = 0 /\ flushSize_ = 0

------------------------------------------------------------------------------
(* PosixWritableFile *)

isExist(name) == name \in DOMAIN disk

size(name) == IF isExist(name) THEN Len(disk[name]) ELSE 0

\* A slip: the file is opened anew.
openEmpty(name) ==
  disk' = [f \in DOMAIN disk \cup {name} |-> IF f # name THEN disk[f] ELSE <<>>]

\* fopen for appending.
open(name) ==
  disk' = [f \in DOMAIN disk \cup {name} |-> IF isExist(f) THEN disk[f] ELSE <<>>]

\* fflush, when a file is open.
fflush ==
  /\ disk' = IF file = NoFile THEN disk ELSE [disk EXCEPT ![file] = @ \o buffer]
  /\ buffer' = <<>>

\* A slip: what is in the buffer stays there for the next file.
closeUnflushed == file' = NoFile /\ UNCHANGED <<disk, buffer>>

\* The destructor closes the FILE.
close == file' = NoFile /\ fflush

\* fwrite_unlocked: stdio writes out as much as it likes, the rest stays in the
\* buffer.
fwrite(bytes) ==
  \E k \in 0 .. Len(buffer \o bytes) :
    /\ disk' = [disk EXCEPT ![file] = @ \o SubSeq(buffer \o bytes, 1, k)]
    /\ buffer' = SubSeq(buffer \o bytes, k + 1, Len(buffer \o bytes))

------------------------------------------------------------------------------
(* LogFile *)

\* addLogFile makes the LogThread, whose constructor makes the LogFile and calls
\* create.
start ==
  /\ pc = "down"
  /\ starts < MaxStart
  /\ starts' = starts + 1
  /\ fileNames_' = 0
  /\ size_' = 0 /\ flushSize_' = 0
  /\ pc' = "create"
  /\ UNCHANGED <<fileVars, day, lines>>

\* Base name, date and number.
strFileName == <<day, fileNames_>>

\* The loop of rollFile passes over a file that is full.
rollNext ==
  /\ pc \in {"create", "roll"}
  /\ size(strFileName) >= rollSize_
  /\ fileNames_' = fileNames_ + 1
  /\ UNCHANGED <<fileVars, day, starts, lines, pc, size_, flushSize_>>

\* A slip: the size of a file that is there is not looked up.
rollOpenAtZero ==
  /\ pc \in {"create", "roll"}
  /\ size(strFileName) < rollSize_
  /\ open(strFileName)
  /\ file' = strFileName
  /\ size_' = 0
  /\ fileNames_' = fileNames_ + 1
  /\ pc' = "idle"
  /\ UNCHANGED <<buffer, day, starts, lines, flushSize_>>

\* A file that is not there, or not full, is taken.
rollOpen ==
  /\ pc \in {"create", "roll"}
  /\ size(strFileName) < rollSize_
  /\ open(strFileName)
  /\ file' = strFileName
  /\ size_' = size(strFileName)
  /\ fileNames_' = fileNames_ + 1
  /\ pc' = "idle"
  /\ UNCHANGED <<buffer, day, starts, lines, flushSize_>>

\* When fopen fails LogThread::run ends at once, or appendUnlock goes on as if it
\* had not.
rollFails ==
  /\ pc \in {"create", "roll"}
  /\ size(strFileName) < rollSize_
  /\ pc' = IF pc = "create" THEN "ended" ELSE "null"
  /\ UNCHANGED <<fileVars, day, starts, lines, fileNames_, size_, flushSize_>>

\* LogThread::run and the first part of appendUnlock, with a line of n bytes.
append(n) ==
  /\ pc = "idle"
  /\ lines < MaxLine
  /\ fwrite([i \in 1..n |-> lines + 1])
  /\ lines' = lines + 1
  /\ size_' = size_ + n /\ flushSize_' = flushSize_ + n
  /\ pc' = "appended"
  /\ UNCHANGED <<file, day, starts, fileNames_>>

\* Without a FILE the fwrite_unlocked ends the process.
appendNull ==
  /\ pc = "null"
  /\ lines < MaxLine
  /\ lines' = lines + 1
  /\ pc' = "down"
  /\ UNCHANGED <<fileVars, day, starts, fileNames_, size_, flushSize_>>

\* A slip: what was appended to the file before counts as flushed.
flushDueByFile == size_ > BufferSize /\ flushSize_ = size_

flushDue == flushSize_ > BufferSize

\* The second part: flush and roll when it is time.
appendEnd ==
  /\ pc = "appended"
  /\ \/ flushDue /\ fflush /\ flushSize_' = 0
     \/ ~flushDue /\ UNCHANGED <<disk, buffer, flushSize_>>
  /\ pc' = IF size_ >= rollSize_ THEN "close" ELSE "idle"
  /\ UNCHANGED <<file, day, starts, lines, fileNames_, size_>>

\* rollFile begins: the old file goes with the last pointer to it.
rollClose ==
  /\ pc = "close"
  /\ close
  /\ pc' = "roll"
  /\ UNCHANGED <<day, starts, lines, fileNames_, size_, flushSize_>>

\* AsyncLog::flush, on the main thread.  Without a FILE it flushes nothing.
flush ==
  /\ pc # "down"
  /\ fflush
  /\ UNCHANGED <<file, day, starts, lines, pc, fileNames_, size_, flushSize_>>

------------------------------------------------------------------------------
(* The world *)

midnight ==
  /\ day < MaxDay
  /\ day' = day + 1
  /\ UNCHANGED <<fileVars, starts, lines, pc, fileNames_, size_, flushSize_>>

\* A signal ends the process.
kill ==
  /\ pc # "down"
  /\ pc' = "down"
  /\ file' = NoFile
  /\ buffer' = <<>>
  /\ UNCHANGED <<disk, day, starts, lines, fileNames_, size_, flushSize_>>

Next ==
  \/ start \/ rollNext \/ rollOpen \/ rollFails
  \/ \E n \in 1..MaxSize : append(n)
  \/ appendNull \/ appendEnd \/ rollClose \/ flush
  \/ midnight \/ kill

Spec == Init /\ [][Next]_vars

------------------------------------------------------------------------------
(* Correctness *)

Durable == INSTANCE DurableLog WITH
             Length <- 1..MaxSize, stored <- disk, current <- file, pending <- buffer, given <- lines

\* The rolling files are a log that loses nothing but what was not written out when
\* the process ended: not when it rolls, nor when it goes on with a file that was
\* there, nor when a flush comes in between.
ImplementsDurableLog == Durable!Spec

\* Every file has its lines in the order they were logged in, and no line is
\* divided between two files, although files are filled in any order of their
\* names: the numbers start again with the process, not with the day.
FilesInOrder == Durable!FilesInOrder

\* A file grows past rollSize_ by its last line only, also when it was begun by
\* another process or on another day.
FilesStayBounded ==
  \A f \in DOMAIN disk : \A i, j \in DOMAIN disk[f] :
    i >= rollSize_ /\ j >= rollSize_ => disk[f][i] = disk[f][j]

\* Between two lines no more than BufferSize bytes can be lost, whatever was
\* flushed, rolled and begun before.
LossIsBounded == pc # "appended" => Len(buffer) <= BufferSize
==============================================================================
