------------------------------ MODULE DurableLog ------------------------------
(***************************************************************************)
(* What a log on disk promises: append-only files that are filled one      *)
(* after the other.  What is appended waits until it is written out, in    *)
(* order and to one file, and only what waits is lost when the program     *)
(* ends.  A file is the sequence of its bytes, a byte of the n-th line is  *)
(* n.                                                                      *)
(***************************************************************************)
EXTENDS Integers, Sequences

CONSTANTS
  File,    \* names of files
  Length,  \* how long a line may be
  NoFile   \* no file is open

VARIABLES
  stored,   \* the files on disk
  current,  \* the file that is open for appending
  pending,  \* appended bytes that are not written out
  given     \* lines appended so far

vars == <<stored, current, pending, given>>

TypeOK ==
  /\ NoFile \notin DOMAIN stored
  /\ stored \in [DOMAIN stored -> Seq(Nat)]
  /\ current \in DOMAIN stored \cup {NoFile}
  /\ pending \in Seq(Nat)
  /\ given \in Nat

Init ==
  /\ stored = [f \in {} |-> <<>>]
  /\ current = NoFile
  /\ pending = <<>>
  /\ given = 0

\* The first part of bytes goes to the file, the rest waits.
WriteOut(bytes) ==
  /\ current # NoFile
  /\ \E k \in 0..Len(bytes) :
       /\ stored' = [stored EXCEPT ![current] = @ \o SubSeq(bytes, 1, k)]
       /\ pending' = SubSeq(bytes, k + 1, Len(bytes))

\* A line is appended.
Accept ==
  /\ \E n \in Length : WriteOut(pending \o [i \in 1..n |-> given + 1])
  /\ given' = given + 1
  /\ UNCHANGED current

Write == WriteOut(pending) /\ UNCHANGED <<current, given>>

\* A file is left only with all that waits written to it.
Close ==
  /\ current # NoFile
  /\ stored' = [stored EXCEPT ![current] = @ \o pending]
  /\ pending' = <<>>
  /\ current' = NoFile
  /\ UNCHANGED given

\* A file that is there keeps what it holds.
Open ==
  /\ current = NoFile
  /\ current' \in File
  /\ stored' = [f \in DOMAIN stored \cup {current'} |->
                  IF f \in DOMAIN stored THEN stored[f] ELSE <<>>]
  /\ UNCHANGED <<pending, given>>

\* The program ends, perhaps at its next line.
Lose ==
  /\ given' \in {given, given + 1}
  /\ pending' = <<>>
  /\ current' = NoFile
  /\ UNCHANGED stored

Next == Accept \/ Write \/ Close \/ Open \/ Lose

Spec == Init /\ [][Next]_vars

------------------------------------------------------------------------------
\* The lines a sequence of bytes has a part of.
Lines(bytes) == {bytes[i] : i \in DOMAIN bytes}

\* Every file holds its lines in the order they were appended in, and no line is
\* spread over two files.
FilesInOrder ==
  /\ \A f \in DOMAIN stored : \A i, j \in DOMAIN stored[f] :
       i < j => stored[f][i] <= stored[f][j]
  /\ \A f, g \in DOMAIN stored : f # g => Lines(stored[f]) \cap Lines(stored[g]) = {}
==============================================================================
