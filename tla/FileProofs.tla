----------------------------- MODULE FileProofs -----------------------------
(***************************************************************************)
(* Theorems about the two components that keep a file.                     *)
(*                                                                         *)
(* LogFile: for every size of a file, of the buffer and of a line, and any *)
(* number of lines, days and starts.                                       *)
(*                                                                         *)
(* IniFile: for all names, keys, values and comments, files of any length, *)
(* and any number of calls.  The loop over the lines of a file, over the   *)
(* sections and over their items are recursive functions; what they        *)
(* compute for every input is shown by induction on numbers (Inductive),   *)
(* one line, section and item after the other.                             *)
(***************************************************************************)
EXTENDS LogFile, IniFile, SequenceTheorems, FiniteSetTheorems, WellFoundedInduction, TLAPS

(***************************************************************************)
(* LogFile                                                                 *)
(***************************************************************************)

Lines(s) == {s[i] : i \in DOMAIN s}

Sorted(s) == \A i, j \in DOMAIN s : i < j => s[i] <= s[j]

\* Nothing in t comes before anything in s.
NotBefore(s, t) == \A x \in Lines(s), y \in Lines(t) : x <= y

------------------------------------------------------------------------------
(* Sequences *)

\* A sequence is put together from its two parts.
LEMMA Cut ==
  ASSUME NEW s \in Seq(Nat), NEW k \in 0..Len(s)
  PROVE  /\ SubSeq(s, 1, k) \in Seq(Nat)
         /\ SubSeq(s, k + 1, Len(s)) \in Seq(Nat)
         /\ SubSeq(s, 1, k) \o SubSeq(s, k + 1, Len(s)) = s
<1>1. Len(s) \in Nat /\ \A i \in 1..Len(s) : s[i] \in Nat
  OBVIOUS
<1>2. SubSeq(s, 1, k) \in Seq(Nat)
  BY <1>1, SubSeqProperties
<1>3. SubSeq(s, k + 1, Len(s)) \in Seq(Nat)
  BY <1>1, SubSeqProperties
<1>4. SubSeq(s, 1, k) \o SubSeq(s, k + 1, Len(s)) = SubSeq(s, 1, Len(s))
  <2>1. /\ 1 \in 1 .. Len(s) + 1
        /\ k \in 1 - 1 .. Len(s)
        /\ Len(s) \in k .. Len(s)
    BY <1>1
  <2>. QED
    BY <2>1, ConcatAdjacentSubSeq, Zenon
<1>. QED
  BY <1>2, <1>3, <1>4, SubSeqFull

\* The empty sequence changes nothing.
LEMMA WithNothing ==
  ASSUME NEW s \in Seq(Nat)
  PROVE  s \o <<>> = s
OBVIOUS

\* Concatenation is associative.
LEMMA Associates ==
  ASSUME NEW S, NEW s \in Seq(S), NEW t \in Seq(S), NEW u \in Seq(S)
  PROVE  (s \o t) \o u = s \o (t \o u)
BY SMTT(30)

\* The same with a name for the concatenation, which the provers can match.
Chain(s, t) == s \o t

LEMMA Chained ==
  ASSUME NEW S, NEW s \in Seq(S), NEW t \in Seq(S), NEW u \in Seq(S)
  PROVE  Chain(Chain(s, t), u) = Chain(s, Chain(t, u))
BY SMTT(30) DEF Chain

\* What two halves of the same sequence give behind another one.
LEMMA Regroups ==
  ASSUME NEW S, NEW q \in Seq(S), NEW s \in Seq(S), NEW t \in Seq(S),
         NEW u \in Seq(S), NEW v \in Seq(S), Chain(s, t) = Chain(u, v)
  PROVE  Chain(Chain(q, s), t) = Chain(Chain(q, u), v)
BY Chained

\* The empty sequence has no lines.
LEMMA Empty == <<>> \in Seq(Nat) /\ Lines(<<>>) = {} /\ Sorted(<<>>)
<1>1. <<>> \in Seq(Nat) /\ DOMAIN <<>> = {}
  OBVIOUS
<1>. QED
  BY <1>1 DEF Lines, Sorted

\* Where the elements of a concatenation come from.
LEMMA Joined ==
  ASSUME NEW p \in Seq(Nat), NEW q \in Seq(Nat)
  PROVE  /\ p \o q \in Seq(Nat)
         /\ Len(p \o q) = Len(p) + Len(q)
         /\ Len(p) \in Nat /\ Len(q) \in Nat
         /\ DOMAIN p = 1..Len(p) /\ DOMAIN q = 1..Len(q)
         /\ DOMAIN (p \o q) = 1 .. Len(p) + Len(q)
         /\ \A i \in 1..Len(p) : p[i] \in Nat /\ (p \o q)[i] = p[i]
         /\ \A i \in 1..Len(q) : q[i] \in Nat /\ (p \o q)[Len(p) + i] = q[i]
OBVIOUS

\* The lines of a concatenation.
LEMMA LinesJoin ==
  ASSUME NEW p \in Seq(Nat), NEW q \in Seq(Nat)
  PROVE  Lines(p \o q) = Lines(p) \cup Lines(q)
<1> DEFINE r == p \o q
<1>1. /\ Len(p) \in Nat /\ Len(q) \in Nat
      /\ DOMAIN p = 1..Len(p) /\ DOMAIN q = 1..Len(q)
      /\ DOMAIN r = 1 .. Len(p) + Len(q)
      /\ \A i \in 1..Len(p) : r[i] = p[i]
      /\ \A i \in 1..Len(q) : r[Len(p) + i] = q[i]
  BY Joined, Zenon
<1> HIDE DEF r
<1>2. \A i \in DOMAIN p : i \in DOMAIN r /\ r[i] = p[i]
  BY <1>1
<1>3. \A i \in DOMAIN q : Len(p) + i \in DOMAIN r /\ r[Len(p) + i] = q[i]
  BY <1>1
<1>4. \A i \in DOMAIN r :
        \/ i \in DOMAIN p /\ r[i] = p[i]
        \/ i - Len(p) \in DOMAIN q /\ r[i] = q[i - Len(p)]
  <2>1. \A i \in DOMAIN r : i > Len(p) => i - Len(p) \in 1..Len(q) /\ i = Len(p) + (i - Len(p))
    BY <1>1
  <2>. QED
    BY <1>1, <2>1
<1>5. Lines(p) \cup Lines(q) \subseteq Lines(r)
  BY <1>2, <1>3 DEF Lines
<1>6. Lines(r) \subseteq Lines(p) \cup Lines(q)
  BY <1>4 DEF Lines
<1>. QED
  BY <1>5, <1>6 DEF r

\* Two sorted sequences make a sorted one when nothing in the second comes before
\* anything in the first.
LEMMA SortedJoin ==
  ASSUME NEW p \in Seq(Nat), NEW q \in Seq(Nat)
  PROVE  Sorted(p \o q) <=> Sorted(p) /\ Sorted(q) /\ NotBefore(p, q)
<1> DEFINE r == p \o q
<1>1. /\ Len(p) \in Nat /\ Len(q) \in Nat
      /\ DOMAIN p = 1..Len(p) /\ DOMAIN q = 1..Len(q)
      /\ DOMAIN r = 1 .. Len(p) + Len(q)
      /\ \A i \in 1..Len(p) : r[i] = p[i]
      /\ \A i \in 1..Len(q) : r[Len(p) + i] = q[i]
  BY Joined, Zenon
<1> HIDE DEF r
<1>2. ASSUME Sorted(r) PROVE Sorted(p) /\ Sorted(q) /\ NotBefore(p, q)
  <2>1. Sorted(p)
    BY <1>1, <1>2 DEF Sorted
  <2>2. Sorted(q)
    <3>1. \A i, j \in DOMAIN q : i < j =>
            /\ Len(p) + i \in DOMAIN r /\ Len(p) + j \in DOMAIN r
            /\ Len(p) + i < Len(p) + j
      BY <1>1
    <3>. QED
      BY <1>1, <1>2, <3>1 DEF Sorted
  <2>3. NotBefore(p, q)
    <3>1. \A i \in DOMAIN p, j \in DOMAIN q :
            i \in DOMAIN r /\ Len(p) + j \in DOMAIN r /\ i < Len(p) + j
      BY <1>1
    <3>2. \A i \in DOMAIN p, j \in DOMAIN q : p[i] <= q[j]
      BY <1>1, <1>2, <3>1 DEF Sorted
    <3>. QED
      BY <3>2 DEF NotBefore, Lines
  <2>. QED
    BY <2>1, <2>2, <2>3
<1>3. ASSUME Sorted(p), Sorted(q), NotBefore(p, q) PROVE Sorted(r)
  <2>0. \A i \in DOMAIN p, j \in DOMAIN q : p[i] <= q[j]
    BY <1>3 DEF NotBefore, Lines
  <2> SUFFICES ASSUME NEW i \in DOMAIN r, NEW j \in DOMAIN r, i < j
               PROVE  r[i] <= r[j]
    BY DEF Sorted
  <2>1. CASE j <= Len(p)
    BY <1>1, <1>3, <2>1 DEF Sorted
  <2>2. CASE i <= Len(p) /\ j > Len(p)
    <3>1. j - Len(p) \in 1..Len(q) /\ j = Len(p) + (j - Len(p))
      BY <1>1, <2>2
    <3>2. r[j] = q[j - Len(p)]
      BY <1>1, <3>1
    <3>. QED
      BY <1>1, <2>0, <2>2, <3>1, <3>2
  <2>3. CASE i > Len(p)
    <3>1. /\ j - Len(p) \in 1..Len(q) /\ j = Len(p) + (j - Len(p))
          /\ i - Len(p) \in 1..Len(q) /\ i = Len(p) + (i - Len(p))
          /\ i - Len(p) < j - Len(p)
      BY <1>1, <2>3
    <3>2. r[j] = q[j - Len(p)] /\ r[i] = q[i - Len(p)]
      BY <1>1, <3>1
    <3>. QED
      BY <1>1, <1>3, <3>1, <3>2 DEF Sorted
  <2>. QED
    BY <1>1, <2>1, <2>2, <2>3
<1>. QED
  BY <1>2, <1>3 DEF r

\* The bytes of a line.
LEMMA ALine ==
  ASSUME NEW n \in Nat, NEW m \in Nat
  PROVE  /\ [i \in 1..m |-> n + 1] \in Seq(Nat)
         /\ Len([i \in 1..m |-> n + 1]) = m
         /\ \A j \in DOMAIN [i \in 1..m |-> n + 1] : [i \in 1..m |-> n + 1][j] = n + 1
<1> DEFINE q == [i \in 1..m |-> n + 1]
<1>1. q \in [1..m -> Nat] /\ DOMAIN q = 1..m /\ \A i \in 1..m : q[i] = n + 1
  OBVIOUS
<1>2. q \in Seq(Nat)
  <2>1. [1..m -> Nat] \subseteq UNION {[1..k -> Nat] : k \in Nat}
    BY Zenon
  <2>. QED
    BY <1>1, <2>1, SeqDef, Zenon
<1> HIDE DEF q
<1>3. Len(q) = m
  BY <1>1, <1>2, LenProperties
<1>. QED
  BY <1>1, <1>2, <1>3 DEF q

------------------------------------------------------------------------------
(* Files and what waits for them *)

\* n lines fill the files d one after the other; the last bytes, b, wait for f.
Ordered(d, f, b, n) ==
  /\ \A g \in DOMAIN d : Sorted(d[g]) /\ Lines(d[g]) \subseteq 0..n
  /\ \A g, h \in DOMAIN d : g # h => Lines(d[g]) \cap Lines(d[h]) = {}
  /\ Sorted(b) /\ Lines(b) \subseteq 0..n
  /\ \A g \in DOMAIN d : /\ NotBefore(d[g], b)
                         /\ g # f => Lines(d[g]) \cap Lines(b) = {}

\* Writing out the first of what waits keeps everything in order.
LEMMA WriteOrdered ==
  ASSUME NEW d, d \in [DOMAIN d -> Seq(Nat)], NEW f \in DOMAIN d, NEW n \in Nat,
         NEW p \in Seq(Nat), NEW q \in Seq(Nat), Ordered(d, f, p \o q, n)
  PROVE  Ordered([d EXCEPT ![f] = @ \o p], f, q, n)
<1> DEFINE e == [d EXCEPT ![f] = @ \o p]
<1>0. d[f] \in Seq(Nat)
  OBVIOUS
<1>1. DOMAIN e = DOMAIN d /\ e[f] = d[f] \o p /\ \A g \in DOMAIN d \ {f} : e[g] = d[g]
  OBVIOUS
<1> HIDE DEF e
<1>2. Sorted(p) /\ Sorted(q) /\ NotBefore(p, q)
  BY SortedJoin DEF Ordered
<1>3. Lines(p \o q) = Lines(p) \cup Lines(q)
  BY LinesJoin
<1>4. Lines(e[f]) = Lines(d[f]) \cup Lines(p)
  BY <1>0, <1>1, LinesJoin
<1>5. \A g \in DOMAIN d : /\ NotBefore(d[g], p) /\ NotBefore(d[g], q)
                          /\ g # f => /\ Lines(d[g]) \cap Lines(p) = {}
                                      /\ Lines(d[g]) \cap Lines(q) = {}
  BY <1>3 DEF Ordered, NotBefore
<1>6. \A g \in DOMAIN e : Sorted(e[g]) /\ Lines(e[g]) \subseteq 0..n
  <2>1. Sorted(e[f])
    BY <1>0, <1>1, <1>2, <1>5, SortedJoin DEF Ordered
  <2>2. Lines(e[f]) \subseteq 0..n
    BY <1>3, <1>4 DEF Ordered
  <2>. QED
    BY <1>1, <2>1, <2>2 DEF Ordered
<1>7. \A g, h \in DOMAIN e : g # h => Lines(e[g]) \cap Lines(e[h]) = {}
  BY <1>1, <1>4, <1>5 DEF Ordered
<1>8. \A g \in DOMAIN e : /\ NotBefore(e[g], q)
                          /\ g # f => Lines(e[g]) \cap Lines(q) = {}
  <2>1. NotBefore(e[f], q)
    BY <1>2, <1>4, <1>5 DEF NotBefore
  <2>2. \A g \in DOMAIN e : g # f => NotBefore(e[g], q) /\ Lines(e[g]) \cap Lines(q) = {}
    BY <1>1, <1>5
  <2>. QED
    BY <2>1, <2>2, Zenon
<1>9. Lines(q) \subseteq 0..n
  BY <1>3 DEF Ordered
<1>. QED
  BY <1>2, <1>6, <1>7, <1>8, <1>9 DEF Ordered, e

\* A line that is appended comes after everything before it.
LEMMA AppendOrdered ==
  ASSUME NEW d, d \in [DOMAIN d -> Seq(Nat)], NEW f \in DOMAIN d, NEW n \in Nat,
         NEW b \in Seq(Nat), NEW m \in Nat, Ordered(d, f, b, n)
  PROVE  Ordered(d, f, b \o [i \in 1..m |-> n + 1], n + 1)
<1> DEFINE q == [i \in 1..m |-> n + 1]
<1>1. q \in Seq(Nat) /\ Lines(q) \subseteq {n + 1} /\ Sorted(q)
  <2>1. q \in Seq(Nat) /\ \A i \in DOMAIN q : q[i] = n + 1
    BY ALine
  <2> HIDE DEF q
  <2>2. Lines(q) \subseteq {n + 1}
    BY <2>1 DEF Lines
  <2>3. Sorted(q)
    BY <2>1 DEF Sorted
  <2>. QED
    BY <2>1, <2>2, <2>3
<1> HIDE DEF q
<1>2. Lines(b \o q) = Lines(b) \cup Lines(q)
  BY <1>1, LinesJoin
<1>3. Sorted(b \o q)
  <2>1. NotBefore(b, q)
    <3>1. \A x \in 0..n : x <= n + 1
      OBVIOUS
    <3>. QED
      BY <1>1, <3>1 DEF NotBefore, Ordered
  <2>. QED
    BY <1>1, <2>1, SortedJoin DEF Ordered
<1>4. /\ 0..n \subseteq 0..(n + 1)
      /\ n + 1 \notin 0..n
      /\ \A x \in 0..n : x <= n + 1
  OBVIOUS
<1>5. \A g \in DOMAIN d : /\ NotBefore(d[g], b \o q)
                          /\ g # f => Lines(d[g]) \cap Lines(b \o q) = {}
  BY <1>1, <1>2, <1>4 DEF Ordered, NotBefore
<1>6. Lines(b \o q) \subseteq 0..(n + 1)
  BY <1>1, <1>2, <1>4 DEF Ordered
<1>7. \A g \in DOMAIN d : Sorted(d[g]) /\ Lines(d[g]) \subseteq 0..(n + 1)
  BY <1>4, Zenon DEF Ordered
<1>8. \A g, h \in DOMAIN d : g # h => Lines(d[g]) \cap Lines(d[h]) = {}
  BY DEF Ordered
<1>. QED
  BY <1>3, <1>5, <1>6, <1>7, <1>8, Zenon DEF Ordered, q

------------------------------------------------------------------------------
(* The size of a file *)

\* Only the bytes of one line are found from rollSize_ on.
Bounded(s) ==
  \A i, j \in DOMAIN s : i >= rollSize_ /\ j >= rollSize_ => s[i] = s[j]

\* What is written out of a bounded content is bounded.
LEMMA BoundedPart ==
  ASSUME NEW p \in Seq(Nat), NEW q \in Seq(Nat), Bounded(p \o q)
  PROVE  Bounded(p)
<1> DEFINE r == p \o q
<1>1. DOMAIN p \subseteq DOMAIN r /\ \A i \in DOMAIN p : r[i] = p[i]
  BY Joined
<1> HIDE DEF r
<1>2. Bounded(r)
  BY DEF r
<1>. QED
  BY <1>1, <1>2, Zenon DEF Bounded

\* A content that is not full is bounded, and stays so with one more line.
LEMMA BoundedLine ==
  ASSUME NEW s \in Seq(Nat), Len(s) < rollSize_, NEW n \in Nat,
         NEW q \in Seq(Nat), \A i \in DOMAIN q : q[i] = n
  PROVE  Bounded(s \o q)
<1> DEFINE r == s \o q
<1>1. /\ Len(s) \in Nat /\ Len(q) \in Nat
      /\ DOMAIN s = 1..Len(s) /\ DOMAIN q = 1..Len(q)
      /\ DOMAIN r = 1 .. Len(s) + Len(q)
      /\ \A i \in 1..Len(q) : r[Len(s) + i] = q[i]
  BY Joined, Zenon
<1> HIDE DEF r
<1>2. \A i \in DOMAIN r : i >= rollSize_ => r[i] = n
  <2> SUFFICES ASSUME NEW i \in DOMAIN r, i >= rollSize_ PROVE r[i] = n
    OBVIOUS
  <2>1. i - Len(s) \in 1..Len(q) /\ i = Len(s) + (i - Len(s))
    BY <1>1, SizeAssumption
  <2>. QED
    BY <1>1, <2>1
<1>. QED
  BY <1>2, Zenon DEF Bounded, r

------------------------------------------------------------------------------
(* stdio *)

Disk(d) == d \in [DOMAIN d -> Seq(Nat)] /\ NoFile \notin DOMAIN d

\* fwrite_unlocked puts the bytes behind the content of the file.
LEMMA FwriteEffect ==
  ASSUME Disk(disk), file \in DOMAIN disk, buffer \in Seq(Nat), NEW n \in Nat,
         NEW bytes \in Seq(Nat), Ordered(disk, file, buffer \o bytes, n),
         fwrite(bytes), file' = file
  PROVE  /\ Disk(disk') /\ DOMAIN disk' = DOMAIN disk
         /\ buffer' \in Seq(Nat)
         /\ Len(buffer') <= Len(buffer) + Len(bytes)
         /\ Ordered(disk', file', buffer', n)
         /\ disk'[file] \in Seq(Nat)
         /\ disk'[file] \o buffer' = (disk[file] \o buffer) \o bytes
         /\ \A f \in DOMAIN disk \ {file} : disk'[f] = disk[f]
<1> DEFINE all == buffer \o bytes
<1>0. all \in Seq(Nat) /\ Len(all) = Len(buffer) + Len(bytes) /\ disk[file] \in Seq(Nat)
  BY Joined DEF Disk
<1>1. PICK k \in 0..Len(all) :
        /\ disk' = [disk EXCEPT ![file] = @ \o SubSeq(all, 1, k)]
        /\ buffer' = SubSeq(all, k + 1, Len(all))
  BY DEF fwrite
<1> DEFINE p == SubSeq(all, 1, k)
<1>2. p \in Seq(Nat) /\ buffer' \in Seq(Nat) /\ p \o buffer' = all
  BY <1>0, <1>1, Cut
<1>3. Ordered(disk, file, p \o buffer', n)
  BY <1>2
<1>4. disk' = [disk EXCEPT ![file] = @ \o p]
  BY <1>1
<1>c. Len(buffer) \in Nat /\ Len(bytes) \in Nat
  BY LenProperties
<1> HIDE DEF p, all
<1>5. Ordered(disk', file', buffer', n)
  BY <1>2, <1>3, <1>4, WriteOrdered DEF Disk
<1>6. disk[file] \o p \in Seq(Nat)
  BY <1>0, <1>2, Joined
<1>7. disk'[file] = disk[file] \o p
  BY <1>4
<1>8. Disk(disk') /\ DOMAIN disk' = DOMAIN disk /\ \A f \in DOMAIN disk \ {file} : disk'[f] = disk[f]
  BY <1>4, <1>6 DEF Disk
<1>9. (disk[file] \o p) \o buffer' = (disk[file] \o buffer) \o bytes
  <2>1. Chain(p, buffer') = Chain(buffer, bytes)
    BY <1>2 DEF all, Chain
  <2>2. /\ disk[file] \in Seq(Nat) /\ p \in Seq(Nat) /\ buffer' \in Seq(Nat)
        /\ buffer \in Seq(Nat) /\ bytes \in Seq(Nat)
    BY <1>0, <1>2
  <2>3. Chain(Chain(disk[file], p), buffer') = Chain(Chain(disk[file], buffer), bytes)
    BY <2>1, <2>2, Regroups
  <2>. QED
    BY <2>3, Zenon DEF Chain
<1>10. Len(buffer') <= Len(all)
  <2>1. Len(p) \in Nat /\ Len(buffer') \in Nat /\ Len(all) = Len(p) + Len(buffer')
    BY <1>2, Joined
  <2>. QED
    BY <2>1
<1>. QED
  BY <1>0, <1>2, <1>5, <1>6, <1>7, <1>8, <1>9, <1>10

\* fflush writes out all that waits.
LEMMA FflushEffect ==
  ASSUME Disk(disk), file \in DOMAIN disk \cup {NoFile}, buffer \in Seq(Nat),
         file = NoFile => buffer = <<>>, NEW n \in Nat,
         Ordered(disk, file, buffer, n), fflush
  PROVE  /\ Disk(disk') /\ DOMAIN disk' = DOMAIN disk
         /\ buffer' = <<>>
         /\ \A f : Ordered(disk', f, buffer', n)
         /\ file # NoFile => disk'[file] = disk[file] \o buffer
         /\ \A f \in DOMAIN disk \ {file} : disk'[f] = disk[f]
<1>1. CASE file = NoFile
  <2>1. disk' = disk /\ buffer' = <<>> /\ buffer = <<>>
    BY <1>1 DEF fflush
  <2>2. \A f : Ordered(disk, f, <<>>, n)
    BY <2>1, Empty DEF Ordered, NotBefore
  <2>. QED
    BY <1>1, <2>1, <2>2
<1>2. CASE file # NoFile
  <2>1. disk' = [disk EXCEPT ![file] = @ \o buffer] /\ buffer' = <<>> /\ file \in DOMAIN disk
    BY <1>2 DEF fflush
  <2>2. buffer \o <<>> = buffer /\ <<>> \in Seq(Nat)
    BY WithNothing, Empty, Zenon
  <2>3. Ordered(disk, file, buffer \o <<>>, n)
    BY <2>2
  <2>4. Ordered(disk', file, <<>>, n)
    BY <2>1, <2>2, <2>3, WriteOrdered DEF Disk
  <2>5. \A f : Ordered(disk', f, <<>>, n)
    BY <2>4, Empty DEF Ordered, NotBefore
  <2>6. disk[file] \in Seq(Nat)
    BY <2>1 DEF Disk
  <2>7. disk[file] \o buffer \in Seq(Nat)
    BY <2>6, Joined
  <2>8. /\ DOMAIN disk' = DOMAIN disk
        /\ disk'[file] = disk[file] \o buffer
        /\ \A f \in DOMAIN disk \ {file} : disk'[f] = disk[f]
    BY <2>1
  <2>9. Disk(disk')
    BY <2>1, <2>7 DEF Disk
  <2>. QED
    BY <2>1, <2>5, <2>8, <2>9
<1>. QED
  BY <1>1, <1>2

------------------------------------------------------------------------------
(* The inductive invariant *)

\* A file is open while the log thread is at work on it, and without one nothing
\* waits.
OpenOK ==
  /\ pc \in {"idle", "appended", "close"} <=> file # NoFile
  /\ file = NoFile => buffer = <<>>

InOrder == Ordered(disk, file, buffer, lines)

\* size_ is what the file will hold when all is written out.
SizesOK ==
  /\ \A f \in DOMAIN disk : Bounded(disk[f])
  /\ file # NoFile => /\ size_ = Len(disk[file]) + Len(buffer)
                      /\ Bounded(disk[file] \o buffer)
  /\ pc = "idle" => size_ < rollSize_

\* flushSize_ counts what waits, and more.
FlushOK ==
  /\ Len(buffer) <= flushSize_
  /\ pc \in {"create", "idle", "close", "roll"} => flushSize_ <= BufferSize

IndInv == TypeOK /\ OpenOK /\ InOrder /\ SizesOK /\ FlushOK

\* The program begins without files.
LEMMA InitInv == Init => IndInv
<1> SUFFICES ASSUME Init PROVE IndInv
  OBVIOUS
<1>1. DOMAIN disk = {} /\ buffer = <<>> /\ file = NoFile
  BY DEF Init
<1>2. TypeOK
  BY <1>1 DEF Init, TypeOK
<1>3. OpenOK
  BY DEF Init, OpenOK
<1>4. InOrder
  BY <1>1, Empty DEF InOrder, Ordered
<1>5. SizesOK
  BY <1>1 DEF Init, SizesOK
<1>6. FlushOK
  BY <1>1, SizeAssumption DEF Init, FlushOK
<1>. QED
  BY <1>2, <1>3, <1>4, <1>5, <1>6 DEF IndInv

\* What the lemmas on stdio need.
LEMMA FilesTyped ==
  ASSUME IndInv
  PROVE  /\ Disk(disk) /\ buffer \in Seq(Nat)
         /\ file \in DOMAIN disk \cup {NoFile}
         /\ lines \in Nat /\ size_ \in Nat /\ flushSize_ \in Nat
         /\ file = NoFile => buffer = <<>>
         /\ file # NoFile => file \in DOMAIN disk /\ disk[file] \in Seq(Nat)
<1>1. TypeOK /\ OpenOK
  BY DEF IndInv
<1>2. NoFile \notin DOMAIN disk
  BY <1>1, SizeAssumption DEF TypeOK, File
<1>. QED
  BY <1>1, <1>2 DEF TypeOK, OpenOK, Disk

\* fflush leaves the files as they should be.
LEMMA FflushInv ==
  ASSUME IndInv, fflush
  PROVE  /\ DOMAIN disk' = DOMAIN disk /\ disk' \in [DOMAIN disk' -> Seq(Nat)]
         /\ buffer' = <<>> /\ Len(buffer') = 0
         /\ \A f : Ordered(disk', f, buffer', lines)
         /\ \A f \in DOMAIN disk' : Bounded(disk'[f])
         /\ file # NoFile => /\ size_ = Len(disk'[file]) + Len(buffer')
                             /\ Bounded(disk'[file] \o buffer')
<1>1. /\ Disk(disk) /\ buffer \in Seq(Nat)
      /\ file \in DOMAIN disk \cup {NoFile}
      /\ lines \in Nat /\ size_ \in Nat
      /\ file = NoFile => buffer = <<>>
      /\ file # NoFile => file \in DOMAIN disk /\ disk[file] \in Seq(Nat)
  BY FilesTyped
<1>2. Ordered(disk, file, buffer, lines)
  BY DEF IndInv, InOrder
<1>3. /\ Disk(disk') /\ DOMAIN disk' = DOMAIN disk
      /\ buffer' = <<>>
      /\ \A f : Ordered(disk', f, buffer', lines)
      /\ file # NoFile => disk'[file] = disk[file] \o buffer
      /\ \A f \in DOMAIN disk \ {file} : disk'[f] = disk[f]
  BY <1>1, <1>2, FflushEffect
<1>s. /\ \A f \in DOMAIN disk : Bounded(disk[f])
      /\ file # NoFile => Bounded(disk[file] \o buffer)
  BY DEF IndInv, SizesOK
<1>4. \A f \in DOMAIN disk' : Bounded(disk'[f])
  <2>1. CASE file # NoFile
    BY <1>s, <1>3, <2>1, Zenon
  <2>2. CASE file = NoFile
    <3>1. file \notin DOMAIN disk
      BY <1>1, <2>2 DEF Disk
    <3>. QED
      BY <1>s, <1>3, <3>1, Zenon
  <2>. QED
    BY <2>1, <2>2
<1>5. ASSUME file # NoFile
      PROVE  /\ size_ = Len(disk'[file]) + Len(buffer')
             /\ Bounded(disk'[file] \o buffer')
  <2>1. size_ = Len(disk[file]) + Len(buffer)
    BY <1>5 DEF IndInv, SizesOK
  <2>2. /\ disk[file] \o buffer \in Seq(Nat)
        /\ Len(disk[file] \o buffer) = Len(disk[file]) + Len(buffer)
    BY <1>1, <1>5, Joined
  <2>3. disk'[file] = disk[file] \o buffer /\ disk'[file] \in Seq(Nat)
    BY <1>3, <1>5, <2>2
  <2>4. disk'[file] \o buffer' = disk'[file]
    BY <1>3, <2>3, WithNothing, Zenon
  <2>5. Bounded(disk'[file])
    BY <1>5, <2>3 DEF IndInv, SizesOK
  <2>6. Len(buffer') = 0
    BY <1>3
  <2>7. size_ = Len(disk'[file]) + Len(buffer')
    BY <1>1, <2>1, <2>2, <2>3, <2>6
  <2>. QED
    BY <2>4, <2>5, <2>7
<1>6. Len(buffer') = 0
  BY <1>3
<1>7. DOMAIN disk' = DOMAIN disk /\ disk' \in [DOMAIN disk' -> Seq(Nat)]
  BY <1>3 DEF Disk
<1>. QED
  BY <1>3, <1>4, <1>5, <1>6, <1>7

\* The log thread appends a line.
LEMMA AppendInv ==
  ASSUME IndInv, NEW n \in 1..MaxSize, append(n)
  PROVE  IndInv'
<1> DEFINE q == [i \in 1..n |-> lines + 1]
<1>0. n \in Nat /\ rollSize_ \in Nat /\ BufferSize \in Nat
  BY SizeAssumption
<1>1. /\ Disk(disk) /\ buffer \in Seq(Nat) /\ lines \in Nat
      /\ size_ \in Nat /\ flushSize_ \in Nat
  BY FilesTyped
<1>2. file \in DOMAIN disk /\ file # NoFile /\ disk[file] \in Seq(Nat)
  BY FilesTyped DEF append, IndInv, OpenOK
<1>3. q \in Seq(Nat) /\ Len(q) = n /\ \A i \in DOMAIN q : q[i] = lines + 1
  BY <1>0, <1>1, ALine, Zenon
<1>4. Ordered(disk, file, buffer \o q, lines + 1)
  <2>1. Ordered(disk, file, buffer, lines)
    BY DEF IndInv, InOrder
  <2>. QED
    BY <1>0, <1>1, <1>2, <2>1, AppendOrdered, Zenon DEF Disk
<1>5. /\ fwrite(q) /\ file' = file /\ lines' = lines + 1 /\ pc' = "appended"
      /\ size_' = size_ + n /\ flushSize_' = flushSize_ + n
      /\ UNCHANGED <<day, starts, fileNames_>>
  BY DEF append
<1> HIDE DEF q
<1>6. /\ Disk(disk') /\ DOMAIN disk' = DOMAIN disk
      /\ buffer' \in Seq(Nat)
      /\ Len(buffer') <= Len(buffer) + Len(q)
      /\ Ordered(disk', file', buffer', lines + 1)
      /\ disk'[file] \in Seq(Nat)
      /\ disk'[file] \o buffer' = (disk[file] \o buffer) \o q
      /\ \A f \in DOMAIN disk \ {file} : disk'[f] = disk[f]
  <2>1. lines + 1 \in Nat
    BY <1>1
  <2>. QED
    BY <1>1, <1>2, <1>3, <1>4, <1>5, <2>1, FwriteEffect, Zenon
<1>7. TypeOK'
  <2>1. TypeOK
    BY DEF IndInv
  <2>2. lines' \in Nat /\ size_' \in Nat /\ flushSize_' \in Nat
    BY <1>0, <1>1, <1>5
  <2>3. {day, starts, lines, fileNames_, size_, flushSize_}' \subseteq Nat
    BY <1>5, <2>1, <2>2 DEF TypeOK
  <2>4. DOMAIN disk' \subseteq File /\ disk' \in [DOMAIN disk' -> Seq(Nat)]
    BY <1>6, <2>1 DEF TypeOK, Disk
  <2>5. file' \in DOMAIN disk' \cup {NoFile}
    BY <1>2, <1>5, <1>6
  <2>. QED
    BY <1>5, <1>6, <2>3, <2>4, <2>5 DEF TypeOK
<1>8. OpenOK'
  BY <1>2, <1>5 DEF OpenOK
<1>9. InOrder'
  BY <1>5, <1>6 DEF InOrder
<1>10. SizesOK'
  <2>1. /\ disk[file] \o buffer \in Seq(Nat)
        /\ Len(disk[file] \o buffer) = Len(disk[file]) + Len(buffer)
    BY <1>1, <1>2, Joined
  <2>2. size_ = Len(disk[file] \o buffer) /\ size_ < rollSize_
    BY <1>2, <2>1 DEF IndInv, SizesOK, append
  <2>3. Bounded((disk[file] \o buffer) \o q)
    <3>1. Len(disk[file] \o buffer) < rollSize_ /\ lines + 1 \in Nat
      BY <1>1, <2>2
    <3>. QED
      BY <1>3, <2>1, <3>1, BoundedLine, Zenon
  <2>4. Len((disk[file] \o buffer) \o q) = size_ + n
    BY <1>3, <2>1, <2>2, Joined
  <2>5. Len(disk'[file] \o buffer') = Len(disk'[file]) + Len(buffer')
    BY <1>6, Joined
  <2>6. size_' = Len(disk'[file]) + Len(buffer') /\ Bounded(disk'[file] \o buffer')
    BY <1>5, <1>6, <2>3, <2>4, <2>5, Zenon
  <2>7. Bounded(disk'[file])
    BY <1>6, <2>6, BoundedPart
  <2>8. \A f \in DOMAIN disk' : Bounded(disk'[f])
    BY <1>6, <2>7 DEF IndInv, SizesOK
  <2>. QED
    BY <1>5, <2>6, <2>8 DEF SizesOK
<1>11. FlushOK'
  <2>1. Len(buffer) \in Nat /\ Len(buffer') \in Nat /\ Len(buffer) <= flushSize_
    BY <1>1, <1>6 DEF IndInv, FlushOK
  <2>2. Len(buffer') <= Len(buffer) + n
    BY <1>3, <1>6
  <2>. QED
    BY <1>0, <1>1, <1>5, <2>1, <2>2 DEF FlushOK
<1>. QED
  BY <1>7, <1>8, <1>9, <1>10, <1>11 DEF IndInv

\* ... and ends the call of appendUnlock.
LEMMA AppendEndInv ==
  ASSUME IndInv, appendEnd
  PROVE  IndInv'
<1>1. /\ Disk(disk) /\ buffer \in Seq(Nat) /\ lines \in Nat
      /\ size_ \in Nat /\ flushSize_ \in Nat
  BY FilesTyped
<1>2. file # NoFile /\ file \in DOMAIN disk
  BY FilesTyped DEF appendEnd, IndInv, OpenOK
<1>3. /\ pc' = IF size_ >= rollSize_ THEN "close" ELSE "idle"
      /\ UNCHANGED <<file, day, starts, lines, fileNames_, size_>>
  BY DEF appendEnd
<1>4. OpenOK'
  BY <1>2, <1>3 DEF OpenOK
<1>5. pc' = "idle" => size_' < rollSize_
  BY <1>1, <1>3, SizeAssumption
<1>6. CASE flushDue /\ fflush /\ flushSize_' = 0
  <2>1. /\ DOMAIN disk' = DOMAIN disk /\ disk' \in [DOMAIN disk' -> Seq(Nat)]
        /\ buffer' = <<>> /\ Len(buffer') = 0
        /\ \A f : Ordered(disk', f, buffer', lines)
        /\ \A f \in DOMAIN disk' : Bounded(disk'[f])
        /\ size_ = Len(disk'[file]) + Len(buffer')
        /\ Bounded(disk'[file] \o buffer')
    BY <1>2, <1>6, FflushInv
  <2>2. TypeOK'
    BY <1>2, <1>3, <1>6, <2>1, Empty DEF IndInv, TypeOK
  <2>3. InOrder'
    BY <1>3, <2>1 DEF InOrder
  <2>4. SizesOK'
    BY <1>3, <1>5, <2>1 DEF SizesOK
  <2>5. FlushOK'
    BY <1>6, <2>1, SizeAssumption DEF FlushOK
  <2>. QED
    BY <1>4, <2>2, <2>3, <2>4, <2>5 DEF IndInv
<1>7. CASE ~flushDue /\ UNCHANGED <<disk, buffer, flushSize_>>
  <2>1. TypeOK'
    BY <1>3, <1>7 DEF IndInv, TypeOK
  <2>2. InOrder'
    BY <1>3, <1>7 DEF IndInv, InOrder
  <2>3. SizesOK'
    BY <1>3, <1>5, <1>7 DEF IndInv, SizesOK
  <2>4. FlushOK'
    BY <1>1, <1>7, SizeAssumption DEF IndInv, FlushOK, flushDue
  <2>. QED
    BY <1>4, <2>1, <2>2, <2>3, <2>4 DEF IndInv
<1>. QED
  BY <1>6, <1>7 DEF appendEnd

\* The handler flushes at any moment.
LEMMA FlushInv ==
  ASSUME IndInv, flush
  PROVE  IndInv'
<1>1. /\ file = NoFile => buffer = <<>>
      /\ file # NoFile => file \in DOMAIN disk
      /\ flushSize_ \in Nat
  BY FilesTyped
<1>2. /\ DOMAIN disk' = DOMAIN disk /\ disk' \in [DOMAIN disk' -> Seq(Nat)]
      /\ buffer' = <<>> /\ Len(buffer') = 0
      /\ \A f : Ordered(disk', f, buffer', lines)
      /\ \A f \in DOMAIN disk' : Bounded(disk'[f])
      /\ file # NoFile => /\ size_ = Len(disk'[file]) + Len(buffer')
                          /\ Bounded(disk'[file] \o buffer')
  BY FflushInv DEF flush
<1>3. UNCHANGED <<file, day, starts, lines, pc, fileNames_, size_, flushSize_>>
  BY DEF flush
<1>4. TypeOK'
  BY <1>2, <1>3, Empty DEF IndInv, TypeOK
<1>5. OpenOK'
  BY <1>2, <1>3 DEF IndInv, OpenOK
<1>6. InOrder'
  BY <1>2, <1>3 DEF InOrder
<1>7. SizesOK'
  BY <1>2, <1>3 DEF IndInv, SizesOK
<1>8. FlushOK'
  BY <1>1, <1>2, <1>3 DEF IndInv, FlushOK
<1>. QED
  BY <1>4, <1>5, <1>6, <1>7, <1>8 DEF IndInv

\* rollFile closes the old file.
LEMMA RollCloseInv ==
  ASSUME IndInv, rollClose
  PROVE  IndInv'
<1>1. flushSize_ \in Nat
  BY FilesTyped
<1>2. /\ DOMAIN disk' = DOMAIN disk /\ disk' \in [DOMAIN disk' -> Seq(Nat)]
      /\ buffer' = <<>> /\ Len(buffer') = 0
      /\ \A f : Ordered(disk', f, buffer', lines)
      /\ \A f \in DOMAIN disk' : Bounded(disk'[f])
  BY FflushInv DEF rollClose, close
<1>3. /\ file' = NoFile /\ pc' = "roll"
      /\ UNCHANGED <<day, starts, lines, fileNames_, size_, flushSize_>>
  BY DEF rollClose, close
<1>4. TypeOK'
  BY <1>2, <1>3, Empty DEF IndInv, TypeOK
<1>5. OpenOK'
  BY <1>2, <1>3 DEF OpenOK
<1>6. InOrder'
  BY <1>2, <1>3 DEF InOrder
<1>7. SizesOK'
  BY <1>2, <1>3 DEF SizesOK
<1>8. FlushOK'
  BY <1>1, <1>2, <1>3 DEF IndInv, FlushOK, rollClose
<1>. QED
  BY <1>4, <1>5, <1>6, <1>7, <1>8 DEF IndInv

\* rollFile takes the next file, at its end.
LEMMA RollOpenInv ==
  ASSUME IndInv, rollOpen
  PROVE  IndInv'
<1> DEFINE name == strFileName
<1>1. /\ Disk(disk) /\ lines \in Nat /\ flushSize_ \in Nat /\ rollSize_ \in Nat
  BY FilesTyped, SizeAssumption
<1>2. file = NoFile /\ buffer = <<>>
  BY DEF rollOpen, IndInv, OpenOK
<1>3. name \in File /\ name # NoFile
  BY SizeAssumption DEF strFileName, File, IndInv, TypeOK
<1>4. /\ file' = name /\ pc' = "idle"
      /\ size_' = size(name) /\ size(name) < rollSize_
      /\ fileNames_' = fileNames_ + 1
      /\ disk' = [f \in DOMAIN disk \cup {name} |-> IF f \in DOMAIN disk THEN disk[f] ELSE <<>>]
      /\ UNCHANGED <<buffer, day, starts, lines, flushSize_>>
  BY DEF rollOpen, open, isExist
<1> HIDE DEF name
<1>5. /\ DOMAIN disk' = DOMAIN disk \cup {name}
      /\ \A f \in DOMAIN disk : disk'[f] = disk[f]
      /\ name \notin DOMAIN disk => disk'[name] = <<>>
  BY <1>4
<1>6. disk' \in [DOMAIN disk' -> Seq(Nat)]
  BY <1>1, <1>4, Empty DEF Disk
<1>7. Len(disk'[name]) = size(name) /\ disk'[name] \in Seq(Nat)
  BY <1>5, <1>6 DEF size, isExist
<1>8. TypeOK'
  <2>1. size(name) \in Nat
    BY <1>7
  <2>2. fileNames_ + 1 \in Nat
    BY DEF IndInv, TypeOK
  <2>3. {day, starts, lines, fileNames_, size_, flushSize_}' \subseteq Nat
    BY <1>4, <2>1, <2>2 DEF IndInv, TypeOK
  <2>4. DOMAIN disk' \subseteq File /\ file' \in DOMAIN disk' \cup {NoFile}
    BY <1>3, <1>4, <1>5 DEF IndInv, TypeOK
  <2>5. buffer' \in Seq(Nat)
    BY <1>2, <1>4, Empty
  <2>. QED
    BY <1>4, <1>6, <2>3, <2>4, <2>5 DEF TypeOK
<1>9. OpenOK'
  BY <1>3, <1>4 DEF OpenOK
<1>10. InOrder'
  <2>1. Ordered(disk, file, <<>>, lines)
    BY <1>2 DEF IndInv, InOrder
  <2>2. \A f \in DOMAIN disk' : \/ f \in DOMAIN disk /\ disk'[f] = disk[f]
                               \/ disk'[f] = <<>>
    BY <1>5
  <2>3. \A f \in DOMAIN disk' : Sorted(disk'[f]) /\ Lines(disk'[f]) \subseteq 0..lines
    BY <2>1, <2>2, Empty, Zenon DEF Ordered
  <2>4. \A f, g \in DOMAIN disk' : f # g => Lines(disk'[f]) \cap Lines(disk'[g]) = {}
    BY <2>1, <2>2, Empty DEF Ordered
  <2>5. Ordered(disk', file', <<>>, lines)
    BY <2>3, <2>4, Empty DEF Ordered, NotBefore
  <2>. QED
    BY <1>2, <1>4, <2>5 DEF InOrder
<1>11. SizesOK'
  <2>1. Bounded(disk'[name])
    BY <1>1, <1>4, <1>7 DEF Bounded
  <2>2. \A f \in DOMAIN disk' : Bounded(disk'[f])
    BY <1>5, <2>1 DEF IndInv, SizesOK
  <2>3. disk'[name] \o <<>> = disk'[name] /\ Len(<<>>) = 0
    BY <1>7, WithNothing
  <2>4. size(name) = Len(disk'[name]) + Len(<<>>)
    BY <1>7, <2>3
  <2>5. /\ size_' = Len(disk'[file']) + Len(buffer')
        /\ Bounded(disk'[file'] \o buffer')
        /\ size_' < rollSize_
    BY <1>2, <1>4, <2>1, <2>3, <2>4, Zenon
  <2>. QED
    BY <2>2, <2>5, Zenon DEF SizesOK
<1>12. FlushOK'
  <2>1. pc \in {"create", "roll"}
    BY DEF rollOpen
  <2>2. flushSize_ <= BufferSize /\ Len(buffer) <= flushSize_
    BY <1>1, <1>2, <2>1, Empty, SizeAssumption DEF IndInv, FlushOK
  <2>. QED
    BY <1>1, <1>4, <2>2 DEF FlushOK
<1>. QED
  BY <1>8, <1>9, <1>10, <1>11, <1>12 DEF IndInv

\* Every step keeps the invariant.
LEMMA StepInv == IndInv /\ [Next]_vars => IndInv'
<1> SUFFICES ASSUME IndInv, [Next]_vars PROVE IndInv'
  OBVIOUS
<1> USE DEF IndInv
<1>1. CASE start
  <2>1. pc' = "create" /\ file' = NoFile /\ buffer' = <<>>
    BY <1>1 DEF start, OpenOK, fileVars
  <2>. QED
    BY <1>1, <2>1, SizeAssumption
    DEF start, fileVars, TypeOK, OpenOK, InOrder, SizesOK, FlushOK
<1>2. CASE rollNext
  BY <1>2 DEF rollNext, fileVars, TypeOK, OpenOK, InOrder, SizesOK, FlushOK
<1>3. CASE rollOpen
  BY <1>3, RollOpenInv
<1>4. CASE rollFails
  BY <1>4 DEF rollFails, fileVars, TypeOK, OpenOK, InOrder, SizesOK, FlushOK
<1>5. CASE \E n \in 1..MaxSize : append(n)
  BY <1>5, AppendInv
<1>6. CASE appendNull
  <2>1. InOrder'
    <3>1. file = NoFile /\ buffer = <<>> /\ lines \in Nat /\ lines' = lines + 1
      BY <1>6 DEF appendNull, OpenOK, TypeOK
    <3>2. 0..lines \subseteq 0..lines'
      BY <3>1
    <3>. QED
      BY <1>6, <3>2 DEF appendNull, fileVars, InOrder, Ordered
  <2>. QED
    BY <1>6, <2>1 DEF appendNull, fileVars, TypeOK, OpenOK, SizesOK, FlushOK
<1>7. CASE appendEnd
  BY <1>7, AppendEndInv
<1>8. CASE rollClose
  BY <1>8, RollCloseInv
<1>9. CASE flush
  BY <1>9, FlushInv
<1>10. CASE midnight
  BY <1>10 DEF midnight, fileVars, TypeOK, OpenOK, InOrder, SizesOK, FlushOK
<1>11. CASE kill
  <2>1. /\ pc' = "down" /\ file' = NoFile /\ buffer' = <<>> /\ Len(buffer') = 0
        /\ flushSize_ \in Nat
    BY <1>11 DEF kill, TypeOK
  <2>2. InOrder'
    BY <1>11, <2>1, Empty DEF kill, InOrder, Ordered, NotBefore
  <2>. QED
    BY <1>11, <2>1, <2>2, Empty DEF kill, TypeOK, OpenOK, SizesOK, FlushOK
<1>12. CASE UNCHANGED vars
  BY <1>12 DEF vars, fileVars, TypeOK, OpenOK, InOrder, SizesOK, FlushOK
<1>. QED
  BY <1>1, <1>2, <1>3, <1>4, <1>5, <1>6, <1>7, <1>8, <1>9, <1>10, <1>11, <1>12 DEF Next

\* The invariant of the log file holds.
THEOREM Invariance == Spec => []IndInv
BY InitInv, StepInv, PTL DEF Spec

------------------------------------------------------------------------------
(* The theorems *)

\* Every variable keeps to its type: size_ and flushSize_ count, a file that is
\* open is on disk.
THEOREM TypeCorrect == Spec => []TypeOK
<1>1. IndInv => TypeOK
  BY DEF IndInv
<1>. QED
  BY <1>1, Invariance, PTL

\* Every file has its lines in order and no line is divided between two files.
THEOREM LinesInOrder == Spec => []FilesInOrder
<1>1. IndInv => FilesInOrder
  BY DEF IndInv, InOrder, Ordered, Sorted, Lines, FilesInOrder, Durable!FilesInOrder,
         Durable!Lines
<1>. QED
  BY <1>1, Invariance, PTL

\* A file grows past rollSize_ by its last line only.
THEOREM FilesRoll == Spec => []FilesStayBounded
<1>1. IndInv => FilesStayBounded
  BY DEF IndInv, SizesOK, Bounded, FilesStayBounded
<1>. QED
  BY <1>1, Invariance, PTL

\* Between two lines at most BufferSize bytes wait to be written.
THEOREM LossBounded == Spec => []LossIsBounded
<1>1. ASSUME IndInv PROVE LossIsBounded
  <2>1. Len(buffer) \in Nat /\ flushSize_ \in Nat /\ BufferSize \in Nat
    BY FilesTyped, SizeAssumption, <1>1
  <2>2. CASE pc \in {"create", "idle", "close", "roll"}
    BY <1>1, <2>1, <2>2 DEF IndInv, FlushOK, LossIsBounded
  <2>3. CASE pc \in {"down", "ended", "null"}
    <3>1. Len(buffer) = 0
      BY <1>1, <2>3 DEF IndInv, OpenOK
    <3>. QED
      BY <2>1, <3>1 DEF LossIsBounded
  <2>. QED
    BY <1>1, <2>2, <2>3 DEF IndInv, TypeOK, LossIsBounded
<1>. QED
  BY <1>1, Invariance, PTL

------------------------------------------------------------------------------
(* Refinement *)

\* A flush writes out all that waits, or finds no file.
LEMMA FlushRefines ==
  ASSUME IndInv, fflush, UNCHANGED <<file, lines>>
  PROVE  [Durable!Next]_Durable!vars
<1>1. CASE file = NoFile
  BY <1>1 DEF fflush, IndInv, OpenOK, Durable!vars
<1>2. CASE file # NoFile
  <2>1. buffer \in Seq(Nat) /\ Len(buffer) \in 0..Len(buffer)
    BY FilesTyped, LenProperties
  <2>2. SubSeq(buffer, 1, Len(buffer)) = buffer /\ SubSeq(buffer, Len(buffer) + 1, Len(buffer)) = <<>>
    BY <2>1, SubSeqFull, SubSeqEmpty
  <2>3. /\ disk' = [disk EXCEPT ![file] = @ \o SubSeq(buffer, 1, Len(buffer))]
        /\ buffer' = SubSeq(buffer, Len(buffer) + 1, Len(buffer))
    BY <1>2, <2>2 DEF fflush
  <2>. QED
    BY <1>2, <2>1, <2>3 DEF Durable!Next, Durable!Write, Durable!WriteOut
<1>. QED
  BY <1>1, <1>2

\* The rolling files implement the log that loses only what waits.
THEOREM Refinement == Spec => ImplementsDurableLog
<1>1. Init => Durable!Init
  BY DEF Init, Durable!Init
<1>2. ASSUME IndInv, [Next]_vars PROVE [Durable!Next]_Durable!vars
  <2>1. CASE start \/ rollNext \/ rollFails \/ midnight \/ UNCHANGED vars
    BY <2>1 DEF start, rollNext, rollFails, midnight, vars, fileVars, Durable!vars
  <2>2. CASE rollOpen
    <3>1. file = NoFile
      BY <1>2, <2>2 DEF rollOpen, IndInv, OpenOK
    <3>2. strFileName \in File
      BY <1>2 DEF strFileName, File, IndInv, TypeOK
    <3>. QED
      BY <2>2, <3>1, <3>2 DEF rollOpen, open, isExist, Durable!Next, Durable!Open
  <2>3. CASE \E n \in 1..MaxSize : append(n)
    <3>1. PICK n \in 1..MaxSize : append(n)
      BY <2>3
    <3>2. file # NoFile
      BY <1>2, <3>1 DEF append, IndInv, OpenOK
    <3>3. Durable!WriteOut(buffer \o [i \in 1..n |-> lines + 1])
      BY <3>1, <3>2 DEF append, fwrite, Durable!WriteOut
    <3>. QED
      BY <3>1, <3>3 DEF append, Durable!Next, Durable!Accept
  <2>4. CASE appendNull
    BY <1>2, <2>4 DEF appendNull, fileVars, IndInv, OpenOK, Durable!Next, Durable!Lose
  <2>5. CASE appendEnd
    <3>1. CASE fflush
      BY <1>2, <2>5, <3>1, FlushRefines DEF appendEnd
    <3>2. CASE UNCHANGED <<disk, buffer>>
      BY <2>5, <3>2 DEF appendEnd, Durable!vars
    <3>. QED
      BY <2>5, <3>1, <3>2 DEF appendEnd
  <2>6. CASE rollClose
    <3>1. file # NoFile
      BY <1>2, <2>6 DEF rollClose, IndInv, OpenOK
    <3>. QED
      BY <2>6, <3>1 DEF rollClose, close, fflush, Durable!Next, Durable!Close
  <2>7. CASE flush
    BY <1>2, <2>7, FlushRefines DEF flush
  <2>8. CASE kill
    BY <2>8 DEF kill, Durable!Next, Durable!Lose
  <2>. QED
    BY <1>2, <2>1, <2>2, <2>3, <2>4, <2>5, <2>6, <2>7, <2>8 DEF Next
<1>. QED
  BY <1>1, <1>2, Invariance, PTL DEF Spec, Durable!Spec, ImplementsDurableLog

(***************************************************************************)
(* IniFile                                                                 *)
(***************************************************************************)

------------------------------------------------------------------------------
(* Numbers *)

\* A set of natural numbers that is not empty has a least element.
LEMMA LeastOf ==
  ASSUME NEW S, S \subseteq Nat, S # {}
  PROVE  \E i \in S : \A j \in S : i <= j
<1>1. PICK i \in S : \A j \in S : <<j, i>> \notin OpToRel(<, Nat)
  BY NatLessThanWellFounded, WFMin
<1>2. \A j \in S : ~(j < i)
  BY <1>1 DEF OpToRel
<1>3. \A j \in S : i <= j
  BY <1>2
<1>. QED
  BY <1>3

\* Induction: what holds of 0 and passes from each number to the next holds of all.
LEMMA Inductive ==
  ASSUME NEW S, 0 \in S, \A n \in Nat : n \in S => n + 1 \in S
  PROVE  Nat \subseteq S
<1>. SUFFICES ASSUME Nat \ S # {}
              PROVE  FALSE
  OBVIOUS
<1>1. PICK i \in Nat \ S : \A j \in Nat \ S : i <= j
  BY LeastOf
<1>2. i \in Nat /\ i # 0 /\ i - 1 \in Nat /\ (i - 1) + 1 = i
  BY <1>1
<1>3. i - 1 \in S
  BY <1>1, <1>2
<1>. QED
  BY <1>1, <1>2, <1>3

------------------------------------------------------------------------------
(* Sequences that are built part by part *)

\* A sequence with one more element.
LEMMA OneMore ==
  ASSUME NEW S, NEW s \in Seq(S), NEW x \in S
  PROVE  /\ Append(s, x) \in Seq(S)
         /\ Len(s) \in Nat
         /\ Len(Append(s, x)) = Len(s) + 1
         /\ \A i \in 1..Len(s) : Append(s, x)[i] = s[i]
         /\ Append(s, x)[Len(s) + 1] = x
         /\ Append(s, x) = s \o <<x>>
BY AppendProperties

\* The function FlattenSeq is defined by, for the first n parts.
IsFlat(f, parts, n) ==
  f = [i \in 1..n |-> IF i = 1 THEN parts[i] ELSE f[i - 1] \o parts[i]]

\* It exists for all sequences of parts.
LEMMA FlatExists ==
  ASSUME NEW parts
  PROVE  \A n \in Nat : \E f : IsFlat(f, parts, n)
<1>. DEFINE S == {n \in Nat : \E f : IsFlat(f, parts, n)}
<1>1. 0 \in S
  <2>. DEFINE g == [i \in 1..0 |-> parts[i]]
  <2>1. 1..0 = {}
    OBVIOUS
  <2>2. IsFlat(g, parts, 0)
    BY <2>1 DEF IsFlat
  <2>. QED
    BY <2>2
<1>2. ASSUME NEW n \in Nat, n \in S
      PROVE  n + 1 \in S
  <2>1. PICK f : IsFlat(f, parts, n)
    BY <1>2
  <2>. DEFINE last == IF n + 1 = 1 THEN parts[n + 1] ELSE f[n] \o parts[n + 1]
              g == [i \in 1..(n + 1) |-> IF i = n + 1 THEN last ELSE f[i]]
  <2>2. ASSUME NEW i \in 1..(n + 1)
        PROVE  g[i] = IF i = 1 THEN parts[i] ELSE g[i - 1] \o parts[i]
    <3>1. CASE i = n + 1 /\ i = 1
      BY <3>1
    <3>2. CASE i = n + 1 /\ i # 1
      <4>1. i - 1 \in 1..(n + 1) /\ i - 1 # n + 1 /\ i - 1 = n
        BY <3>2
      <4>. QED
        BY <3>2, <4>1
    <3>3. CASE i # n + 1
      <4>1. i \in 1..n
        BY <3>3
      <4>2. f[i] = IF i = 1 THEN parts[i] ELSE f[i - 1] \o parts[i]
        BY <2>1, <4>1 DEF IsFlat
      <4>3. g[i] = f[i]
        BY <3>3
      <4>4. i # 1 => i - 1 \in 1..(n + 1) /\ i - 1 # n + 1
        BY <4>1
      <4>. QED
        BY <4>2, <4>3, <4>4
    <3>. QED
      BY <3>1, <3>2, <3>3
  <2>. HIDE DEF last
  <2>3. g = [i \in 1..(n + 1) |-> g[i]]
    OBVIOUS
  <2>4. IsFlat(g, parts, n + 1)
    BY <2>2, <2>3, Zenon DEF IsFlat
  <2>. QED
    BY <2>4
<1>. HIDE DEF S
<1>3. Nat \subseteq S
  BY <1>1, <1>2, Inductive
<1>. QED
  BY <1>3 DEF S

\* Two such functions agree as far as their parts do.
LEMMA FlatAgrees ==
  ASSUME NEW p, NEW q, NEW f, NEW g, NEW n \in Nat, NEW m \in Nat, n <= m,
         IsFlat(f, p, n), IsFlat(g, q, m), \A i \in 1..n : p[i] = q[i]
  PROVE  \A i \in 1..n : f[i] = g[i]
<1>. DEFINE S == {i \in Nat : i \in 1..n => f[i] = g[i]}
<1>1. 0 \in S
  OBVIOUS
<1>2. ASSUME NEW i \in Nat, i \in S
      PROVE  i + 1 \in S
  <2>. DEFINE k == i + 1
  <2>. SUFFICES ASSUME k \in 1..n
                PROVE  f[k] = g[k]
    OBVIOUS
  <2>1. k \in 1..m /\ p[k] = q[k]
    OBVIOUS
  <2>2. f[k] = IF k = 1 THEN p[k] ELSE f[k - 1] \o p[k]
    BY DEF IsFlat
  <2>3. g[k] = IF k = 1 THEN q[k] ELSE g[k - 1] \o q[k]
    BY <2>1 DEF IsFlat
  <2>4. k # 1 => f[k - 1] = g[k - 1]
    BY <1>2
  <2>. HIDE DEF k
  <2>. QED
    BY <2>1, <2>2, <2>3, <2>4, Zenon
<1>. HIDE DEF S
<1>3. Nat \subseteq S
  BY <1>1, <1>2, Inductive
<1>4. 1..n \subseteq Nat
  OBVIOUS
<1>. QED
  BY <1>3, <1>4 DEF S

\* Without parts nothing is put together.
LEMMA FlatNone == FlattenSeq(<<>>) = <<>>
BY DEF FlattenSeq

FlatFcn(parts, n) == CHOOSE f : IsFlat(f, parts, n)

\* The function is the one of FlattenSeq.
LEMMA FlatIs ==
  ASSUME NEW parts, Len(parts) \in Nat, Len(parts) # 0
  PROVE  /\ FlattenSeq(parts) = FlatFcn(parts, Len(parts))[Len(parts)]
         /\ IsFlat(FlatFcn(parts, Len(parts)), parts, Len(parts))
<1>1. \E f : IsFlat(f, parts, Len(parts))
  BY FlatExists
<1>2. IsFlat(FlatFcn(parts, Len(parts)), parts, Len(parts))
  BY <1>1, Zenon DEF FlatFcn
<1>3. FlattenSeq(parts) = FlatFcn(parts, Len(parts))[Len(parts)]
  BY Zenon DEF FlattenSeq, FlatFcn, IsFlat
<1>. QED
  BY <1>2, <1>3

\* What is put together of sequences is a sequence.
LEMMA FlatTyped ==
  ASSUME NEW S, NEW parts \in Seq(Seq(S))
  PROVE  FlattenSeq(parts) \in Seq(S)
<1>. DEFINE n == Len(parts)
            f == FlatFcn(parts, n)
<1>0. n \in Nat /\ \A i \in 1..n : parts[i] \in Seq(S)
  OBVIOUS
<1>1. CASE n = 0
  <2>1. parts = <<>> /\ <<>> \in Seq(S)
    BY <1>1
  <2>2. FlattenSeq(parts) = <<>>
    BY <2>1, FlatNone, Zenon
  <2>. QED
    BY <2>1, <2>2
<1>2. CASE n # 0
  <2>1. FlattenSeq(parts) = f[n] /\ IsFlat(f, parts, n)
    BY <1>0, <1>2, FlatIs
  <2>. DEFINE T == {i \in Nat : i \in 1..n => f[i] \in Seq(S)}
  <2>. HIDE DEF f, n
  <2>2. 0 \in T
    OBVIOUS
  <2>3. ASSUME NEW i \in Nat, i \in T
        PROVE  i + 1 \in T
    <3>. DEFINE k == i + 1
    <3>. SUFFICES ASSUME k \in 1..n
                  PROVE  f[k] \in Seq(S)
      OBVIOUS
    <3>1. f[k] = IF k = 1 THEN parts[k] ELSE f[k - 1] \o parts[k]
      BY <2>1 DEF IsFlat
    <3>2. k # 1 => f[k - 1] \in Seq(S)
      BY <2>3, <1>0
    <3>3. parts[k] \in Seq(S)
      BY <1>0
    <3>. HIDE DEF k
    <3>. QED
      BY <3>1, <3>2, <3>3
  <2>. HIDE DEF T
  <2>4. n \in T
    BY <2>2, <2>3, <1>0, Inductive
  <2>5. n \in 1..n
    BY <1>0, <1>2
  <2>. QED
    BY <2>1, <2>4, <2>5 DEF T
<1>. QED
  BY <1>1, <1>2

\* One more part goes behind what there is.
LEMMA FlatMore ==
  ASSUME NEW S, NEW parts \in Seq(Seq(S)), NEW part \in Seq(S)
  PROVE  FlattenSeq(Append(parts, part)) = FlattenSeq(parts) \o part
<1>. DEFINE more == Append(parts, part)
            n == Len(parts)
            f == FlatFcn(parts, n)
            g == FlatFcn(more, n + 1)
<1>1. /\ n \in Nat /\ Len(more) = n + 1 /\ more[n + 1] = part
      /\ \A i \in 1..n : more[i] = parts[i]
  BY OneMore
<1>. HIDE DEF more
<1>2. FlattenSeq(more) = g[n + 1] /\ IsFlat(g, more, n + 1)
  BY <1>1, FlatIs
<1>. HIDE DEF n, g
<1>3. CASE n = 0
  <2>1. parts = <<>>
    BY <1>3 DEF n
  <2>2. g[1] = more[1]
    BY <1>2, <1>3 DEF IsFlat
  <2>3. FlattenSeq(more) = part
    BY <1>1, <1>2, <1>3, <2>2
  <2>4. FlattenSeq(parts) = <<>>
    BY <2>1, FlatNone
  <2>. QED
    BY <2>3, <2>4 DEF more
<1>4. CASE n # 0
  <2>1. FlattenSeq(parts) = f[n] /\ IsFlat(f, parts, n)
    BY <1>1, <1>4, FlatIs DEF n
  <2>. HIDE DEF f
  <2>2. n + 1 \in Nat /\ n <= n + 1 /\ n + 1 \in 1..(n + 1) /\ n \in 1..n
    BY <1>1, <1>4
  <2>3. \A i \in 1..n : f[i] = g[i]
    <3>. DEFINE m == n + 1
    <3>1. \A i \in 1..n : parts[i] = more[i]
      BY <1>1
    <3>2. n \in Nat /\ m \in Nat /\ n <= m
      BY <1>1
    <3>3. IsFlat(f, parts, n) /\ IsFlat(g, more, m)
      BY <1>2, <2>1
    <3>. HIDE DEF m
    <3>. SUFFICES ASSUME NEW i \in 1..n
                  PROVE  f[i] = g[i]
      OBVIOUS
    <3>. QED
      BY <3>1, <3>2, <3>3, FlatAgrees
  <2>4. g[n + 1] = g[n] \o more[n + 1]
    <3>. DEFINE k == n + 1
    <3>1. g[k] = IF k = 1 THEN more[k] ELSE g[k - 1] \o more[k]
      BY <1>2, <2>2 DEF IsFlat
    <3>2. k # 1 /\ k - 1 = n
      BY <1>1, <1>4
    <3>. QED
      BY <3>1, <3>2
  <2>. QED
    BY <1>1, <1>2, <2>1, <2>2, <2>3, <2>4 DEF more
<1>. QED
  BY <1>3, <1>4

------------------------------------------------------------------------------
(* Reading one line after the other *)

\* The function readLines is defined by, for the first n lines.
IsRead(f, ls, n) ==
  f = [m \in 0..n |-> IF m = 0 THEN Reading ELSE readLine(f[m - 1], ls[m])]

\* It exists for all lines.
LEMMA ReadExists ==
  ASSUME NEW ls
  PROVE  \A n \in Nat : \E f : IsRead(f, ls, n)
<1>. DEFINE S == {n \in Nat : \E f : IsRead(f, ls, n)}
<1>1. 0 \in S
  <2>. DEFINE g == [m \in 0..0 |-> Reading]
  <2>1. g = [m \in 0..0 |-> IF m = 0 THEN Reading ELSE readLine(g[m - 1], ls[m])]
    OBVIOUS
  <2>2. IsRead(g, ls, 0)
    BY <2>1, Zenon DEF IsRead
  <2>. QED
    BY <2>2
<1>2. ASSUME NEW n \in Nat, n \in S
      PROVE  n + 1 \in S
  <2>1. PICK f : IsRead(f, ls, n)
    BY <1>2
  <2>. DEFINE last == readLine(f[n], ls[n + 1])
              g == [m \in 0..(n + 1) |-> IF m = n + 1 THEN last ELSE f[m]]
  <2>2. ASSUME NEW m \in 0..(n + 1)
        PROVE  g[m] = IF m = 0 THEN Reading ELSE readLine(g[m - 1], ls[m])
    <3>1. CASE m = n + 1
      <4>1. m - 1 \in 0..(n + 1) /\ m - 1 # n + 1 /\ m - 1 = n /\ m # 0
        BY <3>1
      <4>. QED
        BY <3>1, <4>1
    <3>2. CASE m # n + 1
      <4>1. m \in 0..n
        BY <3>2
      <4>2. f[m] = IF m = 0 THEN Reading ELSE readLine(f[m - 1], ls[m])
        BY <2>1, <4>1 DEF IsRead
      <4>3. g[m] = f[m]
        BY <3>2
      <4>4. m # 0 => m - 1 \in 0..(n + 1) /\ m - 1 # n + 1
        BY <4>1
      <4>. QED
        BY <4>2, <4>3, <4>4
    <3>. QED
      BY <3>1, <3>2
  <2>. HIDE DEF last
  <2>3. g = [m \in 0..(n + 1) |-> g[m]]
    OBVIOUS
  <2>4. IsRead(g, ls, n + 1)
    BY <2>2, <2>3, Zenon DEF IsRead
  <2>. QED
    BY <2>4
<1>. HIDE DEF S
<1>3. Nat \subseteq S
  BY <1>1, <1>2, Inductive
<1>. QED
  BY <1>3 DEF S

\* Two such functions agree as far as their lines do.
LEMMA ReadAgrees ==
  ASSUME NEW p, NEW q, NEW f, NEW g, NEW n \in Nat, NEW k \in Nat, n <= k,
         IsRead(f, p, n), IsRead(g, q, k), \A i \in 1..n : p[i] = q[i]
  PROVE  \A i \in 0..n : f[i] = g[i]
<1>. DEFINE S == {i \in Nat : i \in 0..n => f[i] = g[i]}
<1>1. 0 \in S
  <2>1. f[0] = Reading /\ g[0] = Reading
    BY DEF IsRead
  <2>. QED
    BY <2>1
<1>2. ASSUME NEW i \in Nat, i \in S
      PROVE  i + 1 \in S
  <2>. DEFINE m == i + 1
  <2>. SUFFICES ASSUME m \in 0..n
                PROVE  f[m] = g[m]
    OBVIOUS
  <2>1. m \in 0..k /\ p[m] = q[m] /\ m # 0
    OBVIOUS
  <2>2. f[m] = IF m = 0 THEN Reading ELSE readLine(f[m - 1], p[m])
    BY DEF IsRead
  <2>3. g[m] = IF m = 0 THEN Reading ELSE readLine(g[m - 1], q[m])
    BY <2>1 DEF IsRead
  <2>4. f[m - 1] = g[m - 1]
    BY <1>2
  <2>. HIDE DEF m
  <2>. QED
    BY <2>1, <2>2, <2>3, <2>4, Zenon
<1>. HIDE DEF S
<1>3. Nat \subseteq S
  BY <1>1, <1>2, Inductive
<1>4. 0..n \subseteq Nat
  OBVIOUS
<1>. QED
  BY <1>3, <1>4 DEF S

ReadFcn(ls, n) == CHOOSE f : IsRead(f, ls, n)

\* The function is the one of readLines.
LEMMA ReadIs ==
  ASSUME NEW ls, Len(ls) \in Nat
  PROVE  /\ readLines(ls) = ReadFcn(ls, Len(ls))[Len(ls)]
         /\ IsRead(ReadFcn(ls, Len(ls)), ls, Len(ls))
<1>1. \E f : IsRead(f, ls, Len(ls))
  BY ReadExists
<1>2. IsRead(ReadFcn(ls, Len(ls)), ls, Len(ls))
  BY <1>1, Zenon DEF ReadFcn
<1>3. readLines(ls) = ReadFcn(ls, Len(ls))[Len(ls)]
  BY Zenon DEF readLines, ReadFcn, IsRead
<1>. QED
  BY <1>2, <1>3

\* Before the first line.
LEMMA ReadNone == readLines(<<>>) = Reading
<1>. DEFINE f == ReadFcn(<<>>, 0)
<1>1. Len(<<>>) = 0
  OBVIOUS
<1>2. readLines(<<>>) = f[0] /\ IsRead(f, <<>>, 0)
  BY <1>1, ReadIs
<1>. HIDE DEF f
<1>3. f[0] = Reading
  BY <1>2 DEF IsRead
<1>. QED
  BY <1>2, <1>3

\* One line more.
LEMMA ReadMore ==
  ASSUME NEW S, NEW ls \in Seq(S), NEW l \in S
  PROVE  readLines(Append(ls, l)) = readLine(readLines(ls), l)
<1>. DEFINE more == Append(ls, l)
            n == Len(ls)
            k == n + 1
            f == ReadFcn(ls, n)
            g == ReadFcn(more, k)
<1>1. /\ n \in Nat /\ k \in Nat /\ Len(more) = k /\ more[k] = l
      /\ \A i \in 1..n : ls[i] = more[i]
  BY OneMore
<1>. HIDE DEF more
<1>2. readLines(more) = g[k] /\ IsRead(g, more, k)
  BY <1>1, ReadIs
<1>3. readLines(ls) = f[n] /\ IsRead(f, ls, n)
  BY <1>1, ReadIs
<1>. HIDE DEF f, g
<1>4. n <= k /\ n \in 0..n /\ k \in 0..k /\ k # 0 /\ k - 1 = n
  BY <1>1
<1>5. g[k] = readLine(g[n], more[k])
  <2>1. g[k] = IF k = 0 THEN Reading ELSE readLine(g[k - 1], more[k])
    BY <1>2, <1>4 DEF IsRead
  <2>. QED
    BY <1>4, <2>1
<1>. HIDE DEF n, k
<1>6. f[n] = g[n]
  BY <1>1, <1>2, <1>3, <1>4, ReadAgrees
<1>. QED
  BY <1>1, <1>2, <1>3, <1>5, <1>6, Zenon DEF more

------------------------------------------------------------------------------
(* Reading what was saved *)

FlaggedComment == Seq(Seq(Text) \ {<<>>})
ItemType == [key : Key, value : Value, comment : FlaggedComment]
ItemsType == Seq(ItemType)

\* A line of a file that was there before the program started, or that it saved.
FileLine == Line \cup {CommentLine(t) : t \in Seq(Text) \ {<<>>}}

\* The loop of load goes on: it has read the sections, s is the current one.
Loop(sections, s, comment) ==
  [sections |-> sections, section |-> s, comment |-> comment, returned |-> "no"]

Fields == {"sections", "section", "comment", "returned"}

\* A record with these fields is one of these.
LEMMA LoopIs ==
  ASSUME NEW r, r = [x \in Fields |-> r[x]], r.returned = "no"
  PROVE  r = Loop(r.sections, r.section, r.comment)
BY DEF Loop, Fields

\* And these have these fields.
LEMMA LoopHas ==
  ASSUME NEW S, NEW s, NEW c
  PROVE  /\ Loop(S, s, c) = [x \in Fields |-> Loop(S, s, c)[x]]
         /\ Loop(S, s, c).sections = S /\ Loop(S, s, c).section = s
         /\ Loop(S, s, c).comment = c /\ Loop(S, s, c).returned = "no"
BY DEF Loop, Fields

\* A line of a comment.
LEMMA ReadCommentLine ==
  ASSUME NEW S, NEW s, NEW c, NEW t
  PROVE  readLine(Loop(S, s, c), CommentLine(t)) = Loop(S, s, Append(c, t))
<1>. DEFINE r == Loop(S, s, c)
            l == CommentLine(t)
            d == Append(c, t)
            e == [r EXCEPT !.comment = d]
<1>1. /\ r = [x \in Fields |-> r[x]]
      /\ r.sections = S /\ r.section = s /\ r.comment = c /\ r.returned = "no"
  BY LoopHas
<1>2. l.kind = "comment" /\ l.text = t
  BY DEF CommentLine
<1>. HIDE DEF r, l
<1>3. readLine(r, l) = e
  BY <1>1, <1>2 DEF readLine, withLine
<1>. HIDE DEF d
<1>4. e = [x \in Fields |-> e[x]]
  BY <1>1 DEF Fields
<1>5. e.sections = S /\ e.section = s /\ e.comment = d /\ e.returned = "no"
  BY <1>1 DEF Fields
<1>. HIDE DEF e
<1>6. e = Loop(S, s, d)
  BY <1>4, <1>5, LoopIs
<1>. QED
  BY <1>3, <1>6 DEF r, l, d

\* An item more in the section s.
WithItem(S, s, item) == [S EXCEPT ![s].items = Append(@, item)]

\* An item, with the comment that waits for it and the one behind it.
LEMMA ReadItemLine ==
  ASSUME NEW S, NEW s, s # NoSection, NEW c, NEW k, NEW v, NEW b
  PROVE  readLine(Loop(S, s, c), ItemLine(k, v, b))
           = Loop(WithItem(S, s, Item(k, v, withBehind(c, b))), s, <<>>)
<1>. DEFINE r == Loop(S, s, c)
            l == ItemLine(k, v, b)
            more == Append(S[s].items, Item(k, v, withBehind(c, b)))
            T == [S EXCEPT ![s].items = more]
            e == [r EXCEPT !.comment = <<>>, !.sections[s].items = more]
<1>1. /\ r = [x \in Fields |-> r[x]]
      /\ r.sections = S /\ r.section = s /\ r.comment = c /\ r.returned = "no"
  BY LoopHas
<1>2. l.kind = "item" /\ l.key = k /\ l.value = v /\ l.behind = b
  BY DEF ItemLine
<1>. HIDE DEF r, l
<1>3. readLine(r, l) = readItem(r, l)
  BY <1>1, <1>2 DEF readLine
<1>4. readItem(r, l) = e
  BY <1>1, <1>2, Zenon DEF readItem, NoComment
<1>. HIDE DEF more
<1>5. e = [x \in Fields |-> e[x]]
  BY <1>1 DEF Fields
<1>6. e.sections = T /\ e.section = s /\ e.comment = <<>> /\ e.returned = "no"
  BY <1>1 DEF Fields
<1>. HIDE DEF e, T
<1>7. e = Loop(T, s, <<>>)
  BY <1>5, <1>6, LoopIs
<1>. QED
  BY <1>3, <1>4, <1>7, Zenon DEF r, l, T, more, WithItem

\* The header of a new section.
LEMMA ReadHeaderLine ==
  ASSUME NEW S, NEW s, NEW c, NEW n, n # Default, n \notin DOMAIN S, NEW b
  PROVE  readLine(Loop(S, s, c), Header(n, b))
           = Loop(Put(S, n, NewSection(withBehind(c, b))), n, <<>>)
<1>. DEFINE r == Loop(S, s, c)
            l == Header(n, b)
            T == Put(S, n, NewSection(withBehind(c, b)))
            e == [r EXCEPT !.section = n, !.comment = <<>>, !.sections = T]
<1>1. /\ r = [x \in Fields |-> r[x]]
      /\ r.sections = S /\ r.section = s /\ r.comment = c /\ r.returned = "no"
  BY LoopHas
<1>2. l.kind = "header" /\ l.name = n /\ l.behind = b
  BY DEF Header
<1>. HIDE DEF r, l
<1>3. readLine(r, l) = readHeader(r, l)
  BY <1>1, <1>2 DEF readLine
<1>4. readHeader(r, l) = e
  BY <1>1, <1>2, Zenon DEF readHeader, NoComment
<1>. HIDE DEF T
<1>5. e = [x \in Fields |-> e[x]]
  BY <1>1 DEF Fields
<1>6. e.sections = T /\ e.section = n /\ e.comment = <<>> /\ e.returned = "no"
  BY <1>1 DEF Fields
<1>. HIDE DEF e
<1>7. e = Loop(T, n, <<>>)
  BY <1>5, <1>6, LoopIs
<1>. QED
  BY <1>3, <1>4, <1>7, Zenon DEF r, l, T

\* The first elements of a sequence, and one more of them.
LEMMA FirstParts ==
  ASSUME NEW S, NEW s \in Seq(S)
  PROVE  /\ SubSeq(s, 1, 0) = <<>>
         /\ SubSeq(s, 1, Len(s)) = s
         /\ \A k \in 0..(Len(s) - 1) :
              /\ SubSeq(s, 1, k) \in Seq(S)
              /\ s[k + 1] \in S
              /\ SubSeq(s, 1, k + 1) = Append(SubSeq(s, 1, k), s[k + 1])
<1>1. SubSeq(s, 1, 0) = <<>> /\ SubSeq(s, 1, Len(s)) = s
  OBVIOUS
<1>2. ASSUME NEW k \in 0..(Len(s) - 1)
      PROVE  /\ SubSeq(s, 1, k) \in Seq(S)
             /\ s[k + 1] \in S
             /\ SubSeq(s, 1, k + 1) = Append(SubSeq(s, 1, k), s[k + 1])
  OBVIOUS
<1>. QED
  BY <1>1, <1>2

\* An element behind two sequences is one behind the second.
LEMMA AppendBehind ==
  ASSUME NEW S, NEW s \in Seq(S), NEW t \in Seq(S), NEW x \in S
  PROVE  s \o Append(t, x) = Append(s \o t, x)
OBVIOUS

\* Behind nothing and before nothing.
LEMMA WithNone ==
  ASSUME NEW S, NEW s \in Seq(S)
  PROVE  s \o <<>> = s /\ <<>> \o s = s
OBVIOUS

\* The lines of a comment that carries its flags.
LEMMA CommentLines ==
  ASSUME NEW c \in FlaggedComment
  PROVE  /\ commentLines(c) \in Seq(FileLine)
         /\ Len(commentLines(c)) = Len(c)
         /\ \A i \in 1..Len(c) : commentLines(c)[i] = CommentLine(c[i])
<1>1. Len(c) \in Nat /\ \A i \in 1..Len(c) : c[i] \in Seq(Text) \ {<<>>}
  BY DEF FlaggedComment
<1>2. ASSUME NEW i \in 1..Len(c)
      PROVE  c[i][1] # Bare
  <2>1. c[i] \in Seq(Text) /\ c[i] # <<>>
    BY <1>1
  <2>2. c[i][1] \in Text
    BY <2>1
  <2>. QED
    BY <2>2, NameAssumption
<1>3. commentLines(c) = [i \in 1..Len(c) |-> CommentLine(c[i])]
  BY <1>2 DEF commentLines
<1>4. \A i \in 1..Len(c) : CommentLine(c[i]) \in FileLine
  BY <1>1 DEF FileLine
<1>. QED
  BY <1>1, <1>3, <1>4

\* They are read as what they were made of.
LEMMA ReadComments ==
  ASSUME NEW S, NEW s, NEW c \in FlaggedComment, NEW ls \in Seq(FileLine),
         readLines(ls) = Loop(S, s, c), NEW d \in FlaggedComment
  PROVE  readLines(ls \o commentLines(d)) = Loop(S, s, c \o d)
<1>. DEFINE t == commentLines(d)
            n == Len(d)
            Read(k) == readLines(ls \o SubSeq(t, 1, k)) = Loop(S, s, c \o SubSeq(d, 1, k))
            T == {k \in Nat : k \in 0..n => Read(k)}
<1>1. t \in Seq(FileLine) /\ Len(t) = n /\ n \in Nat
  BY CommentLines DEF FlaggedComment
<1>2. \A i \in 1..n : t[i] = CommentLine(d[i])
  BY CommentLines
<1>. HIDE DEF t
<1>3. SubSeq(t, 1, 0) = <<>> /\ SubSeq(t, 1, n) = t
  BY <1>1, FirstParts
<1>4. SubSeq(d, 1, 0) = <<>> /\ SubSeq(d, 1, n) = d
  BY FirstParts DEF FlaggedComment
<1>5. 0 \in T
  <2>1. ls \o <<>> = ls /\ c \o <<>> = c
    BY WithNone DEF FlaggedComment
  <2>. QED
    BY <1>3, <1>4, <2>1
<1>6. ASSUME NEW k \in Nat, k \in T
      PROVE  k + 1 \in T
  <2>. SUFFICES ASSUME k + 1 \in 0..n
                PROVE  Read(k + 1)
    OBVIOUS
  <2>0. k \in 0..(n - 1) /\ k \in 0..n /\ k + 1 \in 1..n
    BY <1>1
  <2>1. /\ SubSeq(t, 1, k) \in Seq(FileLine) /\ t[k + 1] \in FileLine
        /\ SubSeq(t, 1, k + 1) = Append(SubSeq(t, 1, k), t[k + 1])
    BY <1>1, <2>0, FirstParts
  <2>2. /\ SubSeq(d, 1, k) \in FlaggedComment /\ d[k + 1] \in Seq(Text) \ {<<>>}
        /\ SubSeq(d, 1, k + 1) = Append(SubSeq(d, 1, k), d[k + 1])
    BY <2>0, FirstParts DEF FlaggedComment
  <2>3. ls \o SubSeq(t, 1, k + 1) = Append(ls \o SubSeq(t, 1, k), t[k + 1])
    BY <2>1, AppendBehind
  <2>4. c \o SubSeq(d, 1, k + 1) = Append(c \o SubSeq(d, 1, k), d[k + 1])
    BY <2>2, AppendBehind DEF FlaggedComment
  <2>5. ls \o SubSeq(t, 1, k) \in Seq(FileLine)
    BY <2>1
  <2>6. readLines(ls \o SubSeq(t, 1, k)) = Loop(S, s, c \o SubSeq(d, 1, k))
    BY <1>6, <2>0
  <2>7. readLines(ls \o SubSeq(t, 1, k + 1))
          = readLine(Loop(S, s, c \o SubSeq(d, 1, k)), t[k + 1])
    BY <2>1, <2>3, <2>5, <2>6, ReadMore
  <2>8. t[k + 1] = CommentLine(d[k + 1])
    BY <1>2, <2>0
  <2>9. readLines(ls \o SubSeq(t, 1, k + 1))
          = Loop(S, s, Append(c \o SubSeq(d, 1, k), d[k + 1]))
    BY <2>7, <2>8, ReadCommentLine
  <2>. QED
    BY <2>4, <2>9
<1>. HIDE DEF T
<1>7. n \in T
  BY <1>1, <1>5, <1>6, Inductive
<1>. HIDE DEF Read
<1>8. Read(n)
  BY <1>1, <1>7 DEF T
<1>. QED
  BY <1>3, <1>4, <1>8 DEF Read, t

Section(comment, its) == [comment |-> comment, items |-> its]

\* An item more in the section that was put last.
LEMMA PutItem ==
  ASSUME NEW S, NEW s, NEW c, NEW its, NEW x
  PROVE  WithItem(Put(S, s, Section(c, its)), s, x) = Put(S, s, Section(c, Append(its, x)))
<1>. DEFINE a == Section(c, its)
            more == Append(its, x)
            b == Section(c, more)
            P == Put(S, s, a)
<1>1. P[s] = a /\ a.items = its
  BY DEF Put, Section
<1>2. [a EXCEPT !.items = more] = b
  BY DEF Section
<1>3. WithItem(P, s, x) = [P EXCEPT ![s] = b]
  BY <1>1, <1>2 DEF WithItem
<1>. HIDE DEF a, b
<1>4. [P EXCEPT ![s] = b] = Put(S, s, b)
  BY DEF Put
<1>. QED
  BY <1>3, <1>4 DEF a, b

\* An item is made of its parts.
LEMMA ItemIs ==
  ASSUME NEW item \in ItemType
  PROVE  /\ item = Item(item.key, item.value, item.comment)
         /\ item.key \in Key /\ item.value \in Value /\ item.comment \in FlaggedComment
BY DEF ItemType, Item

\* The lines of an item are lines.
LEMMA ItemLines ==
  ASSUME NEW item \in ItemType
  PROVE  itemLines(item) \in Seq(FileLine)
<1>1. commentLines(item.comment) \in Seq(FileLine)
  BY ItemIs, CommentLines
<1>2. ItemLine(item.key, item.value, <<>>) \in FileLine
  BY ItemIs DEF FileLine, Line, Behind
<1>. QED
  BY <1>1, <1>2 DEF itemLines

\* The lines of an item are read as the item.
LEMMA ReadOneItem ==
  ASSUME NEW S, NEW s, s # NoSection, NEW ls \in Seq(FileLine),
         readLines(ls) = Loop(S, s, <<>>), NEW item \in ItemType
  PROVE  readLines(ls \o itemLines(item))
           = Loop(WithItem(S, s, item), s, <<>>)
<1>. DEFINE c == item.comment
            t == commentLines(c)
            l == ItemLine(item.key, item.value, <<>>)
<1>1. /\ item = Item(item.key, item.value, c) /\ c \in FlaggedComment
      /\ item.key \in Key /\ item.value \in Value
  BY ItemIs
<1>2. t \in Seq(FileLine) /\ l \in FileLine
  <2>1. t \in Seq(FileLine)
    BY <1>1, CommentLines
  <2>2. l \in FileLine
    BY <1>1 DEF FileLine, Line, Behind
  <2>. QED
    BY <2>1, <2>2
<1>3. <<>> \in FlaggedComment /\ <<>> \o c = c
  BY <1>1, WithNone DEF FlaggedComment
<1>. HIDE DEF c
<1>4. readLines(ls \o t) = Loop(S, s, c)
  <2>1. readLines(ls \o t) = Loop(S, s, <<>> \o c)
    BY <1>1, <1>3, ReadComments
  <2>. QED
    BY <1>3, <2>1
<1>. HIDE DEF t, l
<1>5. ls \o itemLines(item) = Append(ls \o t, l)
  <2>1. itemLines(item) = Append(t, l)
    BY DEF itemLines, t, l, c
  <2>. QED
    BY <1>2, <2>1, AppendBehind
<1>6. ls \o t \in Seq(FileLine)
  BY <1>2
<1>7. readLines(ls \o itemLines(item)) = readLine(Loop(S, s, c), l)
  BY <1>2, <1>4, <1>5, <1>6, ReadMore
<1>8. readLine(Loop(S, s, c), l)
        = Loop(WithItem(S, s, Item(item.key, item.value, withBehind(c, <<>>))), s, <<>>)
  BY ReadItemLine DEF l
<1>9. Item(item.key, item.value, withBehind(c, <<>>)) = item
  BY <1>1 DEF withBehind
<1>. QED
  BY <1>7, <1>8, <1>9

partsOf(its) == [i \in 1..Len(its) |-> itemLines(its[i])]

\* The lines of items are lines, and those of one item more stand behind them.
LEMMA PartsOfItems ==
  ASSUME NEW its \in ItemsType
  PROVE  /\ partsOf(its) \in Seq(Seq(FileLine))
         /\ FlattenSeq(partsOf(its)) \in Seq(FileLine)
         /\ \A x \in ItemType :
              FlattenSeq(partsOf(Append(its, x))) = FlattenSeq(partsOf(its)) \o itemLines(x)
<1>1. Len(its) \in Nat /\ \A i \in 1..Len(its) : its[i] \in ItemType
  BY DEF ItemsType
<1>2. \A i \in 1..Len(its) : itemLines(its[i]) \in Seq(FileLine)
  BY <1>1, ItemLines
<1>3. partsOf(its) \in Seq(Seq(FileLine))
  BY <1>1, <1>2 DEF partsOf
<1>4. ASSUME NEW x \in ItemType
      PROVE  FlattenSeq(partsOf(Append(its, x))) = FlattenSeq(partsOf(its)) \o itemLines(x)
  <2>. DEFINE m == Append(its, x)
              p == Append(partsOf(its), itemLines(x))
  <2>1. /\ Len(m) = Len(its) + 1 /\ m[Len(its) + 1] = x
        /\ \A i \in 1..Len(its) : m[i] = its[i]
    BY OneMore DEF ItemsType
  <2>2. itemLines(x) \in Seq(FileLine)
    BY ItemLines
  <2>3. /\ Len(partsOf(its)) = Len(its)
        /\ \A i \in 1..Len(its) : partsOf(its)[i] = itemLines(its[i])
    BY <1>1 DEF partsOf
  <2>4. /\ p \in Seq(Seq(FileLine)) /\ Len(p) = Len(its) + 1
        /\ p[Len(its) + 1] = itemLines(x)
        /\ \A i \in 1..Len(its) : p[i] = itemLines(its[i])
    BY <1>3, <2>2, <2>3, OneMore
  <2>. HIDE DEF m, p
  <2>5. \A i \in 1..(Len(its) + 1) : p[i] = itemLines(m[i])
    <3>. SUFFICES ASSUME NEW i \in 1..(Len(its) + 1)
                  PROVE  p[i] = itemLines(m[i])
      OBVIOUS
    <3>1. CASE i = Len(its) + 1
      BY <2>1, <2>4, <3>1
    <3>2. CASE i \in 1..Len(its)
      BY <2>1, <2>4, <3>2
    <3>. QED
      BY <1>1, <3>1, <3>2
  <2>6. p = [i \in 1..(Len(its) + 1) |-> p[i]]
    BY <2>4
  <2>7. partsOf(m) = p
    BY <2>1, <2>5, <2>6, Zenon DEF partsOf
  <2>. QED
    BY <1>3, <2>2, <2>7, FlatMore DEF m, p
<1>. QED
  BY <1>3, <1>4, FlatTyped

\* The lines of items are read as the items, in their order.
LEMMA ReadItems ==
  ASSUME NEW S, NEW s, s # NoSection, NEW c, NEW ls \in Seq(FileLine),
         readLines(ls) = Loop(Put(S, s, Section(c, <<>>)), s, <<>>), NEW its \in ItemsType
  PROVE  readLines(ls \o FlattenSeq(partsOf(its))) = Loop(Put(S, s, Section(c, its)), s, <<>>)
<1>. DEFINE n == Len(its)
            F(k) == FlattenSeq(partsOf(SubSeq(its, 1, k)))
            Read(k) ==
              readLines(ls \o F(k)) = Loop(Put(S, s, Section(c, SubSeq(its, 1, k))), s, <<>>)
            T == {k \in Nat : k \in 0..n => Read(k)}
<1>0. n \in Nat
  BY DEF ItemsType
<1>1. SubSeq(its, 1, 0) = <<>> /\ SubSeq(its, 1, n) = its
  BY FirstParts DEF ItemsType
<1>2. 0 \in T
  <2>1. partsOf(<<>>) = <<>>
    BY DEF partsOf
  <2>2. F(0) = <<>>
    BY <1>1, <2>1, FlatNone
  <2>3. ls \o <<>> = ls
    BY WithNone
  <2>. QED
    BY <1>1, <2>2, <2>3
<1>3. ASSUME NEW k \in Nat, k \in T
      PROVE  k + 1 \in T
  <2>. SUFFICES ASSUME k + 1 \in 0..n
                PROVE  Read(k + 1)
    OBVIOUS
  <2>. DEFINE a == SubSeq(its, 1, k)
              x == its[k + 1]
  <2>0. k \in 0..(n - 1) /\ k \in 0..n /\ k + 1 \in 1..n
    BY <1>0
  <2>1. a \in ItemsType /\ x \in ItemType /\ SubSeq(its, 1, k + 1) = Append(a, x)
    BY <2>0, FirstParts DEF ItemsType
  <2>2. readLines(ls \o F(k)) = Loop(Put(S, s, Section(c, a)), s, <<>>)
    BY <1>3, <2>0
  <2>3. F(k + 1) = F(k) \o itemLines(x)
    BY <2>1, PartsOfItems
  <2>4. F(k) \in Seq(FileLine)
    BY <2>1, PartsOfItems
  <2>5. itemLines(x) \in Seq(FileLine)
    BY <2>1, ItemLines
  <2>. HIDE DEF F, a, x
  <2>6. ls \o F(k + 1) = (ls \o F(k)) \o itemLines(x) /\ ls \o F(k) \in Seq(FileLine)
    <3>. DEFINE u == F(k)
                w == itemLines(x)
    <3>1. u \in Seq(FileLine) /\ w \in Seq(FileLine)
      BY <2>4, <2>5
    <3>. HIDE DEF u, w
    <3>2. (ls \o u) \o w = ls \o (u \o w)
      BY <3>1, Associates, SMTT(30)
    <3>3. ls \o u \in Seq(FileLine)
      BY <3>1
    <3>. QED
      BY <2>3, <3>2, <3>3 DEF u, w
  <2>7. readLines(ls \o F(k + 1))
          = Loop(WithItem(Put(S, s, Section(c, a)), s, x), s, <<>>)
    <3>. DEFINE u == ls \o F(k)
                U == Put(S, s, Section(c, a))
    <3>1. u \in Seq(FileLine) /\ readLines(u) = Loop(U, s, <<>>) /\ x \in ItemType
      BY <2>1, <2>2, <2>6
    <3>. HIDE DEF u, U
    <3>2. readLines(u \o itemLines(x)) = Loop(WithItem(U, s, x), s, <<>>)
      BY <3>1, ReadOneItem
    <3>. QED
      BY <2>6, <3>2 DEF u, U
  <2>8. WithItem(Put(S, s, Section(c, a)), s, x) = Put(S, s, Section(c, Append(a, x)))
    BY PutItem
  <2>9. Append(a, x) = SubSeq(its, 1, k + 1)
    BY <2>1
  <2>. QED
    BY <2>7, <2>8, <2>9
<1>. HIDE DEF T
<1>4. n \in T
  BY <1>0, <1>2, <1>3, Inductive
<1>. HIDE DEF Read
<1>5. Read(n)
  BY <1>0, <1>4 DEF T
<1>. QED
  BY <1>1, <1>5 DEF Read

SectionType == [comment : FlaggedComment, items : ItemsType]

\* What setSectionComment makes of a comment without a flag.
AnyComment == FlaggedComment \cup {<< <<Bare>> >>}
AnySection == [comment : AnyComment, items : ItemsType]

\* A section is made of its comment and its items.
LEMMA SectionIs ==
  ASSUME NEW section \in SectionType
  PROVE  /\ section = Section(section.comment, section.items)
         /\ section.comment \in FlaggedComment /\ section.items \in ItemsType
         /\ section \in AnySection
BY DEF SectionType, AnySection, AnyComment, Section

\* The lines of a section are lines.
LEMMA SectionLines ==
  ASSUME NEW s \in Name \cup {Default}, NEW section \in AnySection
  PROVE  sectionLines(s, section) \in Seq(FileLine)
<1>. DEFINE c == section.comment
            a == commentLines(c)
            b == IF s = Default THEN <<>> ELSE <<Header(s, <<>>)>>
            d == FlattenSeq(partsOf(section.items))
<1>1. c \in AnyComment /\ section.items \in ItemsType
  BY DEF AnySection
<1>2. a \in Seq(FileLine)
  <2>1. CASE c \in FlaggedComment
    BY <2>1, CommentLines
  <2>2. CASE c = << <<Bare>> >>
    <3>1. Len(c) = 1 /\ c[1] = <<Bare>> /\ c[1][1] = Bare
      BY <2>2
    <3>2. a = [i \in 1..1 |-> Junk]
      BY <3>1 DEF commentLines
    <3>3. Junk \in FileLine
      BY DEF FileLine, Line
    <3>. QED
      BY <3>2, <3>3
  <2>. QED
    BY <1>1, <2>1, <2>2 DEF AnyComment
<1>3. d \in Seq(FileLine)
  BY <1>1, PartsOfItems
<1>4. Header(s, <<>>) \in FileLine
  BY DEF FileLine, Line, Behind
<1>5. b \in Seq(FileLine)
  BY <1>4
<1>6. sectionLines(s, section) = (a \o b) \o d
  BY Zenon DEF sectionLines, partsOf
<1>. HIDE DEF a, b, d
<1>. QED
  BY <1>2, <1>3, <1>5, <1>6

\* The lines of a named section are read as a new section.
LEMMA ReadNamed ==
  ASSUME NEW S, NEW s, NEW ls \in Seq(FileLine), readLines(ls) = Loop(S, s, <<>>),
         NEW n \in Name, n \notin DOMAIN S, NEW section \in SectionType
  PROVE  readLines(ls \o sectionLines(n, section)) = Loop(Put(S, n, section), n, <<>>)
<1>. DEFINE c == section.comment
            a == commentLines(c)
            h == Header(n, <<>>)
            d == FlattenSeq(partsOf(section.items))
            P == Put(S, n, Section(c, <<>>))
<1>1. n # Default /\ n # NoSection /\ n \in Name \cup {Default}
  BY NameAssumption
<1>2. section = Section(c, section.items) /\ c \in FlaggedComment /\ section.items \in ItemsType
  BY SectionIs
<1>3. a \in Seq(FileLine)
  BY <1>2, CommentLines
<1>4. d \in Seq(FileLine)
  BY <1>2, PartsOfItems
<1>5. h \in FileLine
  BY DEF FileLine, Line, Behind
<1>6. sectionLines(n, section) = (a \o <<h>>) \o d
  BY <1>1, Zenon DEF sectionLines, partsOf
<1>7. <<>> \in FlaggedComment /\ <<>> \o c = c
  BY <1>2, WithNone DEF FlaggedComment
<1>. HIDE DEF c
<1>8. readLines(ls \o a) = Loop(S, s, c)
  <2>. DEFINE e == <<>>
  <2>1. e \in FlaggedComment /\ readLines(ls) = Loop(S, s, e)
    BY <1>7
  <2>. HIDE DEF e
  <2>2. readLines(ls \o commentLines(c)) = Loop(S, s, e \o c)
    BY <1>2, <2>1, ReadComments
  <2>. QED
    BY <1>7, <2>2 DEF e
<1>. HIDE DEF a, h, d
<1>9. ls \o ((a \o <<h>>) \o d) = Append(ls \o a, h) \o d
  <2>. DEFINE b == <<h>>
              u == a \o b
              v == ls \o a
  <2>1. b \in Seq(FileLine) /\ u \in Seq(FileLine) /\ v \in Seq(FileLine)
    BY <1>3, <1>5
  <2>2. v \o b = ls \o u
    BY <1>3, <2>1, Associates, SMTT(30)
  <2>3. Append(v, h) = v \o b
    BY <1>5, <2>1, OneMore
  <2>. HIDE DEF b, u, v
  <2>4. (ls \o u) \o d = ls \o (u \o d)
    BY <1>4, <2>1, Associates, SMTT(30)
  <2>. QED
    BY <2>2, <2>3, <2>4 DEF b, u, v
<1>10. ls \o a \in Seq(FileLine) /\ Append(ls \o a, h) \in Seq(FileLine)
  BY <1>3, <1>5
<1>11. readLines(Append(ls \o a, h)) = Loop(P, n, <<>>)
  <2>1. readLines(Append(ls \o a, h)) = readLine(Loop(S, s, c), h)
    BY <1>5, <1>8, <1>10, ReadMore
  <2>2. readLine(Loop(S, s, c), h) = Loop(Put(S, n, NewSection(withBehind(c, <<>>))), n, <<>>)
    BY <1>1, ReadHeaderLine DEF h
  <2>3. NewSection(withBehind(c, <<>>)) = Section(c, <<>>)
    BY DEF NewSection, withBehind, Section
  <2>. QED
    BY <2>1, <2>2, <2>3
<1>12. readLines(Append(ls \o a, h) \o d) = Loop(Put(S, n, Section(c, section.items)), n, <<>>)
  <2>. DEFINE u == Append(ls \o a, h)
              its == section.items
  <2>1. u \in Seq(FileLine) /\ n # NoSection /\ its \in ItemsType
    BY <1>1, <1>2, <1>10
  <2>2. readLines(u) = Loop(Put(S, n, Section(c, <<>>)), n, <<>>)
    BY <1>11
  <2>. HIDE DEF u, its
  <2>3. readLines(u \o FlattenSeq(partsOf(its))) = Loop(Put(S, n, Section(c, its)), n, <<>>)
    BY <2>1, <2>2, ReadItems
  <2>. QED
    BY <2>3 DEF u, its, d
<1>. QED
  BY <1>2, <1>6, <1>9, <1>12

\* Before the first line the loop is in the default section.
LEMMA ReadingIs == Reading = Loop(Put(NoSections, Default, Section(<<>>, <<>>)), Default, <<>>)
BY DEF Reading, Loop, NewSection, NoComment, Section

\* The lines of the default section, which has no comment, are read as its items.
LEMMA ReadDefault ==
  ASSUME NEW section \in SectionType, section.comment = <<>>
  PROVE  readLines(sectionLines(Default, section))
           = Loop(Put(NoSections, Default, section), Default, <<>>)
<1>. DEFINE d == FlattenSeq(partsOf(section.items))
<1>1. section = Section(<<>>, section.items) /\ section.items \in ItemsType
  BY SectionIs
<1>2. d \in Seq(FileLine)
  BY <1>1, PartsOfItems
<1>3. commentLines(<<>>) = <<>>
  BY DEF commentLines
<1>4. sectionLines(Default, section) = (<<>> \o <<>>) \o d
  BY <1>3, Zenon DEF sectionLines, partsOf
<1>5. (<<>> \o <<>>) \o d = <<>> \o d
  BY <1>2, WithNone
<1>6. <<>> \in Seq(FileLine) /\ Default # NoSection
  BY NameAssumption
<1>7. readLines(<<>>) = Loop(Put(NoSections, Default, Section(<<>>, <<>>)), Default, <<>>)
  BY ReadNone, ReadingIs
<1>8. readLines(<<>> \o d)
        = Loop(Put(NoSections, Default, Section(<<>>, section.items)), Default, <<>>)
  <2>. DEFINE u == <<>>
              its == section.items
  <2>1. u \in Seq(FileLine) /\ its \in ItemsType
    BY <1>1, <1>6
  <2>2. readLines(u) = Loop(Put(NoSections, Default, Section(<<>>, <<>>)), Default, <<>>)
    BY <1>7
  <2>. HIDE DEF u, its
  <2>3. readLines(u \o FlattenSeq(partsOf(its)))
          = Loop(Put(NoSections, Default, Section(<<>>, its)), Default, <<>>)
    BY <1>6, <2>1, <2>2, ReadItems
  <2>. QED
    BY <2>3 DEF u, its
<1>. QED
  BY <1>1, <1>4, <1>5, <1>8

\* A finite set as a sequence: each of its elements once.
LEMMA SetInOrder ==
  ASSUME NEW S, IsFiniteSet(S)
  PROVE  /\ SetToSeq(S) \in Seq(S)
         /\ {SetToSeq(S)[i] : i \in 1..Len(SetToSeq(S))} = S
         /\ \A i, j \in 1..Len(SetToSeq(S)) : SetToSeq(S)[i] = SetToSeq(S)[j] => i = j
<1>. DEFINE n == Cardinality(S)
            q == SetToSeq(S)
<1>1. n \in Nat /\ ExistsBijection(1..n, S)
  BY FS_CardinalityType
<1>2. PICK f : f \in Bijection(1..n, S)
  BY <1>1 DEF ExistsBijection
<1>3. f \in [1..n -> S] /\ IsInjective(f)
  BY <1>2 DEF Bijection, Injection
<1>4. q \in [1..n -> S] /\ IsInjective(q)
  BY <1>3, Zenon DEF SetToSeq
<1>5. IsFiniteSet(1..n) /\ Cardinality(1..n) = n
  BY <1>1, FS_Interval
<1>6. q \in Injection(1..n, S)
  BY <1>4 DEF Injection
<1>7. q \in Surjection(1..n, S)
  BY <1>5, <1>6, FS_Injection
<1>. HIDE DEF q
<1>8. q \in Seq(S) /\ Len(q) = n
  BY <1>1, <1>4
<1>9. {q[i] : i \in 1..n} = S
  BY <1>4, <1>7 DEF Surjection
<1>10. \A i, j \in 1..n : q[i] = q[j] => i = j
  BY <1>4 DEF IsInjective
<1>. QED
  BY <1>8, <1>9, <1>10 DEF q

\* The sections there may be.
Sections(sections) ==
  /\ DOMAIN sections \subseteq Name \cup {Default}
  /\ IsFiniteSet(DOMAIN sections)
  /\ sections \in [DOMAIN sections -> AnySection]

\* Those that a saved file says everything of.
Writable(sections) ==
  /\ Sections(sections)
  /\ sections \in [DOMAIN sections -> SectionType]
  /\ Default \in DOMAIN sections => sections[Default].comment = <<>>

\* The section that is read back: the default section is always there.
ReadBack(sections, s) == IF s \in DOMAIN sections THEN sections[s] ELSE Section(<<>>, <<>>)

\* All of them.
AllReadBack(sections) == [s \in DOMAIN sections \cup {Default} |-> ReadBack(sections, s)]

\* The lines of the default section, if it is there.
LEMMA ReadDefaultLines ==
  ASSUME NEW sections, Writable(sections)
  PROVE  /\ defaultLines(sections) \in Seq(FileLine)
         /\ readLines(defaultLines(sections))
              = Loop(Put(NoSections, Default, ReadBack(sections, Default)), Default, <<>>)
<1>1. CASE Default \in DOMAIN sections
  <2>1. sections[Default] \in SectionType /\ sections[Default].comment = <<>>
    BY <1>1 DEF Writable
  <2>2. defaultLines(sections) = sectionLines(Default, sections[Default])
    BY <1>1 DEF defaultLines
  <2>3. ReadBack(sections, Default) = sections[Default]
    BY <1>1 DEF ReadBack
  <2>. QED
    BY <2>1, <2>2, <2>3, ReadDefault, SectionIs, SectionLines
<1>2. CASE Default \notin DOMAIN sections
  <2>1. defaultLines(sections) = <<>> /\ <<>> \in Seq(FileLine)
    BY <1>2 DEF defaultLines
  <2>2. ReadBack(sections, Default) = Section(<<>>, <<>>)
    BY <1>2 DEF ReadBack
  <2>. QED
    BY <2>1, <2>2, ReadNone, ReadingIs
<1>. QED
  BY <1>1, <1>2

\* The lines of each section.
partsOfNamed(sections, order) ==
  [i \in 1..Len(order) |-> sectionLines(order[i], sections[order[i]])]

\* The lines of named sections, and of one section more.
LEMMA PartsOfNamed ==
  ASSUME NEW sections, Sections(sections), NEW order \in Seq(DOMAIN sections)
  PROVE  /\ partsOfNamed(sections, order) \in Seq(Seq(FileLine))
         /\ namedLines(sections, order) \in Seq(FileLine)
         /\ \A s \in DOMAIN sections :
              namedLines(sections, Append(order, s))
                = namedLines(sections, order) \o sectionLines(s, sections[s])
<1>1. Len(order) \in Nat /\ \A i \in 1..Len(order) : order[i] \in DOMAIN sections
  OBVIOUS
<1>2. \A s \in DOMAIN sections : sectionLines(s, sections[s]) \in Seq(FileLine)
  BY SectionLines DEF Sections
<1>3. \A i \in 1..Len(order) : sectionLines(order[i], sections[order[i]]) \in Seq(FileLine)
  BY <1>1, <1>2
<1>4. partsOfNamed(sections, order) \in Seq(Seq(FileLine))
  BY <1>1, <1>3 DEF partsOfNamed
<1>5. namedLines(sections, order) = FlattenSeq(partsOfNamed(sections, order))
  BY Zenon DEF namedLines, partsOfNamed
<1>6. namedLines(sections, order) \in Seq(FileLine)
  BY <1>4, <1>5, FlatTyped
<1>7. ASSUME NEW s \in DOMAIN sections
      PROVE  namedLines(sections, Append(order, s))
               = namedLines(sections, order) \o sectionLines(s, sections[s])
  <2>. DEFINE n == Len(order)
              k == n + 1
              m == Append(order, s)
              L(x) == sectionLines(x, sections[x])
              p == Append(partsOfNamed(sections, order), L(s))
  <2>1. Len(m) = k /\ m[k] = s /\ \A i \in 1..n : m[i] = order[i]
    BY OneMore
  <2>2. L(s) \in Seq(FileLine)
    BY <1>2
  <2>3. /\ Len(partsOfNamed(sections, order)) = n
        /\ \A i \in 1..n : partsOfNamed(sections, order)[i] = L(order[i])
    BY <1>1 DEF partsOfNamed
  <2>. HIDE DEF L
  <2>4. /\ p \in Seq(Seq(FileLine)) /\ Len(p) = k /\ p[k] = L(s)
        /\ \A i \in 1..n : p[i] = L(order[i])
    BY <1>4, <2>2, <2>3, OneMore
  <2>. HIDE DEF m, p
  <2>5. ASSUME NEW i \in 1..k
        PROVE  p[i] = L(m[i])
    <3>1. CASE i = k
      BY <2>1, <2>4, <3>1
    <3>2. CASE i \in 1..n
      BY <2>1, <2>4, <3>2
    <3>. QED
      BY <1>1, <3>1, <3>2
  <2>6. p = [i \in 1..k |-> p[i]]
    BY <2>4
  <2>7. p = [i \in 1..Len(m) |-> L(m[i])]
    BY <2>1, <2>5, <2>6, Zenon
  <2>8. namedLines(sections, m) = FlattenSeq(p)
    BY <2>7, Zenon DEF namedLines, L
  <2>9. FlattenSeq(p) = FlattenSeq(partsOfNamed(sections, order)) \o L(s)
    BY <1>4, <2>2, FlatMore DEF p
  <2>. QED
    BY <1>5, <2>8, <2>9 DEF m, L
<1>. QED
  BY <1>4, <1>6, <1>7

\* The sections read after those of the first k names.
UpTo(sections, order, k) ==
  [s \in {Default} \cup {order[i] : i \in 1..k} |-> ReadBack(sections, s)]

\* One section more.
LEMMA UpToMore ==
  ASSUME NEW sections, NEW order, NEW k \in Nat, order[k + 1] # Default
  PROVE  UpTo(sections, order, k + 1)
           = Put(UpTo(sections, order, k), order[k + 1], ReadBack(sections, order[k + 1]))
<1>. DEFINE s == order[k + 1]
            D == {Default} \cup {order[i] : i \in 1..k}
            E == {Default} \cup {order[i] : i \in 1..(k + 1)}
<1>1. 1..(k + 1) = 1..k \cup {k + 1}
  OBVIOUS
<1>2. E = D \cup {s}
  BY <1>1
<1>3. /\ DOMAIN UpTo(sections, order, k) = D
      /\ \A x \in D : UpTo(sections, order, k)[x] = ReadBack(sections, x)
  BY DEF UpTo
<1>4. UpTo(sections, order, k + 1) = [x \in E |-> ReadBack(sections, x)]
  BY Zenon DEF UpTo
<1>. HIDE DEF s, D, E
<1>5. Put(UpTo(sections, order, k), s, ReadBack(sections, s))
        = [x \in E |-> ReadBack(sections, x)]
  BY <1>2, <1>3 DEF Put
<1>. QED
  BY <1>4, <1>5 DEF s

\* The order of the sections.
LEMMA SectionsInOrder ==
  ASSUME NEW sections, Sections(sections)
  PROVE  LET order == inOrder(sections)
             N == DOMAIN sections \ {Default}
         IN /\ order \in Seq(N) /\ order \in Seq(DOMAIN sections) /\ Len(order) \in Nat
            /\ {order[i] : i \in 1..Len(order)} = N
            /\ \A i, j \in 1..Len(order) : order[i] = order[j] => i = j
<1>. DEFINE N == DOMAIN sections \ {Default}
            order == inOrder(sections)
<1>1. IsFiniteSet(N)
  BY FS_Subset DEF Sections
<1>2. order = SetToSeq(N)
  BY DEF inOrder
<1>3. N \subseteq DOMAIN sections
  OBVIOUS
<1>. HIDE DEF N, order
<1>4. /\ order \in Seq(N)
      /\ {order[i] : i \in 1..Len(order)} = N
      /\ \A i, j \in 1..Len(order) : order[i] = order[j] => i = j
  BY <1>1, <1>2, SetInOrder
<1>5. Len(order) \in Nat /\ order \in Seq(DOMAIN sections)
  BY <1>3, <1>4
<1>. QED
  BY <1>4, <1>5 DEF N, order

\* What is saved are lines.
LEMMA SavedTyped ==
  ASSUME NEW sections, Sections(sections)
  PROVE  savedLines(sections) \in Seq(FileLine)
<1>1. namedLines(sections, inOrder(sections)) \in Seq(FileLine)
  BY SectionsInOrder, PartsOfNamed
<1>2. defaultLines(sections) \in Seq(FileLine)
  <2>1. CASE Default \in DOMAIN sections
    BY <2>1, SectionLines DEF defaultLines, Sections
  <2>2. CASE Default \notin DOMAIN sections
    BY <2>2 DEF defaultLines
  <2>. QED
    BY <2>1, <2>2
<1>. QED
  BY <1>1, <1>2 DEF savedLines

\* What was saved is read to its end, and all sections are back.
LEMMA ReadSaved ==
  ASSUME NEW sections, Writable(sections)
  PROVE  \E s : readLines(savedLines(sections)) = Loop(AllReadBack(sections), s, <<>>)
<1>. DEFINE N == DOMAIN sections \ {Default}
            order == inOrder(sections)
            n == Len(order)
            first == defaultLines(sections)
            P(k) == SubSeq(order, 1, k)
            U(k) == UpTo(sections, order, k)
            Read(k) ==
              \E s : readLines(first \o namedLines(sections, P(k))) = Loop(U(k), s, <<>>)
            T == {k \in Nat : k \in 0..n => Read(k)}
<1>1. Sections(sections) /\ sections \in [DOMAIN sections -> SectionType]
  BY DEF Writable
<1>2. /\ order \in Seq(N) /\ n \in Nat /\ {order[i] : i \in 1..n} = N
      /\ \A i, j \in 1..n : order[i] = order[j] => i = j
  BY <1>1, SectionsInOrder
<1>3. order \in Seq(DOMAIN sections)
  BY <1>2
<1>4. first \in Seq(FileLine)
  BY ReadDefaultLines
<1>5. SubSeq(order, 1, 0) = <<>> /\ SubSeq(order, 1, n) = order
  BY <1>3, FirstParts
<1>. HIDE DEF order, first
<1>6. 0 \in T
  <2>1. partsOfNamed(sections, <<>>) = <<>>
    BY DEF partsOfNamed
  <2>2. namedLines(sections, <<>>) = FlattenSeq(partsOfNamed(sections, <<>>))
    BY Zenon DEF namedLines, partsOfNamed
  <2>3. first \o namedLines(sections, P(0)) = first
    BY <1>4, <1>5, <2>1, <2>2, FlatNone, WithNone
  <2>4. Put(NoSections, Default, ReadBack(sections, Default)) = U(0)
    <3>1. {Default} \cup {order[i] : i \in 1..0} = {Default}
      OBVIOUS
    <3>2. U(0) = [s \in {Default} |-> ReadBack(sections, s)]
      BY <3>1, Zenon DEF UpTo
    <3>3. DOMAIN NoSections = {}
      BY DEF NoSections
    <3>. QED
      BY <3>2, <3>3 DEF Put
  <2>5. readLines(first) = Loop(U(0), Default, <<>>)
    BY <2>4, ReadDefaultLines DEF first
  <2>. HIDE DEF U, P
  <2>6. Read(0)
    BY <2>3, <2>5
  <2>. QED
    BY <2>6
<1>7. ASSUME NEW k \in Nat, k \in T
      PROVE  k + 1 \in T
  <2>. SUFFICES ASSUME k + 1 \in 0..n
                PROVE  Read(k + 1)
    OBVIOUS
  <2>. DEFINE x == order[k + 1]
              more == sectionLines(x, sections[x])
  <2>0. k \in 0..(n - 1) /\ k \in 0..n /\ k + 1 \in 1..n
    BY <1>2
  <2>1. P(k) \in Seq(DOMAIN sections) /\ x \in DOMAIN sections /\ P(k + 1) = Append(P(k), x)
    BY <1>3, <2>0, FirstParts
  <2>2. x \in N /\ x \in Name /\ sections[x] \in SectionType
    <3>1. x \in N
      BY <1>2, <2>0
    <3>. QED
      BY <1>1, <3>1 DEF Sections
  <2>3. x \notin DOMAIN U(k)
    <3>1. \A i \in 1..k : i \in 1..n /\ i # k + 1
      BY <2>0
    <3>2. \A i \in 1..k : order[i] # order[k + 1]
      BY <1>2, <2>0, <3>1
    <3>3. DOMAIN U(k) = {Default} \cup {order[i] : i \in 1..k}
      BY DEF UpTo
    <3>. QED
      BY <2>2, <3>2, <3>3
  <2>4. PICK s : readLines(first \o namedLines(sections, P(k))) = Loop(U(k), s, <<>>)
    BY <1>7, <2>0
  <2>5. /\ namedLines(sections, P(k)) \in Seq(FileLine)
        /\ namedLines(sections, P(k + 1)) = namedLines(sections, P(k)) \o more
    BY <1>1, <2>1, PartsOfNamed
  <2>6. more \in Seq(FileLine)
    BY <2>2, SectionIs, SectionLines
  <2>. DEFINE u == namedLines(sections, P(k))
              w == namedLines(sections, P(k + 1))
  <2>7. first \o w = (first \o u) \o more /\ first \o u \in Seq(FileLine)
    <3>1. u \in Seq(FileLine) /\ w = u \o more
      BY <2>5
    <3>. HIDE DEF u, w, more
    <3>2. (first \o u) \o more = first \o (u \o more)
      BY <1>4, <2>6, <3>1, Associates, SMTT(30)
    <3>3. first \o u \in Seq(FileLine)
      BY <1>4, <3>1
    <3>. QED
      BY <3>1, <3>2, <3>3
  <2>8. readLines((first \o u) \o more) = Loop(Put(U(k), x, sections[x]), x, <<>>)
    <3>. DEFINE v == first \o u
                S == U(k)
                y == sections[x]
    <3>1. v \in Seq(FileLine) /\ readLines(v) = Loop(S, s, <<>>)
      BY <2>4, <2>7
    <3>2. x \in Name /\ x \notin DOMAIN S /\ y \in SectionType
      BY <2>2, <2>3
    <3>. HIDE DEF v, S, y, x
    <3>3. readLines(v \o sectionLines(x, y)) = Loop(Put(S, x, y), x, <<>>)
      BY <3>1, <3>2, ReadNamed
    <3>. QED
      BY <3>3 DEF v, S, y
  <2>9. Put(U(k), x, sections[x]) = U(k + 1)
    <3>1. x # Default
      BY <2>2
    <3>2. ReadBack(sections, x) = sections[x]
      BY <2>1 DEF ReadBack
    <3>3. U(k + 1) = Put(U(k), x, ReadBack(sections, x))
      BY <3>1, UpToMore
    <3>. QED
      BY <3>2, <3>3
  <2>10. readLines(first \o w) = Loop(U(k + 1), x, <<>>)
    BY <2>7, <2>8, <2>9
  <2>. HIDE DEF U, P, x
  <2>. QED
    BY <2>10
<1>. HIDE DEF T
<1>8. n \in T
  BY <1>2, <1>6, <1>7, Inductive
<1>9. Read(n)
  <2>. HIDE DEF Read
  <2>. QED
    BY <1>2, <1>8 DEF T
<1>10. U(n) = AllReadBack(sections)
  <2>1. {Default} \cup {order[i] : i \in 1..n} = DOMAIN sections \cup {Default}
    BY <1>2
  <2>. QED
    BY <2>1, Zenon DEF UpTo, AllReadBack
<1>11. savedLines(sections) = first \o namedLines(sections, order)
  BY DEF savedLines, first, order
<1>. QED
  BY <1>5, <1>9, <1>10, <1>11

------------------------------------------------------------------------------
(* What load makes of any line *)

\* A blank line, a line that cannot be parsed, and a header without its bracket.
LEMMA ReadOther ==
  ASSUME NEW S, NEW s, NEW c
  PROVE  /\ readLine(Loop(S, s, c), Blank) = Loop(S, s, c)
         /\ readLine(Loop(S, s, c), Junk) = Loop(S, s, <<>>)
         /\ readLine(Loop(S, s, c), Unclosed) = Return(Loop(S, s, c), "RET_ERR")
<1>. DEFINE r == Loop(S, s, c)
            e == [r EXCEPT !.comment = <<>>]
<1>1. /\ r = [x \in Fields |-> r[x]]
      /\ r.sections = S /\ r.section = s /\ r.comment = c /\ r.returned = "no"
  BY LoopHas
<1>2. Blank.kind = "blank" /\ Junk.kind = "junk" /\ Unclosed.kind = "unclosed"
  BY DEF Blank, Junk, Unclosed
<1>. HIDE DEF r
<1>3. readLine(r, Blank) = r
  BY <1>1, <1>2 DEF readLine
<1>4. readLine(r, Unclosed) = Return(r, "RET_ERR")
  BY <1>1, <1>2 DEF readLine
<1>5. readLine(r, Junk) = e
  BY <1>1, <1>2 DEF readLine, NoComment
<1>6. e = [x \in Fields |-> e[x]]
  BY <1>1 DEF Fields
<1>7. e.sections = S /\ e.section = s /\ e.comment = <<>> /\ e.returned = "no"
  BY <1>1 DEF Fields
<1>. HIDE DEF e
<1>8. e = Loop(S, s, <<>>)
  BY <1>6, <1>7, LoopIs
<1>. QED
  BY <1>3, <1>4, <1>5, <1>8 DEF r

\* A header without a name.
LEMMA ReadNoName ==
  ASSUME NEW S, NEW s, NEW c, NEW b
  PROVE  readLine(Loop(S, s, c), Header(Default, b)) = Loop(S, NoSection, withBehind(c, b))
<1>. DEFINE r == Loop(S, s, c)
            l == Header(Default, b)
            d == withBehind(c, b)
            e == [r EXCEPT !.section = NoSection, !.comment = d]
<1>1. /\ r = [x \in Fields |-> r[x]]
      /\ r.sections = S /\ r.section = s /\ r.comment = c /\ r.returned = "no"
  BY LoopHas
<1>2. l.kind = "header" /\ l.name = Default /\ l.behind = b
  BY DEF Header
<1>. HIDE DEF r, l
<1>3. readLine(r, l) = readHeader(r, l)
  BY <1>1, <1>2 DEF readLine
<1>4. readHeader(r, l) = e
  BY <1>1, <1>2, Zenon DEF readHeader
<1>. HIDE DEF d
<1>5. e = [x \in Fields |-> e[x]]
  BY <1>1 DEF Fields
<1>6. e.sections = S /\ e.section = NoSection /\ e.comment = d /\ e.returned = "no"
  BY <1>1 DEF Fields
<1>. HIDE DEF e
<1>7. e = Loop(S, NoSection, d)
  BY <1>5, <1>6, LoopIs
<1>. QED
  BY <1>3, <1>4, <1>7, Zenon DEF r, l, d

\* The second header of a name.
LEMMA ReadTwice ==
  ASSUME NEW S, NEW s, NEW c, NEW n, n # Default, n \in DOMAIN S, NEW b
  PROVE  readLine(Loop(S, s, c), Header(n, b)) = Return(Loop(S, s, c), "RET_ERR")
<1>. DEFINE r == Loop(S, s, c)
            l == Header(n, b)
<1>1. /\ r = [x \in Fields |-> r[x]]
      /\ r.sections = S /\ r.section = s /\ r.comment = c /\ r.returned = "no"
  BY LoopHas
<1>2. l.kind = "header" /\ l.name = n
  BY DEF Header
<1>. HIDE DEF r, l
<1>3. readLine(r, l) = readHeader(r, l)
  BY <1>1, <1>2 DEF readLine
<1>4. readHeader(r, l) = Return(r, "RET_ERR")
  BY <1>1, <1>2, Zenon DEF readHeader
<1>. QED
  BY <1>3, <1>4 DEF r, l

\* An item that has no section.
LEMMA ReadNowhere ==
  ASSUME NEW S, NEW s, s = NoSection, NEW c, NEW k, NEW v, NEW b
  PROVE  readLine(Loop(S, s, c), ItemLine(k, v, b)) = Return(Loop(S, s, c), "none")
<1>. DEFINE r == Loop(S, s, c)
            l == ItemLine(k, v, b)
<1>1. /\ r = [x \in Fields |-> r[x]]
      /\ r.sections = S /\ r.section = s /\ r.comment = c /\ r.returned = "no"
  BY LoopHas
<1>2. l.kind = "item"
  BY DEF ItemLine
<1>. HIDE DEF r, l
<1>3. readLine(r, l) = readItem(r, l)
  BY <1>1, <1>2 DEF readLine
<1>4. readItem(r, l) = Return(r, "none")
  BY <1>1, Zenon DEF readItem
<1>. QED
  BY <1>3, <1>4 DEF r, l

\* Where the reading has ended the rest of the file does not matter.
LEMMA ReadEnded ==
  ASSUME NEW r, r.returned # "no", NEW l
  PROVE  readLine(r, l) = r
BY DEF readLine

\* What returning changes.
LEMMA Returned ==
  ASSUME NEW r, r = [x \in Fields |-> r[x]], NEW w
  PROVE  /\ Return(r, w) = [x \in Fields |-> Return(r, w)[x]]
         /\ Return(r, w).sections = r.sections /\ Return(r, w).section = r.section
         /\ Return(r, w).comment = r.comment /\ Return(r, w).returned = w
BY DEF Return, Fields

\* What stands behind an item or a header keeps a comment a comment.
LEMMA BehindTyped ==
  ASSUME NEW c \in FlaggedComment, NEW b \in Behind
  PROVE  withBehind(c, b) \in FlaggedComment
<1>1. CASE b = <<>>
  BY <1>1 DEF withBehind
<1>2. CASE b # <<>>
  <2>. DEFINE L == Seq(Text) \ {<<>>}
  <2>1. b \in L
    <3>1. PICK t \in Text : b = <<t>>
      BY <1>2 DEF Behind
    <3>. QED
      BY <3>1
  <2>2. CASE c = <<>>
    BY <1>2, <2>1, <2>2 DEF withBehind, NoComment, FlaggedComment
  <2>3. CASE c # <<>>
    <3>. DEFINE n == Len(c)
                x == c[n] \o b
    <3>1. c \in Seq(L) /\ n \in Nat /\ n \in 1..n
      BY <2>3 DEF FlaggedComment
    <3>2. c[n] \in L
      BY <3>1
    <3>3. x \in L
      BY <2>1, <3>2
    <3>4. withBehind(c, b) = [c EXCEPT ![n] = x]
      BY <1>2, <2>3 DEF withBehind, NoComment
    <3>. HIDE DEF x, L
    <3>5. [c EXCEPT ![n] = x] \in Seq(L)
      BY <3>1, <3>3, ExceptSeq
    <3>. QED
      BY <3>4, <3>5 DEF FlaggedComment, L
  <2>. QED
    BY <2>2, <2>3
<1>. QED
  BY <1>1, <1>2

\* What the loop has read at any moment: sections without anything that a saved
\* file does not keep, among them the default one and the current one.
LoopOK(r) ==
  /\ r = [x \in Fields |-> r[x]]
  /\ Writable(r.sections) /\ Default \in DOMAIN r.sections
  /\ r.section \in DOMAIN r.sections \cup {NoSection}
  /\ r.comment \in FlaggedComment
  /\ r.returned \in {"no", "RET_ERR", "none"}

\* While it goes on.
LoopsOn(S, s, c) ==
  /\ Writable(S) /\ Default \in DOMAIN S
  /\ s \in DOMAIN S \cup {NoSection}
  /\ c \in FlaggedComment

\* A loop that goes on is one of these.
LEMMA LoopGoesOn ==
  ASSUME NEW r, LoopOK(r), r.returned = "no"
  PROVE  r = Loop(r.sections, r.section, r.comment) /\ LoopsOn(r.sections, r.section, r.comment)
BY LoopIs DEF LoopOK, LoopsOn

\* And these are such loops.
LEMMA LoopsOK ==
  ASSUME NEW S, NEW s, NEW c, LoopsOn(S, s, c)
  PROVE  /\ LoopOK(Loop(S, s, c))
         /\ \A w \in {"RET_ERR", "none"} : LoopOK(Return(Loop(S, s, c), w))
<1>. DEFINE r == Loop(S, s, c)
<1>1. /\ r = [x \in Fields |-> r[x]]
      /\ r.sections = S /\ r.section = s /\ r.comment = c /\ r.returned = "no"
  BY LoopHas
<1>. HIDE DEF r
<1>2. LoopOK(r)
  BY <1>1 DEF LoopOK, LoopsOn
<1>3. ASSUME NEW w \in {"RET_ERR", "none"}
      PROVE  LoopOK(Return(r, w))
  <2>. DEFINE e == Return(r, w)
  <2>1. /\ e = [x \in Fields |-> e[x]]
        /\ e.sections = S /\ e.section = s /\ e.comment = c /\ e.returned = w
    BY <1>1, Returned
  <2>. HIDE DEF e
  <2>2. LoopOK(e)
    BY <2>1 DEF LoopOK, LoopsOn
  <2>. QED
    BY <2>2 DEF e
<1>. QED
  BY <1>2, <1>3 DEF r

\* Putting a section among the others.
LEMMA PutWritable ==
  ASSUME NEW S, Writable(S), NEW n \in Name \cup {Default}, NEW section \in SectionType,
         n = Default => section.comment = <<>>
  PROVE  /\ Writable(Put(S, n, section))
         /\ DOMAIN Put(S, n, section) = DOMAIN S \cup {n}
<1>. DEFINE P == Put(S, n, section)
<1>1. DOMAIN P = DOMAIN S \cup {n} /\ \A x \in DOMAIN P : P[x] = IF x = n THEN section ELSE S[x]
  BY DEF Put
<1>2. P = [x \in DOMAIN P |-> P[x]]
  BY DEF Put
<1>. HIDE DEF P
<1>3. IsFiniteSet(DOMAIN P) /\ DOMAIN P \subseteq Name \cup {Default}
  BY <1>1, FS_AddElement DEF Writable, Sections
<1>4. \A x \in DOMAIN P : P[x] \in SectionType
  BY <1>1 DEF Writable
<1>5. \A x \in DOMAIN P : P[x] \in AnySection
  BY <1>4, SectionIs
<1>6. P \in [DOMAIN P -> SectionType] /\ P \in [DOMAIN P -> AnySection]
  BY <1>2, <1>4, <1>5
<1>7. Default \in DOMAIN P => P[Default].comment = <<>>
  BY <1>1 DEF Writable
<1>. QED
  BY <1>1, <1>3, <1>6, <1>7 DEF Writable, Sections, P

\* An item more is the section put anew.
LEMMA WithItemIs ==
  ASSUME NEW S, Writable(S), NEW s \in DOMAIN S, NEW item \in ItemType
  PROVE  /\ WithItem(S, s, item) = Put(S, s, Section(S[s].comment, Append(S[s].items, item)))
         /\ Section(S[s].comment, Append(S[s].items, item)) \in SectionType
<1>. DEFINE a == S[s]
            more == Append(a.items, item)
            b == Section(a.comment, more)
<1>1. a \in SectionType /\ S = [x \in DOMAIN S |-> S[x]]
  BY DEF Writable
<1>2. a = Section(a.comment, a.items) /\ a.comment \in FlaggedComment /\ a.items \in ItemsType
  BY <1>1, SectionIs
<1>3. more \in ItemsType
  BY <1>2, OneMore DEF ItemsType
<1>4. b \in SectionType
  <2>. HIDE DEF more
  <2>. QED
    BY <1>2, <1>3 DEF Section, SectionType
<1>5. [a EXCEPT !.items = more] = b
  <2>. DEFINE c == a.comment
              i == a.items
  <2>. HIDE DEF a, more, c, i
  <2>1. a = Section(c, i)
    BY <1>2 DEF c, i
  <2>2. [Section(c, i) EXCEPT !.items = more] = Section(c, more)
    BY DEF Section
  <2>. QED
    BY <2>1, <2>2 DEF c
<1>6. WithItem(S, s, item) = [S EXCEPT ![s] = b]
  BY <1>5 DEF WithItem
<1>. HIDE DEF b
<1>7. [S EXCEPT ![s] = b] = Put(S, s, b)
  <2>1. DOMAIN S \cup {s} = DOMAIN S
    OBVIOUS
  <2>2. Put(S, s, b) = [x \in DOMAIN S |-> IF x = s THEN b ELSE S[x]]
    BY <2>1 DEF Put
  <2>. QED
    BY <1>1, <2>2
<1>. QED
  BY <1>4, <1>6, <1>7 DEF b

\* The lines there are.
LEMMA KindsOfLine ==
  ASSUME NEW l \in FileLine
  PROVE  \/ l \in {Blank, Junk, Unclosed}
         \/ \E t \in Seq(Text) \ {<<>>} : l = CommentLine(t)
         \/ \E n \in Name \cup {Default}, b \in Behind : l = Header(n, b)
         \/ \E k \in Key, v \in Value, b \in Behind : l = ItemLine(k, v, b)
<1>1. ASSUME NEW t \in Text, l = CommentLine(<<t>>)
      PROVE  \E u \in Seq(Text) \ {<<>>} : l = CommentLine(u)
  <2>1. <<t>> \in Seq(Text) \ {<<>>}
    OBVIOUS
  <2>. QED
    BY <1>1, <2>1
<1>2. \/ l \in {Blank, Junk, Unclosed}
      \/ \E t \in Seq(Text) \ {<<>>} : l = CommentLine(t)
      \/ \E t \in Text : l = CommentLine(<<t>>)
      \/ \E n \in Name \cup {Default}, b \in Behind : l = Header(n, b)
      \/ \E k \in Key, v \in Value, b \in Behind : l = ItemLine(k, v, b)
  BY DEF FileLine, Line
<1>. QED
  BY <1>1, <1>2, Zenon

\* Whatever the line, the loop stays as it should be.
LEMMA LoopStep ==
  ASSUME NEW r, LoopOK(r), NEW l \in FileLine
  PROVE  LoopOK(readLine(r, l))
<1>1. CASE r.returned # "no"
  BY <1>1, ReadEnded
<1>2. CASE r.returned = "no"
  <2>. DEFINE S == r.sections
              s == r.section
              c == r.comment
  <2>1. r = Loop(S, s, c) /\ LoopsOn(S, s, c)
    BY <1>2, LoopGoesOn
  <2>. HIDE DEF S, s, c
  <2>2. <<>> \in FlaggedComment
    BY DEF FlaggedComment
  <2>3. CASE l \in {Blank, Junk, Unclosed}
    <3>1. LoopsOn(S, s, <<>>)
      BY <2>1, <2>2 DEF LoopsOn
    <3>. QED
      BY <2>1, <2>3, <3>1, ReadOther, LoopsOK
  <2>4. ASSUME NEW t \in Seq(Text) \ {<<>>}, l = CommentLine(t)
        PROVE  LoopOK(readLine(r, l))
    <3>1. Append(c, t) \in FlaggedComment
      BY <2>1, OneMore DEF LoopsOn, FlaggedComment
    <3>2. LoopsOn(S, s, Append(c, t))
      BY <2>1, <3>1 DEF LoopsOn
    <3>3. readLine(r, l) = Loop(S, s, Append(c, t))
      BY <2>1, <2>4, ReadCommentLine
    <3>. QED
      BY <3>2, <3>3, LoopsOK
  <2>5. ASSUME NEW n \in Name \cup {Default}, NEW b \in Behind, l = Header(n, b)
        PROVE  LoopOK(readLine(r, l))
    <3>. DEFINE d == withBehind(c, b)
    <3>1. d \in FlaggedComment
      BY <2>1, BehindTyped DEF LoopsOn
    <3>2. CASE n = Default
      <4>1. readLine(r, l) = Loop(S, NoSection, d)
        BY <2>1, <2>5, <3>2, ReadNoName
      <4>. HIDE DEF d
      <4>2. LoopsOn(S, NoSection, d)
        BY <2>1, <3>1 DEF LoopsOn
      <4>. QED
        BY <4>1, <4>2, LoopsOK
    <3>3. CASE n # Default /\ n \in DOMAIN S
      <4>1. readLine(r, l) = Return(r, "RET_ERR")
        BY <2>1, <2>5, <3>3, ReadTwice
      <4>. QED
        BY <2>1, <4>1, LoopsOK
    <3>4. CASE n # Default /\ n \notin DOMAIN S
      <4>. DEFINE P == Put(S, n, NewSection(d))
      <4>1. readLine(r, l) = Loop(P, n, <<>>)
        BY <2>1, <2>5, <3>4, ReadHeaderLine
      <4>. HIDE DEF d
      <4>2. NewSection(d) \in SectionType
        BY <3>1 DEF NewSection, SectionType, ItemsType
      <4>3. Writable(P) /\ DOMAIN P = DOMAIN S \cup {n}
        BY <2>1, <3>4, <4>2, PutWritable DEF LoopsOn
      <4>. HIDE DEF P
      <4>4. LoopsOn(P, n, <<>>)
        BY <2>1, <2>2, <4>3 DEF LoopsOn
      <4>. QED
        BY <4>1, <4>4, LoopsOK
    <3>. QED
      BY <3>2, <3>3, <3>4
  <2>6. ASSUME NEW k \in Key, NEW v \in Value, NEW b \in Behind, l = ItemLine(k, v, b)
        PROVE  LoopOK(readLine(r, l))
    <3>. DEFINE d == withBehind(c, b)
                x == Item(k, v, d)
                section == Section(S[s].comment, Append(S[s].items, x))
                P == WithItem(S, s, x)
    <3>1. d \in FlaggedComment
      BY <2>1, BehindTyped DEF LoopsOn
    <3>2. CASE s = NoSection
      <4>1. readLine(r, l) = Return(r, "none")
        BY <2>1, <2>6, <3>2, ReadNowhere
      <4>. QED
        BY <2>1, <4>1, LoopsOK
    <3>3. CASE s # NoSection
      <4>1. readLine(r, l) = Loop(P, s, <<>>)
        BY <2>1, <2>6, <3>3, ReadItemLine
      <4>. HIDE DEF d
      <4>2. x \in ItemType
        BY <3>1 DEF Item, ItemType
      <4>. HIDE DEF x
      <4>3. s \in DOMAIN S /\ Writable(S)
        BY <2>1, <3>3 DEF LoopsOn
      <4>4. P = Put(S, s, section) /\ section \in SectionType
        BY <4>2, <4>3, WithItemIs
      <4>5. s \in Name \cup {Default} /\ (s = Default => section.comment = <<>>)
        BY <4>3 DEF Writable, Sections, Section
      <4>. HIDE DEF P, section
      <4>6. Writable(P) /\ DOMAIN P = DOMAIN S \cup {s}
        BY <4>3, <4>4, <4>5, PutWritable
      <4>7. LoopsOn(P, s, <<>>)
        BY <2>1, <2>2, <4>6 DEF LoopsOn
      <4>. QED
        BY <4>1, <4>7, LoopsOK
    <3>. QED
      BY <3>2, <3>3
  <2>. QED
    BY <2>3, <2>4, <2>5, <2>6, KindsOfLine
<1>. QED
  BY <1>1, <1>2

\* Before the first line it is.
LEMMA ReadingOK == LoopOK(Reading)
<1>. DEFINE section == Section(<<>>, <<>>)
            P == Put(NoSections, Default, section)
<1>1. <<>> \in FlaggedComment /\ section.comment = <<>>
  BY DEF FlaggedComment, Section
<1>2. section \in SectionType
  BY <1>1 DEF Section, SectionType, ItemsType
<1>3. DOMAIN NoSections = {} /\ NoSections = [x \in {} |-> NoSections[x]]
  BY DEF NoSections
<1>4. Writable(NoSections)
  <2>1. IsFiniteSet({})
    BY FS_EmptySet
  <2>2. NoSections \in [{} -> SectionType] /\ NoSections \in [{} -> AnySection]
    BY DEF NoSections
  <2>. QED
    BY <1>3, <2>1, <2>2 DEF Writable, Sections
<1>5. Writable(P) /\ DOMAIN P = {Default}
  BY <1>1, <1>2, <1>3, <1>4, PutWritable
<1>. HIDE DEF P
<1>6. LoopsOn(P, Default, <<>>)
  BY <1>1, <1>5 DEF LoopsOn
<1>7. Reading = Loop(P, Default, <<>>)
  BY ReadingIs DEF P
<1>. QED
  BY <1>6, <1>7, LoopsOK

\* And so it is after all lines.
LEMMA ReadTyped ==
  ASSUME NEW ls \in Seq(FileLine)
  PROVE  LoopOK(readLines(ls))
<1>. DEFINE n == Len(ls)
            P(k) == SubSeq(ls, 1, k)
            T == {k \in Nat : k \in 0..n => LoopOK(readLines(P(k)))}
<1>1. n \in Nat /\ P(0) = <<>> /\ P(n) = ls
  BY FirstParts
<1>2. 0 \in T
  BY <1>1, ReadNone, ReadingOK
<1>3. ASSUME NEW k \in Nat, k \in T
      PROVE  k + 1 \in T
  <2>. SUFFICES ASSUME k + 1 \in 0..n
                PROVE  LoopOK(readLines(P(k + 1)))
    OBVIOUS
  <2>1. k \in 0..(n - 1) /\ k \in 0..n
    BY <1>1
  <2>2. P(k) \in Seq(FileLine) /\ ls[k + 1] \in FileLine /\ P(k + 1) = Append(P(k), ls[k + 1])
    BY <2>1, FirstParts
  <2>3. LoopOK(readLines(P(k)))
    BY <1>3, <2>1
  <2>. HIDE DEF P
  <2>4. readLines(P(k + 1)) = readLine(readLines(P(k)), ls[k + 1])
    BY <2>2, ReadMore
  <2>. QED
    BY <2>2, <2>3, <2>4, LoopStep
<1>. HIDE DEF T
<1>4. n \in T
  BY <1>1, <1>2, <1>3, Inductive
<1>5. LoopOK(readLines(P(n)))
  BY <1>1, <1>4 DEF T
<1>. QED
  BY <1>1, <1>5

\* What load leaves.
LEMMA LoadedTyped ==
  ASSUME NEW ls \in Seq(FileLine)
  PROVE  /\ Writable(loadedFrom(ls).sections) /\ Default \in DOMAIN loadedFrom(ls).sections
         /\ loadedFrom(ls).sections = readLines(ls).sections
         /\ loadedFrom(ls).returned
              = IF readLines(ls).returned = "no" THEN "RET_OK" ELSE readLines(ls).returned
         /\ loadedFrom(ls).returned \in {"RET_OK", "RET_ERR", "none"}
<1>. DEFINE r == readLines(ls)
            e == loadedFrom(ls)
<1>1. e = IF r.returned = "no" THEN Return(r, "RET_OK") ELSE r
  BY DEF loadedFrom
<1>2. LoopOK(r)
  BY ReadTyped
<1>. HIDE DEF r, e
<1>3. r = [x \in Fields |-> r[x]]
  BY <1>2 DEF LoopOK
<1>4. /\ e.sections = r.sections
      /\ e.returned = IF r.returned = "no" THEN "RET_OK" ELSE r.returned
  BY <1>1, <1>3, Returned
<1>5. /\ Writable(r.sections) /\ Default \in DOMAIN r.sections
      /\ r.returned \in {"no", "RET_ERR", "none"}
  BY <1>2 DEF LoopOK
<1>. QED
  BY <1>4, <1>5 DEF r, e

------------------------------------------------------------------------------
(* The calls *)

\* The inductive invariant.
IniInv ==
  /\ iniFile = NoIniFile \/ iniFile \in Seq(FileLine)
  /\ Sections(sections_)
  /\ result \in {"RET_OK", "RET_ERR", "none"}
  /\ ops \in 0..MaxOps

\* Where the first item of a key is.
LEMMA FirstOfKey ==
  ASSUME NEW its \in ItemsType, NEW key
  PROVE  firstOfKey(its, key) \in 0..Len(its)
<1>. DEFINE I == {i \in 1..Len(its) : its[i].key = key}
            at == firstOfKey(its, key)
<1>1. at = IF I # {} THEN Min(I) ELSE 0
  BY Zenon DEF firstOfKey, SelectInSeq
<1>2. Len(its) \in Nat
  BY DEF ItemsType
<1>. HIDE DEF at
<1>3. CASE I = {}
  BY <1>1, <1>2, <1>3 DEF at
<1>4. CASE I # {}
  <2>1. I \subseteq Nat
    OBVIOUS
  <2>2. \E i \in I : \A j \in I : i <= j
    BY <1>4, <2>1, LeastOf
  <2>. HIDE DEF I
  <2>3. Min(I) \in I
    BY <2>2, Zenon DEF Min
  <2>4. at \in I
    BY <1>1, <1>4, <2>3
  <2>. QED
    BY <1>2, <2>4 DEF I, at
<1>. QED
  BY <1>3, <1>4

\* Any section may be put.
LEMMA PutSections ==
  ASSUME NEW S, Sections(S), NEW n \in Name \cup {Default}, NEW section \in AnySection
  PROVE  Sections(Put(S, n, section))
<1>. DEFINE P == Put(S, n, section)
<1>1. DOMAIN P = DOMAIN S \cup {n} /\ \A x \in DOMAIN P : P[x] = IF x = n THEN section ELSE S[x]
  BY DEF Put
<1>2. P = [x \in DOMAIN P |-> P[x]]
  BY DEF Put
<1>. HIDE DEF P
<1>3. IsFiniteSet(DOMAIN P) /\ DOMAIN P \subseteq Name \cup {Default}
  BY <1>1, FS_AddElement DEF Sections
<1>4. \A x \in DOMAIN P : P[x] \in AnySection
  BY <1>1 DEF Sections
<1>5. P \in [DOMAIN P -> AnySection]
  BY <1>2, <1>4
<1>. QED
  BY <1>3, <1>5 DEF Sections, P

\* Any comment, and any items, may be given to a section.
LEMMA SectionChanged ==
  ASSUME NEW section \in AnySection
  PROVE  /\ \A c \in AnyComment : [section EXCEPT !.comment = c] \in AnySection
         /\ \A its \in ItemsType : [section EXCEPT !.items = its] \in AnySection
BY DEF AnySection

\* Changing a section is putting it anew.
LEMMA SectionsChanged ==
  ASSUME NEW S, Sections(S), NEW s \in DOMAIN S, NEW section \in AnySection
  PROVE  Sections([S EXCEPT ![s] = section])
<1>. DEFINE P == [S EXCEPT ![s] = section]
<1>1. DOMAIN P = DOMAIN S /\ P \in [DOMAIN S -> AnySection]
  BY DEF Sections
<1>. QED
  BY <1>1 DEF Sections

\* The comments of setValue carry their flag.
LEMMA FlaggedTyped == Flagged \subseteq FlaggedComment
<1>. SUFFICES ASSUME NEW c \in Flagged
              PROVE  c \in FlaggedComment
  OBVIOUS
<1>1. CASE c = <<>>
  BY <1>1 DEF FlaggedComment
<1>2. CASE c # <<>>
  <2>1. PICK t \in Text : c = << <<t>> >>
    BY <1>2 DEF Flagged, NoComment
  <2>2. <<t>> \in Seq(Text) \ {<<>>}
    OBVIOUS
  <2>. QED
    BY <2>1, <2>2 DEF FlaggedComment
<1>. QED
  BY <1>1, <1>2

\* load.
LEMMA LoadInv ==
  ASSUME IniInv, load
  PROVE  IniInv'
<1>1. UNCHANGED iniFile /\ ops' \in 0..MaxOps
  BY BoundAssumption DEF load, Calls, IniInv
<1>2. CASE iniFile = NoIniFile
  <2>1. sections_' = NoSections /\ result' = "RET_ERR"
    BY <1>2 DEF load
  <2>2. Sections(NoSections)
    <3>1. IsFiniteSet({})
      BY FS_EmptySet
    <3>2. NoSections \in [{} -> AnySection] /\ DOMAIN NoSections = {}
      BY DEF NoSections
    <3>. QED
      BY <3>1, <3>2 DEF Sections
  <2>. QED
    BY <1>1, <2>1, <2>2 DEF IniInv
<1>3. CASE iniFile # NoIniFile
  <2>1. sections_' = loadedFrom(iniFile).sections /\ result' = loadedFrom(iniFile).returned
    BY <1>3 DEF load
  <2>2. iniFile \in Seq(FileLine)
    BY <1>3 DEF IniInv
  <2>3. Sections(sections_')
    BY <2>1, <2>2, LoadedTyped DEF Writable
  <2>4. result' \in {"RET_OK", "RET_ERR", "none"}
    BY <2>1, <2>2, LoadedTyped
  <2>. QED
    BY <1>1, <2>3, <2>4 DEF IniInv
<1>. QED
  BY <1>2, <1>3

\* saveas.
LEMMA SaveasInv ==
  ASSUME IniInv, saveas
  PROVE  IniInv'
<1>1. UNCHANGED sections_ /\ ops' \in 0..MaxOps /\ result' = "RET_OK"
  BY BoundAssumption DEF saveas, Calls, IniInv
<1>2. iniFile' = savedLines(sections_)
  BY DEF saveas
<1>3. iniFile' \in Seq(FileLine)
  BY <1>2, SavedTyped DEF IniInv
<1>. QED
  BY <1>1, <1>3 DEF IniInv

\* setValue.
LEMMA SetValueInv ==
  ASSUME IniInv, NEW s \in Name \cup {Default}, NEW key \in Key, NEW value \in Value,
         NEW comment \in Flagged, setValue(s, key, value, comment)
  PROVE  IniInv'
<1>. DEFINE section == IF hasSection(sections_, s) THEN sections_[s] ELSE NewSection(NoComment)
            old == section.items
            at == firstOfKey(old, key)
            item == Item(key, value, comment)
            new == IF at = 0 THEN Append(old, item) ELSE [old EXCEPT ![at] = item]
            changed == [section EXCEPT !.items = new]
<1>1. UNCHANGED iniFile /\ ops' \in 0..MaxOps /\ result' = "RET_OK"
  BY BoundAssumption DEF setValue, Calls, IniInv
<1>2. sections_' = Put(sections_, s, changed)
  BY DEF setValue
<1>3. section \in AnySection
  <2>1. <<>> \in AnyComment /\ <<>> \in ItemsType
    BY DEF AnyComment, FlaggedComment, ItemsType
  <2>2. NewSection(NoComment) \in AnySection
    BY <2>1 DEF NewSection, NoComment, AnySection
  <2>3. hasSection(sections_, s) => sections_[s] \in AnySection
    BY DEF hasSection, IniInv, Sections
  <2>. QED
    BY <2>2, <2>3
<1>4. item \in ItemType
  <2>1. comment \in FlaggedComment
    BY FlaggedTyped
  <2>. QED
    BY <2>1 DEF Item, ItemType
<1>. HIDE DEF section, item
<1>5. old \in ItemsType
  BY <1>3 DEF AnySection
<1>6. at \in 0..Len(old)
  BY <1>5, FirstOfKey
<1>. HIDE DEF old, at
<1>7. new \in ItemsType
  <2>1. CASE at = 0
    BY <1>4, <1>5, <2>1, OneMore DEF ItemsType
  <2>2. CASE at # 0
    <3>1. old \in Seq(ItemType) /\ at \in 1..Len(old)
      BY <1>5, <1>6, <2>2 DEF ItemsType
    <3>2. [old EXCEPT ![at] = item] \in Seq(ItemType)
      BY <1>4, <3>1, ExceptSeq
    <3>. QED
      BY <2>2, <3>2 DEF ItemsType
  <2>. QED
    BY <2>1, <2>2
<1>. HIDE DEF new
<1>8. changed \in AnySection
  BY <1>3, <1>7, SectionChanged
<1>. HIDE DEF changed
<1>9. Sections(sections_')
  BY <1>2, <1>8, PutSections DEF IniInv
<1>. QED
  BY <1>1, <1>9 DEF IniInv

\* setSectionComment.
LEMMA SetSectionCommentInv ==
  ASSUME IniInv, NEW s \in Name \cup {Default}, NEW comment \in Flagged \cup {<< <<Bare>> >>},
         setSectionComment(s, comment)
  PROVE  IniInv'
<1>. DEFINE changed == [sections_[s] EXCEPT !.comment = comment]
<1>1. UNCHANGED iniFile /\ ops' \in 0..MaxOps
  BY BoundAssumption DEF setSectionComment, Calls, IniInv
<1>2. CASE hasSection(sections_, s)
  <2>1. sections_' = [sections_ EXCEPT ![s] = changed] /\ result' = "RET_OK"
    BY <1>2 DEF setSectionComment
  <2>2. comment \in AnyComment
    BY FlaggedTyped DEF AnyComment
  <2>3. s \in DOMAIN sections_ /\ sections_[s] \in AnySection
    BY <1>2 DEF hasSection, IniInv, Sections
  <2>4. changed \in AnySection
    BY <2>2, <2>3, SectionChanged
  <2>. HIDE DEF changed
  <2>5. Sections(sections_')
    BY <2>1, <2>3, <2>4, SectionsChanged DEF IniInv
  <2>. QED
    BY <1>1, <2>1, <2>5 DEF IniInv
<1>3. CASE ~hasSection(sections_, s)
  <2>1. UNCHANGED sections_ /\ result' = "RET_ERR"
    BY <1>3 DEF setSectionComment
  <2>. QED
    BY <1>1, <2>1 DEF IniInv
<1>. QED
  BY <1>2, <1>3

\* deleteKey.
LEMMA DeleteKeyInv ==
  ASSUME IniInv, NEW s \in Name \cup {Default}, NEW key \in Key, deleteKey(s, key)
  PROVE  IniInv'
<1>. DEFINE old == itemsOf(sections_, s)
            at == firstOfKey(old, key)
            new == RemoveAt(sections_[s].items, at)
            changed == [sections_[s] EXCEPT !.items = new]
<1>1. UNCHANGED <<iniFile, result>> /\ ops' \in 0..MaxOps /\ at # 0
  BY BoundAssumption DEF deleteKey, Calls, IniInv
<1>2. sections_' = [sections_ EXCEPT ![s] = changed]
  BY DEF deleteKey
<1>3. old \in ItemsType
  BY DEF itemsOf, hasSection, IniInv, Sections, AnySection, ItemsType
<1>4. at \in 0..Len(old)
  BY <1>3, FirstOfKey
<1>5. s \in DOMAIN sections_
  <2>. SUFFICES ASSUME s \notin DOMAIN sections_
                PROVE  FALSE
    OBVIOUS
  <2>1. Len(old) = 0
    BY DEF itemsOf, hasSection
  <2>. QED
    BY <1>1, <1>4, <2>1
<1>6. sections_[s] \in AnySection /\ sections_[s].items = old
  BY <1>5 DEF itemsOf, hasSection, IniInv, Sections
<1>. HIDE DEF old, at
<1>7. new \in ItemsType
  <2>1. new = SubSeq(old, 1, at - 1) \o SubSeq(old, at + 1, Len(old))
    BY <1>6 DEF RemoveAt
  <2>2. old \in Seq(ItemType) /\ at \in 1..Len(old)
    BY <1>1, <1>3, <1>4 DEF ItemsType
  <2>3. /\ SubSeq(old, 1, at - 1) \in Seq(ItemType)
        /\ SubSeq(old, at + 1, Len(old)) \in Seq(ItemType)
    BY <2>2
  <2>. QED
    BY <2>1, <2>3 DEF ItemsType
<1>. HIDE DEF new
<1>8. changed \in AnySection
  BY <1>6, <1>7, SectionChanged
<1>. HIDE DEF changed
<1>9. Sections(sections_')
  BY <1>2, <1>5, <1>8, SectionsChanged DEF IniInv
<1>. QED
  BY <1>1, <1>9 DEF IniInv

\* deleteSection.
LEMMA DeleteSectionInv ==
  ASSUME IniInv, NEW s \in Name \cup {Default}, deleteSection(s)
  PROVE  IniInv'
<1>. DEFINE D == DOMAIN sections_ \ {s}
            P == [x \in D |-> sections_[x]]
<1>1. UNCHANGED <<iniFile, result>> /\ ops' \in 0..MaxOps
  BY BoundAssumption DEF deleteSection, Calls, IniInv
<1>2. sections_' = P
  BY DEF deleteSection
<1>3. IsFiniteSet(D) /\ D \subseteq Name \cup {Default}
  BY FS_Subset DEF IniInv, Sections
<1>4. P \in [D -> AnySection] /\ DOMAIN P = D
  BY DEF IniInv, Sections
<1>5. Sections(sections_')
  BY <1>2, <1>3, <1>4 DEF Sections
<1>. QED
  BY <1>1, <1>5 DEF IniInv

\* Before the first call.
LEMMA IniInitInv == IniInit => IniInv
<1>. SUFFICES ASSUME IniInit
              PROVE  IniInv
  OBVIOUS
<1>1. iniFile = NoIniFile \/ iniFile \in Seq(FileLine)
  <2>. SUFFICES ASSUME iniFile # NoIniFile
                PROVE  iniFile \in Seq(FileLine)
    OBVIOUS
  <2>1. PICK n \in 0..MaxLines : iniFile \in [1..n -> Line]
    BY DEF IniInit
  <2>2. n \in Nat
    BY BoundAssumption
  <2>3. Line \subseteq FileLine
    BY DEF FileLine
  <2>. QED
    BY <2>1, <2>2, <2>3
<1>2. Sections(NoSections)
  <2>1. IsFiniteSet({})
    BY FS_EmptySet
  <2>2. NoSections \in [{} -> AnySection] /\ DOMAIN NoSections = {}
    BY DEF NoSections
  <2>. QED
    BY <2>1, <2>2 DEF Sections
<1>. QED
  BY <1>1, <1>2, BoundAssumption DEF IniInit, IniInv

\* Every call keeps the invariant.
LEMMA IniStepInv == IniInv /\ [IniNext]_iniVars => IniInv'
<1>. SUFFICES ASSUME IniInv, [IniNext]_iniVars
              PROVE  IniInv'
  OBVIOUS
<1>1. CASE load
  BY <1>1, LoadInv
<1>2. CASE saveas
  BY <1>2, SaveasInv
<1>3. ASSUME NEW s \in Name \cup {Default}, NEW key \in Key, NEW value \in Value,
             NEW comment \in Flagged, setValue(s, key, value, comment)
      PROVE  IniInv'
  BY <1>3, SetValueInv
<1>4. ASSUME NEW s \in Name \cup {Default}, NEW comment \in Flagged \cup {<< <<Bare>> >>},
             setSectionComment(s, comment)
      PROVE  IniInv'
  BY <1>4, SetSectionCommentInv
<1>5. ASSUME NEW s \in Name \cup {Default}, NEW key \in Key, deleteKey(s, key)
      PROVE  IniInv'
  BY <1>5, DeleteKeyInv
<1>6. ASSUME NEW s \in Name \cup {Default}, deleteSection(s)
      PROVE  IniInv'
  BY <1>6, DeleteSectionInv
<1>7. CASE UNCHANGED iniVars
  BY <1>7 DEF iniVars, IniInv
<1>. QED
  BY <1>1, <1>2, <1>3, <1>4, <1>5, <1>6, <1>7 DEF IniNext

\* The invariant holds.
THEOREM IniInvariance == IniSpec => []IniInv
<1>. QED
  BY IniInitInv, IniStepInv, PTL DEF IniSpec

\* Every variable keeps its type: comments are lines of texts, and the sections are
\* those of the names there are.
THEOREM IniTypeCorrect == IniSpec => []IniTypeOK
<1>1. FlaggedComment \subseteq Comment /\ << <<Bare>> >> \in Comment
  <2>1. Seq(Text) \subseteq Seq(Text \cup {Bare})
    OBVIOUS
  <2>2. Seq(Text) \ {<<>>} \subseteq Seq(Text \cup {Bare}) \ {<<>>}
    BY <2>1
  <2>3. <<Bare>> \in Seq(Text \cup {Bare}) \ {<<>>}
    OBVIOUS
  <2>. DEFINE A == Seq(Text) \ {<<>>}
              B == Seq(Text \cup {Bare}) \ {<<>>}
  <2>4. A \subseteq B /\ <<Bare>> \in B
    BY <2>2, <2>3
  <2>. HIDE DEF A, B
  <2>5. Seq(A) \subseteq Seq(B) /\ << <<Bare>> >> \in Seq(B)
    BY <2>4
  <2>. QED
    BY <2>5 DEF FlaggedComment, Comment, A, B
<1>2. IniInv => IniTypeOK
  <2>. SUFFICES ASSUME IniInv
                PROVE  IniTypeOK
    OBVIOUS
  <2>1. ASSUME NEW s \in DOMAIN sections_
        PROVE  sections_[s].comment \in Comment /\ sections_[s].items \in ItemsType
    BY <1>1 DEF IniInv, Sections, AnySection, AnyComment
  <2>2. ASSUME NEW s \in DOMAIN sections_, NEW i \in DOMAIN sections_[s].items
        PROVE  LET item == sections_[s].items[i] IN
               item.key \in Key /\ item.value \in Value /\ item.comment \in Comment
    <3>1. sections_[s].items[i] \in ItemType
      BY <2>1 DEF ItemsType
    <3>. QED
      BY <1>1, <3>1, ItemIs
  <2>. QED
    BY <2>1, <2>2 DEF IniInv, Sections, IniTypeOK
<1>. QED
  BY <1>2, IniInvariance, PTL

------------------------------------------------------------------------------
(* What is saved is read *)

\* Comments that can be read are comments with flags.
LEMMA ReadableWritable ==
  ASSUME IniInv, Readable
  PROVE  Writable(sections_)
<1>1. Sections(sections_)
  BY DEF IniInv
<1>2. ASSUME NEW s \in DOMAIN sections_
      PROVE  sections_[s] \in SectionType
  <2>. DEFINE c == sections_[s].comment
  <2>1. sections_[s] \in AnySection
    BY <1>1 DEF Sections
  <2>2. c \in AnyComment
    BY <2>1 DEF AnySection
  <2>3. c # << <<Bare>> >>
    <3>. SUFFICES ASSUME c = << <<Bare>> >>
                  PROVE  FALSE
      OBVIOUS
    <3>1. 1 \in DOMAIN c /\ c[1][1] = Bare
      OBVIOUS
    <3>2. \A i \in DOMAIN c : c[i][1] # Bare
      BY DEF Readable
    <3>. QED
      BY <3>1, <3>2
  <2>4. c \in FlaggedComment
    BY <2>2, <2>3 DEF AnyComment
  <2>. HIDE DEF c
  <2>. QED
    BY <2>1, <2>4 DEF AnySection, SectionType, c
<1>3. sections_ \in [DOMAIN sections_ -> SectionType]
  BY <1>1, <1>2 DEF Sections
<1>4. Default \in DOMAIN sections_ => sections_[Default].comment = <<>>
  BY DEF Readable, NoComment
<1>. QED
  BY <1>1, <1>3, <1>4 DEF Writable

\* What was saved is read to its end: all sections are back.
LEMMA LoadedSaved ==
  ASSUME NEW S, Writable(S)
  PROVE  /\ loadedFrom(savedLines(S)).sections = AllReadBack(S)
         /\ loadedFrom(savedLines(S)).returned = "RET_OK"
<1>. DEFINE r == readLines(savedLines(S))
<1>1. PICK s : r = Loop(AllReadBack(S), s, <<>>)
  BY ReadSaved
<1>2. r = [x \in Fields |-> r[x]] /\ r.sections = AllReadBack(S) /\ r.returned = "no"
  BY <1>1, LoopHas
<1>3. loadedFrom(savedLines(S)) = Return(r, "RET_OK")
  BY <1>2 DEF loadedFrom
<1>. HIDE DEF r
<1>. QED
  BY <1>2, <1>3, Returned

\* Whether the default section is there makes no difference to its items.
LEMMA ItemsBack ==
  ASSUME NEW S, NEW s \in Name \cup {Default}
  PROVE  itemsOf(AllReadBack(S), s) = itemsOf(S, s)
<1>1. CASE s \in DOMAIN S
  BY <1>1 DEF itemsOf, hasSection, AllReadBack, ReadBack
<1>2. CASE s \notin DOMAIN S /\ s = Default
  <2>1. Section(<<>>, <<>>).items = <<>>
    BY DEF Section
  <2>. QED
    BY <1>2, <2>1 DEF itemsOf, hasSection, AllReadBack, ReadBack
<1>3. CASE s \notin DOMAIN S /\ s # Default
  BY <1>3 DEF itemsOf, hasSection, AllReadBack
<1>. QED
  BY <1>1, <1>2, <1>3

\* What saveas writes load reads: whatever was loaded, set and deleted before, the
\* saved file is read to its end, and each reader of the sections answers as before.
THEOREM SavedIsRead == IniSpec => []WhatIsSavedIsRead
<1>1. IniInv => WhatIsSavedIsRead
  <2>. DEFINE r == loadedFrom(savedLines(sections_))
              R == AllReadBack(sections_)
  <2>. SUFFICES ASSUME IniInv, Readable
                PROVE  /\ r.returned = "RET_OK"
                       /\ \A s \in Name :
                            /\ hasSection(r.sections, s) = hasSection(sections_, s)
                            /\ getSectionComment(r.sections, s) = getSectionComment(sections_, s)
                       /\ \A s \in Name \cup {Default}, key \in Key :
                            /\ getValues(r.sections, s, key) = getValues(sections_, s, key)
                            /\ getValue(r.sections, s, key) = getValue(sections_, s, key)
                            /\ hasKey(r.sections, s, key) = hasKey(sections_, s, key)
    BY DEF WhatIsSavedIsRead
  <2>1. r.sections = R /\ r.returned = "RET_OK"
    BY ReadableWritable, LoadedSaved
  <2>2. ASSUME NEW s \in Name
        PROVE  /\ hasSection(R, s) = hasSection(sections_, s)
               /\ getSectionComment(R, s) = getSectionComment(sections_, s)
    <3>1. s # Default
      BY NameAssumption
    <3>2. (s \in DOMAIN R) = (s \in DOMAIN sections_)
      BY <3>1 DEF AllReadBack
    <3>3. s \in DOMAIN sections_ => R[s] = sections_[s]
      BY DEF AllReadBack, ReadBack
    <3>. HIDE DEF R
    <3>. QED
      BY <3>2, <3>3 DEF hasSection, getSectionComment
  <2>3. ASSUME NEW s \in Name \cup {Default}, NEW key \in Key
        PROVE  /\ getValues(R, s, key) = getValues(sections_, s, key)
               /\ getValue(R, s, key) = getValue(sections_, s, key)
               /\ hasKey(R, s, key) = hasKey(sections_, s, key)
    <3>1. itemsOf(R, s) = itemsOf(sections_, s)
      BY ItemsBack
    <3>. HIDE DEF R
    <3>. QED
      BY <3>1 DEF getValues, getValue, hasKey
  <2>. HIDE DEF r, R
  <2>. QED
    BY <2>1, <2>2, <2>3
<1>. QED
  BY <1>1, IniInvariance, PTL

------------------------------------------------------------------------------
(* What a file says *)

\* The greatest of some numbers is one of them.
LEMMA GreatestIn ==
  ASSUME NEW n \in Nat, NEW S \in SUBSET (0..n), S # {}
  PROVE  Max(S) \in S
<1>. DEFINE T == {k \in Nat : \E x \in S : k = n - x}
<1>1. T # {}
  <2>1. PICK x \in S : TRUE
    OBVIOUS
  <2>2. n - x \in Nat
    OBVIOUS
  <2>. QED
    BY <2>2
<1>2. PICK i \in T : \A j \in T : i <= j
  BY <1>1, LeastOf
<1>3. PICK x \in S : i = n - x
  BY <1>2
<1>4. \A y \in S : x >= y
  <2>. SUFFICES ASSUME NEW y \in S
                PROVE  x >= y
    OBVIOUS
  <2>1. n - y \in T /\ x \in 0..n /\ y \in 0..n
    OBVIOUS
  <2>2. i <= n - y
    BY <1>2, <2>1
  <2>. QED
    BY <1>3, <2>1, <2>2
<1>. QED
  BY <1>4, Zenon DEF Max

\* Which it is.
LEMMA GreatestIs ==
  ASSUME NEW S \in SUBSET Nat, NEW x \in S, \A y \in S : y <= x
  PROVE  Max(S) = x
<1>. DEFINE m == Max(S)
<1>1. x \in S /\ \A y \in S : x >= y
  OBVIOUS
<1>2. m \in S /\ \A y \in S : m >= y
  BY <1>1, Zenon DEF Max
<1>. HIDE DEF m
<1>3. m = x
  BY <1>1, <1>2
<1>. QED
  BY <1>3 DEF m

\* And which is the least.
LEMMA LeastIs ==
  ASSUME NEW S \in SUBSET Nat, NEW x \in S, \A y \in S : x <= y
  PROVE  Min(S) = x
<1>. DEFINE m == Min(S)
<1>1. x \in S /\ \A y \in S : x <= y
  OBVIOUS
<1>2. m \in S /\ \A y \in S : m <= y
  BY <1>1, Zenon DEF Min
<1>. HIDE DEF m
<1>3. m = x
  BY <1>1, <1>2
<1>. QED
  BY <1>3 DEF m

\* The texts of a line.
LEMMA TextsTyped ==
  ASSUME NEW l \in FileLine
  PROVE  TextsOf(l) \in Seq(Text)
<1>1. CASE l \in {Blank, Junk, Unclosed}
  BY <1>1 DEF TextsOf, Blank, Junk, Unclosed
<1>2. ASSUME NEW t \in Seq(Text) \ {<<>>}, l = CommentLine(t)
      PROVE  TextsOf(l) \in Seq(Text)
  BY <1>2 DEF TextsOf, CommentLine
<1>3. ASSUME NEW b \in Behind
      PROVE  b \in Seq(Text)
  <2>1. CASE b = <<>>
    BY <2>1
  <2>2. CASE b # <<>>
    <3>1. PICK t \in Text : b = <<t>>
      BY <2>2 DEF Behind
    <3>. QED
      BY <3>1
  <2>. QED
    BY <2>1, <2>2
<1>4. ASSUME NEW n \in Name \cup {Default}, NEW b \in Behind, l = Header(n, b)
      PROVE  TextsOf(l) \in Seq(Text)
  BY <1>3, <1>4 DEF TextsOf, Header
<1>5. ASSUME NEW k \in Key, NEW v \in Value, NEW b \in Behind, l = ItemLine(k, v, b)
      PROVE  TextsOf(l) \in Seq(Text)
  BY <1>3, <1>5 DEF TextsOf, ItemLine
<1>. QED
  BY <1>1, <1>2, <1>4, <1>5, KindsOfLine

\* What is before a line is before it in every file that begins with the same lines.
LEMMA SameBefore ==
  ASSUME NEW p, NEW q, NEW i \in Nat, \A j \in 1..(i - 1) : p[j] = q[j]
  PROVE  /\ lastStop(p, i) = lastStop(q, i)
         /\ lastHeader(p, i) = lastHeader(q, i)
<1>1. {j \in 1..(i - 1) : Stops(p[j])} = {j \in 1..(i - 1) : Stops(q[j])}
  OBVIOUS
<1>2. {j \in 1..(i - 1) : IsHeader(p[j])} = {j \in 1..(i - 1) : IsHeader(q[j])}
  OBVIOUS
<1>. QED
  BY <1>1, <1>2, Zenon DEF lastStop, lastHeader

\* Where they are.
LEMMA LastIn ==
  ASSUME NEW ls, NEW i \in Nat \ {0}
  PROVE  /\ lastStop(ls, i) \in 0..(i - 1)
         /\ lastHeader(ls, i) \in 0..(i - 1)
<1>. DEFINE A == {0} \cup {j \in 1..(i - 1) : Stops(ls[j])}
            B == {0} \cup {j \in 1..(i - 1) : IsHeader(ls[j])}
<1>1. /\ A \in SUBSET (0..(i - 1)) /\ A # {}
      /\ B \in SUBSET (0..(i - 1)) /\ B # {}
      /\ i - 1 \in Nat
  OBVIOUS
<1>. HIDE DEF A, B
<1>2. Max(A) \in A /\ Max(B) \in B
  BY <1>1, GreatestIn
<1>3. Max(A) \in 0..(i - 1) /\ Max(B) \in 0..(i - 1)
  BY <1>1, <1>2
<1>. QED
  BY <1>3, Zenon DEF A, B, lastStop, lastHeader

\* The line before is the last one, or the last one is before it.
LEMMA LastNext ==
  ASSUME NEW ls, NEW i \in Nat \ {0}
  PROVE  /\ lastStop(ls, i + 1) = IF Stops(ls[i]) THEN i ELSE lastStop(ls, i)
         /\ lastHeader(ls, i + 1) = IF IsHeader(ls[i]) THEN i ELSE lastHeader(ls, i)
<1>. DEFINE A(k) == {0} \cup {j \in 1..(k - 1) : Stops(ls[j])}
            B(k) == {0} \cup {j \in 1..(k - 1) : IsHeader(ls[j])}
<1>0. A(i + 1) \in SUBSET Nat /\ B(i + 1) \in SUBSET Nat
  OBVIOUS
<1>1. \A k : lastStop(ls, k) = Max(A(k)) /\ lastHeader(ls, k) = Max(B(k))
  BY Zenon DEF lastStop, lastHeader
<1>2. ASSUME Stops(ls[i])
      PROVE  Max(A(i + 1)) = i
  <2>1. i \in A(i + 1) /\ \A y \in A(i + 1) : y <= i
    BY <1>2
  <2>. HIDE DEF A
  <2>. QED
    BY <1>0, <2>1, GreatestIs
<1>3. ASSUME ~Stops(ls[i])
      PROVE  A(i + 1) = A(i)
  BY <1>3
<1>4. ASSUME IsHeader(ls[i])
      PROVE  Max(B(i + 1)) = i
  <2>1. i \in B(i + 1) /\ \A y \in B(i + 1) : y <= i
    BY <1>4
  <2>. HIDE DEF B
  <2>. QED
    BY <1>0, <2>1, GreatestIs
<1>5. ASSUME ~IsHeader(ls[i])
      PROVE  B(i + 1) = B(i)
  BY <1>5
<1>. HIDE DEF A, B
<1>. QED
  BY <1>1, <1>2, <1>3, <1>4, <1>5

\* The texts of the lines behind line k, up to line i.
Between(ls, k, i) == [j \in 1..(i - k) |-> TextsOf(ls[k + j])]

\* What waits at the end of a file for an item or a header.
Waiting(ls) == FlattenSeq(Between(ls, lastStop(ls, Len(ls) + 1), Len(ls)))

\* The comment on a line is made of texts between lines.
LEMMA CommentIs ==
  ASSUME NEW ls, NEW i
  PROVE  CommentOn(ls, i) = FlattenSeq(Between(ls, lastStop(ls, i), i))
BY Zenon DEF CommentOn, Between

\* These are sequences of texts.
LEMMA BetweenTyped ==
  ASSUME NEW ls \in Seq(FileLine), NEW i \in 0..Len(ls), NEW k \in 0..i
  PROVE  Between(ls, k, i) \in Seq(Seq(Text))
<1>1. ASSUME NEW j \in 1..(i - k)
      PROVE  TextsOf(ls[k + j]) \in Seq(Text)
  <2>1. k + j \in 1..Len(ls)
    OBVIOUS
  <2>2. ls[k + j] \in FileLine
    BY <2>1
  <2>. QED
    BY <2>2, TextsTyped
<1>2. i - k \in Nat
  OBVIOUS
<1>3. Between(ls, k, i) = [j \in 1..(i - k) |-> TextsOf(ls[k + j])]
  BY DEF Between
<1>. QED
  BY <1>1, <1>2, <1>3

\* They are the same in all files that begin with the same lines.
LEMMA BetweenSame ==
  ASSUME NEW p, NEW q, NEW i \in Nat, NEW k \in 0..i, \A j \in 1..i : p[j] = q[j]
  PROVE  Between(p, k, i) = Between(q, k, i)
<1>1. ASSUME NEW j \in 1..(i - k)
      PROVE  TextsOf(p[k + j]) = TextsOf(q[k + j])
  <2>1. k + j \in 1..i
    OBVIOUS
  <2>. QED
    BY <2>1
<1>. QED
  BY <1>1 DEF Between

\* A line more has one sequence more.
LEMMA BetweenMore ==
  ASSUME NEW ls, NEW i \in Nat, NEW k \in 0..i
  PROVE  Between(ls, k, i + 1) = Append(Between(ls, k, i), TextsOf(ls[i + 1]))
<1>. DEFINE a == Between(ls, k, i)
            b == Between(ls, k, i + 1)
            n == i - k
<1>1. n \in Nat /\ (i + 1) - k = n + 1
  OBVIOUS
<1>2. /\ a = [j \in 1..n |-> TextsOf(ls[k + j])]
      /\ b = [j \in 1..(n + 1) |-> TextsOf(ls[k + j])]
  BY <1>1 DEF Between
<1>3. Len(a) = n
  BY <1>1, <1>2
<1>4. Append(a, TextsOf(ls[i + 1]))
        = [j \in 1..(n + 1) |-> IF j = n + 1 THEN TextsOf(ls[i + 1]) ELSE a[j]]
  <2>. DEFINE x == TextsOf(ls[i + 1])
              A == {a[j] : j \in 1..n}
  <2>1. a \in Seq(A)
    <3>1. a \in [1..n -> A]
      BY <1>2
    <3>. HIDE DEF a, A
    <3>. QED
      BY <1>1, <3>1
  <2>. HIDE DEF a, x
  <2>. QED
    BY <1>3, <2>1
<1>5. k + (n + 1) = i + 1
  OBVIOUS
<1>6. ASSUME NEW j \in 1..(n + 1)
      PROVE  b[j] = IF j = n + 1 THEN TextsOf(ls[i + 1]) ELSE a[j]
  <2>1. CASE j = n + 1
    BY <1>2, <1>5, <2>1
  <2>2. CASE j # n + 1
    <3>1. j \in 1..n
      BY <1>1, <2>2
    <3>. QED
      BY <1>2, <2>2, <3>1
  <2>. QED
    BY <2>1, <2>2
<1>. HIDE DEF a, b, n
<1>. QED
  BY <1>2, <1>4, <1>6 DEF a, b

\* Behind the last line there are none.
LEMMA BetweenNone ==
  ASSUME NEW ls, NEW i \in Nat
  PROVE  Between(ls, i, i) = <<>>
BY DEF Between

\* Comments are texts.
LEMMA CommentTyped ==
  ASSUME NEW ls \in Seq(FileLine), NEW i \in 1..Len(ls)
  PROVE  CommentOn(ls, i) \in Seq(Text)
<1>1. i \in Nat \ {0} /\ i \in 0..Len(ls)
  OBVIOUS
<1>2. lastStop(ls, i) \in 0..i
  BY <1>1, LastIn
<1>3. Between(ls, lastStop(ls, i), i) \in Seq(Seq(Text))
  BY <1>1, <1>2, BetweenTyped
<1>. QED
  BY <1>3, CommentIs, FlatTyped

\* So is what waits.
LEMMA WaitingTyped ==
  ASSUME NEW ls \in Seq(FileLine)
  PROVE  /\ Between(ls, lastStop(ls, Len(ls) + 1), Len(ls)) \in Seq(Seq(Text))
         /\ Waiting(ls) \in Seq(Text)
<1>1. Len(ls) + 1 \in Nat \ {0} /\ Len(ls) \in 0..Len(ls) /\ (Len(ls) + 1) - 1 = Len(ls)
  OBVIOUS
<1>2. lastStop(ls, Len(ls) + 1) \in 0..Len(ls)
  BY <1>1, LastIn
<1>3. Between(ls, lastStop(ls, Len(ls) + 1), Len(ls)) \in Seq(Seq(Text))
  BY <1>1, <1>2, BetweenTyped
<1>. QED
  BY <1>3, FlatTyped DEF Waiting

\* A comment depends on the lines up to it only.
LEMMA CommentSame ==
  ASSUME NEW p, NEW q, NEW i \in Nat \ {0}, \A j \in 1..i : p[j] = q[j]
  PROVE  CommentOn(p, i) = CommentOn(q, i)
<1>1. lastStop(p, i) = lastStop(q, i)
  BY SameBefore
<1>2. lastStop(p, i) \in 0..i
  BY LastIn
<1>3. Between(p, lastStop(p, i), i) = Between(q, lastStop(p, i), i)
  BY <1>2, BetweenSame
<1>. QED
  BY <1>1, <1>3, CommentIs

\* The section of a line depends on the lines before it only.
LEMMA SectionSame ==
  ASSUME NEW p, NEW q, NEW i \in Nat \ {0}, \A j \in 1..(i - 1) : p[j] = q[j]
  PROVE  SectionOf(p, i) = SectionOf(q, i)
<1>1. lastHeader(p, i) = lastHeader(q, i)
  BY SameBefore
<1>2. lastHeader(p, i) \in 0..(i - 1)
  BY LastIn
<1>3. lastHeader(p, i) # 0 => p[lastHeader(p, i)] = q[lastHeader(p, i)]
  BY <1>2
<1>. QED
  BY <1>1, <1>3 DEF SectionOf

\* The section behind a line.
LEMMA SectionNext ==
  ASSUME NEW ls, NEW i \in Nat \ {0}
  PROVE  SectionOf(ls, i + 1) = IF IsHeader(ls[i]) THEN ls[i].name ELSE SectionOf(ls, i)
BY LastNext DEF SectionOf

\* The comment on one more line is what waited for it, and its own texts.
LEMMA CommentLast ==
  ASSUME NEW ls \in Seq(FileLine), NEW l \in FileLine
  PROVE  CommentOn(Append(ls, l), Len(ls) + 1) = Waiting(ls) \o TextsOf(l)
<1>. DEFINE m == Append(ls, l)
            n == Len(ls)
            k == lastStop(ls, n + 1)
            a == Between(ls, k, n)
<1>1. n \in Nat /\ (\A i \in 1..n : m[i] = ls[i]) /\ m[n + 1] = l
  BY OneMore
<1>2. n + 1 \in Nat \ {0} /\ (n + 1) - 1 = n
  BY <1>1
<1>. HIDE DEF m, n
<1>3. lastStop(m, n + 1) = k
  BY <1>1, <1>2, SameBefore
<1>4. k \in 0..n
  BY <1>2, LastIn
<1>. HIDE DEF k
<1>5. Between(m, k, n + 1) = Append(a, TextsOf(l))
  <2>1. Between(m, k, n) = a
    BY <1>1, <1>4, BetweenSame
  <2>2. Between(m, k, n + 1) = Append(Between(m, k, n), TextsOf(m[n + 1]))
    BY <1>1, <1>4, BetweenMore
  <2>. QED
    BY <1>1, <2>1, <2>2
<1>6. a \in Seq(Seq(Text)) /\ Waiting(ls) = FlattenSeq(a)
  BY WaitingTyped DEF Waiting, n, k
<1>7. CommentOn(m, n + 1) = FlattenSeq(Append(a, TextsOf(l)))
  BY <1>3, <1>5, CommentIs
<1>. HIDE DEF a
<1>8. TextsOf(l) \in Seq(Text)
  BY TextsTyped
<1>9. FlattenSeq(Append(a, TextsOf(l))) = FlattenSeq(a) \o TextsOf(l)
  BY <1>6, <1>8, FlatMore
<1>. QED
  BY <1>6, <1>7, <1>9 DEF m, n

\* Behind one more line the same waits, unless the line takes or drops it.
LEMMA WaitingNext ==
  ASSUME NEW ls \in Seq(FileLine), NEW l \in FileLine
  PROVE  Waiting(Append(ls, l)) = IF Stops(l) THEN <<>> ELSE Waiting(ls) \o TextsOf(l)
<1>. DEFINE m == Append(ls, l)
            n == Len(ls)
            k == n + 1
<1>1. n \in Nat /\ Len(m) = k /\ (\A i \in 1..n : m[i] = ls[i]) /\ m[k] = l
  BY OneMore
<1>2. k \in Nat \ {0} /\ k - 1 = n
  BY <1>1
<1>. HIDE DEF m, n, k
<1>3. Waiting(m) = FlattenSeq(Between(m, lastStop(m, k + 1), k))
  BY <1>1 DEF Waiting
<1>4. lastStop(m, k + 1) = IF Stops(l) THEN k ELSE lastStop(m, k)
  BY <1>1, <1>2, LastNext
<1>5. CASE Stops(l)
  <2>1. Between(m, k, k) = <<>>
    BY <1>2, BetweenNone
  <2>. QED
    BY <1>3, <1>4, <1>5, <2>1, FlatNone DEF m
<1>6. CASE ~Stops(l)
  <2>1. Waiting(m) = CommentOn(m, k)
    BY <1>3, <1>4, <1>6, CommentIs
  <2>. QED
    BY <1>6, <2>1, CommentLast DEF m, n, k
<1>. QED
  BY <1>5, <1>6

\* An item with its comment in one piece.
FlatItemType == [key : Key, value : Value, comment : Seq(Text)]

\* What an item line has.
LEMMA ItemLineHas ==
  ASSUME NEW l \in FileLine, l.kind = "item"
  PROVE  l.key \in Key /\ l.value \in Value
<1>1. l \notin {Blank, Junk, Unclosed}
  BY DEF Blank, Junk, Unclosed
<1>2. \A t : l # CommentLine(t)
  BY DEF CommentLine
<1>3. \A n, b : l # Header(n, b)
  BY DEF Header
<1>4. PICK k \in Key, v \in Value, b \in Behind : l = ItemLine(k, v, b)
  BY <1>1, <1>2, <1>3, KindsOfLine
<1>. QED
  BY <1>4 DEF ItemLine

\* Items with their comments.
LEMMA ItemsOnTyped ==
  ASSUME NEW ls \in Seq(FileLine), NEW i \in 1..Len(ls), NEW s
  PROVE  ItemsOn(ls, i, s) \in Seq(FlatItemType)
<1>1. CASE ls[i].kind = "item" /\ SectionOf(ls, i) = s
  <2>. DEFINE c == CommentOn(ls, i)
              x == Item(ls[i].key, ls[i].value, c)
  <2>1. c \in Seq(Text)
    BY CommentTyped
  <2>2. ls[i] \in FileLine
    OBVIOUS
  <2>3. ls[i].key \in Key /\ ls[i].value \in Value
    BY <1>1, <2>2, ItemLineHas
  <2>4. ItemsOn(ls, i, s) = <<x>>
    BY <1>1 DEF ItemsOn
  <2>. HIDE DEF c
  <2>5. x \in FlatItemType
    BY <2>1, <2>3 DEF Item, FlatItemType
  <2>. HIDE DEF x
  <2>. QED
    BY <2>4, <2>5
<1>2. CASE ~(ls[i].kind = "item" /\ SectionOf(ls, i) = s)
  BY <1>2 DEF ItemsOn
<1>. QED
  BY <1>1, <1>2

\* They depend on the lines up to theirs only.
LEMMA ItemsSame ==
  ASSUME NEW p, NEW q, NEW i \in Nat \ {0}, \A j \in 1..i : p[j] = q[j], NEW s
  PROVE  ItemsOn(p, i, s) = ItemsOn(q, i, s)
<1>1. p[i] = q[i] /\ \A j \in 1..(i - 1) : p[j] = q[j]
  OBVIOUS
<1>2. CommentOn(p, i) = CommentOn(q, i) /\ SectionOf(p, i) = SectionOf(q, i)
  BY <1>1, CommentSame, SectionSame
<1>. QED
  BY <1>1, <1>2 DEF ItemsOn

partsIn(ls, s) == [i \in 1..Len(ls) |-> ItemsOn(ls, i, s)]

\* The items of one line more.
LEMMA ItemsNext ==
  ASSUME NEW ls \in Seq(FileLine), NEW l \in FileLine, NEW s
  PROVE  /\ ItemsIn(ls, s) \in Seq(FlatItemType)
         /\ ItemsIn(Append(ls, l), s)
              = ItemsIn(ls, s) \o ItemsOn(Append(ls, l), Len(ls) + 1, s)
<1>. DEFINE m == Append(ls, l)
            n == Len(ls)
            x == ItemsOn(m, n + 1, s)
            a == partsIn(ls, s)
            b == partsIn(m, s)
<1>1. /\ m \in Seq(FileLine) /\ n \in Nat /\ Len(m) = n + 1
      /\ (\A i \in 1..n : m[i] = ls[i])
  BY OneMore
<1>2. ItemsIn(ls, s) = FlattenSeq(a) /\ ItemsIn(m, s) = FlattenSeq(b)
  BY Zenon DEF ItemsIn, partsIn
<1>3. a = [i \in 1..n |-> ItemsOn(ls, i, s)] /\ b = [i \in 1..(n + 1) |-> ItemsOn(m, i, s)]
  BY <1>1 DEF partsIn
<1>. HIDE DEF m, n, a, b
<1>4. \A i \in 1..n : ItemsOn(ls, i, s) \in Seq(FlatItemType)
  BY ItemsOnTyped DEF n
<1>5. a \in Seq(Seq(FlatItemType)) /\ Len(a) = n
  BY <1>1, <1>3, <1>4
<1>6. x \in Seq(FlatItemType)
  <2>1. n + 1 \in 1..Len(m)
    BY <1>1
  <2>. QED
    BY <1>1, <2>1, ItemsOnTyped
<1>7. ASSUME NEW i \in 1..n
      PROVE  ItemsOn(m, i, s) = ItemsOn(ls, i, s)
  <2>1. i \in Nat \ {0} /\ \A j \in 1..i : m[j] = ls[j]
    BY <1>1
  <2>. QED
    BY <2>1, ItemsSame
<1>. HIDE DEF x
<1>8. b = Append(a, x)
  <2>. DEFINE S == Seq(FlatItemType)
  <2>1. a \in Seq(S) /\ x \in S
    BY <1>5, <1>6
  <2>. HIDE DEF S
  <2>2. /\ Append(a, x) \in Seq(S) /\ Len(Append(a, x)) = n + 1
        /\ (\A i \in 1..n : Append(a, x)[i] = a[i]) /\ Append(a, x)[n + 1] = x
    BY <1>5, <2>1, OneMore
  <2>3. ASSUME NEW i \in 1..(n + 1)
        PROVE  Append(a, x)[i] = b[i]
    <3>1. CASE i = n + 1
      BY <1>1, <1>3, <2>2, <3>1 DEF x
    <3>2. CASE i # n + 1
      <4>1. i \in 1..n
        BY <1>1, <3>2
      <4>. QED
        BY <1>3, <1>7, <2>2, <4>1
    <3>. QED
      BY <3>1, <3>2
  <2>4. b = [i \in 1..(n + 1) |-> b[i]]
    BY <1>3
  <2>. DEFINE e == Append(a, x)
  <2>5. e \in Seq(S) /\ Len(e) = n + 1 /\ \A i \in 1..(n + 1) : e[i] = b[i]
    BY <2>2, <2>3
  <2>. HIDE DEF e
  <2>6. e = [i \in 1..(n + 1) |-> e[i]]
    BY <2>5
  <2>7. e = b
    BY <2>4, <2>5, <2>6
  <2>. QED
    BY <2>7 DEF e
<1>9. FlattenSeq(Append(a, x)) = FlattenSeq(a) \o x /\ FlattenSeq(a) \in Seq(FlatItemType)
  BY <1>5, <1>6, FlatMore, FlatTyped
<1>. QED
  BY <1>2, <1>8, <1>9 DEF m, n, x

\* The headers of one line more.
LEMMA HeadersNext ==
  ASSUME NEW ls \in Seq(FileLine), NEW l \in FileLine
  PROVE  HeadersIn(Append(ls, l))
           = IF IsHeader(l) THEN HeadersIn(ls) \cup {<<l.name, Waiting(ls) \o TextsOf(l)>>}
             ELSE HeadersIn(ls)
<1>. DEFINE m == Append(ls, l)
            n == Len(ls)
            c == Waiting(ls) \o TextsOf(l)
<1>1. n \in Nat /\ Len(m) = n + 1 /\ (\A i \in 1..n : m[i] = ls[i]) /\ m[n + 1] = l
  BY OneMore
<1>2. CommentOn(m, n + 1) = c
  BY CommentLast
<1>. HIDE DEF m, n, c
<1>3. ASSUME NEW i \in 1..n
      PROVE  CommentOn(m, i) = CommentOn(ls, i)
  <2>1. i \in Nat \ {0} /\ \A j \in 1..i : m[j] = ls[j]
    BY <1>1
  <2>. QED
    BY <2>1, CommentSame
<1>. DEFINE old == {i \in 1..n : IsHeader(ls[i])}
            all == {i \in 1..(n + 1) : IsHeader(m[i])}
            h(x) == {<<m[i].name, CommentOn(m, i)>> : i \in x}
<1>4. all = IF IsHeader(l) THEN old \cup {n + 1} ELSE old
  BY <1>1
<1>5. HeadersIn(ls) = h(old)
  BY <1>1, <1>3 DEF HeadersIn, n
<1>6. HeadersIn(m) = h(all)
  BY <1>1 DEF HeadersIn
<1>7. h(old \cup {n + 1}) = h(old) \cup {<<l.name, c>>}
  BY <1>1, <1>2
<1>. HIDE DEF old, all, h
<1>. QED
  BY <1>4, <1>5, <1>6, <1>7 DEF m, c

\* Before the first line.
LEMMA NothingSaid ==
  /\ Waiting(<<>>) = <<>> /\ HeadersIn(<<>>) = {} /\ SectionOf(<<>>, 1) = Default
  /\ \A s : ItemsIn(<<>>, s) = <<>>
<1>1. Len(<<>>) = 0 /\ 0 + 1 = 1
  OBVIOUS
<1>2. lastStop(<<>>, 1) = 0 /\ lastHeader(<<>>, 1) = 0
  <2>1. lastStop(<<>>, 1) \in 0..(1 - 1) /\ lastHeader(<<>>, 1) \in 0..(1 - 1)
    BY LastIn
  <2>. QED
    BY <2>1
<1>3. Waiting(<<>>) = <<>>
  <2>1. Between(<<>>, 0, 0) = <<>>
    BY BetweenNone
  <2>. QED
    BY <1>1, <1>2, <2>1, FlatNone DEF Waiting
<1>4. HeadersIn(<<>>) = {}
  BY DEF HeadersIn
<1>5. SectionOf(<<>>, 1) = Default
  BY <1>2 DEF SectionOf
<1>6. ASSUME NEW s
      PROVE  ItemsIn(<<>>, s) = <<>>
  <2>1. partsIn(<<>>, s) = <<>>
    BY DEF partsIn
  <2>2. ItemsIn(<<>>, s) = FlattenSeq(partsIn(<<>>, s))
    BY Zenon DEF ItemsIn, partsIn
  <2>. QED
    BY <2>1, <2>2, FlatNone
<1>. QED
  BY <1>3, <1>4, <1>5, <1>6

\* Whether a line is bad depends on the lines up to it only.
LEMMA BadSame ==
  ASSUME NEW p, NEW q, NEW i \in Nat \ {0}, \A j \in 1..i : p[j] = q[j]
  PROVE  Bad(p, i) <=> Bad(q, i)
<1>1. p[i] = q[i] /\ \A j \in 1..(i - 1) : p[j] = q[j]
  OBVIOUS
<1>. QED
  BY <1>1 DEF Bad

\* Lines that are all good, with one more, good or bad.
LEMMA GoodNext ==
  ASSUME NEW ls \in Seq(FileLine), NEW l \in FileLine, \A i \in 1..Len(ls) : ~Bad(ls, i)
  PROVE  /\ GoodPart(ls) = ls
         /\ ~Bad(Append(ls, l), Len(ls) + 1) =>
              \A i \in 1..Len(Append(ls, l)) : ~Bad(Append(ls, l), i)
         /\ Bad(Append(ls, l), Len(ls) + 1) =>
              /\ GoodPart(Append(ls, l)) = ls
              /\ \E i \in 1..Len(Append(ls, l)) : Bad(Append(ls, l), i)
<1>. DEFINE m == Append(ls, l)
            n == Len(ls)
            bad == {i \in 1..(n + 1) : Bad(m, i)}
<1>1. /\ n \in Nat /\ Len(m) = n + 1 /\ (\A i \in 1..n : m[i] = ls[i])
      /\ m \in Seq(FileLine)
  BY OneMore
<1>2. GoodPart(ls) = ls
  BY DEF GoodPart
<1>3. SubSeq(m, 1, n) = ls
  BY <1>1
<1>. HIDE DEF m
<1>4. \A i \in 1..n : ~Bad(m, i)
  <2>. SUFFICES ASSUME NEW i \in 1..n
                PROVE  ~Bad(m, i)
    OBVIOUS
  <2>1. i \in Nat \ {0} /\ \A j \in 1..i : m[j] = ls[j]
    BY <1>1
  <2>. QED
    BY <2>1, BadSame
<1>. HIDE DEF n
<1>5. ASSUME ~Bad(m, n + 1)
      PROVE  \A i \in 1..(n + 1) : ~Bad(m, i)
  BY <1>1, <1>4, <1>5
<1>6. ASSUME Bad(m, n + 1)
      PROVE  GoodPart(m) = ls /\ \E i \in 1..(n + 1) : Bad(m, i)
  <2>1. bad = {n + 1}
    BY <1>1, <1>4, <1>6
  <2>2. GoodPart(m) = IF bad = {} THEN m ELSE SubSeq(m, 1, Min(bad) - 1)
    BY <1>1 DEF GoodPart
  <2>3. n + 1 \in 1..(n + 1)
    BY <1>1
  <2>. HIDE DEF bad
  <2>4. Min(bad) = n + 1
    BY <1>1, <2>1, LeastIs
  <2>5. GoodPart(m) = SubSeq(m, 1, n)
    <3>1. bad # {} /\ (n + 1) - 1 = n
      BY <1>1, <2>1
    <3>. QED
      BY <2>2, <2>4, <3>1
  <2>. QED
    BY <1>3, <1>6, <2>3, <2>5
<1>. QED
  BY <1>1, <1>2, <1>5, <1>6 DEF m, n

\* Behind a bad line nothing changes what the good lines are.
LEMMA BadNext ==
  ASSUME NEW ls \in Seq(FileLine), NEW l \in FileLine, \E i \in 1..Len(ls) : Bad(ls, i)
  PROVE  /\ GoodPart(ls) \in Seq(FileLine) /\ GoodPart(ls) # ls
         /\ GoodPart(Append(ls, l)) = GoodPart(ls)
         /\ \E i \in 1..Len(Append(ls, l)) : Bad(Append(ls, l), i)
<1>. DEFINE m == Append(ls, l)
            n == Len(ls)
            old == {i \in 1..n : Bad(ls, i)}
            all == {i \in 1..(n + 1) : Bad(m, i)}
<1>1. /\ n \in Nat /\ Len(m) = n + 1 /\ (\A i \in 1..n : m[i] = ls[i])
      /\ m \in Seq(FileLine)
  BY OneMore
<1>2. PICK k \in old : \A i \in old : k <= i
  <2>1. old # {} /\ old \subseteq Nat
    OBVIOUS
  <2>. HIDE DEF old
  <2>. QED
    BY <2>1, LeastOf
<1>3. k \in 1..n
  OBVIOUS
<1>4. SubSeq(m, 1, k - 1) = SubSeq(ls, 1, k - 1) /\ SubSeq(ls, 1, k - 1) \in Seq(FileLine)
      /\ Len(SubSeq(ls, 1, k - 1)) = k - 1
  BY <1>1, <1>3
<1>. HIDE DEF m
<1>5. \A i \in 1..n : Bad(m, i) <=> Bad(ls, i)
  <2>. SUFFICES ASSUME NEW i \in 1..n
                PROVE  Bad(m, i) <=> Bad(ls, i)
    OBVIOUS
  <2>1. i \in Nat \ {0} /\ \A j \in 1..i : m[j] = ls[j]
    BY <1>1
  <2>. QED
    BY <2>1, BadSame
<1>6. /\ GoodPart(ls) = IF old = {} THEN ls ELSE SubSeq(ls, 1, Min(old) - 1)
      /\ GoodPart(m) = IF all = {} THEN m ELSE SubSeq(m, 1, Min(all) - 1)
  BY <1>1 DEF GoodPart
<1>. HIDE DEF n
<1>7. old \in SUBSET Nat /\ all \in SUBSET Nat /\ k \in all /\ (\A i \in all : k <= i)
  <2>1. old \in SUBSET Nat /\ all \in SUBSET Nat
    BY <1>1
  <2>2. k \in all
    BY <1>1, <1>2, <1>3, <1>5
  <2>3. ASSUME NEW i \in all
        PROVE  k <= i
    <3>1. CASE i = n + 1
      BY <1>1, <1>3, <3>1
    <3>2. CASE i # n + 1
      BY <1>1, <1>2, <1>5, <3>2
    <3>. QED
      BY <3>1, <3>2
  <2>. QED
    BY <2>1, <2>2, <2>3
<1>8. k \in 1..(n + 1) /\ Bad(m, k)
  BY <1>7
<1>. HIDE DEF old, all
<1>9. Min(old) = k /\ Min(all) = k
  BY <1>2, <1>7, LeastIs
<1>10. GoodPart(ls) = SubSeq(ls, 1, k - 1) /\ GoodPart(m) = SubSeq(m, 1, k - 1)
  BY <1>2, <1>6, <1>7, <1>9
<1>11. k - 1 # n
  BY <1>1, <1>3
<1>. QED
  BY <1>1, <1>4, <1>8, <1>10, <1>11 DEF m, n

\* What stands behind an item or a header is behind the texts of the comment.
LEMMA FlatBehind ==
  ASSUME NEW c \in FlaggedComment, NEW b \in Behind
  PROVE  /\ FlattenSeq(withBehind(c, b)) = FlattenSeq(c) \o b
         /\ FlattenSeq(c) \in Seq(Text)
<1>1. b \in Seq(Text)
  <2>1. CASE b = <<>>
    BY <2>1
  <2>2. CASE b # <<>>
    <3>1. PICK t \in Text : b = <<t>>
      BY <2>2 DEF Behind
    <3>. QED
      BY <3>1
  <2>. QED
    BY <2>1, <2>2
<1>2. c \in Seq(Seq(Text))
  <2>. DEFINE A == Seq(Text) \ {<<>>}
              B == Seq(Text)
  <2>1. A \subseteq B /\ c \in Seq(A)
    BY DEF FlaggedComment
  <2>. HIDE DEF A, B
  <2>2. c \in Seq(B)
    BY <2>1
  <2>. QED
    BY <2>2 DEF B
<1>3. FlattenSeq(c) \in Seq(Text)
  BY <1>2, FlatTyped
<1>4. CASE b = <<>>
  <2>1. withBehind(c, b) = c
    BY <1>4 DEF withBehind
  <2>2. FlattenSeq(c) \o b = FlattenSeq(c)
    BY <1>3, <1>4, WithNone
  <2>. QED
    BY <1>3, <2>1, <2>2
<1>5. CASE b # <<>> /\ c = <<>>
  <2>1. withBehind(c, b) = <<b>>
    BY <1>5 DEF withBehind, NoComment
  <2>2. <<b>> = Append(<<>>, b)
    OBVIOUS
  <2>3. <<>> \in Seq(Seq(Text))
    OBVIOUS
  <2>4. FlattenSeq(Append(<<>>, b)) = FlattenSeq(<<>>) \o b
    BY <1>1, <2>3, FlatMore
  <2>. QED
    BY <1>3, <1>5, <2>1, <2>2, <2>4
<1>6. CASE b # <<>> /\ c # <<>>
  <2>. DEFINE B == Seq(Text)
              n == Len(c)
              front == SubSeq(c, 1, n - 1)
              x == c[n]
              y == x \o b
  <2>1. n \in Nat /\ n - 1 \in 0..(n - 1) /\ (n - 1) + 1 = n /\ c \in Seq(B)
    BY <1>2, <1>6
  <2>2. front \in Seq(B) /\ x \in B /\ c = Append(front, x)
    <3>. HIDE DEF B
    <3>1. SubSeq(c, 1, n) = c
      BY <2>1, FirstParts
    <3>2. /\ SubSeq(c, 1, n - 1) \in Seq(B) /\ c[(n - 1) + 1] \in B
          /\ SubSeq(c, 1, (n - 1) + 1) = Append(SubSeq(c, 1, n - 1), c[(n - 1) + 1])
      BY <2>1, FirstParts
    <3>. QED
      BY <2>1, <3>1, <3>2
  <2>3. y \in B
    BY <1>1, <2>2
  <2>4. withBehind(c, b) = [c EXCEPT ![n] = y]
    BY <1>6 DEF withBehind, NoComment
  <2>. HIDE DEF front, x
  <2>5. FlattenSeq(c) = FlattenSeq(front) \o x
    BY <2>2, FlatMore
  <2>6. FlattenSeq(Append(front, y)) = FlattenSeq(front) \o y
    BY <2>2, <2>3, FlatMore
  <2>7. FlattenSeq(front) \in Seq(Text)
    BY <2>2, FlatTyped
  <2>8. (FlattenSeq(front) \o x) \o b = FlattenSeq(front) \o y
    BY <1>1, <2>2, <2>7, Associates, SMTT(30)
  <2>9. [c EXCEPT ![n] = y] = Append(front, y)
    <3>. HIDE DEF y, B
    <3>. DEFINE e == [c EXCEPT ![n] = y]
                f == Append(front, y)
    <3>1. n = Len(front) + 1 /\ n \in 1..n
      BY <2>1, <2>2 DEF front
    <3>2. \A i \in 1..Len(front) : c[i] = front[i]
      BY <2>2, OneMore
    <3>3. /\ Len(f) = n /\ f[n] = y /\ f \in Seq(B)
          /\ \A i \in 1..Len(front) : f[i] = front[i]
      BY <2>2, <2>3, <3>1, OneMore
    <3>4. e = [i \in 1..n |-> IF i = n THEN y ELSE c[i]]
      <4>1. DOMAIN c = 1..n
        BY <2>1
      <4>. HIDE DEF n
      <4>. QED
        BY <4>1
    <3>. HIDE DEF e, f
    <3>5. f = [i \in 1..n |-> f[i]]
      BY <3>3
    <3>6. ASSUME NEW i \in 1..n
          PROVE  e[i] = f[i]
      BY <2>1, <3>1, <3>2, <3>3, <3>4
    <3>7. e = f
      BY <3>4, <3>5, <3>6
    <3>. QED
      BY <3>7 DEF e, f
  <2>. HIDE DEF y, n
  <2>10. FlattenSeq(withBehind(c, b)) = FlattenSeq(front) \o y
    BY <2>4, <2>6, <2>9
  <2>. QED
    BY <1>3, <2>5, <2>8, <2>10
<1>. QED
  BY <1>3, <1>4, <1>5, <1>6

------------------------------------------------------------------------------
(* What is read is what the file says *)

\* An item, and items, with the comment in one piece.
FlatItem(item) == Item(item.key, item.value, FlattenSeq(item.comment))
FlatItems(its) == [i \in 1..Len(its) |-> FlatItem(its[i])]

\* The headers and the items of what was read.
HeadersOf(S) == {<<x, FlattenSeq(S[x].comment)>> : x \in DOMAIN S \ {Default}}
ItemsKept(S, x) == FlatItems(itemsOf(S, x))

\* The file says what was read of it: sections S, s the current one, c what waits.
Says(ls, S, s, c) ==
  /\ \A i \in 1..Len(ls) : ~Bad(ls, i)
  /\ FlattenSeq(c) = Waiting(ls)
  /\ s # NoSection => s = SectionOf(ls, Len(ls) + 1)
  /\ HeadersIn(ls) = HeadersOf(S)
  /\ \A x \in Name \cup {Default} : ItemsIn(ls, x) = ItemsKept(S, x)

\* The section of one line more, and of the line behind it.
LEMMA SectionAfter ==
  ASSUME NEW ls \in Seq(FileLine), NEW l \in FileLine
  PROVE  /\ SectionOf(Append(ls, l), Len(ls) + 1) = SectionOf(ls, Len(ls) + 1)
         /\ SectionOf(Append(ls, l), Len(Append(ls, l)) + 1)
              = IF IsHeader(l) THEN l.name ELSE SectionOf(ls, Len(ls) + 1)
<1>. DEFINE m == Append(ls, l)
            n == Len(ls)
            k == n + 1
<1>1. n \in Nat /\ Len(m) = k /\ (\A i \in 1..n : m[i] = ls[i]) /\ m[k] = l
  BY OneMore
<1>2. k \in Nat \ {0} /\ k - 1 = n
  BY <1>1
<1>. HIDE DEF m, n, k
<1>3. SectionOf(m, k) = SectionOf(ls, k)
  BY <1>1, <1>2, SectionSame
<1>4. SectionOf(m, k + 1) = IF IsHeader(m[k]) THEN m[k].name ELSE SectionOf(m, k)
  BY <1>2, SectionNext
<1>. QED
  BY <1>1, <1>3, <1>4 DEF m, n, k

\* The last line.
LEMMA LastLine ==
  ASSUME NEW ls \in Seq(FileLine), NEW l \in FileLine
  PROVE  Append(ls, l) \in Seq(FileLine) /\ Append(ls, l)[Len(ls) + 1] = l
         /\ Len(ls) \in Nat /\ \A i \in 1..Len(ls) : Append(ls, l)[i] = ls[i]
BY OneMore

\* A line that is neither a header with a name nor an item changes what waits only.
LEMMA SaysPlain ==
  ASSUME NEW ls \in Seq(FileLine), NEW l \in FileLine, NEW S, NEW s, NEW c, Says(ls, S, s, c),
         ~IsHeader(l), l.kind # "item", l.kind # "unclosed",
         NEW t \in {s, NoSection}, NEW d, FlattenSeq(d) = Waiting(Append(ls, l))
  PROVE  Says(Append(ls, l), S, t, d)
<1>. DEFINE m == Append(ls, l)
            n == Len(ls)
<1>1. m \in Seq(FileLine) /\ m[n + 1] = l
  BY LastLine
<1>2. ~Bad(m, n + 1)
  BY <1>1 DEF Bad
<1>3. \A i \in 1..Len(m) : ~Bad(m, i)
  BY <1>2, GoodNext DEF Says
<1>4. t # NoSection => t = SectionOf(m, Len(m) + 1)
  BY SectionAfter DEF Says
<1>5. HeadersIn(m) = HeadersIn(ls)
  BY HeadersNext
<1>. HIDE DEF m, n
<1>6. ASSUME NEW x
      PROVE  ItemsIn(m, x) = ItemsIn(ls, x)
  <2>1. ItemsOn(m, n + 1, x) = <<>>
    BY <1>1 DEF ItemsOn
  <2>2. ItemsIn(ls, x) \in Seq(FlatItemType) /\ ItemsIn(m, x) = ItemsIn(ls, x) \o <<>>
    BY <2>1, ItemsNext DEF m, n
  <2>. QED
    BY <2>2, WithNone
<1>7. FlattenSeq(d) = Waiting(m)
  BY DEF m
<1>. QED
  BY <1>3, <1>4, <1>5, <1>6, <1>7 DEF Says, m

\* A header whose name is new makes a section, with the comment that waited.
LEMMA SaysHeader ==
  ASSUME NEW ls \in Seq(FileLine), NEW S, NEW s, NEW c, LoopsOn(S, s, c), Says(ls, S, s, c),
         NEW n \in Name, n # Default, n \notin DOMAIN S, NEW b \in Behind
  PROVE  Says(Append(ls, Header(n, b)), Put(S, n, NewSection(withBehind(c, b))), n, <<>>)
<1>. DEFINE l == Header(n, b)
            m == Append(ls, l)
            d == withBehind(c, b)
            T == Put(S, n, NewSection(d))
            D == DOMAIN S \ {Default}
<1>1. l \in FileLine /\ l.kind = "header" /\ l.name = n /\ TextsOf(l) = b
  BY DEF FileLine, Line, Header, TextsOf
<1>2. IsHeader(l) /\ Stops(l) /\ l.kind # "item"
  BY <1>1 DEF IsHeader, Stops
<1>. HIDE DEF l
<1>3. m \in Seq(FileLine) /\ m[Len(ls) + 1] = l /\ Len(ls) \in Nat
      /\ \A i \in 1..Len(ls) : m[i] = ls[i]
  BY <1>1, LastLine
<1>4. FlattenSeq(d) = Waiting(ls) \o b
  BY FlatBehind DEF LoopsOn, Says
<1>5. DOMAIN T = DOMAIN S \cup {n} /\ (\A x \in DOMAIN S : T[x] = S[x]) /\ T[n] = NewSection(d)
  BY DEF Put
<1>. HIDE DEF d, m, T
<1>6. HeadersIn(m) = HeadersIn(ls) \cup {<<n, FlattenSeq(d)>>}
  BY <1>1, <1>2, <1>4, HeadersNext DEF m
<1>7. HeadersOf(T) = HeadersOf(S) \cup {<<n, FlattenSeq(d)>>}
  <2>. DEFINE h(U, x) == <<x, FlattenSeq(U[x].comment)>>
  <2>1. HeadersOf(S) = {h(S, x) : x \in D} /\ HeadersOf(T) = {h(T, x) : x \in D \cup {n}}
    BY <1>5 DEF HeadersOf
  <2>2. \A x \in D : h(T, x) = h(S, x)
    BY <1>5
  <2>3. h(T, n) = <<n, FlattenSeq(d)>>
    BY <1>5 DEF NewSection
  <2>. HIDE DEF h, D
  <2>4. {h(T, x) : x \in D \cup {n}} = {h(S, x) : x \in D} \cup {h(T, n)}
    BY <2>2
  <2>. QED
    BY <2>1, <2>3, <2>4
<1>8. ASSUME NEW x
      PROVE  ItemsKept(T, x) = ItemsKept(S, x)
  <2>1. itemsOf(T, x) = itemsOf(S, x)
    BY <1>5 DEF itemsOf, hasSection, NewSection
  <2>. QED
    BY <2>1 DEF ItemsKept
<1>9. ASSUME NEW x
      PROVE  ItemsIn(m, x) = ItemsIn(ls, x)
  <2>1. ItemsOn(m, Len(ls) + 1, x) = <<>>
    BY <1>2, <1>3 DEF ItemsOn
  <2>2. /\ ItemsIn(ls, x) \in Seq(FlatItemType)
        /\ ItemsIn(m, x) = ItemsIn(ls, x) \o ItemsOn(m, Len(ls) + 1, x)
    BY <1>1, ItemsNext DEF m
  <2>. QED
    BY <2>1, <2>2, WithNone
<1>10. ~Bad(m, Len(ls) + 1)
  <2>. SUFFICES ASSUME Bad(m, Len(ls) + 1)
                PROVE  FALSE
    OBVIOUS
  <2>1. PICK j \in 1..Len(ls) : IsHeader(m[j]) /\ m[j].name = n
    BY <1>1, <1>3 DEF Bad
  <2>2. IsHeader(ls[j]) /\ ls[j].name = n
    BY <1>3, <2>1
  <2>3. <<n, CommentOn(ls, j)>> \in HeadersIn(ls)
    BY <2>2 DEF HeadersIn
  <2>4. <<n, CommentOn(ls, j)>> \in HeadersOf(S)
    BY <2>3 DEF Says
  <2>5. PICK x \in DOMAIN S \ {Default} :
          <<n, CommentOn(ls, j)>> = <<x, FlattenSeq(S[x].comment)>>
    BY <2>4 DEF HeadersOf
  <2>. QED
    BY <2>5
<1>11. \A i \in 1..Len(m) : ~Bad(m, i)
  BY <1>1, <1>10, GoodNext DEF m, Says
<1>12. n = SectionOf(m, Len(m) + 1)
  BY <1>1, <1>2, SectionAfter DEF m
<1>13. FlattenSeq(<<>>) = Waiting(m)
  BY <1>1, <1>2, WaitingNext, FlatNone DEF m
<1>. QED
  BY <1>6, <1>7, <1>8, <1>9, <1>11, <1>12, <1>13 DEF Says, m, l, T, d

\* An item goes to the current section, with the comment that waited.
LEMMA SaysItem ==
  ASSUME NEW ls \in Seq(FileLine), NEW S, NEW s, NEW c, LoopsOn(S, s, c), Says(ls, S, s, c),
         s # NoSection, NEW k \in Key, NEW v \in Value, NEW b \in Behind
  PROVE  Says(Append(ls, ItemLine(k, v, b)),
              WithItem(S, s, Item(k, v, withBehind(c, b))), s, <<>>)
<1>. DEFINE l == ItemLine(k, v, b)
            m == Append(ls, l)
            d == withBehind(c, b)
            item == Item(k, v, d)
            T == WithItem(S, s, item)
            flat == Item(k, v, FlattenSeq(d))
<1>1. /\ l \in FileLine /\ l.kind = "item" /\ l.key = k /\ l.value = v
      /\ TextsOf(l) = b
  BY DEF FileLine, Line, ItemLine, TextsOf
<1>2. ~IsHeader(l) /\ Stops(l)
  BY <1>1 DEF IsHeader, Stops
<1>3. s \in DOMAIN S /\ s \in Name \cup {Default} /\ Writable(S)
  BY DEF LoopsOn, Writable, Sections
<1>4. FlattenSeq(d) = Waiting(ls) \o b /\ d \in FlaggedComment
  BY FlatBehind, BehindTyped DEF LoopsOn, Says
<1>. HIDE DEF l, d
<1>5. item \in ItemType /\ FlatItem(item) = flat
  BY <1>4 DEF Item, ItemType, FlatItem
<1>. DEFINE old == S[s].items
            more == Append(old, item)
<1>. HIDE DEF item
<1>6. T = Put(S, s, Section(S[s].comment, more))
  BY <1>3, <1>5, WithItemIs
<1>. HIDE DEF T, more
<1>7. /\ DOMAIN T = DOMAIN S
      /\ \A x \in DOMAIN S : T[x] = IF x = s THEN Section(S[s].comment, more) ELSE S[x]
  BY <1>3, <1>6 DEF Put
<1>8. /\ \A x \in DOMAIN S : T[x].comment = S[x].comment
      /\ T[s].items = more
      /\ \A x \in DOMAIN S : x # s => T[x].items = S[x].items
  BY <1>3, <1>7 DEF Section
<1>9. HeadersOf(T) = HeadersOf(S)
  BY <1>7, <1>8 DEF HeadersOf
<1>10. m \in Seq(FileLine) /\ m[Len(ls) + 1] = l
  BY <1>1, LastLine
<1>11. CommentOn(m, Len(ls) + 1) = FlattenSeq(d)
  BY <1>1, <1>4, CommentLast
<1>12. SectionOf(m, Len(ls) + 1) = s
  BY <1>1, SectionAfter DEF Says
<1>. HIDE DEF m, flat
<1>13. ASSUME NEW x
       PROVE  ItemsOn(m, Len(ls) + 1, x) = IF x = s THEN <<flat>> ELSE <<>>
  BY <1>1, <1>10, <1>11, <1>12 DEF ItemsOn, flat
<1>14. ASSUME NEW x
       PROVE  ItemsIn(ls, x) \in Seq(FlatItemType)
              /\ ItemsIn(m, x) = ItemsIn(ls, x) \o ItemsOn(m, Len(ls) + 1, x)
  BY <1>1, ItemsNext DEF m
<1>15. old \in ItemsType
  BY <1>3, SectionIs DEF Writable
<1>16. FlatItems(more) = FlatItems(old) \o <<flat>>
  <2>. HIDE DEF old
  <2>1. /\ Len(old) \in Nat /\ Len(more) = Len(old) + 1 /\ more[Len(old) + 1] = item
        /\ \A i \in 1..Len(old) : more[i] = old[i]
    BY <1>5, <1>15, OneMore DEF ItemsType, more
  <2>. DEFINE n == Len(old)
              f == FlatItems(old)
              g == FlatItems(more)
  <2>2. f = [i \in 1..n |-> FlatItem(old[i])] /\ g = [i \in 1..(n + 1) |-> FlatItem(more[i])]
    BY <2>1 DEF FlatItems
  <2>. HIDE DEF f, g, n
  <2>3. \A i \in 1..n : g[i] = f[i]
    BY <2>1, <2>2 DEF n
  <2>4. g[n + 1] = flat /\ n \in Nat
    BY <1>5, <2>1, <2>2 DEF n
  <2>5. DOMAIN f = 1..n /\ DOMAIN g = 1..(n + 1)
    BY <2>2
  <2>. DEFINE A == {f[i] : i \in 1..n} \cup {flat}
  <2>6. f \in Seq(A) /\ flat \in A /\ Len(f) = n
    <3>1. f \in [1..n -> A]
      BY <2>2
    <3>. HIDE DEF A
    <3>. QED
      BY <2>4, <3>1 DEF A
  <2>. HIDE DEF A
  <2>7. /\ Append(f, flat) = f \o <<flat>> /\ Append(f, flat) \in Seq(A)
        /\ Len(Append(f, flat)) = n + 1 /\ Append(f, flat)[n + 1] = flat
        /\ \A i \in 1..n : Append(f, flat)[i] = f[i]
    BY <2>6, OneMore
  <2>. DEFINE e == Append(f, flat)
  <2>8. /\ e \in Seq(A) /\ Len(e) = n + 1 /\ e = f \o <<flat>>
        /\ \A i \in 1..(n + 1) : e[i] = g[i]
    <3>1. \A i \in 1..(n + 1) : i = n + 1 \/ i \in 1..n
      BY <2>4
    <3>. QED
      BY <2>3, <2>4, <2>7, <3>1
  <2>. HIDE DEF e
  <2>9. e = [i \in 1..(n + 1) |-> e[i]]
    BY <2>8
  <2>10. g = [i \in 1..(n + 1) |-> g[i]]
    BY <2>2
  <2>11. e = g
    BY <2>8, <2>9, <2>10
  <2>. QED
    BY <2>8, <2>11 DEF f, g
<1>17. ASSUME NEW x \in Name \cup {Default}
       PROVE  ItemsIn(m, x) = ItemsKept(T, x)
  <2>1. ItemsIn(ls, x) = ItemsKept(S, x)
    BY DEF Says
  <2>2. CASE x = s
    <3>1. itemsOf(S, x) = old /\ itemsOf(T, x) = more
      BY <1>3, <1>7, <1>8, <2>2 DEF itemsOf, hasSection
    <3>2. ItemsKept(S, x) = FlatItems(old) /\ ItemsKept(T, x) = FlatItems(more)
      BY <3>1 DEF ItemsKept
    <3>. QED
      BY <1>13, <1>14, <1>16, <2>1, <2>2, <3>2
  <2>3. CASE x # s
    <3>1. itemsOf(T, x) = itemsOf(S, x)
      BY <1>7, <1>8, <2>3 DEF itemsOf, hasSection
    <3>2. ItemsIn(m, x) = ItemsIn(ls, x) \o <<>>
      BY <1>13, <1>14, <2>3
    <3>3. ItemsIn(m, x) = ItemsIn(ls, x)
      BY <1>14, <3>2, WithNone
    <3>. QED
      BY <2>1, <3>1, <3>3 DEF ItemsKept
  <2>. QED
    BY <2>2, <2>3
<1>18. HeadersIn(m) = HeadersIn(ls)
  BY <1>1, <1>2, HeadersNext DEF m
<1>19. ~Bad(m, Len(ls) + 1)
  BY <1>1, <1>2, <1>10 DEF Bad
<1>20. \A i \in 1..Len(m) : ~Bad(m, i)
  BY <1>1, <1>19, GoodNext DEF m, Says
<1>21. s = SectionOf(m, Len(m) + 1)
  BY <1>1, <1>2, SectionAfter DEF m, Says
<1>22. FlattenSeq(<<>>) = Waiting(m)
  BY <1>1, <1>2, WaitingNext, FlatNone DEF m
<1>. QED
  BY <1>9, <1>17, <1>18, <1>20, <1>21, <1>22 DEF Says, m, l, T, item, d

\* What is read of a file: all that its lines say, or, where load gives up, all that
\* those before the first bad one say.
AllRead(ls, r) ==
  /\ r.returned = "no" => Says(ls, r.sections, r.section, r.comment)
  /\ r.returned = "RET_ERR" =>
       /\ \E i \in 1..Len(ls) : Bad(ls, i)
       /\ readLines(GoodPart(ls)).returned = "no"
       /\ readLines(GoodPart(ls)).sections = r.sections

\* A loop that goes on has read what its fields say.
LEMMA AllReadLoop ==
  ASSUME NEW ls, NEW S, NEW s, NEW c, Says(ls, S, s, c)
  PROVE  AllRead(ls, Loop(S, s, c))
BY LoopHas DEF AllRead

\* One that fails has read what it had before.
LEMMA AllReadFail ==
  ASSUME NEW ls \in Seq(FileLine), NEW l \in FileLine, NEW S, NEW s, NEW c, Says(ls, S, s, c),
         readLines(ls) = Loop(S, s, c), Bad(Append(ls, l), Len(ls) + 1)
  PROVE  AllRead(Append(ls, l), Return(Loop(S, s, c), "RET_ERR"))
<1>. DEFINE m == Append(ls, l)
            r == Loop(S, s, c)
            e == Return(r, "RET_ERR")
<1>1. GoodPart(m) = ls /\ \E i \in 1..Len(m) : Bad(m, i)
  BY GoodNext DEF Says
<1>2. r = [x \in Fields |-> r[x]] /\ r.sections = S /\ r.returned = "no"
  BY LoopHas
<1>3. readLines(ls) = r
  OBVIOUS
<1>. HIDE DEF r
<1>4. e.sections = S /\ e.returned = "RET_ERR"
  BY <1>2, Returned
<1>. HIDE DEF m, e
<1>5. AllRead(m, e)
  BY <1>1, <1>2, <1>3, <1>4 DEF AllRead
<1>. QED
  BY <1>5 DEF m, e, r

\* One line more.
LEMMA AllReadStep ==
  ASSUME NEW ls \in Seq(FileLine), NEW l \in FileLine, AllRead(ls, readLines(ls))
  PROVE  AllRead(Append(ls, l), readLines(Append(ls, l)))
<1>. DEFINE m == Append(ls, l)
            r == readLines(ls)
            e == readLine(r, l)
<1>1. readLines(m) = e
  BY ReadMore
<1>2. LoopOK(r)
  BY ReadTyped
<1>3. SUFFICES AllRead(m, e)
  BY <1>1
<1>4. CASE r.returned = "RET_ERR"
  <2>1. e = r
    BY <1>4, ReadEnded
  <2>2. \E i \in 1..Len(ls) : Bad(ls, i)
    BY <1>4 DEF AllRead
  <2>3. GoodPart(m) = GoodPart(ls) /\ \E i \in 1..Len(m) : Bad(m, i)
    BY <2>2, BadNext
  <2>. HIDE DEF m, e, r
  <2>. QED
    BY <1>4, <2>1, <2>3 DEF AllRead, r
<1>5. CASE r.returned = "none"
  <2>1. e = r
    BY <1>5, ReadEnded
  <2>. QED
    BY <1>5, <2>1 DEF AllRead
<1>6. CASE r.returned = "no"
  <2>. DEFINE S == r.sections
              s == r.section
              c == r.comment
  <2>1. r = Loop(S, s, c) /\ LoopsOn(S, s, c)
    BY <1>2, <1>6, LoopGoesOn
  <2>2. Says(ls, S, s, c)
    BY <1>6 DEF AllRead
  <2>. HIDE DEF S, s, c, r
  <2>0. readLines(ls) = Loop(S, s, c)
    BY <2>1 DEF r
  <2>3. Waiting(ls) \in Seq(Text) /\ FlattenSeq(c) = Waiting(ls)
    BY <2>2, WaitingTyped DEF Says
  <2>4. Waiting(m) = IF Stops(l) THEN <<>> ELSE Waiting(ls) \o TextsOf(l)
    BY WaitingNext
  <2>5. CASE l = Blank
    <3>1. ~Stops(l) /\ ~IsHeader(l) /\ l.kind = "blank" /\ TextsOf(l) = <<>>
      BY <2>5 DEF Stops, IsHeader, Blank, TextsOf
    <3>2. FlattenSeq(c) = Waiting(m)
      BY <2>3, <2>4, <3>1, WithNone
    <3>3. Says(m, S, s, c)
      BY <2>2, <3>1, <3>2, SaysPlain
    <3>4. e = Loop(S, s, c)
      BY <2>1, <2>5, ReadOther
    <3>. QED
      BY <3>3, <3>4, AllReadLoop
  <2>6. CASE l = Junk
    <3>1. Stops(l) /\ ~IsHeader(l) /\ l.kind = "junk"
      BY <2>6 DEF Stops, IsHeader, Junk
    <3>2. FlattenSeq(<<>>) = Waiting(m)
      BY <2>4, <3>1, FlatNone
    <3>3. Says(m, S, s, <<>>)
      BY <2>2, <3>1, <3>2, SaysPlain
    <3>4. e = Loop(S, s, <<>>)
      BY <2>1, <2>6, ReadOther
    <3>. QED
      BY <3>3, <3>4, AllReadLoop
  <2>7. CASE l = Unclosed
    <3>1. e = Return(Loop(S, s, c), "RET_ERR")
      BY <2>1, <2>7, ReadOther
    <3>2. Bad(m, Len(ls) + 1)
      BY <2>7, LastLine DEF Bad, Unclosed
    <3>. QED
      BY <2>0, <2>2, <3>1, <3>2, AllReadFail
  <2>8. ASSUME NEW t \in Seq(Text) \ {<<>>}, l = CommentLine(t)
        PROVE  AllRead(m, e)
    <3>1. ~Stops(l) /\ ~IsHeader(l) /\ l.kind = "comment" /\ TextsOf(l) = t
      BY <2>8 DEF Stops, IsHeader, CommentLine, TextsOf
    <3>2. FlattenSeq(Append(c, t)) = FlattenSeq(c) \o t
      <4>. DEFINE A == Seq(Text) \ {<<>>}
                  B == Seq(Text)
      <4>1. A \subseteq B /\ c \in Seq(A) /\ t \in B
        BY <2>1 DEF LoopsOn, FlaggedComment
      <4>. HIDE DEF A, B
      <4>2. c \in Seq(B)
        BY <4>1
      <4>. QED
        BY <4>1, <4>2, FlatMore DEF B
    <3>3. FlattenSeq(Append(c, t)) = Waiting(m)
      BY <2>3, <2>4, <3>1, <3>2
    <3>4. Says(m, S, s, Append(c, t))
      BY <2>2, <3>1, <3>3, SaysPlain
    <3>5. e = Loop(S, s, Append(c, t))
      BY <2>1, <2>8, ReadCommentLine
    <3>. QED
      BY <3>4, <3>5, AllReadLoop
  <2>9. ASSUME NEW n \in Name \cup {Default}, NEW b \in Behind, l = Header(n, b)
        PROVE  AllRead(m, e)
    <3>. DEFINE d == withBehind(c, b)
    <3>1. l.kind = "header" /\ l.name = n /\ TextsOf(l) = b
      BY <2>9 DEF Header, TextsOf
    <3>2. CASE n = Default
      <4>1. ~Stops(l) /\ ~IsHeader(l)
        BY <3>1, <3>2 DEF Stops, IsHeader
      <4>2. FlattenSeq(d) = Waiting(m)
        BY <2>1, <2>3, <2>4, <3>1, <4>1, FlatBehind DEF LoopsOn
      <4>3. e = Loop(S, NoSection, d)
        BY <2>1, <2>9, <3>2, ReadNoName
      <4>. HIDE DEF d
      <4>4. Says(m, S, NoSection, d)
        BY <2>2, <3>1, <4>1, <4>2, SaysPlain
      <4>. QED
        BY <4>3, <4>4, AllReadLoop
    <3>3. CASE n # Default /\ n \in DOMAIN S
      <4>1. e = Return(Loop(S, s, c), "RET_ERR")
        BY <2>1, <2>9, <3>3, ReadTwice
      <4>2. Bad(m, Len(ls) + 1)
        <5>1. <<n, FlattenSeq(S[n].comment)>> \in HeadersOf(S)
          BY <3>3 DEF HeadersOf
        <5>2. <<n, FlattenSeq(S[n].comment)>> \in HeadersIn(ls)
          BY <2>2, <5>1 DEF Says
        <5>3. PICK j \in {i \in 1..Len(ls) : IsHeader(ls[i])} :
                <<n, FlattenSeq(S[n].comment)>> = <<ls[j].name, CommentOn(ls, j)>>
          BY <5>2 DEF HeadersIn
        <5>4. j \in 1..Len(ls) /\ IsHeader(ls[j]) /\ ls[j].name = n
          BY <5>3
        <5>5. /\ m[Len(ls) + 1] = l /\ m[j] = ls[j] /\ Len(ls) \in Nat
              /\ (Len(ls) + 1) - 1 = Len(ls)
          BY <5>4, LastLine
        <5>6. IsHeader(l)
          BY <3>1, <3>3 DEF IsHeader
        <5>. HIDE DEF m
        <5>. QED
          BY <3>1, <5>4, <5>5, <5>6 DEF Bad
      <4>. QED
        BY <2>0, <2>2, <4>1, <4>2, AllReadFail
    <3>4. CASE n # Default /\ n \notin DOMAIN S
      <4>1. e = Loop(Put(S, n, NewSection(d)), n, <<>>)
        BY <2>1, <2>9, <3>4, ReadHeaderLine
      <4>2. n \in Name
        BY <3>4
      <4>3. Says(m, Put(S, n, NewSection(d)), n, <<>>)
        BY <2>1, <2>2, <2>9, <3>4, <4>2, SaysHeader
      <4>. QED
        BY <4>1, <4>3, AllReadLoop
    <3>. QED
      BY <3>2, <3>3, <3>4
  <2>10. ASSUME NEW k \in Key, NEW v \in Value, NEW b \in Behind, l = ItemLine(k, v, b)
         PROVE  AllRead(m, e)
    <3>1. CASE s = NoSection
      <4>. DEFINE w == Return(Loop(S, s, c), "none")
      <4>1. e = w
        BY <2>1, <2>10, <3>1, ReadNowhere
      <4>2. w.returned = "none"
        BY LoopHas, Returned
      <4>. HIDE DEF w, e, m
      <4>. QED
        BY <4>1, <4>2 DEF AllRead
    <3>2. CASE s # NoSection
      <4>. DEFINE T == WithItem(S, s, Item(k, v, withBehind(c, b)))
      <4>1. e = Loop(T, s, <<>>)
        BY <2>1, <2>10, <3>2, ReadItemLine
      <4>2. Says(m, T, s, <<>>)
        BY <2>1, <2>2, <2>10, <3>2, SaysItem
      <4>. QED
        BY <4>1, <4>2, AllReadLoop
    <3>. QED
      BY <3>1, <3>2
  <2>. QED
    BY <2>5, <2>6, <2>7, <2>8, <2>9, <2>10, KindsOfLine
<1>. QED
  BY <1>2, <1>4, <1>5, <1>6 DEF LoopOK

\* And so it is after all lines.
LEMMA AllLinesRead ==
  ASSUME NEW ls \in Seq(FileLine)
  PROVE  AllRead(ls, readLines(ls))
<1>. DEFINE n == Len(ls)
            P(k) == SubSeq(ls, 1, k)
            T == {k \in Nat : k \in 0..n => AllRead(P(k), readLines(P(k)))}
<1>1. n \in Nat /\ P(0) = <<>> /\ P(n) = ls
  BY FirstParts
<1>2. 0 \in T
  <2>. DEFINE section == Section(<<>>, <<>>)
              S == Put(NoSections, Default, section)
  <2>1. DOMAIN S = {Default} /\ S[Default] = section /\ section.items = <<>>
    BY DEF Put, NoSections, Section
  <2>2. readLines(<<>>) = Loop(S, Default, <<>>)
    BY ReadNone, ReadingIs
  <2>. HIDE DEF S, section
  <2>3. HeadersOf(S) = {}
    BY <2>1 DEF HeadersOf
  <2>4. ASSUME NEW x
        PROVE  ItemsKept(S, x) = <<>>
    <3>1. itemsOf(S, x) = <<>>
      BY <2>1 DEF itemsOf, hasSection
    <3>. QED
      BY <3>1 DEF ItemsKept, FlatItems
  <2>5. Len(<<>>) = 0 /\ 0 + 1 = 1 /\ 1..0 = {}
    OBVIOUS
  <2>6. Says(<<>>, S, Default, <<>>)
    BY <2>3, <2>4, <2>5, NothingSaid, FlatNone DEF Says
  <2>7. AllRead(<<>>, readLines(<<>>))
    BY <2>2, <2>6, AllReadLoop
  <2>. QED
    BY <1>1, <2>7
<1>3. ASSUME NEW k \in Nat, k \in T
      PROVE  k + 1 \in T
  <2>. SUFFICES ASSUME k + 1 \in 0..n
                PROVE  AllRead(P(k + 1), readLines(P(k + 1)))
    OBVIOUS
  <2>1. k \in 0..(n - 1) /\ k \in 0..n
    BY <1>1
  <2>2. P(k) \in Seq(FileLine) /\ ls[k + 1] \in FileLine /\ P(k + 1) = Append(P(k), ls[k + 1])
    BY <2>1, FirstParts
  <2>3. AllRead(P(k), readLines(P(k)))
    BY <1>3, <2>1
  <2>. HIDE DEF P
  <2>. QED
    BY <2>2, <2>3, AllReadStep
<1>. HIDE DEF T
<1>4. n \in T
  BY <1>1, <1>2, <1>3, Inductive
<1>5. AllRead(P(n), readLines(P(n)))
  BY <1>1, <1>4 DEF T
<1>. QED
  BY <1>1, <1>5

\* What is saved of sections says what they are.
LEMMA SavedSays ==
  ASSUME NEW S, Writable(S), Default \in DOMAIN S
  PROVE  /\ HeadersIn(savedLines(S)) = HeadersOf(S)
         /\ \A x \in Name \cup {Default} : ItemsIn(savedLines(S), x) = ItemsKept(S, x)
<1>. DEFINE ls == savedLines(S)
            r == readLines(ls)
<1>1. PICK s : r = Loop(AllReadBack(S), s, <<>>)
  BY ReadSaved
<1>2. AllReadBack(S) = S
  <2>1. DOMAIN S \cup {Default} = DOMAIN S /\ S = [x \in DOMAIN S |-> S[x]]
    BY DEF Writable
  <2>2. \A x \in DOMAIN S : ReadBack(S, x) = S[x]
    BY DEF ReadBack
  <2>. QED
    BY <2>1, <2>2 DEF AllReadBack
<1>3. r.returned = "no" /\ r.sections = S
  BY <1>1, <1>2, LoopHas
<1>4. ls \in Seq(FileLine)
  BY SavedTyped DEF Writable
<1>5. AllRead(ls, r)
  BY <1>4, AllLinesRead
<1>. HIDE DEF r, ls
<1>6. Says(ls, S, r.section, r.comment)
  BY <1>3, <1>5 DEF AllRead
<1>. QED
  BY <1>6 DEF Says, ls

\* What is loaded is what the good part of the file says.
LEMMA LoadedSays ==
  ASSUME NEW ls \in Seq(FileLine), loadedFrom(ls).returned # "none"
  PROVE  /\ loadedFrom(ls).returned = "RET_OK" <=> GoodPart(ls) = ls
         /\ HeadersIn(GoodPart(ls)) = HeadersOf(loadedFrom(ls).sections)
         /\ \A x \in Name \cup {Default} :
              ItemsIn(GoodPart(ls), x) = ItemsKept(loadedFrom(ls).sections, x)
<1>. DEFINE r == readLines(ls)
            g == GoodPart(ls)
            q == readLines(g)
            what == loadedFrom(ls).returned
<1>1. /\ what = IF r.returned = "no" THEN "RET_OK" ELSE r.returned
      /\ what \in {"RET_OK", "RET_ERR", "none"}
      /\ loadedFrom(ls).sections = r.sections
  BY LoadedTyped
<1>2. AllRead(ls, r) /\ LoopOK(r)
  BY AllLinesRead, ReadTyped
<1>3. /\ g \in Seq(FileLine) /\ q.returned = "no" /\ q.sections = r.sections
      /\ what = "RET_OK" <=> g = ls
  <2>1. CASE r.returned = "no"
    <3>1. \A i \in 1..Len(ls) : ~Bad(ls, i)
      BY <1>2, <2>1 DEF AllRead, Says
    <3>2. g = ls
      BY <3>1 DEF GoodPart
    <3>. QED
      BY <1>1, <2>1, <3>2
  <2>2. CASE r.returned = "RET_ERR"
    <3>1. /\ \E i \in 1..Len(ls) : Bad(ls, i)
          /\ q.returned = "no" /\ q.sections = r.sections
      BY <1>2, <2>2 DEF AllRead
    <3>2. Blank \in FileLine
      BY DEF FileLine, Line
    <3>3. g \in Seq(FileLine) /\ g # ls
      BY <3>1, <3>2, BadNext
    <3>. QED
      BY <1>1, <2>2, <3>1, <3>3
  <2>. QED
    BY <1>1, <1>2, <2>1, <2>2 DEF LoopOK
<1>4. AllRead(g, q)
  BY <1>3, AllLinesRead
<1>. HIDE DEF r, g, q, what
<1>5. Says(g, r.sections, q.section, q.comment)
  BY <1>3, <1>4 DEF AllRead
<1>. QED
  BY <1>1, <1>3, <1>5 DEF Says, g, r, what

\* A load followed by a save keeps all that the file says up to its first bad header,
\* item by item and header by header, and its result tells whether that was everything.
THEOREM LoadIsSaved == IniSpec => LoadedIsSaved
<1>1. IniInv => LoadKeeps
  <2>. DEFINE g == GoodPart(iniFile)
              saved == savedLines(sections_')
              r == loadedFrom(iniFile)
  <2>. SUFFICES ASSUME IniInv, load, iniFile # NoIniFile, result' # "none"
                PROVE  /\ result' = "RET_OK" <=> g = iniFile
                       /\ HeadersIn(saved) = HeadersIn(g)
                       /\ \A s \in Name \cup {Default} : ItemsIn(saved, s) = ItemsIn(g, s)
    BY DEF LoadKeeps
  <2>1. sections_' = r.sections /\ result' = r.returned
    BY DEF load
  <2>2. iniFile \in Seq(FileLine)
    BY DEF IniInv
  <2>3. Writable(sections_') /\ Default \in DOMAIN sections_'
    BY <2>1, <2>2, LoadedTyped
  <2>4. /\ HeadersIn(saved) = HeadersOf(sections_')
        /\ \A x \in Name \cup {Default} : ItemsIn(saved, x) = ItemsKept(sections_', x)
    BY <2>3, SavedSays
  <2>. HIDE DEF r
  <2>5. /\ r.returned = "RET_OK" <=> g = iniFile
        /\ HeadersIn(g) = HeadersOf(r.sections)
        /\ \A x \in Name \cup {Default} : ItemsIn(g, x) = ItemsKept(r.sections, x)
    BY <2>1, <2>2, LoadedSays DEF r
  <2>. HIDE DEF g, saved
  <2>. QED
    BY <2>1, <2>4, <2>5
<1>. QED
  BY <1>1, IniInvariance, PTL DEF IniSpec, LoadedIsSaved
==============================================================================
