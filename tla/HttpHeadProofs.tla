---------------------------- MODULE HttpHeadProofs ----------------------------
(***************************************************************************)
(* Theorems about HttpHead, for URLs and heads of every length.            *)
(*                                                                         *)
(* HeadSuffices: parseHttpHeader, which is given a size that reaches       *)
(* behind the head, has returned when the head ends.                       *)
(*                                                                         *)
(* UrlCorrect: parseUrl enters the segments of the path and the pairs of   *)
(* the query besides what earlier requests have left.  HeadCorrect:        *)
(* parseHttpHeader accepts the lists of header lines with an empty line    *)
(* behind them, and enters what they say over what was left.               *)
(* TypeCorrect: names are tokens, values free of control characters.       *)
(*                                                                         *)
(* Both properties cut the whole text at delimiters, while the scanners    *)
(* see it character by character.  So the lemmas in the middle say what    *)
(* one more character does to such a cut: it makes the last part longer,   *)
(* or ends it.  With them the invariants say, for every text read so far,  *)
(* which parts have ended, which one is being read, and that what the      *)
(* scanner has collected is what these parts say.                          *)
(***************************************************************************)
EXTENDS HttpHead, SequenceTheorems, FiniteSetTheorems, WellFoundedInduction, TLAPS

Char == UrlChar \cup HeadChar

\* What was read, with the line break in front of the header lines.
Scanned == <<"CR", "LF">> \o text

NoBlankLine(s) ==
  \A i \in 1..Len(s) - 3 :
    ~(s[i] = "CR" /\ s[i + 1] = "LF" /\ s[i + 2] = "CR" /\ s[i + 3] = "LF")

\* The state tells what the last characters are, as far as an empty line needs them.
StateKnows(s) ==
  LET last == s[Len(s)] IN
  /\ state \in {"FirstLineStart", "HeaderLineStart"} => last = "LF"
  /\ state \in {"HeaderName", "HeaderLws", "SpaceBeforeHeaderValue", "HeaderValue"} =>
       last \notin Control
  /\ state = "LineFeed" => last = "CR" /\ s[Len(s) - 1] # "LF"

IndInv ==
  /\ text \in Seq(Char)
  /\ function = "parseHttpHeader" /\ result = "none" =>
       state \in HeadState /\ StateKnows(Scanned) /\ NoBlankLine(Scanned)

\* What was scanned is a sequence of characters with two at least.
LEMMA ScannedTyped ==
  ASSUME text \in Seq(Char)
  PROVE  Scanned \in Seq(Char) /\ Len(Scanned) \in Nat /\ Len(Scanned) >= 2
<1>1. <<"CR", "LF">> \in Seq(Char) /\ Len(<<"CR", "LF">>) = 2
  BY DEF Char, HeadChar, Control
<1>2. Scanned \in Seq(Char) /\ Len(Scanned) = 2 + Len(text) /\ Len(text) \in Nat
  BY <1>1 DEF Scanned
<1>. QED
  BY <1>2

\* Each iteration adds its character.
LEMMA ScannedAppended ==
  ASSUME text \in Seq(Char), NEW c \in Char, text' = Append(text, c)
  PROVE  Scanned' = Append(Scanned, c)
<1>1. <<"CR", "LF">> \in Seq(Char)
  BY DEF Char, HeadChar, Control
<1>2. \A s \in Seq(Char) : s \o Append(text, c) = Append(s \o text, c)
  OBVIOUS
<1>. QED
  BY <1>1, <1>2 DEF Scanned

\* A character ends an empty line only behind CR LF CR.
LEMMA NoBlankLineAppended ==
  ASSUME NEW s \in Seq(Char), Len(s) >= 2, NEW c \in Char, NoBlankLine(s),
         c = "LF" /\ s[Len(s)] = "CR" => s[Len(s) - 1] # "LF"
  PROVE  NoBlankLine(Append(s, c))
<1>1. /\ Len(s) \in Nat /\ Len(Append(s, c)) = Len(s) + 1
      /\ \A i \in 1..Len(s) : Append(s, c)[i] = s[i]
      /\ Append(s, c)[Len(s) + 1] = c
  BY AppendProperties, LenProperties
<1>2. ASSUME NEW i \in 1..Len(Append(s, c)) - 3
      PROVE  ~(/\ Append(s, c)[i] = "CR" /\ Append(s, c)[i + 1] = "LF"
               /\ Append(s, c)[i + 2] = "CR" /\ Append(s, c)[i + 3] = "LF")
  <2>1. CASE i \in 1..Len(s) - 3
    BY <1>1, <2>1 DEF NoBlankLine
  <2>2. CASE i = Len(s) - 2
    BY <1>1, <2>2
  <2>. QED
    BY <1>1, <2>1, <2>2
<1>. QED
  BY <1>2 DEF NoBlankLine

------------------------------------------------------------------------------
\* An iteration of parseHttpHeader.
LEMMA HeadStep ==
  ASSUME IndInv, NEW c \in HeadChar, parseHttpHeader(c)
  PROVE  IndInv'
<1>. DEFINE s == Scanned
<1>1. /\ function = "parseHttpHeader" /\ result = "none"
      /\ text' = Append(text, c) /\ c \in Char /\ text \in Seq(Char)
  BY DEF parseHttpHeader, FirstLineStart, HeaderLineStart, HeaderName, HeaderLws,
         SpaceBeforeHeaderValue, HeaderValue, LineFeed, FinalLineFeed, Fail, headReads,
         headScans, IndInv, Char
<1>2. /\ s \in Seq(Char) /\ Len(s) \in Nat /\ Len(s) >= 2 /\ Scanned' = Append(s, c)
      /\ StateKnows(s) /\ NoBlankLine(s)
  BY <1>1, ScannedTyped, ScannedAppended DEF IndInv
<1>3. /\ Scanned'[Len(Scanned')] = c
      /\ Scanned'[Len(Scanned') - 1] = s[Len(s)]
  BY <1>2, AppendProperties
<1>. HIDE DEF s
<1>4. CASE FinalLineFeed(c) \/ Fail(c)
  <2>1. result' # "none"
    BY <1>4 DEF FinalLineFeed, Fail
  <2>. QED
    BY <1>1, <2>1, AppendProperties DEF IndInv
<1>5. CASE ~(FinalLineFeed(c) \/ Fail(c))
  <2>1. state' \in HeadState
    BY <1>5 DEF parseHttpHeader, FirstLineStart, HeaderLineStart, nextHeader, lastHeader,
         HeaderName, HeaderLws, scanName, SpaceBeforeHeaderValue, HeaderValue, LineFeed,
         headReads, headScans, HeadState
  <2>2. /\ state' \notin {"FirstLineStart"}
        /\ state' = "HeaderLineStart" => c = "LF"
        /\ state' \in {"HeaderName", "HeaderLws", "SpaceBeforeHeaderValue", "HeaderValue"} =>
             c \notin Control
        /\ state' = "LineFeed" => c = "CR" /\ state = "HeaderValue"
    BY <1>5 DEF parseHttpHeader, FirstLineStart, HeaderLineStart, nextHeader, lastHeader,
         HeaderName, HeaderLws, scanName, SpaceBeforeHeaderValue, HeaderValue, LineFeed,
         headReads, headScans, Token, Control
  <2>3. StateKnows(Scanned)'
    BY <1>2, <1>3, <2>2 DEF StateKnows, Control
  <2>4. state \in HeadState \ {"FinalLineFeed", "Fail"}
    BY <1>5 DEF parseHttpHeader, FirstLineStart, HeaderLineStart, HeaderName, HeaderLws,
         SpaceBeforeHeaderValue, HeaderValue, LineFeed, headReads, headScans, HeadState
  <2>5. c = "LF" /\ s[Len(s)] = "CR" => s[Len(s) - 1] # "LF"
    BY <1>2, <2>4 DEF StateKnows, HeadState, Control
  <2>6. NoBlankLine(Scanned')
    BY <1>1, <1>2, <2>5, NoBlankLineAppended
  <2>. QED
    BY <1>1, <2>1, <2>3, <2>6, AppendProperties DEF IndInv
<1>. QED
  BY <1>4, <1>5

\* An iteration of parseUrl.
LEMMA UrlStep ==
  ASSUME IndInv, NEW c \in UrlChar, NEW isLast \in BOOLEAN, parseUrl(c, isLast)
  PROVE  IndInv'
<1>1. /\ function = "parseUrl" /\ function' = function
      /\ text' = Append(text, c) /\ c \in Char /\ text \in Seq(Char)
  BY DEF parseUrl, Start, Path, ParamKey, ParamValue, urlReads, IndInv, Char
<1>. QED
  BY <1>1, AppendProperties DEF IndInv

\* The next call has read nothing.
LEMMA CallStep ==
  ASSUME nextUrl \/ nextHead
  PROVE  IndInv'
<1>1. text' = <<>> /\ function' = function
  BY DEF nextUrl, nextHead, Call
<1>2. text' \in Seq(Char) /\ Scanned' = <<"CR", "LF">>
  BY <1>1 DEF Scanned
<1>3. CASE nextUrl
  BY <1>1, <1>2, <1>3 DEF nextUrl, IndInv
<1>4. CASE nextHead
  <2>1. state' = "FirstLineStart"
    BY <1>4 DEF nextHead, Call
  <2>2. NoBlankLine(Scanned')
    BY <1>2 DEF NoBlankLine
  <2>3. state' \in HeadState /\ StateKnows(Scanned)'
    BY <1>2, <2>1 DEF HeadState, StateKnows
  <2>. QED
    BY <1>2, <2>2, <2>3 DEF IndInv
<1>. QED
  BY <1>3, <1>4

\* The state of parseHttpHeader tells what was read last, and no empty line was read
\* while it runs.
THEOREM Invariance == Spec => []IndInv
<1>1. Init => IndInv
  <2>. SUFFICES ASSUME Init PROVE IndInv
    OBVIOUS
  <2>1. text \in Seq(Char) /\ Scanned = <<"CR", "LF">>
    BY DEF Init, Scanned
  <2>2. NoBlankLine(Scanned)
    BY <2>1 DEF NoBlankLine
  <2>3. function = "parseHttpHeader" => state \in HeadState /\ StateKnows(Scanned)
    BY <2>1 DEF Init, HeadState, StateKnows
  <2>. QED
    BY <2>1, <2>2, <2>3 DEF IndInv
<1>2. IndInv /\ [Next]_vars => IndInv'
  <2>. SUFFICES ASSUME IndInv, [Next]_vars PROVE IndInv'
    OBVIOUS
  <2>1. CASE UNCHANGED vars
    BY <2>1 DEF vars, IndInv, StateKnows, Scanned
  <2>2. CASE emptyUrl \/ endOfText
    BY <2>2 DEF emptyUrl, endOfText, IndInv
  <2>. QED
    BY <2>1, <2>2, HeadStep, UrlStep, CallStep DEF Next
<1>. QED
  BY <1>1, <1>2, PTL DEF Spec

\* The scanner never reads behind the first empty line: with the line break in front, what
\* it has read while it runs holds none.
THEOREM HeadSuffices == Spec => []HeadIsEnough
<1>1. ASSUME IndInv PROVE HeadIsEnough
  <2>. SUFFICES ASSUME function = "parseHttpHeader", result = "none",
                       NEW i \in 1..Len(Scanned) - 3,
                       SubSeq(Scanned, i, i + 3) = <<"CR", "LF", "CR", "LF">>
                PROVE  FALSE
    BY DEF HeadIsEnough, Scanned
  <2>1. Scanned \in Seq(Char) /\ Len(Scanned) \in Nat /\ NoBlankLine(Scanned)
    BY <1>1, ScannedTyped DEF IndInv
  <2>. DEFINE four == SubSeq(Scanned, i, i + 3)
  <2>2. /\ four[1] = Scanned[i] /\ four[2] = Scanned[i + 1]
        /\ four[3] = Scanned[i + 2] /\ four[4] = Scanned[i + 3]
    BY <2>1
  <2>. HIDE DEF four
  <2>3. /\ Scanned[i] = "CR" /\ Scanned[i + 1] = "LF"
        /\ Scanned[i + 2] = "CR" /\ Scanned[i + 3] = "LF"
    <3>1. four = <<"CR", "LF", "CR", "LF">>
      BY DEF four
    <3>. QED
      BY <2>2, <3>1
  <2>. QED
    BY <2>1, <2>3 DEF NoBlankLine
<1>. QED
  BY <1>1, Invariance, PTL

------------------------------------------------------------------------------
(* Positions in their order *)

\* The positions in S lie behind from and up to n, and Nth gives one for each rank.
Ranked(S, from, n) ==
  /\ S \subseteq from + 1 .. n
  /\ IsFiniteSet(S)
  /\ \A k \in 1..Cardinality(S) :
       Nth(S, k) \in S /\ Cardinality({j \in S : j <= Nth(S, k)}) = k

\* No position has no rank.
LEMMA NoneRanked ==
  ASSUME NEW from \in Nat, NEW n \in Nat
  PROVE  Ranked({}, from, n) /\ Cardinality({}) = 0
<1>1. IsFiniteSet({}) /\ Cardinality({}) = 0
  BY FS_EmptySet
<1>2. \A k \in 1..0 : FALSE
  OBVIOUS
<1>. QED
  BY <1>1, <1>2 DEF Ranked

\* What is in a finite set is finite, and smaller unless it is the set.
LEMMA SubsetFinite ==
  ASSUME NEW S, IsFiniteSet(S), NEW A, A \subseteq S
  PROVE  IsFiniteSet(A) /\ (Cardinality(A) = Cardinality(S) => A = S)
<1>1. A \in SUBSET S
  OBVIOUS
<1>. QED
  BY <1>1, FS_Subset

\* Positions of the same rank are the same.
LEMMA RankIsUnique ==
  ASSUME NEW T, T \subseteq Int, IsFiniteSet(T), NEW i \in T, NEW j \in T,
         Cardinality({x \in T : x <= i}) = Cardinality({x \in T : x <= j})
  PROVE  i = j
<1>1. ASSUME NEW a \in T, NEW b \in T, a < b,
             Cardinality({x \in T : x <= a}) = Cardinality({x \in T : x <= b})
      PROVE  FALSE
  <2>. DEFINE A == {x \in T : x <= a}
              C == {x \in T : x <= b}
  <2>1. IsFiniteSet(C)
    <3>1. C \subseteq T
      OBVIOUS
    <3>. HIDE DEF A, C
    <3>. QED
      BY <3>1, SubsetFinite
  <2>2. A \subseteq C
    <3>1. \A x \in T : x <= a => x <= b
      BY <1>1
    <3>. QED
      BY <3>1
  <2>3. b \in C /\ b \notin A
    BY <1>1
  <2>4. Cardinality(A) = Cardinality(C)
    BY <1>1
  <2>. HIDE DEF A, C
  <2>5. A = C
    BY <2>1, <2>2, <2>4, SubsetFinite
  <2>. QED
    BY <2>3, <2>5
<1>2. i < j \/ j < i \/ i = j
  OBVIOUS
<1>. QED
  BY <1>1, <1>2

\* A position behind all others comes last and leaves them where they are.
LEMMA LastRanked ==
  ASSUME NEW from \in Nat, NEW n \in Nat, NEW S, Ranked(S, from, n),
         NEW p \in Nat, p > n, p > from
  PROVE  /\ Ranked(S \cup {p}, from, p)
         /\ Cardinality(S) \in Nat
         /\ Cardinality(S \cup {p}) = Cardinality(S) + 1
         /\ Nth(S \cup {p}, Cardinality(S) + 1) = p
         /\ \A k \in 1..Cardinality(S) : Nth(S \cup {p}, k) = Nth(S, k)
<1>. DEFINE T == S \cup {p}
            c == Cardinality(S)
            rankS(i) == Cardinality({j \in S : j <= i})
            rankT(i) == Cardinality({j \in T : j <= i})
<1>1. S \subseteq from + 1 .. n /\ IsFiniteSet(S) /\ p \notin S /\ \A i \in S : i \in Nat /\ i < p
  BY DEF Ranked
<1>2. c \in Nat /\ IsFiniteSet(T) /\ Cardinality(T) = c + 1
  <2>1. c \in Nat
    BY <1>1, FS_CardinalityType
  <2>2. IsFiniteSet(T) /\ Cardinality(T) = IF p \in S THEN Cardinality(S) ELSE Cardinality(S) + 1
    BY <1>1, FS_AddElement
  <2>. QED
    BY <1>1, <2>1, <2>2
<1>3. \A i \in S : {j \in T : j <= i} = {j \in S : j <= i}
  BY <1>1
<1>4. {j \in T : j <= p} = T
  <2>1. \A j \in T : j <= p
    BY <1>1
  <2>. HIDE DEF T
  <2>. QED
    BY <2>1
<1>5. \A i \in S : rankT(i) = rankS(i)
  BY <1>3
<1>6. rankT(p) = c + 1
  BY <1>2, <1>4
<1>7. \A k \in 1..c : Nth(S, k) \in S /\ rankS(Nth(S, k)) = k
  BY DEF Ranked
<1>8. ASSUME NEW k, NEW i \in T, rankT(i) = k
      PROVE  Nth(T, k) = i
  <2>1. Nth(T, k) \in T /\ rankT(Nth(T, k)) = k
    BY <1>8 DEF Nth
  <2>2. T \subseteq Int
    BY <1>1
  <2>3. Cardinality({j \in T : j <= Nth(T, k)}) = Cardinality({j \in T : j <= i})
    BY <1>8, <2>1
  <2>. DEFINE m == Nth(T, k)
  <2>4. m \in T /\ i \in T /\ IsFiniteSet(T)
    BY <1>2, <2>1
  <2>. HIDE DEF T, m
  <2>5. Cardinality({j \in T : j <= m}) = Cardinality({j \in T : j <= i})
    BY <2>3 DEF m
  <2>6. m = i
    BY <2>2, <2>4, <2>5, RankIsUnique, ZenonT(30)
  <2>. QED
    BY <2>6 DEF m
<1>. HIDE DEF rankS, rankT, c
<1>9. \A k \in 1..c : Nth(T, k) = Nth(S, k)
  BY <1>5, <1>7, <1>8
<1>10. Nth(T, c + 1) = p
  BY <1>6, <1>8
<1>11. \A k \in 1..c + 1 : Nth(T, k) \in T /\ rankT(Nth(T, k)) = k
  <2>1. \A k \in 1..c + 1 : k \in 1..c \/ k = c + 1
    BY <1>2
  <2>. QED
    BY <1>5, <1>6, <1>7, <1>9, <1>10, <2>1
<1>12. T \subseteq from + 1 .. p
  BY <1>1
<1>. QED
  BY <1>2, <1>9, <1>10, <1>11, <1>12 DEF Ranked, c, rankT

------------------------------------------------------------------------------
(* What is read, cut at positions *)

\* A part of what was read stays when a character is added.
LEMMA PartStays ==
  ASSUME NEW C, NEW s \in Seq(C), NEW c \in C, NEW a \in Nat, a >= 1, NEW b \in Int, b <= Len(s)
  PROVE  SubSeq(Append(s, c), a, b) = SubSeq(s, a, b)
<1>. DEFINE t == Append(s, c)
<1>1. t \in Seq(C) /\ Len(s) \in Nat /\ Len(t) = Len(s) + 1 /\ \A i \in 1..Len(s) : t[i] = s[i]
  BY AppendProperties
<1>2. \A i \in a..b : i \in 1..Len(s) /\ s[i] \in C /\ t[i] \in C /\ t[i] = s[i]
  BY <1>1, ElementOfSeq
<1>. HIDE DEF t
<1>3. /\ SubSeq(s, a, b) \in Seq(C) /\ SubSeq(t, a, b) \in Seq(C)
      /\ Len(SubSeq(s, a, b)) = Len(SubSeq(t, a, b))
      /\ Len(SubSeq(s, a, b)) = IF a <= b THEN b - a + 1 ELSE 0
  BY <1>2, SubSeqProperties
<1>4. \A i \in 1..b - a + 1 :
        SubSeq(s, a, b)[i] = s[a + i - 1] /\ SubSeq(t, a, b)[i] = t[a + i - 1]
  BY <1>2, SubSeqProperties
<1>5. \A i \in 1..Len(SubSeq(t, a, b)) : i \in 1..b - a + 1 /\ a + i - 1 \in a..b
  BY <1>3
<1>6. \A i \in 1..Len(SubSeq(t, a, b)) : SubSeq(t, a, b)[i] = SubSeq(s, a, b)[i]
  BY <1>2, <1>4, <1>5
<1>7. SubSeq(t, a, b) = SubSeq(s, a, b)
  BY <1>3, <1>6, SeqEqual
<1>. QED
  BY <1>7 DEF t

\* The last part grows by the character that is added.
LEMMA PartGrows ==
  ASSUME NEW C, NEW s \in Seq(C), NEW c \in C, NEW a \in Nat, a >= 1, a <= Len(s) + 1
  PROVE  SubSeq(Append(s, c), a, Len(s) + 1) = Append(SubSeq(s, a, Len(s)), c)
<1>. DEFINE t == Append(s, c)
            n == Len(s)
<1>1. t \in Seq(C) /\ n \in Nat /\ Len(t) = n + 1 /\ t[n + 1] = c /\ \A i \in 1..n : t[i] = s[i]
  BY AppendProperties
<1>2. \A i \in a..n + 1 : t[i] \in C
  BY <1>1, ElementOfSeq
<1>3. \A i \in a..n : s[i] \in C
  BY <1>1, ElementOfSeq
<1>. HIDE DEF t
<1>4. /\ SubSeq(s, a, n) \in Seq(C) /\ Len(SubSeq(s, a, n)) = n - a + 1
      /\ \A i \in 1..n - a + 1 : SubSeq(s, a, n)[i] = s[a + i - 1]
  BY <1>1, <1>3, SubSeqProperties
<1>5. /\ SubSeq(t, a, n + 1) \in Seq(C) /\ Len(SubSeq(t, a, n + 1)) = n + 1 - a + 1
      /\ \A i \in 1..n + 1 - a + 1 : SubSeq(t, a, n + 1)[i] = t[a + i - 1]
  BY <1>1, <1>2, SubSeqProperties
<1>. DEFINE u == SubSeq(s, a, n)
            w == Append(u, c)
<1>6. /\ w \in Seq(C) /\ Len(w) = n - a + 2 /\ w[n - a + 2] = c
      /\ \A i \in 1..n - a + 1 : w[i] = s[a + i - 1]
  BY <1>1, <1>4, AppendProperties
<1>. HIDE DEF w, u, n
<1>7. \A i \in 1..Len(w) : SubSeq(t, a, n + 1)[i] = w[i]
  <2>. SUFFICES ASSUME NEW i \in 1..Len(w) PROVE SubSeq(t, a, n + 1)[i] = w[i]
    OBVIOUS
  <2>1. i \in Nat /\ SubSeq(t, a, n + 1)[i] = t[a + i - 1] /\ a + i - 1 \in 1..n + 1
    BY <1>1, <1>5, <1>6
  <2>2. CASE i <= n - a + 1
    <3>. DEFINE j == a + i - 1
    <3>1. i \in 1..n - a + 1 /\ j \in 1..n
      BY <1>1, <2>1, <2>2
    <3>2. w[i] = s[j] /\ SubSeq(t, a, n + 1)[i] = t[j]
      BY <1>6, <2>1, <3>1
    <3>. HIDE DEF j
    <3>. QED
      BY <1>1, <3>1, <3>2
  <2>3. CASE i = n - a + 2
    BY <1>1, <1>6, <2>1, <2>3
  <2>4. i \in 1..n - a + 2
    BY <1>6
  <2>5. i <= n - a + 1 \/ i = n - a + 2
    BY <1>1, <2>4
  <2>. QED
    BY <2>2, <2>3, <2>5
<1>8. SubSeq(t, a, n + 1) = w
  <2>1. Len(SubSeq(t, a, n + 1)) = Len(w)
    BY <1>1, <1>5, <1>6
  <2>. DEFINE v == SubSeq(t, a, n + 1)
  <2>2. v \in Seq(C) /\ w \in Seq(C) /\ Len(v) = Len(w) /\ \A i \in 1..Len(v) : v[i] = w[i]
    BY <1>5, <1>6, <1>7, <2>1
  <2>. HIDE DEF v
  <2>3. v = w
    BY <2>2, SeqEqual
  <2>. QED
    BY <2>3 DEF v
<1>. QED
  BY <1>8 DEF t, w, u, n

\* The last position of S, and what comes behind it.
LastCut(from, S) == IF Cardinality(S) = 0 THEN from ELSE Nth(S, Cardinality(S))
Rest(s, from, S) == SubSeq(s, LastCut(from, S) + 1, Len(s))

\* The part before the k-th cut begins behind the cut before.
Behind(from, S, k) == IF k = 1 THEN from ELSE Nth(S, k - 1)

\* Parts lie within what is cut.
LEMMA CutsWithin ==
  ASSUME NEW from \in Nat, NEW n \in Nat, from <= n, NEW S, Ranked(S, from, n)
  PROVE  /\ Cardinality(S) \in Nat
         /\ LastCut(from, S) \in from..n
         /\ \A k \in 1..Cardinality(S) :
              /\ Nth(S, k) \in from + 1 .. n
              /\ Behind(from, S, k) \in from..n
<1>1. Cardinality(S) \in Nat
  BY FS_CardinalityType DEF Ranked
<1>2. \A k \in 1..Cardinality(S) : Nth(S, k) \in from + 1 .. n
  BY DEF Ranked
<1>3. \A k \in 1..Cardinality(S) : Behind(from, S, k) \in from..n
  <2>. SUFFICES ASSUME NEW k \in 1..Cardinality(S) PROVE Behind(from, S, k) \in from..n
    OBVIOUS
  <2>1. CASE k = 1
    BY <2>1 DEF Behind
  <2>2. CASE k # 1
    <3>1. k - 1 \in 1..Cardinality(S)
      BY <1>1, <2>2
    <3>2. Nth(S, k - 1) \in from + 1 .. n
      BY <1>2, <3>1
    <3>. QED
      BY <2>2, <3>2 DEF Behind
  <2>. QED
    BY <2>1, <2>2
<1>4. LastCut(from, S) \in from..n
  <2>1. CASE Cardinality(S) = 0
    BY <2>1 DEF LastCut
  <2>2. CASE Cardinality(S) # 0
    <3>1. Cardinality(S) \in 1..Cardinality(S)
      BY <1>1, <2>2
    <3>2. Nth(S, Cardinality(S)) \in from + 1 .. n
      BY <1>2, <3>1
    <3>. QED
      BY <2>2, <3>2 DEF LastCut
  <2>. QED
    BY <2>1, <2>2
<1>. QED
  BY <1>1, <1>2, <1>3, <1>4

\* The parts as a sequence.
LEMMA PiecesTyped ==
  ASSUME NEW C, NEW s \in Seq(C), NEW from \in Nat, from <= Len(s),
         NEW n \in Nat, n <= Len(s) + 1,
         from <= n, NEW S, Ranked(S, from, n)
  PROVE  /\ Pieces(s, from, S) \in Seq(Seq(C))
         /\ Len(Pieces(s, from, S)) = Cardinality(S)
         /\ \A k \in 1..Cardinality(S) :
              Pieces(s, from, S)[k] = SubSeq(s, Behind(from, S, k) + 1, Nth(S, k) - 1)
<1>. DEFINE p == Pieces(s, from, S)
            part(k) == SubSeq(s, Behind(from, S, k) + 1, Nth(S, k) - 1)
<1>1. Cardinality(S) \in Nat
  BY CutsWithin
<1>2. p = [k \in 1..Cardinality(S) |-> part(k)]
  BY DEF Pieces, Behind
<1>3. ASSUME NEW k \in 1..Cardinality(S) PROVE part(k) \in Seq(C)
  <2>1. Nth(S, k) \in from + 1 .. n /\ Behind(from, S, k) \in from..n
    BY CutsWithin
  <2>2. \A i \in Behind(from, S, k) + 1 .. Nth(S, k) - 1 : s[i] \in C
    <3>1. \A i \in Behind(from, S, k) + 1 .. Nth(S, k) - 1 : i \in 1..Len(s)
      BY <2>1
    <3>. QED
      BY <3>1, ElementOfSeq
  <2>. DEFINE a == Behind(from, S, k) + 1
              b == Nth(S, k) - 1
  <2>3. a \in Int /\ b \in Int
    BY <2>1
  <2>. HIDE DEF a, b
  <2>4. SubSeq(s, a, b) \in Seq(C)
    BY <2>2, <2>3, SubSeqProperties DEF a, b
  <2>. QED
    BY <2>4 DEF a, b
<1>. HIDE DEF p, part
<1>4. p \in Seq(Seq(C)) /\ Len(p) = Cardinality(S) /\ \A k \in 1..Cardinality(S) : p[k] = part(k)
  BY <1>1, <1>2, <1>3
<1>. QED
  BY <1>4 DEF p, part

\* The parts stay when a character is added.
LEMMA PiecesStay ==
  ASSUME NEW C, NEW s \in Seq(C), NEW c \in C, NEW from \in Nat, from <= Len(s),
         NEW n \in Nat, n <= Len(s) + 1, from <= n, NEW S, Ranked(S, from, n)
  PROVE  Pieces(Append(s, c), from, S) = Pieces(s, from, S)
<1>1. ASSUME NEW k \in 1..Cardinality(S)
      PROVE  SubSeq(Append(s, c), Behind(from, S, k) + 1, Nth(S, k) - 1) =
             SubSeq(s, Behind(from, S, k) + 1, Nth(S, k) - 1)
  <2>. DEFINE a == Behind(from, S, k) + 1
              b == Nth(S, k) - 1
  <2>1. Nth(S, k) \in from + 1 .. n /\ Behind(from, S, k) \in from..n
    BY CutsWithin
  <2>2. a \in Nat /\ a >= 1 /\ b \in Int /\ b <= Len(s)
    BY <2>1
  <2>. HIDE DEF a, b
  <2>3. SubSeq(Append(s, c), a, b) = SubSeq(s, a, b)
    BY <2>2, PartStays
  <2>. QED
    BY <2>3 DEF a, b
<1>. QED
  BY <1>1 DEF Pieces, Behind

\* A cut behind the end takes the rest for one more part, and leaves nothing.
LEMMA PiecesCut ==
  ASSUME NEW C, NEW s \in Seq(C), NEW from \in Nat, from <= Len(s), NEW S, Ranked(S, from, Len(s))
  PROVE  /\ Ranked(S \cup {Len(s) + 1}, from, Len(s) + 1)
         /\ Pieces(s, from, S \cup {Len(s) + 1}) = Append(Pieces(s, from, S), Rest(s, from, S))
         /\ LastCut(from, S \cup {Len(s) + 1}) = Len(s) + 1
<1>. DEFINE n == Len(s)
            T == S \cup {n + 1}
            c == Cardinality(S)
            p == Pieces(s, from, S)
            q == Pieces(s, from, T)
            r == Rest(s, from, S)
<1>1. n \in Nat /\ n + 1 \in Nat /\ n + 1 > n /\ n + 1 > from /\ Ranked(S, from, n)
  BY LenProperties
<1>2. /\ Ranked(T, from, n + 1) /\ c \in Nat /\ Cardinality(T) = c + 1
      /\ Nth(T, c + 1) = n + 1 /\ \A k \in 1..c : Nth(T, k) = Nth(S, k)
  <2>. HIDE DEF n
  <2>. QED
    BY <1>1, LastRanked
<1>3. LastCut(from, T) = n + 1
  BY <1>2 DEF LastCut
<1>4. /\ p \in Seq(Seq(C)) /\ Len(p) = c
      /\ \A k \in 1..c : p[k] = SubSeq(s, Behind(from, S, k) + 1, Nth(S, k) - 1)
  BY <1>1, PiecesTyped
<1>5. /\ q \in Seq(Seq(C)) /\ Len(q) = c + 1
      /\ \A k \in 1..c + 1 : q[k] = SubSeq(s, Behind(from, T, k) + 1, Nth(T, k) - 1)
  <2>. HIDE DEF T, c
  <2>1. from <= n + 1 /\ n + 1 <= Len(s) + 1
    BY <1>1
  <2>. QED
    BY <1>1, <1>2, <2>1, PiecesTyped
<1>. HIDE DEF T
<1>6. \A k \in 1..c : Behind(from, T, k) = Behind(from, S, k)
  <2>. SUFFICES ASSUME NEW k \in 1..c PROVE Behind(from, T, k) = Behind(from, S, k)
    OBVIOUS
  <2>. HIDE DEF c
  <2>1. CASE k # 1
    <3>1. k - 1 \in 1..c
      BY <1>2, <2>1
    <3>. QED
      BY <1>2, <2>1, <3>1 DEF Behind
  <2>. QED
    BY <2>1 DEF Behind
<1>7. Behind(from, T, c + 1) = LastCut(from, S)
  <2>1. CASE c = 0
    BY <2>1 DEF Behind, LastCut
  <2>2. CASE c # 0
    <3>1. c \in 1..c /\ c + 1 # 1 /\ (c + 1) - 1 = c
      BY <1>2, <2>2
    <3>. QED
      BY <1>2, <2>2, <3>1 DEF Behind, LastCut
  <2>. QED
    BY <2>1, <2>2
<1>8. r = SubSeq(s, LastCut(from, S) + 1, n) /\ r \in Seq(C)
  <2>1. LastCut(from, S) \in from..n
    BY <1>1, CutsWithin
  <2>2. \A i \in LastCut(from, S) + 1 .. n : i \in 1..Len(s)
    BY <1>1, <2>1
  <2>3. \A i \in LastCut(from, S) + 1 .. n : s[i] \in C
    BY <2>2, ElementOfSeq
  <2>4. LastCut(from, S) + 1 \in Int /\ n \in Int
    BY <1>1, <2>1
  <2>. QED
    BY <2>3, <2>4, SubSeqProperties DEF Rest
<1>9. q[c + 1] = r
  <2>1. c + 1 \in 1..c + 1 /\ (n + 1) - 1 = n
    BY <1>1, <1>2
  <2>. QED
    BY <1>2, <1>5, <1>7, <1>8, <2>1
<1>10. \A k \in 1..c : q[k] = p[k]
  <2>1. 1..c \subseteq 1..c + 1
    BY <1>2
  <2>. QED
    BY <1>2, <1>4, <1>5, <1>6, <2>1
<1>. HIDE DEF p, q, r, c
<1>11. /\ Append(p, r) \in Seq(Seq(C)) /\ Len(Append(p, r)) = c + 1 /\ Append(p, r)[c + 1] = r
       /\ \A k \in 1..c : Append(p, r)[k] = p[k]
  <2>1. p \in Seq(Seq(C)) /\ r \in Seq(C) /\ Len(p) = c
    BY <1>4, <1>8
  <2>2. /\ Append(p, r) \in Seq(Seq(C)) /\ Len(Append(p, r)) = Len(p) + 1
        /\ Append(p, r)[Len(p) + 1] = r /\ \A k \in 1..Len(p) : Append(p, r)[k] = p[k]
    BY <2>1, AppendProperties
  <2>. QED
    BY <2>1, <2>2
<1>12. \A k \in 1..c + 1 : q[k] = Append(p, r)[k]
  <2>1. \A k \in 1..c + 1 : k \in 1..c \/ k = c + 1
    BY <1>2
  <2>. QED
    BY <1>9, <1>10, <1>11, <2>1
<1>13. q = Append(p, r)
  BY <1>5, <1>11, <1>12, SeqEqual
<1>. QED
  BY <1>2, <1>3, <1>13 DEF p, q, r, T, n

\* What comes behind the last cut is read.
LEMMA RestTyped ==
  ASSUME NEW C, NEW s \in Seq(C), NEW from \in Nat, from <= Len(s), NEW S, Ranked(S, from, Len(s))
  PROVE  Rest(s, from, S) \in Seq(C)
<1>1. Len(s) \in Nat
  BY LenProperties
<1>2. LastCut(from, S) \in from..Len(s)
  BY <1>1, CutsWithin
<1>3. \A i \in LastCut(from, S) + 1 .. Len(s) : i \in 1..Len(s)
  BY <1>1, <1>2
<1>4. \A i \in LastCut(from, S) + 1 .. Len(s) : s[i] \in C
  BY <1>3, ElementOfSeq
<1>5. LastCut(from, S) + 1 \in Int /\ Len(s) \in Int
  BY <1>1, <1>2
<1>. QED
  BY <1>4, <1>5, SubSeqProperties DEF Rest

\* A character that is no cut is one more of the rest, the parts stay.
LEMMA RestGrows ==
  ASSUME NEW C, NEW s \in Seq(C), NEW c \in C, NEW from \in Nat, from <= Len(s),
         NEW S, Ranked(S, from, Len(s))
  PROVE  /\ Ranked(S, from, Len(s) + 1)
         /\ Pieces(Append(s, c), from, S) = Pieces(s, from, S)
         /\ Rest(Append(s, c), from, S) = Append(Rest(s, from, S), c)
<1>1. Len(s) \in Nat /\ Len(Append(s, c)) = Len(s) + 1
  BY AppendProperties
<1>2. Ranked(S, from, Len(s) + 1)
  <2>1. from + 1 .. Len(s) \subseteq from + 1 .. Len(s) + 1
    BY <1>1
  <2>. QED
    BY <2>1 DEF Ranked
<1>3. Pieces(Append(s, c), from, S) = Pieces(s, from, S)
  BY <1>1, PiecesStay
<1>4. LastCut(from, S) \in from..Len(s)
  BY <1>1, CutsWithin
<1>. DEFINE a == LastCut(from, S) + 1
<1>5. a \in Nat /\ a >= 1 /\ a <= Len(s) + 1
  BY <1>1, <1>4
<1>. HIDE DEF a
<1>6. SubSeq(Append(s, c), a, Len(s) + 1) = Append(SubSeq(s, a, Len(s)), c)
  BY <1>5, PartGrows
<1>7. Rest(Append(s, c), from, S) = Append(Rest(s, from, S), c)
  BY <1>1, <1>6 DEF Rest, a
<1>. QED
  BY <1>2, <1>3, <1>7

\* A character that is a cut ends the rest.
LEMMA RestCut ==
  ASSUME NEW C, NEW s \in Seq(C), NEW c \in C, NEW from \in Nat, from <= Len(s),
         NEW S, Ranked(S, from, Len(s))
  PROVE  /\ Ranked(S \cup {Len(s) + 1}, from, Len(s) + 1)
         /\ Pieces(Append(s, c), from, S \cup {Len(s) + 1}) =
              Append(Pieces(s, from, S), Rest(s, from, S))
         /\ Rest(Append(s, c), from, S \cup {Len(s) + 1}) = <<>>
<1>. DEFINE T == S \cup {Len(s) + 1}
<1>1. /\ Len(s) \in Nat /\ Len(s) + 1 \in Nat /\ Len(Append(s, c)) = Len(s) + 1
      /\ from <= Len(s) + 1 /\ Len(s) + 1 <= Len(s) + 1
  BY AppendProperties
<1>2. /\ Ranked(T, from, Len(s) + 1) /\ LastCut(from, T) = Len(s) + 1
      /\ Pieces(s, from, T) = Append(Pieces(s, from, S), Rest(s, from, S))
  BY PiecesCut
<1>. HIDE DEF T
<1>3. Pieces(Append(s, c), from, T) = Pieces(s, from, T)
  <2>. DEFINE m == Len(s) + 1
  <2>. HIDE DEF m
  <2>1. m \in Nat /\ from <= m /\ m <= Len(s) + 1 /\ Ranked(T, from, m)
    BY <1>1, <1>2 DEF m
  <2>. QED
    BY <2>1, PiecesStay
<1>4. Rest(Append(s, c), from, T) = SubSeq(Append(s, c), Len(s) + 1 + 1, Len(s) + 1)
  BY <1>1, <1>2 DEF Rest
<1>5. Rest(Append(s, c), from, T) = <<>>
  BY <1>1, <1>4, SubSeqEmpty
<1>. QED
  BY <1>2, <1>3, <1>5 DEF T

------------------------------------------------------------------------------
(* First positions, keys and values *)

\* The positions of a character in what was read, when one more is read.
LEMMA PositionsAdded ==
  ASSUME NEW C, NEW s \in Seq(C), NEW c \in C, NEW d
  PROVE  /\ PositionsOf(s, d) \subseteq 1..Len(s)
         /\ c = d => PositionsOf(Append(s, c), d) = PositionsOf(s, d) \cup {Len(s) + 1}
         /\ c # d => PositionsOf(Append(s, c), d) = PositionsOf(s, d)
<1>. DEFINE t == Append(s, c)
<1>1. /\ Len(s) \in Nat /\ Len(t) = Len(s) + 1 /\ t[Len(s) + 1] = c
      /\ \A i \in 1..Len(s) : t[i] = s[i]
  BY AppendProperties
<1>. HIDE DEF t
<1>2. \A i : i \in 1..Len(s) + 1 <=> i \in 1..Len(s) \/ i = Len(s) + 1
  BY <1>1
<1>3. PositionsOf(t, d) = {i \in 1..Len(s) + 1 : t[i] = d}
  BY <1>1 DEF PositionsOf
<1>4. \A i : i \in PositionsOf(t, d) <=>
             (i \in 1..Len(s) /\ s[i] = d) \/ (i = Len(s) + 1 /\ c = d)
  BY <1>1, <1>2, <1>3
<1>5. \A i : i \in PositionsOf(s, d) <=> i \in 1..Len(s) /\ s[i] = d
  BY DEF PositionsOf
<1>6. c = d => PositionsOf(t, d) = PositionsOf(s, d) \cup {Len(s) + 1}
  BY <1>4, <1>5
<1>7. c # d => PositionsOf(t, d) = PositionsOf(s, d)
  BY <1>4, <1>5
<1>. QED
  BY <1>5, <1>6, <1>7 DEF t

\* What a delimiter ends, and what is behind the last one.
Parts(s, d) == Pieces(s, 0, PositionsOf(s, d))
Remains(s, d) == Rest(s, 0, PositionsOf(s, d))

\* The delimiter ends a part, any other character belongs to what remains.
LEMMA DelimitedGrows ==
  ASSUME NEW C, NEW q \in Seq(C), NEW c \in C, NEW d, Ranked(PositionsOf(q, d), 0, Len(q))
  PROVE  /\ Ranked(PositionsOf(Append(q, c), d), 0, Len(Append(q, c)))
         /\ c = d => /\ Parts(Append(q, c), d) = Append(Parts(q, d), Remains(q, d))
                     /\ Remains(Append(q, c), d) = <<>>
         /\ c # d => /\ Parts(Append(q, c), d) = Parts(q, d)
                     /\ Remains(Append(q, c), d) = Append(Remains(q, d), c)
<1>1. /\ Len(q) \in Nat /\ Len(Append(q, c)) = Len(q) + 1
      /\ c = d => PositionsOf(Append(q, c), d) = PositionsOf(q, d) \cup {Len(q) + 1}
      /\ c # d => PositionsOf(Append(q, c), d) = PositionsOf(q, d)
  BY PositionsAdded, AppendProperties
<1>2. 0 \in Nat /\ 0 <= Len(q)
  BY <1>1
<1>. DEFINE S == PositionsOf(q, d)
            from == 0
<1>3. from \in Nat /\ from <= Len(q) /\ Ranked(S, from, Len(q))
  BY <1>2
<1>. HIDE DEF S, from
<1>4. /\ Ranked(S, from, Len(q) + 1)
      /\ Pieces(Append(q, c), from, S) = Pieces(q, from, S)
      /\ Rest(Append(q, c), from, S) = Append(Rest(q, from, S), c)
  BY <1>3, RestGrows
<1>5. /\ Ranked(S \cup {Len(q) + 1}, from, Len(q) + 1)
      /\ Pieces(Append(q, c), from, S \cup {Len(q) + 1}) =
           Append(Pieces(q, from, S), Rest(q, from, S))
      /\ Rest(Append(q, c), from, S \cup {Len(q) + 1}) = <<>>
  BY <1>3, RestCut
<1>6. CASE c = d
  BY <1>1, <1>5, <1>6 DEF Parts, Remains, S, from
<1>7. CASE c # d
  BY <1>1, <1>4, <1>7 DEF Parts, Remains, S, from
<1>. QED
  BY <1>6, <1>7

\* The parts as sequences, and what an end of the text makes of what remains.
LEMMA DelimitedTyped ==
  ASSUME NEW C, NEW q \in Seq(C), NEW d, Ranked(PositionsOf(q, d), 0, Len(q))
  PROVE  /\ Parts(q, d) \in Seq(Seq(C)) /\ Remains(q, d) \in Seq(C)
         /\ Pieces(q, 0, PositionsOf(q, d) \cup {Len(q) + 1}) =
              Append(Parts(q, d), Remains(q, d))
<1>1. Len(q) \in Nat /\ 0 \in Nat /\ 0 <= Len(q)
  BY LenProperties
<1>. DEFINE S == PositionsOf(q, d)
            from == 0
            n == Len(q)
<1>2. /\ from \in Nat /\ from <= Len(q) /\ n \in Nat /\ n <= Len(q) + 1 /\ from <= n
      /\ Ranked(S, from, n) /\ n = Len(q)
  BY <1>1
<1>. HIDE DEF S, from, n
<1>3. Pieces(q, from, S) \in Seq(Seq(C))
  BY <1>2, PiecesTyped
<1>4. Rest(q, from, S) \in Seq(C)
  BY <1>2, RestTyped
<1>5. Pieces(q, from, S \cup {Len(q) + 1}) = Append(Pieces(q, from, S), Rest(q, from, S))
  BY <1>2, PiecesCut
<1>. QED
  BY <1>3, <1>4, <1>5 DEF Parts, Remains, S, from

\* The first position is the one no other is before.
LEMMA FirstIs ==
  ASSUME NEW S, S \subseteq Int, NEW i \in S, \A j \in S : i <= j, NEW d
  PROVE  First(S, d) = i
<1>. DEFINE f == CHOOSE k \in S : \A j \in S : k <= j
<1>1. f \in S /\ \A j \in S : f <= j
  OBVIOUS
<1>2. f <= i /\ i <= f /\ f \in Int /\ i \in Int
  BY <1>1
<1>. HIDE DEF f
<1>3. f = i
  BY <1>2
<1>. QED
  BY <1>3 DEF First, f

\* A set of positions that is not empty has a first.
LEMMA FirstExists ==
  ASSUME NEW S, S \subseteq Nat, S # {}, NEW d
  PROVE  First(S, d) \in S /\ \A j \in S : First(S, d) <= j
<1>1. PICK i \in S : \A j \in S : <<j, i>> \notin OpToRel(<, Nat)
  BY NatLessThanWellFounded, WFMin
<1>2. \A j \in S : ~(j < i)
  BY <1>1 DEF OpToRel
<1>3. \A j \in S : i <= j
  BY <1>2
<1>4. S \subseteq Int
  OBVIOUS
<1>5. First(S, d) = i
  BY <1>3, <1>4, FirstIs
<1>. QED
  BY <1>3, <1>5

\* The default does not count where there is a position.
LEMMA FirstWithout ==
  ASSUME NEW S, S \subseteq Nat, S # {}, NEW d, NEW e
  PROVE  First(S, d) = First(S, e)
<1>1. First(S, d) \in S /\ \A j \in S : First(S, d) <= j
  BY FirstExists
<1>2. S \subseteq Int
  OBVIOUS
<1>. DEFINE i == First(S, d)
<1>. HIDE DEF i
<1>3. i \in S /\ \A j \in S : i <= j
  BY <1>1 DEF i
<1>4. First(S, e) = i
  BY <1>2, <1>3, FirstIs
<1>. QED
  BY <1>4 DEF i

\* A position behind the others is the first of them only when there are none.
LEMMA FirstOfMore ==
  ASSUME NEW S, S \subseteq Nat, NEW p \in Nat, \A j \in S : j < p, NEW d
  PROVE  First(S \cup {p}, d) = First(S, p)
<1>. DEFINE T == S \cup {p}
            i == First(S, p)
<1>1. T \subseteq Int /\ i \in T /\ \A j \in T : i <= j
  <2>1. CASE S = {}
    <3>1. i = p
      BY <2>1 DEF First
    <3>. QED
      BY <2>1, <3>1
  <2>2. CASE S # {}
    <3>1. i \in S /\ \A j \in S : i <= j
      BY <2>2, FirstExists
    <3>. HIDE DEF i
    <3>2. i \in T /\ i <= p /\ T \subseteq Int
      BY <3>1
    <3>. QED
      BY <3>1, <3>2
  <2>. QED
    BY <2>1, <2>2
<1>. HIDE DEF T, i
<1>2. First(T, d) = i
  BY <1>1, FirstIs
<1>. QED
  BY <1>2 DEF T, i

HasEqual(pair) == PositionsOf(pair, "=") # {}

\* A pair without an equals sign has no value.
LEMMA NoEqual ==
  ASSUME NEW C, NEW p \in Seq(C), ~HasEqual(p)
  PROVE  ValueOf(p) = <<>>
<1>1. EqualAt(p) = Len(p) /\ Len(p) \in Nat
  BY LenProperties DEF EqualAt, First, HasEqual
<1>. QED
  BY <1>1, SubSeqEmpty DEF ValueOf

\* A character behind the equals sign belongs to the value, the first equals sign ends the key.
LEMMA PairGrows ==
  ASSUME NEW C, NEW p \in Seq(C), NEW c \in C
  PROVE  /\ HasEqual(p) => /\ HasEqual(Append(p, c))
                           /\ KeyOf(Append(p, c)) = KeyOf(p)
                           /\ ValueOf(Append(p, c)) = Append(ValueOf(p), c)
         /\ ~HasEqual(p) /\ c = "=" => /\ HasEqual(Append(p, c))
                                       /\ KeyOf(Append(p, c)) = p
                                       /\ ValueOf(Append(p, c)) = <<>>
         /\ ~HasEqual(p) /\ c # "=" => ~HasEqual(Append(p, c))
<1>. DEFINE S == PositionsOf(p, "=")
            t == Append(p, c)
            T == PositionsOf(t, "=")
            n == Len(p)
<1>1. /\ S \subseteq 1..n /\ n \in Nat /\ t \in Seq(C) /\ Len(t) = n + 1
      /\ c = "=" => T = S \cup {n + 1}
      /\ c # "=" => T = S
  BY PositionsAdded, AppendProperties
<1>2. (HasEqual(p) <=> S # {}) /\ (HasEqual(t) <=> T # {})
  BY DEF HasEqual
<1>3. EqualAt(p) = First(S, n) /\ EqualAt(t) = First(T, n + 1)
  BY <1>1 DEF EqualAt
<1>4. S \subseteq Nat /\ n + 1 \in Nat /\ \A j \in S : j < n + 1
  BY <1>1
<1>. HIDE DEF S, t, T, n
<1>5. CASE S # {}
  <2>1. EqualAt(p) \in S
    BY <1>3, <1>4, <1>5, FirstExists
  <2>2. EqualAt(t) = EqualAt(p)
    <3>. DEFINE m == n + 1
    <3>1. m \in Nat /\ \A j \in S : j < m
      BY <1>4
    <3>. HIDE DEF m
    <3>2. First(S \cup {m}, m) = First(S, m)
      BY <1>4, <3>1, FirstOfMore
    <3>3. First(S, n) = First(S, m)
      BY <1>4, <1>5, FirstWithout
    <3>. QED
      BY <1>1, <1>3, <3>2, <3>3 DEF m
  <2>3. EqualAt(p) \in 1..n
    BY <1>1, <2>1
  <2>. DEFINE a == EqualAt(p) + 1
              b == EqualAt(p) - 1
  <2>4. a \in Nat /\ a >= 1 /\ a <= Len(p) + 1 /\ b \in Int /\ b <= Len(p)
    BY <1>1, <2>3 DEF n
  <2>. HIDE DEF a, b
  <2>5. SubSeq(Append(p, c), 1, b) = SubSeq(p, 1, b)
    BY <2>4, PartStays
  <2>6. SubSeq(Append(p, c), a, Len(p) + 1) = Append(SubSeq(p, a, Len(p)), c)
    BY <2>4, PartGrows
  <2>7. KeyOf(t) = KeyOf(p)
    BY <2>2, <2>5 DEF KeyOf, b, t
  <2>8. ValueOf(t) = Append(ValueOf(p), c)
    BY <1>1, <2>2, <2>6 DEF ValueOf, a, t, n
  <2>9. T # {}
    BY <1>1, <1>5
  <2>. QED
    BY <1>2, <1>5, <2>7, <2>8, <2>9 DEF t
<1>6. CASE S = {} /\ c = "="
  <2>1. T = {n + 1}
    BY <1>1, <1>6
  <2>2. First(T, n + 1) = n + 1
    <3>1. T \subseteq Int /\ n + 1 \in T /\ \A j \in T : n + 1 <= j
      BY <1>1, <2>1
    <3>. QED
      BY <3>1, FirstIs
  <2>3. KeyOf(t) = SubSeq(t, 1, n)
    BY <1>1, <1>3, <2>2 DEF KeyOf
  <2>4. SubSeq(Append(p, c), 1, Len(p)) = SubSeq(p, 1, Len(p))
    <3>. DEFINE b == Len(p)
    <3>1. b \in Int /\ b <= Len(p)
      BY <1>1 DEF n
    <3>. HIDE DEF b
    <3>2. SubSeq(Append(p, c), 1, b) = SubSeq(p, 1, b)
      BY <3>1, PartStays
    <3>. QED
      BY <3>2 DEF b
  <2>5. SubSeq(p, 1, Len(p)) = p
    BY SubSeqFull
  <2>6. KeyOf(t) = p
    BY <2>3, <2>4, <2>5 DEF t, n
  <2>7. ValueOf(t) = <<>>
    <3>1. ValueOf(t) = SubSeq(t, n + 1 + 1, n + 1)
      BY <1>1, <1>3, <2>2 DEF ValueOf
    <3>. QED
      BY <1>1, <3>1, SubSeqEmpty
  <2>. QED
    BY <1>2, <1>6, <2>1, <2>6, <2>7 DEF t
<1>7. CASE S = {} /\ c # "="
  BY <1>1, <1>2, <1>7 DEF t
<1>. QED
  BY <1>5, <1>6, <1>7

\* The pairs of a key, among the first n.
PairsOf(pairs, n, k) == {i \in 1..n : KeyOf(pairs[i]) = k}

\* Entries in terms of the pairs of a key.
LEMMA EntriesAre ==
  ASSUME NEW pairs, NEW n
  PROVE  /\ DOMAIN Entries(pairs, n) = {KeyOf(pairs[i]) : i \in 1..n}
         /\ \A k \in DOMAIN Entries(pairs, n) :
              Entries(pairs, n)[k] = ValueOf(pairs[First(PairsOf(pairs, n, k), 0)])
         /\ Entries(pairs, n) = [k \in {KeyOf(pairs[i]) : i \in 1..n} |->
                                   ValueOf(pairs[First(PairsOf(pairs, n, k), 0)])]
BY DEF Entries, PairsOf

\* The entries of the pairs before do not depend on the last.
LEMMA EntriesStay ==
  ASSUME NEW C, NEW pairs \in Seq(C), NEW q \in C
  PROVE  Entries(Append(pairs, q), Len(pairs)) = Entries(pairs, Len(pairs))
<1>. DEFINE more == Append(pairs, q)
            n == Len(pairs)
<1>1. \A i \in 1..n : more[i] = pairs[i]
  BY AppendProperties
<1>. HIDE DEF more, n
<1>2. {KeyOf(more[i]) : i \in 1..n} = {KeyOf(pairs[i]) : i \in 1..n}
  BY <1>1
<1>3. \A k : PairsOf(more, n, k) = PairsOf(pairs, n, k)
  BY <1>1 DEF PairsOf
<1>4. ASSUME NEW k \in {KeyOf(pairs[i]) : i \in 1..n}
      PROVE  First(PairsOf(pairs, n, k), 0) \in 1..n
  <2>1. PairsOf(pairs, n, k) \subseteq 1..n /\ PairsOf(pairs, n, k) # {}
    BY DEF PairsOf
  <2>2. PairsOf(pairs, n, k) \subseteq Nat
    BY <2>1
  <2>. QED
    BY <2>1, <2>2, FirstExists
<1>5. \A k \in {KeyOf(pairs[i]) : i \in 1..n} :
        ValueOf(more[First(PairsOf(more, n, k), 0)])
          = ValueOf(pairs[First(PairsOf(pairs, n, k), 0)])
  BY <1>1, <1>3, <1>4
<1>6. Entries(more, n) = [k \in {KeyOf(more[i]) : i \in 1..n} |->
                            ValueOf(more[First(PairsOf(more, n, k), 0)])]
  BY EntriesAre
<1>7. Entries(pairs, n) = [k \in {KeyOf(pairs[i]) : i \in 1..n} |->
                             ValueOf(pairs[First(PairsOf(pairs, n, k), 0)])]
  BY EntriesAre
<1>8. Entries(more, n) = Entries(pairs, n)
  BY <1>2, <1>5, <1>6, <1>7
<1>. QED
  BY <1>8 DEF more, n

\* What insert makes of the entries.
Inserted(E, k, v) ==
  [x \in DOMAIN E \cup {k} |-> IF x \in DOMAIN E THEN E[x] ELSE v]

\* The last pair is entered when its key is new.
LEMMA EntriesInsert ==
  ASSUME NEW C, NEW pairs \in Seq(C), NEW q \in C
  PROVE  Entries(Append(pairs, q), Len(pairs) + 1) =
           Inserted(Entries(pairs, Len(pairs)), KeyOf(q), ValueOf(q))
<1>. DEFINE more == Append(pairs, q)
            n == Len(pairs)
            E == Entries(pairs, n)
            F == Entries(more, n + 1)
<1>1. n \in Nat /\ more[n + 1] = q /\ \A i \in 1..n : more[i] = pairs[i]
  BY AppendProperties
<1>. HIDE DEF more, n
<1>2. \A i : i \in 1..n + 1 <=> i \in 1..n \/ i = n + 1
  BY <1>1
<1>3. {KeyOf(more[i]) : i \in 1..n + 1} = {KeyOf(pairs[i]) : i \in 1..n} \cup {KeyOf(q)}
  BY <1>1, <1>2
<1>4. DOMAIN E = {KeyOf(pairs[i]) : i \in 1..n}
  BY EntriesAre
<1>5. DOMAIN F = DOMAIN E \cup {KeyOf(q)}
  BY <1>3, <1>4, EntriesAre
<1>6. ASSUME NEW k \in DOMAIN E PROVE F[k] = E[k]
  <2>. DEFINE S == PairsOf(pairs, n, k)
              T == PairsOf(more, n + 1, k)
  <2>1. S \subseteq 1..n /\ S # {}
    BY <1>4 DEF PairsOf
  <2>2. T = IF KeyOf(q) = k THEN S \cup {n + 1} ELSE S
    <3>1. \A i : i \in T <=> i \in S \/ (i = n + 1 /\ KeyOf(q) = k)
      BY <1>1, <1>2 DEF PairsOf
    <3>. HIDE DEF S, T
    <3>. QED
      BY <3>1
  <2>3. S \subseteq Nat /\ n + 1 \in Nat /\ \A j \in S : j < n + 1
    BY <1>1, <2>1
  <2>4. k \in DOMAIN F /\ F[k] = ValueOf(more[First(T, 0)]) /\ E[k] = ValueOf(pairs[First(S, 0)])
    BY <1>5, EntriesAre
  <2>. HIDE DEF S, T, E, F
  <2>5. First(S \cup {n + 1}, 0) = First(S, 0)
    <3>. DEFINE m == n + 1
    <3>1. m \in Nat /\ \A j \in S : j < m
      BY <2>3
    <3>. HIDE DEF m
    <3>2. First(S \cup {m}, 0) = First(S, m)
      BY <2>3, <3>1, FirstOfMore
    <3>3. First(S, 0) = First(S, m)
      BY <2>1, <2>3, FirstWithout
    <3>. QED
      BY <3>2, <3>3 DEF m
  <2>6. First(T, 0) = First(S, 0)
    BY <2>2, <2>5
  <2>7. First(S, 0) \in 1..n
    BY <2>1, <2>3, FirstExists
  <2>. QED
    BY <1>1, <2>4, <2>6, <2>7
<1>7. ASSUME KeyOf(q) \notin DOMAIN E PROVE F[KeyOf(q)] = ValueOf(q)
  <2>. DEFINE k == KeyOf(q)
              T == PairsOf(more, n + 1, k)
  <2>1. T = {n + 1}
    <3>1. \A i \in 1..n : KeyOf(more[i]) # k
      BY <1>1, <1>4, <1>7
    <3>. QED
      BY <1>1, <1>2, <3>1 DEF PairsOf
  <2>2. k \in DOMAIN F /\ F[k] = ValueOf(more[First(T, 0)])
    BY <1>5, EntriesAre, ZenonT(30)
  <2>. HIDE DEF T, E, F
  <2>3. First(T, 0) = n + 1
    <3>1. T \subseteq Int /\ n + 1 \in T /\ \A j \in T : n + 1 <= j
      BY <1>1, <2>1
    <3>. QED
      BY <3>1, FirstIs
  <2>. QED
    BY <1>1, <2>2, <2>3
<1>8. F = [x \in DOMAIN F |-> F[x]]
  BY EntriesAre
<1>. HIDE DEF E, F
<1>9. F = Inserted(E, KeyOf(q), ValueOf(q))
  <2>1. \A x \in DOMAIN F : F[x] = IF x \in DOMAIN E THEN E[x] ELSE ValueOf(q)
    BY <1>5, <1>6, <1>7
  <2>. QED
    BY <1>5, <1>8, <2>1 DEF Inserted
<1>. QED
  BY <1>9 DEF E, F, more, n

------------------------------------------------------------------------------
(* A URL as it is read *)

From(url) == IF url[1] = "/" THEN 1 ELSE 0
Marks(url) == PositionsOf(url, "?") \ {1}
SegmentCuts(url) ==
  {i \in PositionsOf(url, "/") \ {1} : i < QueryMark(url)}
    \cup ({QueryMark(url)} \cap 1..Len(url))
Query(url) == SubSeq(url, QueryMark(url) + 1, Len(url))

Ands(query) == PositionsOf(query, "&")
Done(query) == Parts(query, "&")
Current(query) == Remains(query, "&")

\* The names above are those of the parts of Segments and Pairs.
LEMMA PartsOfUrl ==
  ASSUME NEW url
  PROVE  /\ Segments(url) = Pieces(url, From(url), SegmentCuts(url))
         /\ Pairs(url) = Pieces(Query(url), 0, Ands(Query(url)) \cup {Len(Query(url)) + 1})
BY DEF Segments, Pairs, From, SegmentCuts, Query, Ands

\* The first character tells where the first segment begins.
LEMMA FromStays ==
  ASSUME NEW C, NEW s \in Seq(C), s # <<>>, NEW c \in C
  PROVE  /\ From(Append(s, c)) = From(s) /\ From(s) \in Nat /\ From(s) <= Len(s)
         /\ Len(s) \in Nat /\ Len(s) >= 1
<1>1. Len(s) \in Nat /\ Len(s) >= 1
  BY EmptySeq
<1>2. 1 \in 1..Len(s)
  BY <1>1
<1>3. Append(s, c)[1] = s[1]
  BY <1>2, AppendProperties
<1>. QED
  BY <1>1, <1>3 DEF From

\* The marks are positions behind the first.
LEMMA MarksAdded ==
  ASSUME NEW C, NEW s \in Seq(C), s # <<>>, NEW c \in C
  PROVE  /\ Marks(s) \subseteq 2..Len(s)
         /\ c = "?" => Marks(Append(s, c)) = Marks(s) \cup {Len(s) + 1}
         /\ c # "?" => Marks(Append(s, c)) = Marks(s)
<1>1. Len(s) \in Nat /\ Len(s) >= 1
  BY FromStays
<1>2. /\ PositionsOf(s, "?") \subseteq 1..Len(s)
      /\ c = "?" => PositionsOf(Append(s, c), "?") = PositionsOf(s, "?") \cup {Len(s) + 1}
      /\ c # "?" => PositionsOf(Append(s, c), "?") = PositionsOf(s, "?")
  BY PositionsAdded
<1>. QED
  BY <1>1, <1>2 DEF Marks

\* Once there is a question mark the segments stay, and the query grows.
LEMMA MarkedAlready ==
  ASSUME NEW C, NEW s \in Seq(C), s # <<>>, NEW c \in C, Marks(s) # {}
  PROVE  /\ Marks(Append(s, c)) # {}
         /\ QueryMark(s) \in 2..Len(s)
         /\ SegmentCuts(Append(s, c)) = SegmentCuts(s)
         /\ Query(s) \in Seq(C)
         /\ Query(Append(s, c)) = Append(Query(s), c)
<1>. DEFINE t == Append(s, c)
            n == Len(s)
            m == QueryMark(s)
<1>1. n \in Nat /\ n >= 1 /\ Len(t) = n + 1
  BY FromStays, AppendProperties
<1>2. /\ Marks(s) \subseteq 2..n
      /\ Marks(t) = Marks(s) \cup {n + 1} \/ Marks(t) = Marks(s)
  BY MarksAdded
<1>3. m = First(Marks(s), n + 1) /\ QueryMark(t) = First(Marks(t), Len(t) + 1)
  BY DEF QueryMark, Marks
<1>4. Marks(s) \subseteq Nat
  BY <1>2
<1>. DEFINE p == n + 1
            d == Len(t) + 1
<1>5. p \in Nat /\ \A j \in Marks(s) : j < p
  BY <1>1, <1>2
<1>6. m = First(Marks(s), p) /\ QueryMark(t) = First(Marks(t), d)
  BY <1>3
<1>7. Marks(t) = Marks(s) \cup {p} \/ Marks(t) = Marks(s)
  BY <1>2
<1>. HIDE DEF p, d
<1>8. QueryMark(t) = m
  <2>1. First(Marks(s) \cup {p}, d) = First(Marks(s), p)
    BY <1>4, <1>5, FirstOfMore
  <2>2. First(Marks(s), d) = First(Marks(s), p)
    BY <1>4, FirstWithout
  <2>. QED
    BY <1>6, <1>7, <2>1, <2>2
<1>9. m \in 2..n
  BY <1>2, <1>4, <1>6, FirstExists
<1>. HIDE DEF m
<1>10. SegmentCuts(t) = SegmentCuts(s)
  <2>1. /\ PositionsOf(s, "/") \subseteq 1..n
        /\ PositionsOf(t, "/") = PositionsOf(s, "/") \cup {n + 1}
             \/ PositionsOf(t, "/") = PositionsOf(s, "/")
    BY PositionsAdded
  <2>2. \A i \in PositionsOf(t, "/") : i < m => i \in PositionsOf(s, "/")
    BY <1>1, <1>9, <2>1
  <2>3. PositionsOf(s, "/") \subseteq PositionsOf(t, "/")
    BY <2>1
  <2>4. {i \in PositionsOf(t, "/") \ {1} : i < m} = {i \in PositionsOf(s, "/") \ {1} : i < m}
    BY <2>2, <2>3
  <2>5. {m} \cap 1..Len(t) = {m} \cap 1..Len(s)
    BY <1>1, <1>9
  <2>6. SegmentCuts(t) = {i \in PositionsOf(t, "/") \ {1} : i < m} \cup ({m} \cap 1..Len(t))
    BY <1>8 DEF SegmentCuts
  <2>7. SegmentCuts(s) = {i \in PositionsOf(s, "/") \ {1} : i < m} \cup ({m} \cap 1..Len(s))
    BY DEF SegmentCuts, m
  <2>. QED
    BY <2>4, <2>5, <2>6, <2>7
<1>11. Query(s) \in Seq(C)
  <2>1. \A i \in m + 1 .. n : i \in 1..Len(s)
    BY <1>1, <1>9
  <2>2. \A i \in m + 1 .. n : s[i] \in C
    BY <2>1, ElementOfSeq
  <2>3. m + 1 \in Int /\ n \in Int
    BY <1>1, <1>9
  <2>. QED
    BY <2>2, <2>3, SubSeqProperties DEF Query, m
<1>12. Query(t) = Append(Query(s), c)
  <2>. DEFINE a == m + 1
  <2>1. a \in Nat /\ a >= 1 /\ a <= Len(s) + 1
    BY <1>1, <1>9
  <2>. HIDE DEF a
  <2>2. SubSeq(Append(s, c), a, Len(s) + 1) = Append(SubSeq(s, a, Len(s)), c)
    BY <2>1, PartGrows
  <2>. QED
    BY <1>1, <1>8, <2>2 DEF Query, a, m
<1>13. Marks(t) # {}
  BY <1>2
<1>. QED
  BY <1>9, <1>10, <1>11, <1>12, <1>13 DEF m

\* Before there is one, every slash but the first character is a cut.
LEMMA Unmarked ==
  ASSUME NEW C, NEW s \in Seq(C), s # <<>>, Marks(s) = {}
  PROVE  /\ SegmentCuts(s) = PositionsOf(s, "/") \ {1}
         /\ QueryMark(s) = Len(s) + 1
         /\ Query(s) = <<>>
<1>1. Len(s) \in Nat
  BY LenProperties
<1>2. QueryMark(s) = Len(s) + 1
  BY DEF QueryMark, First, Marks
<1>3. PositionsOf(s, "/") \subseteq 1..Len(s)
  BY DEF PositionsOf
<1>4. \A i \in PositionsOf(s, "/") : i < Len(s) + 1
  BY <1>1, <1>3
<1>5. {Len(s) + 1} \cap 1..Len(s) = {}
  BY <1>1
<1>6. SegmentCuts(s) = PositionsOf(s, "/") \ {1}
  BY <1>2, <1>4, <1>5 DEF SegmentCuts
<1>7. Query(s) = SubSeq(s, Len(s) + 1 + 1, Len(s))
  BY <1>2 DEF Query
<1>8. Query(s) = <<>>
  BY <1>1, <1>7, SubSeqEmpty
<1>. QED
  BY <1>2, <1>6, <1>8

\* A slash or the first question mark is one more cut, any other character is none.
LEMMA UnmarkedGrows ==
  ASSUME NEW C, NEW s \in Seq(C), s # <<>>, NEW c \in C, Marks(s) = {}
  PROVE  /\ c \in {"/", "?"} => SegmentCuts(Append(s, c)) = SegmentCuts(s) \cup {Len(s) + 1}
         /\ c \notin {"/", "?"} => SegmentCuts(Append(s, c)) = SegmentCuts(s)
         /\ c # "?" => Marks(Append(s, c)) = {}
         /\ c = "?" => Marks(Append(s, c)) # {} /\ Query(Append(s, c)) = <<>>
<1>. DEFINE t == Append(s, c)
            n == Len(s)
<1>1. n \in Nat /\ n >= 1 /\ Len(t) = n + 1 /\ t \in Seq(C) /\ t # <<>>
  BY FromStays, AppendProperties
<1>2. /\ c = "?" => Marks(t) = {n + 1}
      /\ c # "?" => Marks(t) = {}
  BY MarksAdded
<1>3. /\ PositionsOf(s, "/") \subseteq 1..n
      /\ c = "/" => PositionsOf(t, "/") = PositionsOf(s, "/") \cup {n + 1}
      /\ c # "/" => PositionsOf(t, "/") = PositionsOf(s, "/")
  BY PositionsAdded
<1>4. SegmentCuts(s) = PositionsOf(s, "/") \ {1}
  BY Unmarked
<1>. HIDE DEF t, n
<1>5. CASE c # "?"
  <2>1. SegmentCuts(t) = PositionsOf(t, "/") \ {1}
    BY <1>1, <1>2, <1>5, Unmarked
  <2>2. c = "/" => SegmentCuts(t) = SegmentCuts(s) \cup {n + 1}
    BY <1>1, <1>3, <1>4, <2>1
  <2>3. c # "/" => SegmentCuts(t) = SegmentCuts(s)
    BY <1>3, <1>4, <2>1
  <2>. QED
    BY <1>2, <1>5, <2>2, <2>3 DEF t, n
<1>6. CASE c = "?"
  <2>1. QueryMark(t) = n + 1
    <3>. DEFINE T == Marks(t)
    <3>1. T \subseteq Int /\ n + 1 \in T /\ \A j \in T : n + 1 <= j
      BY <1>1, <1>2, <1>6
    <3>2. QueryMark(t) = First(T, Len(t) + 1)
      BY DEF QueryMark, Marks
    <3>. HIDE DEF T
    <3>3. First(T, Len(t) + 1) = n + 1
      BY <3>1, FirstIs
    <3>. QED
      BY <3>2, <3>3
  <2>2. \A i \in PositionsOf(s, "/") : i < n + 1
    BY <1>1, <1>3
  <2>3. {n + 1} \cap 1..Len(t) = {n + 1}
    BY <1>1
  <2>4. PositionsOf(t, "/") = PositionsOf(s, "/")
    BY <1>3, <1>6
  <2>5. SegmentCuts(t) = SegmentCuts(s) \cup {n + 1}
    BY <1>4, <2>1, <2>2, <2>3, <2>4 DEF SegmentCuts
  <2>6. Query(t) = SubSeq(t, n + 1 + 1, n + 1)
    BY <1>1, <2>1 DEF Query
  <2>7. Query(t) = <<>>
    BY <1>1, <2>6, SubSeqEmpty
  <2>8. Marks(t) # {}
    BY <1>2, <1>6
  <2>. QED
    BY <1>6, <2>5, <2>7, <2>8 DEF t, n
<1>. QED
  BY <1>5, <1>6

\* An ampersand ends a pair, any other character belongs to it.
LEMMA QueryGrows ==
  ASSUME NEW C, NEW q \in Seq(C), NEW c \in C, Ranked(Ands(q), 0, Len(q))
  PROVE  /\ Ranked(Ands(Append(q, c)), 0, Len(Append(q, c)))
         /\ c = "&" => /\ Done(Append(q, c)) = Append(Done(q), Current(q))
                       /\ Current(Append(q, c)) = <<>>
         /\ c # "&" => /\ Done(Append(q, c)) = Done(q)
                       /\ Current(Append(q, c)) = Append(Current(q), c)
BY DelimitedGrows DEF Ands, Done, Current

\* The pairs of a query as sequences.
LEMMA QueryTyped ==
  ASSUME NEW C, NEW q \in Seq(C), Ranked(Ands(q), 0, Len(q))
  PROVE  /\ Done(q) \in Seq(Seq(C)) /\ Current(q) \in Seq(C)
         /\ Pieces(q, 0, Ands(q) \cup {Len(q) + 1}) = Append(Done(q), Current(q))
BY DelimitedTyped DEF Ands, Done, Current

\* Every pair has its equals sign.
AllPaired(pairs) == \A i \in 1..Len(pairs) : HasEqual(pairs[i])

\* So with one more pair when that has one, too.
LEMMA AllPairedAppended ==
  ASSUME NEW C, NEW pairs \in Seq(C), NEW q \in C
  PROVE  AllPaired(Append(pairs, q)) <=> AllPaired(pairs) /\ HasEqual(q)
<1>1. /\ Len(pairs) \in Nat /\ Len(Append(pairs, q)) = Len(pairs) + 1
      /\ Append(pairs, q)[Len(pairs) + 1] = q
      /\ \A i \in 1..Len(pairs) : Append(pairs, q)[i] = pairs[i]
  BY AppendProperties
<1>2. \A i : i \in 1..Len(pairs) + 1 <=> i \in 1..Len(pairs) \/ i = Len(pairs) + 1
  BY <1>1
<1>. QED
  BY <1>1, <1>2 DEF AllPaired

\* Without a cut there are no parts.
LEMMA NoPieces ==
  ASSUME NEW s, NEW from
  PROVE  Pieces(s, from, {}) = <<>> /\ LastCut(from, {}) = from
<1>1. Cardinality({}) = 0
  BY FS_EmptySet
<1>2. 1..Cardinality({}) = {}
  BY <1>1
<1>. QED
  BY <1>1, <1>2 DEF Pieces, LastCut

------------------------------------------------------------------------------
(* The invariant of parseUrl *)


IsFunction(f) == f = [x \in DOMAIN f |-> f[x]]

\* What params_, key and value hold when the pairs before and the one being read have
\* an equals sign as far as they should.
ParamsHold(done, current) ==
  /\ state = "ParamKey" =>
       /\ ~HasEqual(current) /\ key = current /\ value = <<>>
       /\ params_ = Joined(paramsBefore, Entries(done, Len(done)))
  /\ state = "ParamValue" =>
       /\ HasEqual(current) /\ key = KeyOf(current) /\ value = ValueOf(current)
       /\ params_ = Joined(paramsBefore, IF result = "true" /\ value # <<>>
                                         THEN Entries(Append(done, current), Len(done) + 1)
                                         ELSE Entries(done, Len(done)))

SegmentsHold ==
  /\ text # <<>>
  /\ Ranked(SegmentCuts(text), From(text), Len(text))
  /\ paths_ = pathsBefore \o Pieces(text, From(text), SegmentCuts(text))

StartHolds ==
  /\ text = <<>> /\ path = <<>> /\ key = <<>> /\ value = <<>>
  /\ paths_ = pathsBefore /\ params_ = paramsBefore

PathHolds ==
  /\ SegmentsHold
  /\ Marks(text) = {}
  /\ path = Rest(text, From(text), SegmentCuts(text))
  /\ key = <<>> /\ value = <<>> /\ params_ = paramsBefore

QueryHolds ==
  /\ SegmentsHold
  /\ Marks(text) # {}
  /\ Ranked(Ands(Query(text)), 0, Len(Query(text)))
  /\ AllPaired(Done(Query(text))) => ParamsHold(Done(Query(text)), Current(Query(text)))

\* What the request holds, and held at the call.
RequestTyped ==
  /\ paths_ \in Seq(Seq(Char)) /\ pathsBefore \in Seq(Seq(Char))
  /\ IsFunction(params_) /\ IsFunction(paramsBefore)

UrlInv ==
  /\ text \in Seq(Char)
  /\ function = "parseUrl" =>
       /\ RequestTyped
       /\ state \in UrlState /\ result \in {"none", "true"}
       /\ state = "Start" => StartHolds
       /\ state = "Path" => PathHolds
       /\ state \in {"ParamKey", "ParamValue"} => QueryHolds

\* What the call enters counts where the request had nothing.
LEMMA JoinedInserted ==
  ASSUME NEW B, NEW E, NEW k, NEW v
  PROVE  Inserted(Joined(B, E), k, v) = Joined(B, Inserted(E, k, v))
BY DEF Inserted, Joined

LEMMA JoinedNothing ==
  ASSUME NEW B, IsFunction(B)
  PROVE  Joined(B, NoEntries) = B /\ Joined(NoEntries, B) = B
BY DEF IsFunction, Joined, NoEntries

\* The first character.
LEMMA StartStep ==
  ASSUME UrlInv, NEW c \in UrlChar, NEW isLast \in BOOLEAN, Start(c, isLast)
  PROVE  UrlInv'
<1>1. /\ text = <<>> /\ path = <<>> /\ key = <<>> /\ value = <<>>
      /\ paths_ = pathsBefore /\ params_ = paramsBefore /\ RequestTyped
      /\ function' = "parseUrl" /\ text' = Append(text, c) /\ state' = "Path"
      /\ result' \in {"none", "true"}
      /\ path' = IF c = "/" THEN path ELSE Append(path, c)
      /\ key' = key /\ value' = value /\ paths_' = paths_ /\ params_' = params_
      /\ pathsBefore' = pathsBefore /\ paramsBefore' = paramsBefore
  BY DEF Start, urlReads, callVars, UrlInv, StartHolds
<1>2. text' = <<c>> /\ text' \in Seq(Char) /\ text' # <<>> /\ Len(text') = 1 /\ text'[1] = c
  BY <1>1 DEF Char
<1>3. \A d : PositionsOf(text', d) \subseteq {1}
  BY <1>2 DEF PositionsOf
<1>4. Marks(text') = {}
  BY <1>3 DEF Marks
<1>5. SegmentCuts(text') = {}
  BY <1>2, <1>3, <1>4, Unmarked
<1>6. From(text') = (IF c = "/" THEN 1 ELSE 0)
  BY <1>2 DEF From
<1>7. Ranked(SegmentCuts(text'), From(text'), Len(text')) /\ Cardinality(SegmentCuts(text')) = 0
  BY <1>2, <1>5, <1>6, NoneRanked
<1>8. paths_' = pathsBefore' \o Pieces(text', From(text'), SegmentCuts(text'))
  <2>1. Pieces(text', From(text'), SegmentCuts(text')) = <<>>
    BY <1>7 DEF Pieces
  <2>2. \A s \in Seq(Seq(Char)) : s = s \o <<>>
    OBVIOUS
  <2>. QED
    BY <1>1, <2>1, <2>2 DEF RequestTyped
<1>9. path' = Rest(text', From(text'), SegmentCuts(text'))
  <2>1. Rest(text', From(text'), SegmentCuts(text')) = SubSeq(text', From(text') + 1, 1)
    BY <1>2, <1>7 DEF Rest, LastCut
  <2>2. CASE c = "/"
    BY <1>1, <1>6, <2>1, <2>2, SubSeqEmpty
  <2>3. CASE c # "/"
    <3>1. SubSeq(text', 1, Len(text')) = text'
      BY <1>2, SubSeqFull
    <3>2. path' = <<c>>
      BY <1>1, <2>3
    <3>. QED
      BY <1>2, <1>6, <2>1, <2>3, <3>1, <3>2
  <2>. QED
    BY <2>2, <2>3
<1>. QED
  BY <1>1, <1>2, <1>4, <1>7, <1>8, <1>9
     DEF UrlInv, PathHolds, SegmentsHold, UrlState, RequestTyped

\* A character of the path.
LEMMA PathStep ==
  ASSUME UrlInv, NEW c \in UrlChar, NEW isLast \in BOOLEAN, Path(c, isLast)
  PROVE  UrlInv'
<1>. DEFINE from == From(text)
            cuts == SegmentCuts(text)
<1>1. /\ PathHolds /\ text \in Seq(Char) /\ c \in Char
      /\ function' = "parseUrl" /\ text' = Append(text, c)
      /\ result' \in {"none", "true"} /\ RequestTyped
      /\ key' = key /\ value' = value /\ params_' = params_
      /\ pathsBefore' = pathsBefore /\ paramsBefore' = paramsBefore
  BY DEF Path, urlReads, callVars, UrlInv, Char
<1>2. /\ text # <<>> /\ Marks(text) = {} /\ Ranked(cuts, from, Len(text))
      /\ paths_ = pathsBefore \o Pieces(text, from, cuts) /\ path = Rest(text, from, cuts)
      /\ key = <<>> /\ value = <<>> /\ params_ = paramsBefore
  BY <1>1 DEF PathHolds, SegmentsHold
<1>3. /\ From(text') = from /\ from \in Nat /\ from <= Len(text)
      /\ Len(text') = Len(text) + 1 /\ text' \in Seq(Char) /\ text' # <<>>
  BY <1>1, <1>2, FromStays, AppendProperties
<1>4. /\ c \in {"/", "?"} => SegmentCuts(text') = cuts \cup {Len(text) + 1}
      /\ c \notin {"/", "?"} => SegmentCuts(text') = cuts
      /\ c # "?" => Marks(text') = {}
      /\ c = "?" => Marks(text') # {} /\ Query(text') = <<>>
  BY <1>1, <1>2, UnmarkedGrows
<1>. HIDE DEF from, cuts
<1>5. CASE c \in {"/", "?"}
  <2>1. /\ paths_' = Append(paths_, path) /\ path' = <<>>
        /\ state' = IF c = "?" THEN "ParamKey" ELSE "Path"
    BY <1>5 DEF Path
  <2>2. /\ Ranked(cuts \cup {Len(text) + 1}, from, Len(text) + 1)
        /\ pathsBefore' \o Pieces(text', from, cuts \cup {Len(text) + 1}) = Append(paths_, path)
        /\ Rest(text', from, cuts \cup {Len(text) + 1}) = <<>>
        /\ paths_' \in Seq(Seq(Char))
    <3>1. /\ Ranked(cuts \cup {Len(text) + 1}, from, Len(text) + 1)
          /\ Pieces(Append(text, c), from, cuts \cup {Len(text) + 1}) =
               Append(Pieces(text, from, cuts), Rest(text, from, cuts))
          /\ Rest(Append(text, c), from, cuts \cup {Len(text) + 1}) = <<>>
      <4>1. text \in Seq(Char) /\ from \in Nat /\ from <= Len(text) /\ c \in Char
        BY <1>1, <1>3
      <4>2. Ranked(cuts, from, Len(text))
        BY <1>2
      <4>. QED
        BY <4>1, <4>2, RestCut
    <3>2. Pieces(text, from, cuts) \in Seq(Seq(Char)) /\ Rest(text, from, cuts) \in Seq(Char)
      <4>1. /\ text \in Seq(Char) /\ from \in Nat /\ from <= Len(text)
            /\ Len(text) \in Nat /\ Len(text) <= Len(text) + 1
        BY <1>1, <1>3, LenProperties
      <4>2. Ranked(cuts, from, Len(text))
        BY <1>2
      <4>. QED
        BY <4>1, <4>2, PiecesTyped, RestTyped
    <3>3. pathsBefore \in Seq(Seq(Char)) /\ paths_ \in Seq(Seq(Char))
      BY <1>1 DEF RequestTyped
    <3>4. paths_' \in Seq(Seq(Char))
      BY <1>2, <2>1, <3>2, <3>3, AppendProperties
    <3>5. Append(paths_, path) =
            pathsBefore \o Append(Pieces(text, from, cuts), Rest(text, from, cuts))
      <4>. DEFINE P == Pieces(text, from, cuts)
                  R == Rest(text, from, cuts)
                  D == Seq(Char)
      <4>1. pathsBefore \in Seq(D) /\ P \in Seq(D) /\ R \in D
        BY <3>2, <3>3
      <4>2. paths_ = pathsBefore \o P /\ path = R
        BY <1>2
      <4>. HIDE DEF P, R, D
      <4>3. Append(pathsBefore \o P, R) = pathsBefore \o Append(P, R)
        BY <4>1
      <4>. QED
        BY <4>2, <4>3 DEF P, R
    <3>. QED
      BY <1>1, <3>1, <3>4, <3>5
  <2>3. SegmentsHold' /\ RequestTyped'
    BY <1>1, <1>3, <1>4, <1>5, <2>1, <2>2 DEF SegmentsHold, RequestTyped
  <2>4. CASE c = "/"
    <3>1. PathHolds'
      BY <1>1, <1>2, <1>3, <1>4, <2>1, <2>2, <2>3, <2>4 DEF PathHolds
    <3>. QED
      BY <1>1, <1>3, <2>1, <2>3, <2>4, <3>1 DEF UrlInv, UrlState
  <2>5. CASE c = "?"
    <3>1. Query(text') = <<>>
      BY <1>4, <2>5
    <3>2. Ands(<<>>) = {} /\ 0 \in Nat /\ Len(<<>>) = 0
      <4>1. 1..Len(<<>>) = {} /\ Len(<<>>) = 0
        OBVIOUS
      <4>. QED
        BY <4>1 DEF Ands, PositionsOf
    <3>3. Ranked({}, 0, 0) /\ Cardinality({}) = 0
      BY NoneRanked
    <3>4. Done(<<>>) = <<>>
      BY <3>2, NoPieces DEF Done, Parts, Ands
    <3>5. Current(<<>>) = <<>>
      <4>0. LastCut(0, {}) = 0
        BY NoPieces
      <4>1. Current(<<>>) = SubSeq(<<>>, 0 + 1, 0)
        BY <3>2, <4>0 DEF Current, Remains, Rest, Ands
      <4>. QED
        BY <4>1, SubSeqEmpty
    <3>6. Entries(<<>>, 0) = NoEntries
      <4>1. {KeyOf(<<>>[i]) : i \in 1..0} = {}
        OBVIOUS
      <4>. QED
        BY <4>1, EntriesAre DEF NoEntries
    <3>7. ~HasEqual(<<>>)
      BY DEF HasEqual, PositionsOf
    <3>8. ParamsHold(<<>>, <<>>)'
      <4>1. Joined(paramsBefore, NoEntries) = paramsBefore
        BY <1>1, JoinedNothing DEF RequestTyped
      <4>. QED
        BY <1>1, <1>2, <2>1, <2>5, <3>2, <3>6, <3>7, <4>1 DEF ParamsHold
    <3>9. QueryHolds'
      BY <1>4, <2>3, <2>5, <3>1, <3>2, <3>3, <3>4, <3>5, <3>8 DEF QueryHolds
    <3>. QED
      BY <1>1, <1>3, <2>1, <2>3, <2>5, <3>9 DEF UrlInv, UrlState
  <2>. QED
    BY <1>5, <2>4, <2>5
<1>6. CASE c \notin {"/", "?"}
  <2>1. paths_' = paths_ /\ path' = Append(path, c) /\ state' = "Path"
    BY <1>6 DEF Path, urlReads
  <2>2. /\ Ranked(cuts, from, Len(text) + 1)
        /\ pathsBefore' \o Pieces(text', from, cuts) = paths_
        /\ Rest(text', from, cuts) = Append(path, c)
    <3>1. /\ text \in Seq(Char) /\ from \in Nat /\ from <= Len(text) /\ c \in Char
          /\ Ranked(cuts, from, Len(text))
      BY <1>1, <1>2, <1>3
    <3>2. /\ Ranked(cuts, from, Len(text) + 1)
          /\ Pieces(Append(text, c), from, cuts) = Pieces(text, from, cuts)
          /\ Rest(Append(text, c), from, cuts) = Append(Rest(text, from, cuts), c)
      BY <3>1, RestGrows
    <3>. QED
      BY <1>1, <1>2, <3>2
  <2>3. SegmentsHold' /\ RequestTyped'
    BY <1>1, <1>3, <1>4, <1>6, <2>1, <2>2 DEF SegmentsHold, RequestTyped
  <2>4. PathHolds'
    BY <1>1, <1>2, <1>3, <1>4, <1>6, <2>1, <2>2, <2>3 DEF PathHolds
  <2>. QED
    BY <1>1, <1>3, <2>1, <2>3, <2>4 DEF UrlInv, UrlState
<1>. QED
  BY <1>5, <1>6

\* Whatever is read behind the mark, the segments are as before and the query grows.
LEMMA BehindMark ==
  ASSUME text \in Seq(Char), QueryHolds, NEW c \in Char,
         text' = Append(text, c), paths_' = paths_, pathsBefore' = pathsBefore
  PROVE  /\ SegmentsHold' /\ (Marks(text) # {})'
         /\ text' \in Seq(Char) /\ Query(text) \in Seq(Char)
         /\ Query(text') = Append(Query(text), c)
<1>. DEFINE from == From(text)
            cuts == SegmentCuts(text)
<1>1. /\ text # <<>> /\ Marks(text) # {} /\ Ranked(cuts, from, Len(text))
      /\ paths_ = pathsBefore \o Pieces(text, from, cuts)
  BY DEF QueryHolds, SegmentsHold
<1>2. /\ From(text') = from /\ from \in Nat /\ from <= Len(text)
      /\ Len(text') = Len(text) + 1 /\ text' \in Seq(Char) /\ text' # <<>>
  BY <1>1, FromStays, AppendProperties
<1>3. /\ Marks(text') # {} /\ SegmentCuts(text') = cuts
      /\ Query(text) \in Seq(Char) /\ Query(text') = Append(Query(text), c)
  BY <1>1, MarkedAlready
<1>. HIDE DEF from, cuts
<1>4. Ranked(cuts, from, Len(text) + 1) /\ pathsBefore' \o Pieces(text', from, cuts) = paths_
  BY <1>1, <1>2, RestGrows
<1>. QED
  BY <1>2, <1>3, <1>4 DEF SegmentsHold

\* A character of a key.
LEMMA ParamKeyStep ==
  ASSUME UrlInv, NEW c \in UrlChar, NEW isLast \in BOOLEAN, ParamKey(c, isLast)
  PROVE  UrlInv'
<1>. DEFINE q == Query(text)
            done == Done(q)
            current == Current(q)
<1>1. /\ QueryHolds /\ text \in Seq(Char) /\ c \in Char /\ state = "ParamKey"
      /\ function' = "parseUrl" /\ text' = Append(text, c)
      /\ result' \in {"none", "true"} /\ RequestTyped
      /\ value' = value /\ paths_' = paths_ /\ params_' = params_
      /\ pathsBefore' = pathsBefore /\ paramsBefore' = paramsBefore
      /\ \/ c = "=" /\ state' = "ParamValue" /\ key' = key
         \/ c # "=" /\ key' = Append(key, c) /\ state' = "ParamKey"
  BY DEF ParamKey, urlReads, callVars, UrlInv, Char
<1>2. /\ Ranked(Ands(q), 0, Len(q))
      /\ AllPaired(done) => ParamsHold(done, current)
  BY <1>1 DEF QueryHolds
<1>3. /\ SegmentsHold' /\ Marks(text') # {} /\ text' \in Seq(Char) /\ q \in Seq(Char)
      /\ Query(text') = Append(q, c)
  BY <1>1, BehindMark
<1>. HIDE DEF q
<1>4. /\ Ranked(Ands(Append(q, c)), 0, Len(Append(q, c)))
      /\ c = "&" => Done(Append(q, c)) = Append(done, current)
      /\ c # "&" => /\ Done(Append(q, c)) = done
                    /\ Current(Append(q, c)) = Append(current, c)
  BY <1>1, <1>2, <1>3, QueryGrows
<1>5. done \in Seq(Seq(Char)) /\ current \in Seq(Char)
  BY <1>2, <1>3, QueryTyped
<1>. HIDE DEF done, current
<1>6. AllPaired(Done(Query(text'))) => ParamsHold(Done(Query(text)), Current(Query(text)))'
  <2>. SUFFICES ASSUME AllPaired(Done(Query(text')))
                PROVE  ParamsHold(Done(Query(text)), Current(Query(text)))'
    OBVIOUS
  <2>1. c # "&" /\ AllPaired(done)
    <3>1. CASE c = "&"
      <4>1. AllPaired(Append(done, current))
        BY <1>3, <1>4, <3>1
      <4>2. AllPaired(done) /\ HasEqual(current)
        BY <1>5, <4>1, AllPairedAppended
      <4>. QED
        BY <1>1, <1>2, <4>2 DEF ParamsHold
    <3>2. CASE c # "&"
      BY <1>3, <1>4, <3>2
    <3>. QED
      BY <3>1, <3>2
  <2>2. /\ ~HasEqual(current) /\ key = current /\ value = <<>>
        /\ params_ = Joined(paramsBefore, Entries(done, Len(done)))
    BY <1>1, <1>2, <2>1 DEF ParamsHold
  <2>3. /\ c = "=" => /\ HasEqual(Append(current, c))
                      /\ KeyOf(Append(current, c)) = current
                      /\ ValueOf(Append(current, c)) = <<>>
        /\ c # "=" => ~HasEqual(Append(current, c))
    BY <1>1, <1>5, <2>2, PairGrows
  <2>4. Done(Query(text')) = done /\ Current(Query(text')) = Append(current, c)
    BY <1>3, <1>4, <2>1
  <2>5. CASE c = "="
    BY <1>1, <2>2, <2>3, <2>4, <2>5 DEF ParamsHold
  <2>6. CASE c # "="
    BY <1>1, <2>2, <2>3, <2>4, <2>6 DEF ParamsHold
  <2>. QED
    BY <2>5, <2>6
<1>7. QueryHolds'
  BY <1>3, <1>4, <1>6 DEF QueryHolds
<1>. QED
  BY <1>1, <1>3, <1>7 DEF UrlInv, UrlState, RequestTyped

\* A character of a value.
LEMMA ParamValueStep ==
  ASSUME UrlInv, NEW c \in UrlChar, NEW isLast \in BOOLEAN, ParamValue(c, isLast)
  PROVE  UrlInv'
<1>. DEFINE q == Query(text)
            done == Done(q)
            current == Current(q)
            n == Len(done)
<1>1. /\ QueryHolds /\ text \in Seq(Char) /\ c \in Char /\ state = "ParamValue"
      /\ function' = "parseUrl" /\ text' = Append(text, c) /\ result = "none"
      /\ result' = (IF isLast THEN "true" ELSE "none")
      /\ paths_' = paths_ /\ state' \in {"ParamKey", "ParamValue"}
      /\ pathsBefore' = pathsBefore /\ paramsBefore' = paramsBefore /\ RequestTyped
  BY DEF ParamValue, urlReads, callVars, UrlInv, Char
<1>2. /\ Ranked(Ands(q), 0, Len(q))
      /\ AllPaired(done) => ParamsHold(done, current)
  BY <1>1 DEF QueryHolds
<1>3. /\ SegmentsHold' /\ Marks(text') # {} /\ text' \in Seq(Char) /\ q \in Seq(Char)
      /\ Query(text') = Append(q, c)
  BY <1>1, BehindMark
<1>. HIDE DEF q
<1>4. /\ Ranked(Ands(Append(q, c)), 0, Len(Append(q, c)))
      /\ c = "&" => /\ Done(Append(q, c)) = Append(done, current)
                    /\ Current(Append(q, c)) = <<>>
      /\ c # "&" => /\ Done(Append(q, c)) = done
                    /\ Current(Append(q, c)) = Append(current, c)
  BY <1>1, <1>2, <1>3, QueryGrows
<1>5. done \in Seq(Seq(Char)) /\ current \in Seq(Char)
  BY <1>2, <1>3, QueryTyped
<1>6. AllPaired(Done(Query(text'))) => AllPaired(done)
  <2>1. c = "&" => Done(Query(text')) = Append(done, current)
    BY <1>3, <1>4
  <2>2. c # "&" => Done(Query(text')) = done
    BY <1>3, <1>4
  <2>. HIDE DEF done, current
  <2>. QED
    BY <1>5, <2>1, <2>2, AllPairedAppended
<1>. HIDE DEF done, current
<1>7. ASSUME AllPaired(done) PROVE ParamsHold(Done(Query(text)), Current(Query(text)))'
  <2>1. /\ HasEqual(current) /\ key = KeyOf(current) /\ value = ValueOf(current)
        /\ params_ = Joined(paramsBefore, Entries(done, n))
    BY <1>1, <1>2, <1>7 DEF ParamsHold
  <2>2. ASSUME NEW p \in Seq(Char)
        PROVE  Joined(paramsBefore, Entries(Append(done, p), n + 1)) =
                 Inserted(params_, KeyOf(p), ValueOf(p))
    <3>1. Entries(Append(done, p), n + 1) = Inserted(Entries(done, n), KeyOf(p), ValueOf(p))
      BY <1>5, EntriesInsert
    <3>. QED
      BY <2>1, <3>1, JoinedInserted
  <2>3. CASE c = "&"
    <3>1. insert(key, value) /\ key' = <<>> /\ value' = <<>> /\ state' = "ParamKey"
      BY <2>3 DEF ParamValue
    <3>2. params_' = Joined(paramsBefore, Entries(Append(done, current), n + 1))
      BY <1>5, <2>1, <2>2, <3>1 DEF insert, Inserted
    <3>3. Len(Append(done, current)) = n + 1
      BY <1>5, AppendProperties
    <3>4. ~HasEqual(<<>>)
      BY DEF HasEqual, PositionsOf
    <3>5. Done(Query(text')) = Append(done, current) /\ Current(Query(text')) = <<>>
      BY <1>3, <1>4, <2>3
    <3>. QED
      BY <1>1, <3>1, <3>2, <3>3, <3>4, <3>5 DEF ParamsHold
  <2>4. CASE c # "&"
    <3>1. /\ value' = Append(value, c) /\ key' = key /\ state' = "ParamValue"
          /\ IF isLast THEN insert(key, value') ELSE params_' = params_
      BY <1>1, <2>4 DEF ParamValue
    <3>. DEFINE more == Append(current, c)
    <3>2. more \in Seq(Char)
      BY <1>1, <1>5, AppendProperties
    <3>3. HasEqual(more) /\ KeyOf(more) = key /\ ValueOf(more) = value'
      BY <1>1, <1>5, <2>1, <3>1, PairGrows
    <3>4. Done(Query(text')) = done /\ Current(Query(text')) = more
      BY <1>3, <1>4, <2>4
    <3>5. value' # <<>>
      <4>1. value \in Seq(Char)
        <5>1. EqualAt(current) \in Nat /\ EqualAt(current) + 1 \in Int /\ Len(current) \in Nat
          <6>1. PositionsOf(current, "=") \subseteq Nat /\ Len(current) \in Nat
            BY <1>5 DEF PositionsOf
          <6>2. EqualAt(current) \in PositionsOf(current, "=")
            BY <2>1, <6>1, FirstExists DEF EqualAt, HasEqual
          <6>. QED
            BY <6>1, <6>2
        <5>2. \A i \in EqualAt(current) + 1 .. Len(current) : i \in 1..Len(current)
          BY <5>1
        <5>3. \A i \in EqualAt(current) + 1 .. Len(current) : current[i] \in Char
          BY <1>5, <5>2, ElementOfSeq
        <5>. QED
          BY <2>1, <5>1, <5>3, SubSeqProperties DEF ValueOf
      <4>. QED
        BY <1>1, <3>1, <4>1, AppendProperties
    <3>6. CASE isLast
      <4>1. params_' = Joined(paramsBefore, Entries(Append(done, more), n + 1))
        <5>. HIDE DEF more
        <5>1. Joined(paramsBefore, Entries(Append(done, more), n + 1)) =
                Inserted(params_, key, value')
          BY <2>2, <3>2, <3>3
        <5>2. insert(key, value')
          BY <3>1, <3>6
        <5>. QED
          BY <5>1, <5>2 DEF insert, Inserted
      <4>. HIDE DEF more
      <4>. QED
        BY <1>1, <3>1, <3>3, <3>4, <3>5, <3>6, <4>1 DEF ParamsHold
    <3>7. CASE ~isLast
      <4>. HIDE DEF more
      <4>. QED
        BY <1>1, <2>1, <3>1, <3>3, <3>4, <3>7 DEF ParamsHold
    <3>. QED
      BY <3>6, <3>7
  <2>. QED
    BY <2>3, <2>4
<1>8. QueryHolds'
  BY <1>3, <1>4, <1>6, <1>7 DEF QueryHolds
<1>9. IsFunction(params_')
  <2>1. params_' = params_ \/ insert(key, value) \/ insert(key, value')
    BY DEF ParamValue
  <2>. QED
    BY <1>1, <2>1 DEF insert, IsFunction, RequestTyped
<1>. QED
  BY <1>1, <1>3, <1>8, <1>9 DEF UrlInv, UrlState, RequestTyped

\* UrlInv holds of every URL that parseUrl is given, at every character.
THEOREM UrlInvariance == Spec => []UrlInv
<1>1. Init => UrlInv
  <2>1. IsFunction(NoEntries)
    BY DEF IsFunction, NoEntries
  <2>. QED
    BY <2>1 DEF Init, UrlInv, UrlState, StartHolds, RequestTyped
<1>2. UrlInv /\ [Next]_vars => UrlInv'
  <2>. SUFFICES ASSUME UrlInv, [Next]_vars PROVE UrlInv'
    OBVIOUS
  <2>1. CASE UNCHANGED vars
    BY <2>1 DEF vars, urlVars, headVars, callVars, UrlInv, StartHolds, PathHolds, QueryHolds,
                SegmentsHold, ParamsHold, RequestTyped
  <2>2. CASE emptyUrl
    <3>1. text = <<>> /\ function = "parseUrl"
      BY <2>2 DEF emptyUrl
    <3>2. state = "Start"
      BY <3>1 DEF UrlInv, UrlState, PathHolds, QueryHolds, SegmentsHold
    <3>. QED
      BY <2>2, <3>1, <3>2 DEF emptyUrl, urlVars, headVars, callVars, UrlInv, StartHolds,
                              RequestTyped
  <2>3. CASE endOfText
    BY <2>3 DEF endOfText, UrlInv
  <2>4. ASSUME NEW c \in HeadChar, parseHttpHeader(c) PROVE UrlInv'
    <3>1. /\ function' = "parseHttpHeader" /\ text' = Append(text, c)
          /\ c \in Char /\ text \in Seq(Char)
      BY <2>4 DEF parseHttpHeader, FirstLineStart, HeaderLineStart, HeaderName, HeaderLws,
           SpaceBeforeHeaderValue, HeaderValue, LineFeed, FinalLineFeed, Fail, headReads,
           headScans, UrlInv, Char
    <3>. QED
      BY <3>1, AppendProperties DEF UrlInv
  <2>5. ASSUME NEW c \in UrlChar, NEW isLast \in BOOLEAN, parseUrl(c, isLast) PROVE UrlInv'
    BY <2>5, StartStep, PathStep, ParamKeyStep, ParamValueStep DEF parseUrl
  <2>6. CASE nextUrl
    <3>1. /\ function = "parseUrl" /\ state' = "Start"
          /\ text' = <<>> /\ path' = <<>> /\ key' = <<>> /\ value' = <<>> /\ result' = "none"
          /\ paths_' = paths_ /\ pathsBefore' = paths_
          /\ params_' = params_ /\ paramsBefore' = params_
      BY <2>6 DEF nextUrl, Call
    <3>2. text' \in Seq(Char)
      BY <3>1
    <3>. QED
      BY <3>1, <3>2 DEF UrlInv, UrlState, StartHolds, RequestTyped
  <2>7. CASE nextHead
    <3>1. function' = "parseHttpHeader" /\ text' = <<>>
      BY <2>7 DEF nextHead, Call
    <3>2. text' \in Seq(Char)
      BY <3>1
    <3>. QED
      BY <3>1, <3>2 DEF UrlInv
  <2>. QED
    BY <2>1, <2>2, <2>3, <2>4, <2>5, <2>6, <2>7 DEF Next
<1>. QED
  BY <1>1, <1>2, PTL DEF Spec

\* Without a query there is one pair, and it is empty.
LEMMA NoQuery ==
  ASSUME Query(text) = <<>>
  PROVE  ParamsOf(Pairs(text)) = NoEntries
<1>1. Ands(<<>>) = {} /\ Len(<<>>) = 0 /\ 1..0 = {}
  <2>1. 1..Len(<<>>) = {} /\ Len(<<>>) = 0
    OBVIOUS
  <2>. QED
    BY <2>1 DEF Ands, PositionsOf
<1>2. <<>> \in Seq(Char) /\ Ranked(Ands(<<>>), 0, Len(<<>>))
  <2>1. Ranked({}, 0, 0)
    BY NoneRanked
  <2>. QED
    BY <1>1, <2>1
<1>3. Pairs(text) = Append(Done(<<>>), Current(<<>>))
  <2>1. Pieces(<<>>, 0, Ands(<<>>) \cup {Len(<<>>) + 1}) = Append(Done(<<>>), Current(<<>>))
    BY <1>2, QueryTyped
  <2>. QED
    BY <2>1, PartsOfUrl
<1>4. Done(<<>>) = <<>> /\ Current(<<>>) = <<>>
  <2>1. LastCut(0, {}) = 0 /\ Pieces(<<>>, 0, {}) = <<>>
    BY NoPieces
  <2>2. Current(<<>>) = SubSeq(<<>>, 0 + 1, 0)
    BY <1>1, <2>1 DEF Current, Remains, Rest, Ands
  <2>3. Current(<<>>) = <<>>
    BY <2>2, SubSeqEmpty
  <2>4. Done(<<>>) = <<>>
    BY <1>1, <2>1 DEF Done, Parts, Ands
  <2>. QED
    BY <2>3, <2>4
<1>. DEFINE pairs == Pairs(text)
<1>5. Len(pairs) = 1 /\ pairs[1] = <<>>
  <2>1. pairs = Append(Done(<<>>), Current(<<>>)) /\ Len(Done(<<>>)) = 0
    BY <1>1, <1>3, <1>4
  <2>2. Done(<<>>) \in Seq(Seq(Char)) /\ Current(<<>>) \in Seq(Char)
    BY <1>2, QueryTyped
  <2>3. /\ Len(Append(Done(<<>>), Current(<<>>))) = Len(Done(<<>>)) + 1
        /\ Append(Done(<<>>), Current(<<>>))[Len(Done(<<>>)) + 1] = Current(<<>>)
    BY <2>2, AppendProperties
  <2>. QED
    BY <1>4, <2>1, <2>3
<1>6. ValueOf(<<>>) = <<>>
  <2>1. ~HasEqual(<<>>)
    BY <1>1 DEF HasEqual, PositionsOf
  <2>. QED
    BY <1>2, <2>1, NoEqual
<1>. HIDE DEF pairs
<1>7. ParamsOf(pairs) = Entries(pairs, 0)
  BY <1>5, <1>6 DEF ParamsOf
<1>8. {KeyOf(pairs[i]) : i \in 1..0} = {}
  BY <1>1
<1>. QED
  BY <1>5, <1>7, <1>8, EntriesAre DEF NoEntries, pairs

\* At the end paths_ are the segments of the URL, and params_ the pairs of its query.
THEOREM UrlCorrect == Spec => []UrlIsSplit
<1>1. ASSUME UrlInv PROVE UrlIsSplit
  <2>. SUFFICES ASSUME function = "parseUrl", result = "true", text # <<>>
                PROVE  /\ paths_ = pathsBefore \o Segments(text)
                       /\ LET pairs == Pairs(text) IN
                          (\A i \in 1..Len(pairs) - 1 : PositionsOf(pairs[i], "=") # {}) =>
                            params_ = Joined(paramsBefore, ParamsOf(pairs))
    BY DEF UrlIsSplit
  <2>1. text \in Seq(Char) /\ state \in {"Path", "ParamKey", "ParamValue"}
    BY <1>1 DEF UrlInv, UrlState, StartHolds
  <2>2. SegmentsHold
    BY <1>1, <2>1 DEF UrlInv, PathHolds, QueryHolds
  <2>3. paths_ = pathsBefore \o Segments(text)
    BY <2>2, PartsOfUrl DEF SegmentsHold
  <2>4. CASE state = "Path"
    <3>1. Marks(text) = {} /\ params_ = paramsBefore /\ IsFunction(paramsBefore)
      BY <1>1, <2>4 DEF UrlInv, PathHolds, RequestTyped
    <3>2. Query(text) = <<>>
      BY <2>1, <3>1, Unmarked
    <3>. QED
      BY <2>3, <3>1, <3>2, NoQuery, JoinedNothing
  <2>5. CASE state \in {"ParamKey", "ParamValue"}
    <3>. DEFINE q == Query(text)
                done == Done(q)
                current == Current(q)
                pairs == Pairs(text)
                n == Len(done)
    <3>1. /\ Marks(text) # {} /\ Ranked(Ands(q), 0, Len(q))
          /\ AllPaired(done) => ParamsHold(done, current)
      BY <1>1, <2>5 DEF UrlInv, QueryHolds
    <3>2. q \in Seq(Char)
      <4>1. "a" \in Char
        BY DEF Char, UrlChar
      <4>. QED
        BY <2>1, <3>1, <4>1, MarkedAlready
    <3>3. /\ done \in Seq(Seq(Char)) /\ current \in Seq(Char)
          /\ Pieces(q, 0, Ands(q) \cup {Len(q) + 1}) = Append(done, current)
      <4>. HIDE DEF q
      <4>. QED
        BY <3>1, <3>2, QueryTyped
    <3>4. pairs = Append(done, current)
      BY <3>3, PartsOfUrl
    <3>. HIDE DEF done, current, q, pairs
    <3>5. /\ n \in Nat /\ Len(pairs) = n + 1 /\ pairs[n + 1] = current
          /\ \A i \in 1..n : pairs[i] = done[i]
      BY <3>3, <3>4, AppendProperties
    <3>6. ASSUME \A i \in 1..Len(pairs) - 1 : PositionsOf(pairs[i], "=") # {}
          PROVE  params_ = Joined(paramsBefore, ParamsOf(pairs))
      <4>1. \A i \in 1..n : HasEqual(done[i])
        BY <3>5, <3>6 DEF HasEqual
      <4>2. ParamsHold(done, current)
        BY <3>1, <4>1 DEF AllPaired
      <4>3. Entries(pairs, n) = Entries(done, n)
        BY <3>3, <3>4, EntriesStay
      <4>4. ParamsOf(pairs) = Entries(pairs, IF ValueOf(current) = <<>> THEN n ELSE n + 1)
        BY <3>5 DEF ParamsOf
      <4>5. CASE state = "ParamKey"
        <5>1. params_ = Joined(paramsBefore, Entries(done, n)) /\ ~HasEqual(current)
          BY <4>2, <4>5 DEF ParamsHold
        <5>2. ValueOf(current) = <<>>
          BY <3>3, <5>1, NoEqual
        <5>. QED
          BY <4>3, <4>4, <5>1, <5>2
      <4>6. CASE state = "ParamValue"
        <5>1. /\ value = ValueOf(current)
              /\ params_ = Joined(paramsBefore, IF value # <<>> THEN Entries(pairs, n + 1)
                                                               ELSE Entries(done, n))
          BY <3>4, <4>2, <4>6 DEF ParamsHold
        <5>. QED
          BY <4>3, <4>4, <5>1
      <4>. QED
        BY <2>5, <4>5, <4>6
    <3>. QED
      BY <2>3, <3>6 DEF pairs
  <2>. QED
    BY <2>1, <2>4, <2>5
<1>. QED
  BY <1>1, UrlInvariance, PTL

------------------------------------------------------------------------------
(* The invariant of parseHttpHeader *)

\* What was read with the LF in front of it, the lines that have ended, and the one being read.
Lined == <<"LF">> \o text
Ended == Parts(Lined, "CR")
Begun == Remains(Lined, "CR")

Blank == " "
NotContinued(head) == \A i \in 2..Len(head) : head[i] = Blank => head[i - 1] # "LF"

HasColon(line) == PositionsOf(line, ":") # {}
HeaderLines(lines, n) == \A i \in 1..n : IsHeaderLine(lines[i])
EndsWith(s, last) == s # <<>> /\ s[Len(s)] = last

\* The scanner may leave out the blank in front of a value.
Written(t) == value \in Seq(HeadChar) /\ (t = value \/ t = <<Blank>> \o value)

NameHolds(line) ==
  /\ line # <<>> /\ line[1] = "LF" /\ ~HasColon(line)
  /\ name = SubSeq(line, 2, Len(line)) /\ name \in Seq(Token) \ {<<>>}
  /\ value = <<>>

ColonHolds(line) ==
  /\ line # <<>> /\ line[1] = "LF" /\ HasColon(line)
  /\ name = NameOf(line) /\ name \in Seq(Token) \ {<<>>}
  /\ TextOf(line) = <<>> /\ value = <<>>

LineHolds(line) ==
  /\ IsHeaderLine(line) /\ HasColon(line)
  /\ name = NameOf(line) /\ Written(TextOf(line))

FirstHolds ==
  /\ text = <<>> /\ Ended = <<>> /\ Begun = <<"LF">>
  /\ name = <<>> /\ value = <<>> /\ header_ = headerBefore

\* What the first n lines say, and the heads before besides.
Entered(lines, n) == Joined(Headers(lines, n), headerBefore)

\* What the scanner knows of the lines it has read and of the one it reads.
HeadHolds ==
  LET n == Len(Ended) IN
  /\ state \in HeadState \ {"HeaderLws"}
  /\ state # "FinalLineFeed" => ~EndsWith(Ended, <<"LF">>)
  /\ state = "FirstLineStart" => FirstHolds
  /\ state \in {"HeaderName", "SpaceBeforeHeaderValue", "HeaderValue"} =>
       HeaderLines(Ended, n) /\ header_ = Entered(Ended, n)
  /\ state = "HeaderName" => NameHolds(Begun)
  /\ state = "SpaceBeforeHeaderValue" => ColonHolds(Begun)
  /\ state = "HeaderValue" => LineHolds(Begun)
  /\ state \in {"LineFeed", "HeaderLineStart"} =>
       /\ Ended # <<>> /\ HeaderLines(Ended, n) /\ header_ = Entered(Ended, n - 1)
       /\ LineHolds(Ended[n])
  /\ state = "LineFeed" => Begun = <<>>
  /\ state = "HeaderLineStart" => Begun = <<"LF">> /\ EndsWith(text, "LF")
  /\ state = "FinalLineFeed" =>
       /\ EndsWith(Ended, <<"LF">>) /\ HeaderLines(Ended, n - 1)
       /\ header_ = Entered(Ended, n - 1) /\ EndsWith(text, "CR")

HeadInv ==
  /\ text \in Seq(Char)
  /\ Ranked(PositionsOf(Lined, "CR"), 0, Len(Lined))
  /\ function = "parseHttpHeader" =>
       /\ IsFunction(header_) /\ IsFunction(headerBefore)
       /\ result = "none" /\ NotContinued(text) => HeadHolds
       /\ HeadersAreTheLines

------------------------------------------------------------------------------
(* Names, values and headers *)

\* The last position is the one no other is behind.
LEMMA LastIs ==
  ASSUME NEW S, S \subseteq Int, NEW i \in S, \A j \in S : j <= i
  PROVE  Last(S) = i
<1>. DEFINE l == CHOOSE k \in S : \A j \in S : j <= k
<1>1. l \in S /\ \A j \in S : j <= l
  OBVIOUS
<1>2. l <= i /\ i <= l /\ l \in Int /\ i \in Int
  BY <1>1
<1>. HIDE DEF l
<1>3. l = i
  BY <1>2
<1>. QED
  BY <1>3 DEF Last, l

\* Positions up to n that are not none have a last.
LEMMA LastExists ==
  ASSUME NEW n \in Nat, NEW S, S \subseteq 1..n, S # {}
  PROVE  Last(S) \in S /\ \A j \in S : j <= Last(S)
<1>. DEFINE T == {n - i : i \in S}
<1>1. T \subseteq Nat /\ T # {}
  <2>1. \A i \in S : i \in 1..n
    OBVIOUS
  <2>2. \A i \in S : n - i \in Nat
    BY <2>1
  <2>. QED
    BY <2>2
<1>. HIDE DEF T
<1>2. First(T, 0) \in T /\ \A j \in T : First(T, 0) <= j
  BY <1>1, FirstExists
<1>3. PICK i \in S : First(T, 0) = n - i
  BY <1>2 DEF T
<1>4. \A j \in S : n - i <= n - j
  BY <1>2, <1>3 DEF T
<1>5. \A j \in S : j <= i
  BY <1>4
<1>6. S \subseteq Int
  OBVIOUS
<1>7. Last(S) = i
  BY <1>5, <1>6, LastIs
<1>. QED
  BY <1>5, <1>7

\* Where a sequence has characters other than blanks, and what trim makes of it.
Ink(s, blank) == {i \in 1..Len(s) : s[i] # blank}
Trimmed(s, blank) ==
  IF Ink(s, blank) = {} THEN <<>>
  ELSE SubSeq(s, CHOOSE i \in Ink(s, blank) : \A j \in Ink(s, blank) : i <= j,
                 CHOOSE i \in Ink(s, blank) : \A j \in Ink(s, blank) : i >= j)

\* trim takes away the blanks on both sides.
LEMMA TrimIsTrimmed ==
  ASSUME NEW s
  PROVE  trim(s) = Trimmed(s, Blank)
BY DEF trim, Trimmed, Ink, Blank

\* What it returns, given the first and the last such character.
LEMMA TrimIs ==
  ASSUME NEW s, NEW blank, NEW n \in Nat, Ink(s, blank) \subseteq 1..n,
         NEW f \in Ink(s, blank), NEW l \in Ink(s, blank),
         \A j \in Ink(s, blank) : f <= j, \A j \in Ink(s, blank) : j <= l
  PROVE  Trimmed(s, blank) = SubSeq(s, f, l)
<1>. DEFINE I == Ink(s, blank)
            a == CHOOSE i \in I : \A j \in I : i <= j
            b == CHOOSE i \in I : \A j \in I : i >= j
<1>1. Trimmed(s, blank) = IF I = {} THEN <<>> ELSE SubSeq(s, a, b)
  BY DEF Trimmed
<1>2. a \in I /\ \A j \in I : a <= j
  OBVIOUS
<1>3. b \in I /\ \A j \in I : b >= j
  <2>1. \A j \in I : l >= j
    OBVIOUS
  <2>. QED
    BY <2>1
<1>4. I \subseteq Int /\ f \in I /\ l \in I /\ (\A j \in I : f <= j) /\ (\A j \in I : j <= l)
  OBVIOUS
<1>. HIDE DEF a, b, I
<1>5. a \in Int /\ b \in Int /\ f \in Int /\ l \in Int
  BY <1>2, <1>3, <1>4
<1>6. a = f /\ b = l
  BY <1>2, <1>3, <1>4, <1>5
<1>. QED
  BY <1>1, <1>4, <1>6

\* A sequence without blanks has none to trim.
LEMMA NoBlanks ==
  ASSUME NEW C, NEW blank, blank \notin C, NEW s \in Seq(C)
  PROVE  Trimmed(s, blank) = s
<1>1. Len(s) \in Nat /\ \A i \in 1..Len(s) : s[i] \in C
  BY LenProperties, ElementOfSeq
<1>2. Ink(s, blank) = 1..Len(s)
  BY <1>1 DEF Ink
<1>3. CASE Len(s) = 0
  <2>1. s = <<>> /\ Ink(s, blank) = {}
    BY <1>2, <1>3, EmptySeq
  <2>. QED
    BY <2>1 DEF Trimmed
<1>4. CASE Len(s) # 0
  <2>. DEFINE n == Len(s)
  <2>1. n \in Nat /\ 1 \in Ink(s, blank) /\ n \in Ink(s, blank) /\ Ink(s, blank) \subseteq 1..n
    BY <1>1, <1>2, <1>4
  <2>2. \A j \in Ink(s, blank) : 1 <= j /\ j <= n
    BY <1>1, <1>2
  <2>. HIDE DEF n
  <2>3. Trimmed(s, blank) = SubSeq(s, 1, n)
    BY <2>1, <2>2, TrimIs
  <2>. QED
    BY <2>3, SubSeqFull DEF n
<1>. QED
  BY <1>3, <1>4

\* A character in front moves the others by one.
LEMMA InFront ==
  ASSUME NEW C, NEW x \in C, NEW v \in Seq(C)
  PROVE  /\ <<x>> \o v \in Seq(C) /\ Len(v) \in Nat /\ Len(<<x>> \o v) = Len(v) + 1
         /\ (<<x>> \o v)[1] = x
         /\ \A i \in 1..Len(v) : (<<x>> \o v)[i + 1] = v[i]
<1>1. <<x>> \in Seq(C) /\ Len(<<x>>) = 1 /\ <<x>>[1] = x
  OBVIOUS
<1>. DEFINE u == <<x>>
<1>2. u \in Seq(C) /\ Len(u) = 1 /\ u[1] = x
  BY <1>1
<1>. HIDE DEF u
<1>3. /\ u \o v \in Seq(C) /\ Len(u \o v) = 1 + Len(v) /\ Len(v) \in Nat
      /\ \A i \in 1..1 + Len(v) : (u \o v)[i] = IF i <= 1 THEN u[i] ELSE v[i - 1]
  <2>1. /\ u \o v \in Seq(C) /\ Len(u \o v) = Len(u) + Len(v)
        /\ \A i \in 1..Len(u) + Len(v) : (u \o v)[i] = IF i <= Len(u) THEN u[i] ELSE v[i - Len(u)]
    BY <1>2, ConcatProperties
  <2>. QED
    BY <1>2, <2>1, LenProperties
<1>4. 1 \in 1..1 + Len(v) /\ \A i \in 1..Len(v) : i + 1 \in 1..1 + Len(v) /\ ~(i + 1 <= 1)
  BY <1>3
<1>5. (u \o v)[1] = x
  BY <1>2, <1>3, <1>4
<1>6. \A i \in 1..Len(v) : (u \o v)[i + 1] = v[i]
  BY <1>3, <1>4
<1>7. Len(u \o v) = Len(v) + 1
  BY <1>3
<1>. QED
  BY <1>3, <1>5, <1>6, <1>7 DEF u

\* A blank in front is trimmed.
LEMMA BlankInFront ==
  ASSUME NEW C, NEW blank \in C, NEW v \in Seq(C)
  PROVE  Trimmed(<<blank>> \o v, blank) = Trimmed(v, blank)
<1>. DEFINE s == <<blank>> \o v
            n == Len(v)
<1>1. s \in Seq(C) /\ n \in Nat /\ Len(s) = n + 1
  BY InFront
<1>2. s[1] = blank
  BY InFront
<1>3. \A i \in 1..n : s[i + 1] = v[i]
  BY InFront
<1>. HIDE DEF s
<1>4. \A i \in Ink(s, blank) : i - 1 \in Ink(v, blank)
  <2>. SUFFICES ASSUME NEW i \in Ink(s, blank) PROVE i - 1 \in Ink(v, blank)
    OBVIOUS
  <2>1. i \in 1..n + 1 /\ s[i] # blank /\ i # 1
    BY <1>1, <1>2 DEF Ink
  <2>2. i - 1 \in 1..n /\ (i - 1) + 1 = i
    BY <1>1, <2>1
  <2>3. s[i] = v[i - 1]
    BY <1>3, <2>2
  <2>. QED
    BY <2>1, <2>2, <2>3 DEF Ink
<1>5. \A i \in Ink(v, blank) : i + 1 \in Ink(s, blank)
  <2>1. \A i \in 1..n : i + 1 \in 1..n + 1
    BY <1>1
  <2>. QED
    BY <1>1, <1>3, <2>1 DEF Ink
<1>6. Ink(v, blank) \subseteq 1..n /\ Ink(s, blank) \subseteq 1..n + 1
  BY <1>1 DEF Ink
<1>7. CASE Ink(v, blank) = {}
  <2>1. Ink(s, blank) = {}
    BY <1>4, <1>7
  <2>. QED
    BY <1>7, <2>1 DEF Trimmed, Ink, s
<1>8. CASE Ink(v, blank) # {}
  <2>. DEFINE f == First(Ink(v, blank), 0)
              l == Last(Ink(v, blank))
  <2>1. f \in Ink(v, blank) /\ \A j \in Ink(v, blank) : f <= j
    BY <1>6, <1>8, FirstExists
  <2>2. l \in Ink(v, blank) /\ \A j \in Ink(v, blank) : j <= l
    BY <1>1, <1>6, <1>8, LastExists
  <2>. HIDE DEF f, l, n
  <2>3. Trimmed(v, blank) = SubSeq(v, f, l)
    BY <1>1, <1>6, <2>1, <2>2, TrimIs
  <2>4. /\ f + 1 \in Ink(s, blank) /\ l + 1 \in Ink(s, blank) /\ n + 1 \in Nat
        /\ \A j \in Ink(s, blank) : f + 1 <= j /\ j <= l + 1
    <3>1. f \in 1..n /\ l \in 1..n
      BY <1>6, <2>1, <2>2
    <3>2. ASSUME NEW j \in Ink(s, blank) PROVE f + 1 <= j /\ j <= l + 1
      <4>1. j - 1 \in Ink(v, blank)
        BY <1>4
      <4>2. f <= j - 1 /\ j - 1 <= l
        BY <2>1, <2>2, <4>1
      <4>3. j \in Int
        BY <1>6
      <4>. QED
        BY <3>1, <4>2, <4>3
    <3>. QED
      BY <1>1, <1>5, <2>1, <2>2, <3>2
  <2>5. Trimmed(s, blank) = SubSeq(s, f + 1, l + 1)
    <3>. DEFINE p == f + 1
                r == l + 1
                m == n + 1
    <3>1. /\ m \in Nat /\ Ink(s, blank) \subseteq 1..m
          /\ p \in Ink(s, blank) /\ r \in Ink(s, blank)
      BY <1>6, <2>4
    <3>2. (\A j \in Ink(s, blank) : p <= j) /\ (\A j \in Ink(s, blank) : j <= r)
      BY <2>4
    <3>. HIDE DEF p, r, m
    <3>3. Trimmed(s, blank) = SubSeq(s, p, r)
      BY <3>1, <3>2, TrimIs
    <3>. QED
      BY <3>3 DEF p, r
  <2>6. SubSeq(s, f + 1, l + 1) = SubSeq(v, f, l)
    <3>1. f \in 1..n /\ l \in 1..n
      BY <1>6, <2>1, <2>2
    <3>. DEFINE u == SubSeq(s, f + 1, l + 1)
                w == SubSeq(v, f, l)
    <3>2. \A i \in f + 1 .. l + 1 : i \in 1..Len(s)
      BY <1>1, <3>1
    <3>3. \A i \in f + 1 .. l + 1 : s[i] \in C
      BY <1>1, <3>2, ElementOfSeq
    <3>4. f + 1 \in Int /\ l + 1 \in Int /\ f \in Int /\ l \in Int
      BY <3>1
    <3>5. /\ u \in Seq(C) /\ Len(u) = IF f + 1 <= l + 1 THEN (l + 1) - (f + 1) + 1 ELSE 0
          /\ \A i \in 1..(l + 1) - (f + 1) + 1 : u[i] = s[(f + 1) + i - 1]
      BY <3>3, <3>4, SubSeqProperties
    <3>6. \A i \in f..l : v[i] \in C
      <4>1. \A i \in f..l : i \in 1..Len(v)
        BY <1>1, <3>1 DEF n
      <4>. QED
        BY <4>1, ElementOfSeq
    <3>7. /\ w \in Seq(C) /\ Len(w) = IF f <= l THEN l - f + 1 ELSE 0
          /\ \A i \in 1..l - f + 1 : w[i] = v[f + i - 1]
      BY <3>4, <3>6, SubSeqProperties
    <3>. HIDE DEF u, w
    <3>8. Len(u) = Len(w)
      BY <3>4, <3>5, <3>7
    <3>9. \A i \in 1..Len(u) : u[i] = w[i]
      <4>. SUFFICES ASSUME NEW i \in 1..Len(u) PROVE u[i] = w[i]
        OBVIOUS
      <4>1. /\ i \in 1..(l + 1) - (f + 1) + 1 /\ i \in 1..l - f + 1
            /\ f + i - 1 \in 1..n /\ (f + i - 1) + 1 = (f + 1) + i - 1
        BY <1>1, <3>1, <3>4, <3>5
      <4>2. s[(f + 1) + i - 1] = v[f + i - 1]
        BY <1>3, <4>1
      <4>. QED
        BY <3>5, <3>7, <4>1, <4>2
    <3>10. u = w
      BY <3>5, <3>7, <3>8, <3>9, SeqEqual
    <3>. QED
      BY <3>10 DEF u, w
  <2>. QED
    BY <2>3, <2>5, <2>6 DEF s
<1>. QED
  BY <1>7, <1>8

\* The lines of a name, among the first n.
LinesOf(lines, n, x) == {i \in 1..n : NameOf(lines[i]) = x}

\* Headers in terms of the lines of a name.
LEMMA HeadersAre ==
  ASSUME NEW lines, NEW n
  PROVE  /\ DOMAIN Headers(lines, n) = {NameOf(lines[i]) : i \in 1..n}
         /\ \A x \in DOMAIN Headers(lines, n) :
              Headers(lines, n)[x] = trim(TextOf(lines[Last(LinesOf(lines, n, x))]))
         /\ Headers(lines, n) = [x \in {NameOf(lines[i]) : i \in 1..n} |->
                                   trim(TextOf(lines[Last(LinesOf(lines, n, x))]))]
BY DEF Headers, LinesOf

\* The headers of the first lines do not depend on what follows.
LEMMA HeadersStay ==
  ASSUME NEW n \in Nat, NEW lines, NEW more, \A i \in 1..n : more[i] = lines[i]
  PROVE  Headers(more, n) = Headers(lines, n)
<1>1. {NameOf(more[i]) : i \in 1..n} = {NameOf(lines[i]) : i \in 1..n}
  OBVIOUS
<1>2. \A x : LinesOf(more, n, x) = LinesOf(lines, n, x)
  BY DEF LinesOf
<1>3. ASSUME NEW x \in {NameOf(lines[i]) : i \in 1..n}
      PROVE  Last(LinesOf(lines, n, x)) \in 1..n
  <2>1. LinesOf(lines, n, x) \subseteq 1..n /\ LinesOf(lines, n, x) # {}
    BY DEF LinesOf
  <2>. QED
    BY <2>1, LastExists
<1>4. \A x \in {NameOf(lines[i]) : i \in 1..n} :
        trim(TextOf(more[Last(LinesOf(more, n, x))])) =
          trim(TextOf(lines[Last(LinesOf(lines, n, x))]))
  BY <1>2, <1>3
<1>5. Headers(more, n) = [x \in {NameOf(more[i]) : i \in 1..n} |->
                            trim(TextOf(more[Last(LinesOf(more, n, x))]))]
  BY HeadersAre
<1>6. Headers(lines, n) = [x \in {NameOf(lines[i]) : i \in 1..n} |->
                             trim(TextOf(lines[Last(LinesOf(lines, n, x))]))]
  BY HeadersAre
<1>. QED
  BY <1>1, <1>4, <1>5, <1>6

\* What check_header makes of the headers.
Replaced(H, x, v) == [y \in DOMAIN H \cup {x} |-> IF y = x THEN v ELSE H[y]]

\* The last line replaces what its name had.
LEMMA HeadersReplace ==
  ASSUME NEW lines, NEW n \in Nat, n >= 1
  PROVE  Headers(lines, n) =
           Replaced(Headers(lines, n - 1), NameOf(lines[n]), trim(TextOf(lines[n])))
<1>. DEFINE H == Headers(lines, n - 1)
            K == Headers(lines, n)
            z == NameOf(lines[n])
<1>1. \A i : i \in 1..n <=> i \in 1..n - 1 \/ i = n
  OBVIOUS
<1>2. DOMAIN H = {NameOf(lines[i]) : i \in 1..n - 1} /\ DOMAIN K = {NameOf(lines[i]) : i \in 1..n}
  BY HeadersAre
<1>3. DOMAIN K = DOMAIN H \cup {z}
  BY <1>1, <1>2
<1>4. K[z] = trim(TextOf(lines[n]))
  <2>. DEFINE S == LinesOf(lines, n, z)
  <2>1. S \subseteq Int /\ n \in S /\ \A j \in S : j <= n
    BY DEF LinesOf
  <2>2. z \in DOMAIN K /\ K[z] = trim(TextOf(lines[Last(S)]))
    BY <1>3, HeadersAre
  <2>. HIDE DEF S, K
  <2>3. Last(S) = n
    BY <2>1, LastIs
  <2>. QED
    BY <2>2, <2>3
<1>5. ASSUME NEW x \in DOMAIN K, x # z PROVE K[x] = H[x]
  <2>1. LinesOf(lines, n, x) = LinesOf(lines, n - 1, x)
    BY <1>1, <1>5 DEF LinesOf
  <2>2. x \in DOMAIN H
    BY <1>3, <1>5
  <2>3. /\ K[x] = trim(TextOf(lines[Last(LinesOf(lines, n, x))]))
        /\ H[x] = trim(TextOf(lines[Last(LinesOf(lines, n - 1, x))]))
    BY <2>2, HeadersAre
  <2>. QED
    BY <2>1, <2>3
<1>6. K = [x \in DOMAIN K |-> K[x]]
  BY HeadersAre
<1>. HIDE DEF H, K, z
<1>7. K = Replaced(H, z, trim(TextOf(lines[n])))
  BY <1>3, <1>4, <1>5, <1>6 DEF Replaced
<1>. QED
  BY <1>7 DEF H, K, z

\* A character behind the colon belongs to the text of the line, the first colon ends the name.
LEMMA LineGrows ==
  ASSUME NEW C, NEW p \in Seq(C), NEW c \in C
  PROVE  /\ HasColon(p) => /\ HasColon(Append(p, c))
                           /\ NameOf(Append(p, c)) = NameOf(p)
                           /\ TextOf(Append(p, c)) = Append(TextOf(p), c)
         /\ ~HasColon(p) /\ c = ":" => /\ HasColon(Append(p, c))
                                       /\ NameOf(Append(p, c)) = SubSeq(p, 2, Len(p))
                                       /\ TextOf(Append(p, c)) = <<>>
         /\ ~HasColon(p) /\ c # ":" => ~HasColon(Append(p, c))
<1>. DEFINE S == PositionsOf(p, ":")
            t == Append(p, c)
            T == PositionsOf(t, ":")
            n == Len(p)
            m == n + 1
<1>1. /\ S \subseteq 1..n /\ n \in Nat /\ t \in Seq(C) /\ Len(t) = m
      /\ c = ":" => T = S \cup {m}
      /\ c # ":" => T = S
  BY PositionsAdded, AppendProperties
<1>2. (HasColon(p) <=> S # {}) /\ (HasColon(t) <=> T # {})
  BY DEF HasColon
<1>3. Colon(p) = First(S, 0) /\ Colon(t) = First(T, 0)
  BY DEF Colon
<1>4. S \subseteq Nat /\ m \in Nat /\ \A j \in S : j < m
  BY <1>1
<1>. HIDE DEF S, t, T
<1>5. CASE S # {}
  <2>1. Colon(p) \in S
    BY <1>3, <1>4, <1>5, FirstExists, ZenonT(30)
  <2>2. Colon(t) = Colon(p)
    <3>. HIDE DEF m
    <3>1. First(S \cup {m}, 0) = First(S, m)
      BY <1>4, FirstOfMore
    <3>2. First(S, 0) = First(S, m)
      BY <1>4, <1>5, FirstWithout
    <3>. QED
      BY <1>1, <1>3, <3>1, <3>2
  <2>3. Colon(p) \in 1..n
    BY <1>1, <2>1
  <2>. DEFINE a == Colon(p) + 1
              b == Colon(p) - 1
              two == 2
  <2>4. /\ a \in Nat /\ a >= 1 /\ a <= Len(p) + 1 /\ b \in Int /\ b <= Len(p)
        /\ two \in Nat /\ two >= 1
    BY <1>1, <2>3
  <2>. HIDE DEF a, b, two
  <2>5. SubSeq(Append(p, c), two, b) = SubSeq(p, two, b)
    BY <2>4, PartStays
  <2>6. SubSeq(Append(p, c), a, Len(p) + 1) = Append(SubSeq(p, a, Len(p)), c)
    BY <2>4, PartGrows
  <2>7. NameOf(t) = NameOf(p)
    BY <2>2, <2>5 DEF NameOf, b, two, t
  <2>8. TextOf(t) = Append(TextOf(p), c)
    BY <1>1, <2>2, <2>6 DEF TextOf, a, t
  <2>9. T # {}
    BY <1>1, <1>5
  <2>. QED
    BY <1>2, <1>5, <2>7, <2>8, <2>9 DEF t
<1>6. CASE S = {} /\ c = ":"
  <2>1. T = {m}
    BY <1>1, <1>6
  <2>2. First(T, 0) = m
    <3>1. T \subseteq Int /\ m \in T /\ \A j \in T : m <= j
      BY <1>1, <2>1
    <3>. HIDE DEF m
    <3>. QED
      BY <3>1, FirstIs
  <2>3. m - 1 = n
    BY <1>1
  <2>4. NameOf(t) = SubSeq(t, 2, n)
    BY <1>3, <2>2, <2>3 DEF NameOf
  <2>5. SubSeq(Append(p, c), 2, Len(p)) = SubSeq(p, 2, Len(p))
    <3>. DEFINE b == Len(p)
                two == 2
    <3>1. b \in Int /\ b <= Len(p) /\ two \in Nat /\ two >= 1
      BY <1>1
    <3>. HIDE DEF b, two
    <3>2. SubSeq(Append(p, c), two, b) = SubSeq(p, two, b)
      BY <3>1, PartStays
    <3>. QED
      BY <3>2 DEF b, two
  <2>6. NameOf(t) = SubSeq(p, 2, Len(p))
    BY <2>4, <2>5 DEF t
  <2>7. TextOf(t) = <<>>
    <3>1. TextOf(t) = SubSeq(t, m + 1, m)
      BY <1>1, <1>3, <2>2 DEF TextOf
    <3>. QED
      BY <1>4, <3>1, SubSeqEmpty
  <2>. QED
    BY <1>2, <1>6, <2>1, <2>6, <2>7 DEF t
<1>7. CASE S = {} /\ c # ":"
  BY <1>1, <1>2, <1>7 DEF t
<1>. QED
  BY <1>5, <1>6, <1>7

------------------------------------------------------------------------------
(* The lines of a head as they are read *)

\* The classes of the characters, as far as the lines depend on them.
LEMMA Characters ==
  /\ "CR" \in Control /\ "LF" \in Control /\ "CR" \in HeadChar /\ "LF" \in HeadChar
  /\ ":" \notin Control /\ ":" \notin Token /\ "CR" # ":" /\ "LF" # "CR"
  /\ Blank \in HeadChar /\ Blank \notin Control /\ Blank \notin Token
  /\ Token \subseteq HeadChar /\ Token \cap Control = {}
  /\ HeadChar \subseteq Char
BY Zenon DEF Control, HeadChar, Token, Special, Blank, Char

\* What Append does to the end of a sequence.
LEMMA Ends ==
  ASSUME NEW C, NEW s \in Seq(C), NEW c \in C
  PROVE  /\ Append(s, c) # <<>> /\ Len(s) \in Nat /\ Len(Append(s, c)) = Len(s) + 1
         /\ Append(s, c)[Len(s) + 1] = c /\ \A i \in 1..Len(s) : Append(s, c)[i] = s[i]
         /\ Append(s, c)[Len(Append(s, c))] = c
         /\ EndsWith(Append(s, c), c) /\ \A d : EndsWith(Append(s, c), d) => d = c
BY AppendProperties DEF EndsWith

\* A character extends the line being read, or ends it.
LEMMA CharacterRead ==
  ASSUME HeadInv, NEW c \in Char, text' = Append(text, c)
  PROVE  /\ c \in Char /\ text \in Seq(Char) /\ text' \in Seq(Char)
         /\ Ended \in Seq(Seq(Char)) /\ Begun \in Seq(Char) /\ Len(Ended) \in Nat
         /\ c = "CR" => Ended' = Append(Ended, Begun) /\ Begun' = <<>>
         /\ c # "CR" => Ended' = Ended /\ Begun' = Append(Begun, c)
         /\ Ranked(PositionsOf(Lined, "CR"), 0, Len(Lined))'
<1>1. c \in Char /\ text \in Seq(Char) /\ text' \in Seq(Char) /\ "LF" \in Char
  BY Characters, AppendProperties DEF HeadInv
<1>2. Lined \in Seq(Char)
  BY <1>1, InFront DEF Lined
<1>3. Lined' = Append(Lined, c)
  <2>1. <<"LF">> \in Seq(Char)
    BY <1>1
  <2>2. \A s \in Seq(Char) : s \o Append(text, c) = Append(s \o text, c)
    BY <1>1
  <2>. QED
    BY <2>1, <2>2 DEF Lined
<1>4. Ranked(PositionsOf(Lined, "CR"), 0, Len(Lined))
  BY DEF HeadInv
<1>5. Ended \in Seq(Seq(Char)) /\ Begun \in Seq(Char)
  BY <1>2, <1>4, DelimitedTyped DEF Ended, Begun
<1>. DEFINE h == Lined
<1>6. /\ Ranked(PositionsOf(Append(h, c), "CR"), 0, Len(Append(h, c)))
      /\ c = "CR" => /\ Parts(Append(h, c), "CR") = Append(Parts(h, "CR"), Remains(h, "CR"))
                     /\ Remains(Append(h, c), "CR") = <<>>
      /\ c # "CR" => /\ Parts(Append(h, c), "CR") = Parts(h, "CR")
                     /\ Remains(Append(h, c), "CR") = Append(Remains(h, "CR"), c)
  BY <1>1, <1>2, <1>4, DelimitedGrows
<1>7. Ended' = Parts(Append(h, c), "CR") /\ Begun' = Remains(Append(h, c), "CR")
  BY <1>3 DEF Ended, Begun
<1>8. Ended = Parts(h, "CR") /\ Begun = Remains(h, "CR")
  BY DEF Ended, Begun
<1>9. Ranked(PositionsOf(Lined, "CR"), 0, Len(Lined))'
  BY <1>3, <1>6
<1>. QED
  BY <1>1, <1>5, <1>6, <1>7, <1>8, <1>9, LenProperties

\* So does one of a head.
LEMMA LinesRead ==
  ASSUME HeadInv, NEW c \in HeadChar, text' = Append(text, c)
  PROVE  /\ c \in Char /\ text \in Seq(Char) /\ text' \in Seq(Char)
         /\ Ended \in Seq(Seq(Char)) /\ Begun \in Seq(Char) /\ Len(Ended) \in Nat
         /\ c = "CR" => Ended' = Append(Ended, Begun) /\ Begun' = <<>>
         /\ c # "CR" => Ended' = Ended /\ Begun' = Append(Begun, c)
         /\ Ranked(PositionsOf(Lined, "CR"), 0, Len(Lined))'
<1>. c \in Char
  BY Characters
<1>. QED
  BY CharacterRead

\* A line that is continued stays so, and one is when a blank follows its LF.
LEMMA ContinuedStays ==
  ASSUME NEW C, NEW s \in Seq(C), NEW c \in C, NotContinued(Append(s, c))
  PROVE  NotContinued(s) /\ (EndsWith(s, "LF") => c # Blank)
<1>1. /\ Len(s) \in Nat /\ Len(Append(s, c)) = Len(s) + 1
      /\ Append(s, c)[Len(s) + 1] = c /\ \A i \in 1..Len(s) : Append(s, c)[i] = s[i]
  BY Ends
<1>2. NotContinued(s)
  <2>1. \A i \in 2..Len(s) : i \in 1..Len(s) /\ i - 1 \in 1..Len(s) /\ i \in 2..Len(s) + 1
    BY <1>1
  <2>. QED
    BY <1>1, <2>1 DEF NotContinued
<1>3. ASSUME EndsWith(s, "LF") PROVE c # Blank
  <2>1. Len(s) >= 1 /\ s[Len(s)] = "LF"
    BY <1>3, EmptySeq DEF EndsWith
  <2>2. Len(s) + 1 \in 2..Len(s) + 1 /\ (Len(s) + 1) - 1 = Len(s) /\ Len(s) \in 1..Len(s)
    BY <1>1, <2>1
  <2>. QED
    BY <1>1, <2>1, <2>2 DEF NotContinued
<1>. QED
  BY <1>2, <1>3

\* A line is no single LF when something follows its LF.
LEMMA LineIsLonger ==
  ASSUME NEW line, NameHolds(line) \/ ColonHolds(line) \/ LineHolds(line)
  PROVE  line # <<"LF">>
<1>. SUFFICES ASSUME line = <<"LF">> PROVE FALSE
  OBVIOUS
<1>1. ~HasColon(line)
  BY Characters DEF HasColon, PositionsOf
<1>2. NameHolds(line)
  BY <1>1 DEF ColonHolds, LineHolds
<1>3. SubSeq(line, 2, 1) = <<>> /\ Len(line) = 1
  BY SubSeqEmpty
<1>. QED
  BY <1>2, <1>3 DEF NameHolds

\* A name begins behind the LF.
LEMMA NameBegins ==
  ASSUME NEW c \in Token
  PROVE  LET line == Append(<<"LF">>, c) IN
         /\ line # <<>> /\ line[1] = "LF" /\ ~HasColon(line)
         /\ <<c>> = SubSeq(line, 2, Len(line)) /\ <<c>> \in Seq(Token) \ {<<>>}
<1>. DEFINE s == <<"LF">>
            line == Append(s, c)
            two == 2
<1>1. c \in Char /\ "LF" \in Char /\ c # ":"
  BY Characters
<1>2. s \in Seq(Char) /\ Len(s) = 1 /\ s[1] = "LF"
  BY <1>1
<1>3. ~HasColon(s)
  BY <1>2, Characters DEF HasColon, PositionsOf
<1>4. two \in Nat /\ two >= 1 /\ two <= Len(s) + 1 /\ Len(s) + 1 = 2
  BY <1>2
<1>5. SubSeq(s, 2, 1) = <<>>
  BY SubSeqEmpty
<1>. HIDE DEF s, two
<1>6. line # <<>> /\ line[1] = s[1] /\ Len(line) = 2
  <2>1. /\ Append(s, c) # <<>> /\ Len(Append(s, c)) = Len(s) + 1
        /\ \A i \in 1..Len(s) : Append(s, c)[i] = s[i]
    <3>1. s \in Seq(Char) /\ c \in Char
      BY <1>1, <1>2
    <3>. QED
      BY <3>1, AppendProperties
  <2>2. 1 \in 1..Len(s)
    BY <1>2
  <2>. QED
    BY <1>2, <2>1, <2>2
<1>7. ~HasColon(line)
  BY <1>1, <1>2, <1>3, LineGrows
<1>8. SubSeq(Append(s, c), two, Len(s) + 1) = Append(SubSeq(s, two, Len(s)), c)
  BY <1>1, <1>2, <1>4, PartGrows
<1>9. SubSeq(line, 2, Len(line)) = Append(<<>>, c)
  BY <1>2, <1>4, <1>5, <1>6, <1>8 DEF two
<1>10. Append(<<>>, c) = <<c>> /\ <<c>> \in Seq(Token) /\ <<c>> # <<>>
  OBVIOUS
<1>. QED
  BY <1>2, <1>6, <1>7, <1>9, <1>10 DEF s

\* No headers at the start.
LEMMA NoHeaders ==
  ASSUME NEW lines
  PROVE  Headers(lines, 0) = NoEntries /\ HeaderLines(lines, 0)
<1>1. 1..0 = {}
  OBVIOUS
<1>2. {NameOf(lines[i]) : i \in 1..0} = {}
  BY <1>1
<1>. QED
  BY <1>1, <1>2, HeadersAre DEF NoEntries, HeaderLines

\* check_header enters the last line.
LEMMA HeaderChecked ==
  ASSUME NEW lines, NEW n \in Nat, n >= 1, LineHolds(lines[n]),
         header_ = Entered(lines, n - 1), check_header
  PROVE  header_' = Entered(lines, n)
<1>1. /\ name = NameOf(lines[n]) /\ name \in Seq(Token) /\ Written(TextOf(lines[n]))
  BY DEF LineHolds, IsHeaderLine
<1>2. trim(name) = name
  BY <1>1, Characters, NoBlanks, TrimIsTrimmed
<1>3. trim(value) = trim(TextOf(lines[n]))
  <2>1. CASE TextOf(lines[n]) = value
    BY <2>1
  <2>2. CASE TextOf(lines[n]) = <<Blank>> \o value
    <3>1. value \in Seq(HeadChar) /\ Blank \in HeadChar
      BY <1>1, Characters DEF Written
    <3>2. Trimmed(<<Blank>> \o value, Blank) = Trimmed(value, Blank)
      BY <3>1, BlankInFront
    <3>. QED
      BY <2>2, <3>2, TrimIsTrimmed
  <2>. QED
    BY <1>1, <2>1, <2>2 DEF Written
<1>4. header_' = Replaced(header_, trim(name), trim(value))
  BY DEF check_header, Replaced
<1>5. Headers(lines, n) =
        Replaced(Headers(lines, n - 1), NameOf(lines[n]), trim(TextOf(lines[n])))
  BY HeadersReplace
<1>6. \A H, x, v : Replaced(Joined(H, headerBefore), x, v) = Joined(Replaced(H, x, v), headerBefore)
  BY DEF Replaced, Joined
<1>. QED
  BY <1>1, <1>2, <1>3, <1>4, <1>5, <1>6 DEF Entered

------------------------------------------------------------------------------
(* The steps of parseHttpHeader *)

\* What every iteration does, and what is known before it.
LEMMA HeadRead ==
  ASSUME HeadInv, NEW c \in HeadChar, parseHttpHeader(c)
  PROVE  /\ function = "parseHttpHeader" /\ function' = "parseHttpHeader"
         /\ result = "none" /\ text' = Append(text, c) /\ headerBefore' = headerBefore
         /\ NotContinued(text') => /\ HeadHolds
                                   /\ EndsWith(text, "LF") => c # Blank
<1>1. /\ function = "parseHttpHeader" /\ function' = "parseHttpHeader"
      /\ result = "none" /\ text' = Append(text, c) /\ headerBefore' = headerBefore
  BY Zenon DEF parseHttpHeader, FirstLineStart, HeaderLineStart, HeaderName, HeaderLws,
               SpaceBeforeHeaderValue, HeaderValue, LineFeed, FinalLineFeed, Fail, headReads,
               headScans, callVars
<1>2. text \in Seq(Char) /\ c \in Char
  BY Characters DEF HeadInv
<1>3. NotContinued(text') => NotContinued(text) /\ (EndsWith(text, "LF") => c # Blank)
  BY <1>1, <1>2, ContinuedStays
<1>. QED
  BY <1>1, <1>3 DEF HeadInv

\* Nothing is entered while a line goes on: the ended lines and the headers stay.
LEMMA LineGoesOn ==
  ASSUME HeadHolds, Ended' = Ended, header_' = header_, headerBefore' = headerBefore,
         state \in {"HeaderName", "SpaceBeforeHeaderValue", "HeaderValue"},
         state' \in {"HeaderName", "SpaceBeforeHeaderValue", "HeaderValue"},
         state' = "HeaderName" => NameHolds(Begun)',
         state' = "SpaceBeforeHeaderValue" => ColonHolds(Begun)',
         state' = "HeaderValue" => LineHolds(Begun)'
  PROVE  HeadHolds'
<1>1. HeaderLines(Ended, Len(Ended)) /\ header_ = Entered(Ended, Len(Ended))
      /\ ~EndsWith(Ended, <<"LF">>)
  BY DEF HeadHolds
<1>2. /\ HeaderLines(Ended', Len(Ended')) /\ header_' = Entered(Ended, Len(Ended))'
      /\ ~EndsWith(Ended', <<"LF">>)
  BY <1>1 DEF Entered
<1>3. state' \in HeadState \ {"HeaderLws"}
  BY DEF HeadState
<1>. QED
  BY <1>2, <1>3 DEF HeadHolds

\* A failure leaves no empty line behind.
LEMMA Failed ==
  ASSUME state' = "Fail", ~EndsWith(Ended', <<"LF">>)
  PROVE  HeadHolds'
BY DEF HeadHolds, HeadState

\* A line that is longer than its LF is no empty line when it ends.
LEMMA LineEnded ==
  ASSUME Ended \in Seq(Seq(Char)), Begun \in Seq(Char),
         NameHolds(Begun) \/ ColonHolds(Begun) \/ LineHolds(Begun) \/ Begun = <<>>
  PROVE  ~EndsWith(Append(Ended, Begun), <<"LF">>)
<1>1. Begun # <<"LF">>
  <2>1. CASE Begun = <<>>
    BY <2>1
  <2>2. CASE NameHolds(Begun) \/ ColonHolds(Begun) \/ LineHolds(Begun)
    BY <2>2, LineIsLonger
  <2>. QED
    BY <2>1, <2>2
<1>2. \A d : EndsWith(Append(Ended, Begun), d) => d = Begun
  BY Ends
<1>. QED
  BY <1>1, <1>2

\* The first character behind the request line.
LEMMA FirstLineStep ==
  ASSUME HeadInv, NEW c \in HeadChar, parseHttpHeader(c), NotContinued(text'), FirstLineStart(c)
  PROVE  HeadHolds'
<1>1. /\ state = "FirstLineStart" /\ value' = value /\ header_' = header_
      /\ \/ c = "CR" /\ state' = "FinalLineFeed" /\ name' = name
         \/ c \in Token /\ state' = "HeaderName" /\ name' = Append(name, c)
         \/ c \notin Token \cup {"CR"} /\ state' = "Fail" /\ name' = name
  BY Zenon DEF FirstLineStart, headReads, headScans
<1>2. /\ FirstHolds /\ text' = Append(text, c)
      /\ headerBefore' = headerBefore /\ IsFunction(headerBefore)
  BY <1>1, HeadRead DEF HeadHolds, HeadInv
<1>3. /\ c \in Char /\ text \in Seq(Char)
      /\ c = "CR" => Ended' = Append(Ended, Begun) /\ Begun' = <<>>
      /\ c # "CR" => Ended' = Ended /\ Begun' = Append(Begun, c)
  BY <1>2, LinesRead
<1>4. CASE c = "CR"
  <2>1. state' = "FinalLineFeed"
    BY <1>1, <1>4, Characters
  <2>2. Ended' = Append(<<>>, <<"LF">>)
    BY <1>2, <1>3, <1>4 DEF FirstHolds
  <2>3. <<>> \in Seq({<<"LF">>}) /\ <<"LF">> \in {<<"LF">>} /\ Len(<<>>) = 0
    OBVIOUS
  <2>4. EndsWith(Ended', <<"LF">>) /\ Len(Ended') = 0 + 1
    <3>. DEFINE x == <<"LF">>
                e == <<>>
    <3>1. e \in Seq({x}) /\ x \in {x} /\ Len(e) = 0
      BY <2>3
    <3>. HIDE DEF x, e
    <3>2. EndsWith(Append(e, x), x) /\ Len(Append(e, x)) = Len(e) + 1
      BY <3>1, Ends
    <3>. QED
      BY <2>2, <3>1, <3>2 DEF x, e
  <2>5. HeaderLines(Ended', Len(Ended') - 1) /\ header_' = Entered(Ended, Len(Ended) - 1)'
    <3>1. Len(Ended') - 1 = 0
      BY <2>4
    <3>. QED
      BY <1>1, <1>2, <3>1, NoHeaders, JoinedNothing DEF FirstHolds, Entered
  <2>6. EndsWith(text', "CR")
    BY <1>2, <1>3, <1>4, Ends
  <2>. QED
    BY <2>1, <2>4, <2>5, <2>6 DEF HeadHolds, HeadState
<1>5. CASE c # "CR"
  <2>1. Ended' = <<>> /\ Begun' = Append(<<"LF">>, c) /\ ~EndsWith(Ended', <<"LF">>)
    BY <1>2, <1>3, <1>5 DEF FirstHolds, EndsWith
  <2>2. CASE c \in Token
    <3>1. state' = "HeaderName" /\ name' = <<c>> /\ value' = <<>> /\ header_' = headerBefore
      BY <1>1, <1>2, <1>5, <2>2, Characters DEF FirstHolds
    <3>2. NameHolds(Begun)'
      BY <2>1, <2>2, <3>1, NameBegins DEF NameHolds
    <3>3. HeaderLines(Ended', Len(Ended')) /\ header_' = Entered(Ended, Len(Ended))'
      <4>1. Len(Ended') = 0
        BY <2>1
      <4>. QED
        BY <1>2, <3>1, <4>1, NoHeaders, JoinedNothing DEF Entered
    <3>. QED
      BY <2>1, <3>1, <3>2, <3>3 DEF HeadHolds, HeadState
  <2>3. CASE c \notin Token
    <3>1. state' = "Fail"
      BY <1>1, <1>5, <2>3
    <3>. QED
      BY <2>1, <3>1, Failed
  <2>. QED
    BY <2>2, <2>3
<1>. QED
  BY <1>4, <1>5

\* A character of a name, or the colon behind it.
LEMMA HeaderNameStep ==
  ASSUME HeadInv, NEW c \in HeadChar, parseHttpHeader(c), NotContinued(text'), HeaderName(c)
  PROVE  HeadHolds'
<1>1. /\ state = "HeaderName" /\ value' = value /\ header_' = header_
      /\ \/ c = ":" /\ state' = "SpaceBeforeHeaderValue" /\ name' = name
         \/ c \in Token /\ state' = "HeaderName" /\ name' = Append(name, c)
         \/ c \notin Token \cup {":"} /\ state' = "Fail" /\ name' = name
  BY DEF HeaderName, scanName, headReads, headScans
<1>2. HeadHolds /\ text' = Append(text, c) /\ headerBefore' = headerBefore
  BY HeadRead
<1>3. /\ NameHolds(Begun) /\ ~EndsWith(Ended, <<"LF">>)
      /\ c \in Char /\ Begun \in Seq(Char) /\ Ended \in Seq(Seq(Char))
      /\ c = "CR" => Ended' = Append(Ended, Begun) /\ Begun' = <<>>
      /\ c # "CR" => Ended' = Ended /\ Begun' = Append(Begun, c)
  BY <1>1, <1>2, LinesRead DEF HeadHolds
<1>4. CASE c = "CR"
  <2>1. state' = "Fail"
    BY <1>1, <1>4, Characters
  <2>2. ~EndsWith(Ended', <<"LF">>)
    BY <1>3, <1>4, LineEnded
  <2>. QED
    BY <2>1, <2>2, Failed
<1>5. CASE c # "CR" /\ c \notin Token \cup {":"}
  BY <1>1, <1>3, <1>5, Failed
<1>. DEFINE line == Begun
            more == Append(line, c)
<1>6. /\ line \in Seq(Char) /\ line # <<>> /\ line[1] = "LF" /\ ~HasColon(line)
      /\ name = SubSeq(line, 2, Len(line)) /\ name \in Seq(Token) \ {<<>>} /\ value = <<>>
  BY <1>3 DEF NameHolds
<1>. HIDE DEF line
<1>7. /\ Len(line) \in Nat /\ Len(line) >= 1
      /\ more # <<>> /\ more[1] = line[1] /\ Len(more) = Len(line) + 1
  <2>1. Len(line) \in Nat /\ Len(line) >= 1 /\ 1 \in 1..Len(line)
    BY <1>6, EmptySeq
  <2>. QED
    BY <1>3, <1>6, <2>1, AppendProperties
<1>8. CASE c = ":"
  <2>1. state' = "SpaceBeforeHeaderValue" /\ name' = name /\ c # "CR"
    BY <1>1, <1>8, Characters
  <2>2. HasColon(more) /\ NameOf(more) = SubSeq(line, 2, Len(line)) /\ TextOf(more) = <<>>
    BY <1>3, <1>6, <1>8, LineGrows
  <2>3. Begun' = more
    BY <1>3, <2>1 DEF line
  <2>. HIDE DEF more
  <2>4. ColonHolds(Begun)'
    BY <1>1, <1>6, <1>7, <2>1, <2>2, <2>3 DEF ColonHolds
  <2>. QED
    BY <1>1, <1>2, <1>3, <2>1, <2>4, LineGoesOn
<1>9. CASE c \in Token
  <2>1. state' = "HeaderName" /\ name' = Append(name, c) /\ c # "CR" /\ c # ":"
    BY <1>1, <1>9, Characters
  <2>2. ~HasColon(more)
    BY <1>3, <1>6, <2>1, LineGrows
  <2>3. Begun' = more
    BY <1>3, <2>1 DEF line
  <2>4. name' = SubSeq(more, 2, Len(more))
    <3>. DEFINE two == 2
    <3>1. two \in Nat /\ two >= 1 /\ two <= Len(line) + 1
      BY <1>7
    <3>. HIDE DEF two
    <3>2. SubSeq(Append(line, c), two, Len(line) + 1) = Append(SubSeq(line, two, Len(line)), c)
      BY <1>3, <1>6, <3>1, PartGrows
    <3>. QED
      BY <1>6, <1>7, <2>1, <3>2 DEF two
  <2>5. name' \in Seq(Token) \ {<<>>}
    BY <1>6, <1>9, <2>1, AppendProperties
  <2>. HIDE DEF more
  <2>6. NameHolds(Begun)'
    BY <1>1, <1>6, <1>7, <2>2, <2>3, <2>4, <2>5 DEF NameHolds
  <2>. QED
    BY <1>1, <1>2, <1>3, <2>1, <2>6, LineGoesOn
<1>. QED
  BY <1>4, <1>5, <1>8, <1>9

\* The character behind the colon.
LEMMA SpaceStep ==
  ASSUME HeadInv, NEW c \in HeadChar, parseHttpHeader(c), NotContinued(text'),
         SpaceBeforeHeaderValue(c)
  PROVE  HeadHolds'
<1>1. /\ state = "SpaceBeforeHeaderValue" /\ name' = name /\ header_' = header_
      /\ state' = (IF c \in Control THEN "Fail" ELSE "HeaderValue")
      /\ value' = (IF c \in Control \cup {Blank} THEN value ELSE Append(value, c))
  BY Zenon DEF SpaceBeforeHeaderValue, headReads, headScans, headVars, Blank
<1>2. HeadHolds /\ text' = Append(text, c) /\ headerBefore' = headerBefore
  BY HeadRead
<1>3. /\ ColonHolds(Begun) /\ ~EndsWith(Ended, <<"LF">>)
      /\ c \in Char /\ Begun \in Seq(Char) /\ Ended \in Seq(Seq(Char))
      /\ c = "CR" => Ended' = Append(Ended, Begun) /\ Begun' = <<>>
      /\ c # "CR" => Ended' = Ended /\ Begun' = Append(Begun, c)
  BY <1>1, <1>2, LinesRead DEF HeadHolds
<1>4. CASE c \in Control
  <2>1. ~EndsWith(Ended', <<"LF">>)
    <3>1. CASE c = "CR"
      BY <1>3, <3>1, LineEnded
    <3>2. CASE c # "CR"
      BY <1>3, <3>2
    <3>. QED
      BY <3>1, <3>2
  <2>. QED
    BY <1>1, <1>4, <2>1, Failed
<1>5. CASE c \notin Control
  <2>. DEFINE line == Begun
              more == Append(line, c)
  <2>1. /\ line \in Seq(Char) /\ line # <<>> /\ line[1] = "LF" /\ HasColon(line)
        /\ name = NameOf(line) /\ name \in Seq(Token) \ {<<>>}
        /\ TextOf(line) = <<>> /\ value = <<>>
    BY <1>3 DEF ColonHolds
  <2>2. c # "CR" /\ state' = "HeaderValue"
    BY <1>1, <1>5, Characters
  <2>. HIDE DEF line
  <2>3. HasColon(more) /\ NameOf(more) = NameOf(line) /\ TextOf(more) = Append(TextOf(line), c)
    BY <1>3, <2>1, LineGrows
  <2>4. more # <<>> /\ more[1] = "LF"
    <3>1. 1 \in 1..Len(line)
      BY <2>1, EmptySeq
    <3>2. line \in Seq(Char) /\ c \in Char
      BY <1>3, <2>1
    <3>3. more # <<>> /\ \A i \in 1..Len(line) : more[i] = line[i]
      BY <3>2, AppendProperties
    <3>. QED
      BY <2>1, <3>1, <3>3
  <2>5. Begun' = more
    BY <1>3, <2>2 DEF line
  <2>6. TextOf(more) = <<c>> /\ <<c>> \in Seq(HeadChar \ Control) \ {<<>>}
    BY <1>5, <2>1, <2>3
  <2>. HIDE DEF more
  <2>7. Written(<<c>>)'
    <3>1. CASE c = Blank
      <4>1. value' = <<>>
        BY <1>1, <2>1, <3>1
      <4>2. <<c>> = <<c>> \o <<>> /\ <<>> \in Seq(HeadChar)
        OBVIOUS
      <4>. QED
        BY <3>1, <4>1, <4>2 DEF Written
    <3>2. CASE c # Blank
      <4>1. value' = <<c>>
        BY <1>1, <1>5, <2>1, <3>2
      <4>. QED
        BY <4>1 DEF Written
    <3>. QED
      BY <3>1, <3>2
  <2>8. IsHeaderLine(more)
    BY <2>1, <2>3, <2>4, <2>6 DEF IsHeaderLine
  <2>9. LineHolds(Begun)'
    BY <1>1, <2>1, <2>3, <2>5, <2>6, <2>7, <2>8 DEF LineHolds
  <2>. QED
    BY <1>1, <1>2, <1>3, <2>2, <2>9, LineGoesOn
<1>. QED
  BY <1>4, <1>5

\* A character of a value, or the CR that ends the line.
LEMMA HeaderValueStep ==
  ASSUME HeadInv, NEW c \in HeadChar, parseHttpHeader(c), NotContinued(text'), HeaderValue(c)
  PROVE  HeadHolds'
<1>1. /\ state = "HeaderValue" /\ name' = name /\ header_' = header_
      /\ \/ c = "CR" /\ state' = "LineFeed" /\ value' = value
         \/ c \in Control \ {"CR"} /\ state' = "Fail" /\ value' = value
         \/ c \notin Control /\ state' = "HeaderValue" /\ value' = Append(value, c)
  BY DEF HeaderValue, headReads, headScans, headVars
<1>2. HeadHolds /\ text' = Append(text, c) /\ headerBefore' = headerBefore
  BY HeadRead
<1>3. /\ LineHolds(Begun) /\ ~EndsWith(Ended, <<"LF">>)
      /\ HeaderLines(Ended, Len(Ended)) /\ header_ = Entered(Ended, Len(Ended))
      /\ c \in Char /\ Begun \in Seq(Char) /\ Ended \in Seq(Seq(Char)) /\ Len(Ended) \in Nat
      /\ c = "CR" => Ended' = Append(Ended, Begun) /\ Begun' = <<>>
      /\ c # "CR" => Ended' = Ended /\ Begun' = Append(Begun, c)
  BY <1>1, <1>2, LinesRead DEF HeadHolds
<1>4. CASE c = "CR"
  <2>1. state' = "LineFeed" /\ value' = value /\ Ended' = Append(Ended, Begun) /\ Begun' = <<>>
    BY <1>1, <1>3, <1>4, Characters
  <2>2. ~EndsWith(Ended', <<"LF">>)
    BY <1>3, <2>1, LineEnded
  <2>. DEFINE n == Len(Ended)
  <2>3. /\ Ended' # <<>> /\ Len(Ended') = n + 1 /\ Ended'[n + 1] = Begun /\ n \in Nat
        /\ \A i \in 1..n : Ended'[i] = Ended[i]
    BY <1>3, <2>1, Ends
  <2>. HIDE DEF n
  <2>4. HeaderLines(Ended', n + 1)
    <3>1. \A i \in 1..n + 1 : i \in 1..n \/ i = n + 1
      BY <2>3
    <3>2. IsHeaderLine(Begun) /\ HeaderLines(Ended, n)
      BY <1>3 DEF LineHolds, n
    <3>. QED
      BY <2>3, <3>1, <3>2 DEF HeaderLines
  <2>5. header_' = Joined(Headers(Ended', (n + 1) - 1), headerBefore')
    <3>1. Headers(Ended', n) = Headers(Ended, n)
      BY <2>3, HeadersStay
    <3>2. (n + 1) - 1 = n
      BY <2>3
    <3>. QED
      BY <1>1, <1>2, <1>3, <3>1, <3>2 DEF n, Entered
  <2>6. LineHolds(Ended[Len(Ended)])'
    <3>1. LineHolds(Begun') => TRUE
      OBVIOUS
    <3>2. Ended'[Len(Ended')] = Begun
      BY <2>3
    <3>. QED
      BY <1>1, <1>3, <2>1, <3>2 DEF LineHolds, Written
  <2>. QED
    BY <2>1, <2>2, <2>3, <2>4, <2>5, <2>6 DEF HeadHolds, HeadState, Entered
<1>5. CASE c \in Control \ {"CR"}
  BY <1>1, <1>3, <1>5, Failed
<1>6. CASE c \notin Control
  <2>. DEFINE line == Begun
              more == Append(line, c)
              t == TextOf(line)
  <2>1. /\ line \in Seq(Char) /\ IsHeaderLine(line) /\ HasColon(line)
        /\ name = NameOf(line) /\ Written(t)
    BY <1>3 DEF LineHolds
  <2>2. c # "CR" /\ state' = "HeaderValue" /\ value' = Append(value, c)
    BY <1>1, <1>6, Characters
  <2>3. /\ line # <<>> /\ line[1] = "LF" /\ NameOf(line) \in Seq(Token) \ {<<>>}
        /\ t \in Seq(HeadChar \ Control) \ {<<>>}
    BY <2>1 DEF IsHeaderLine
  <2>. HIDE DEF line, t
  <2>4. HasColon(more) /\ NameOf(more) = NameOf(line) /\ TextOf(more) = Append(t, c)
    BY <1>3, <2>1, LineGrows DEF t
  <2>5. more # <<>> /\ more[1] = "LF"
    <3>1. 1 \in 1..Len(line)
      BY <2>1, <2>3, EmptySeq
    <3>2. line \in Seq(Char) /\ c \in Char
      BY <1>3, <2>1
    <3>3. more # <<>> /\ \A i \in 1..Len(line) : more[i] = line[i]
      BY <3>2, AppendProperties
    <3>. QED
      BY <2>3, <3>1, <3>3
  <2>6. Append(t, c) \in Seq(HeadChar \ Control) \ {<<>>}
    BY <1>6, <2>3, AppendProperties
  <2>7. Begun' = more
    BY <1>3, <2>2 DEF line
  <2>8. value' \in Seq(HeadChar) /\ (Append(t, c) = value' \/ Append(t, c) = <<Blank>> \o value')
    <3>1. value \in Seq(HeadChar) /\ (t = value \/ t = <<Blank>> \o value)
      BY <2>1 DEF Written
    <3>2. <<Blank>> \in Seq(HeadChar)
      BY Characters
    <3>3. \A s \in Seq(HeadChar) : s \o Append(value, c) = Append(s \o value, c)
      BY <3>1
    <3>. QED
      BY <2>2, <3>1, <3>2, <3>3, AppendProperties
  <2>. HIDE DEF more
  <2>9. IsHeaderLine(more)
    BY <2>3, <2>4, <2>5, <2>6 DEF IsHeaderLine
  <2>10. LineHolds(Begun)'
    BY <1>1, <2>1, <2>4, <2>7, <2>8, <2>9 DEF LineHolds, Written
  <2>. QED
    BY <1>1, <1>2, <1>3, <2>2, <2>10, LineGoesOn
<1>. QED
  BY <1>4, <1>5, <1>6

\* The LF behind a line.
LEMMA LineFeedStep ==
  ASSUME HeadInv, NEW c \in HeadChar, parseHttpHeader(c), NotContinued(text'), LineFeed(c)
  PROVE  HeadHolds'
<1>1. /\ state = "LineFeed" /\ name' = name /\ header_' = header_ /\ value' = value
      /\ state' = (IF c = "LF" THEN "HeaderLineStart" ELSE "Fail")
  BY DEF LineFeed, headReads, headScans, headVars
<1>2. HeadHolds /\ text' = Append(text, c) /\ headerBefore' = headerBefore
  BY HeadRead
<1>3. /\ c \in Char /\ Begun \in Seq(Char) /\ Ended \in Seq(Seq(Char)) /\ text \in Seq(Char)
      /\ c = "CR" => Ended' = Append(Ended, Begun) /\ Begun' = <<>>
      /\ c # "CR" => Ended' = Ended /\ Begun' = Append(Begun, c)
  BY <1>2, LinesRead
<1>4. /\ ~EndsWith(Ended, <<"LF">>) /\ Ended # <<>> /\ HeaderLines(Ended, Len(Ended))
      /\ header_ = Entered(Ended, Len(Ended) - 1) /\ LineHolds(Ended[Len(Ended)])
      /\ Begun = <<>>
  BY <1>1, <1>2 DEF HeadHolds
<1>5. CASE c = "LF"
  <2>1. c # "CR"
    BY <1>5, Characters
  <2>2. Ended' = Ended /\ Begun' = <<"LF">>
    BY <1>3, <1>4, <1>5, <2>1
  <2>3. EndsWith(text', "LF")
    BY <1>2, <1>3, <1>5, Ends
  <2>4. LineHolds(Ended[Len(Ended)])'
    BY <1>1, <1>4, <2>2 DEF LineHolds, Written
  <2>5. state' = "HeaderLineStart"
    BY <1>1, <1>5
  <2>. QED
    BY <1>1, <1>2, <1>4, <2>2, <2>3, <2>4, <2>5 DEF HeadHolds, HeadState, Entered
<1>6. CASE c # "LF"
  <2>1. ~EndsWith(Ended', <<"LF">>)
    <3>1. CASE c = "CR"
      BY <1>3, <1>4, <3>1, LineEnded
    <3>2. CASE c # "CR"
      BY <1>3, <1>4, <3>2
    <3>. QED
      BY <3>1, <3>2
  <2>. QED
    BY <1>1, <1>6, <2>1, Failed
<1>. QED
  BY <1>5, <1>6

\* The first character of a line: the line before is entered.
LEMMA LineStartStep ==
  ASSUME HeadInv, NEW c \in HeadChar, parseHttpHeader(c), NotContinued(text'),
         HeaderLineStart(c)
  PROVE  HeadHolds'
<1>1. /\ state = "HeaderLineStart"
      /\ \/ c \in Token /\ nextHeader(c)
         \/ c = "CR" /\ lastHeader(c)
         \/ c = Blank
         \/ c \notin Token \cup {"CR"} /\ state' = "Fail"
  BY Zenon DEF HeaderLineStart, headReads, headScans, nextHeader, lastHeader, Blank
<1>2. /\ HeadHolds /\ text' = Append(text, c) /\ headerBefore' = headerBefore
      /\ EndsWith(text, "LF") => c # Blank
  BY HeadRead
<1>3. /\ c \in Char /\ Begun \in Seq(Char) /\ Ended \in Seq(Seq(Char)) /\ text \in Seq(Char)
      /\ Len(Ended) \in Nat
      /\ c = "CR" => Ended' = Append(Ended, Begun) /\ Begun' = <<>>
      /\ c # "CR" => Ended' = Ended /\ Begun' = Append(Begun, c)
  BY <1>2, LinesRead
<1>4. /\ ~EndsWith(Ended, <<"LF">>) /\ Ended # <<>> /\ HeaderLines(Ended, Len(Ended))
      /\ header_ = Entered(Ended, Len(Ended) - 1) /\ LineHolds(Ended[Len(Ended)])
      /\ Begun = <<"LF">> /\ EndsWith(text, "LF")
  BY <1>1, <1>2 DEF HeadHolds
<1>. DEFINE n == Len(Ended)
<1>5. n \in Nat /\ n >= 1
  BY <1>3, <1>4, EmptySeq
<1>. HIDE DEF n
<1>6. ASSUME check_header PROVE header_' = Entered(Ended, n)
  BY <1>4, <1>5, <1>6, HeaderChecked DEF n
<1>7. CASE c \in Token
  <2>1. /\ nextHeader(c) /\ c # "CR" /\ c # ":"
    BY <1>1, <1>2, <1>4, <1>7, Characters
  <2>2. header_' = Entered(Ended, n) /\ name' = <<c>> /\ value' = <<>> /\ state' = "HeaderName"
    BY <1>6, <2>1 DEF nextHeader
  <2>3. Ended' = Ended /\ Begun' = Append(<<"LF">>, c)
    BY <1>3, <1>4, <2>1
  <2>4. NameHolds(Begun)'
    BY <1>7, <2>2, <2>3, NameBegins DEF NameHolds
  <2>. QED
    BY <1>2, <1>4, <2>2, <2>3, <2>4 DEF HeadHolds, HeadState, Entered, n
<1>8. CASE c = "CR"
  <2>1. lastHeader(c)
    BY <1>1, <1>2, <1>4, <1>8, Characters
  <2>2. header_' = Entered(Ended, n) /\ state' = "FinalLineFeed"
    BY <1>6, <2>1 DEF lastHeader
  <2>3. /\ EndsWith(Ended', <<"LF">>) /\ Len(Ended') = n + 1
        /\ \A i \in 1..n : Ended'[i] = Ended[i]
    <3>1. /\ EndsWith(Append(Ended, Begun), Begun) /\ Len(Append(Ended, Begun)) = Len(Ended) + 1
          /\ \A i \in 1..Len(Ended) : Append(Ended, Begun)[i] = Ended[i]
      BY <1>3, Ends
    <3>. QED
      BY <1>3, <1>4, <1>8, <3>1 DEF n
  <2>4. (n + 1) - 1 = n
    BY <1>5
  <2>5. HeaderLines(Ended', n)
    BY <1>4, <2>3 DEF HeaderLines, n
  <2>6. header_' = Joined(Headers(Ended', n), headerBefore')
    BY <1>2, <1>5, <2>2, <2>3, HeadersStay DEF Entered
  <2>7. EndsWith(text', "CR")
    BY <1>2, <1>3, <1>8, Ends
  <2>. QED
    BY <2>2, <2>3, <2>4, <2>5, <2>6, <2>7 DEF HeadHolds, HeadState, Entered
<1>9. CASE c \notin Token \cup {"CR"}
  <2>1. state' = "Fail"
    BY <1>1, <1>2, <1>4, <1>9
  <2>2. Ended' = Ended
    BY <1>3, <1>9
  <2>. QED
    BY <1>4, <2>1, <2>2, Failed
<1>. QED
  BY <1>7, <1>8, <1>9

------------------------------------------------------------------------------
(* The end of parseHttpHeader *)

\* What parseHttpHeader answers and enters is right.
Verdict ==
  /\ (result = "true") <=> IsHead(text)
  /\ result = "true" => header_ = Joined(HeadersOf(Lines(text)), headerBefore)

\* HeadersAreTheLines asks for the verdict on heads whose lines are not continued.
LEMMA HeadersJudged ==
  /\ HeadersAreTheLines <=>
       (function = "parseHttpHeader" /\ result # "none" /\ NotContinued(text) => Verdict)
  /\ HeadersAreTheLines' <=>
       (function' = "parseHttpHeader" /\ result' # "none" /\ NotContinued(text') => Verdict')
BY Zenon DEF HeadersAreTheLines, NotContinued, Verdict, Blank

\* A text is no head unless an empty line ended and LF is its last character.
LEMMA NoHead ==
  ASSUME NEW head,
         ~EndsWith(Parts(<<"LF">> \o head, "CR"), <<"LF">>) \/ head[Len(head)] # "LF"
  PROVE  ~IsHead(head)
BY DEF IsHead, Lines, Parts, EndsWith

\* The LF of the empty line.
LEMMA FinalStep ==
  ASSUME HeadInv, NEW c \in HeadChar, parseHttpHeader(c), NotContinued(text'),
         FinalLineFeed(c)
  PROVE  result' # "none" /\ Verdict'
<1>1. /\ state = "FinalLineFeed" /\ header_' = header_
      /\ result' = IF c = "LF" THEN "true" ELSE "false"
  BY Zenon DEF FinalLineFeed, headScans, headVars
<1>2. HeadHolds /\ text' = Append(text, c) /\ headerBefore' = headerBefore
  BY HeadRead
<1>3. /\ text \in Seq(Char) /\ c \in Char
      /\ c = "CR" => Ended' = Append(Ended, Begun) /\ Begun' = <<>>
      /\ c # "CR" => Ended' = Ended /\ Begun' = Append(Begun, c)
  BY <1>2, LinesRead
<1>4. /\ Len(text') = Len(text) + 1 /\ Len(text) \in Nat /\ text'[Len(text')] = c
      /\ \A i \in 1..Len(text) : text'[i] = text[i]
  BY <1>2, <1>3, Ends
<1>5. CASE c = "LF"
  <2>1. /\ Ended # <<>> /\ Ended[Len(Ended)] = <<"LF">>
        /\ \A i \in 1..Len(Ended) - 1 : IsHeaderLine(Ended[i])
        /\ header_ = Entered(Ended, Len(Ended) - 1)
        /\ text # <<>> /\ text[Len(text)] = "CR"
    BY <1>1, <1>2 DEF HeadHolds, EndsWith, HeaderLines
  <2>2. Len(text) \in 1..Len(text) /\ Len(text') - 1 = Len(text)
    BY <1>3, <1>4, <2>1, EmptySeq
  <2>3. text'[Len(text')] = "LF" /\ text'[Len(text') - 1] = "CR"
    BY <1>4, <1>5, <2>1, <2>2
  <2>4. Lines(text') = Ended
    <3>1. Ended' = Ended
      BY <1>3, <1>5, Characters
    <3>2. Ended' = Lines(text')
      BY DEF Ended, Lined, Lines, Parts
    <3>. QED
      BY <3>1, <3>2
  <2>5. IsHead(text')
    BY <2>1, <2>3, <2>4 DEF IsHead
  <2>6. header_' = Joined(HeadersOf(Lines(text')), headerBefore')
    BY <1>1, <1>2, <2>1, <2>4 DEF HeadersOf, Entered
  <2>. QED
    BY <1>1, <1>5, <2>5, <2>6 DEF Verdict
<1>6. CASE c # "LF"
  <2>1. ~IsHead(text')
    BY <1>4, <1>6, NoHead
  <2>. QED
    BY <1>1, <1>6, <2>1 DEF Verdict
<1>. QED
  BY <1>5, <1>6

\* The character behind the one at which the scanner failed.
LEMMA FailStep ==
  ASSUME HeadInv, NEW c \in HeadChar, parseHttpHeader(c), NotContinued(text'), Fail(c)
  PROVE  result' # "none" /\ Verdict'
<1>1. state = "Fail" /\ result' = "false"
  BY Zenon DEF Fail, headScans
<1>2. HeadHolds /\ text' = Append(text, c) /\ headerBefore' = headerBefore
  BY HeadRead
<1>3. /\ text \in Seq(Char) /\ c \in Char
      /\ c # "CR" => Ended' = Ended
  BY <1>2, LinesRead
<1>4. text'[Len(text')] = c
  BY <1>2, <1>3, Ends
<1>5. ~EndsWith(Ended', <<"LF">>) \/ text'[Len(text')] # "LF"
  BY <1>1, <1>2, <1>3, <1>4, Characters DEF HeadHolds
<1>6. Ended' = Parts(<<"LF">> \o text', "CR")
  BY DEF Ended, Lined
<1>7. ~IsHead(text')
  BY <1>5, <1>6, NoHead
<1>. QED
  BY <1>1, <1>7 DEF Verdict

\* The text ends before the LF of an empty line.
LEMMA EndStep ==
  ASSUME HeadInv, endOfText, NotContinued(text)
  PROVE  Verdict'
<1>1. function = "parseHttpHeader" /\ result = "none" /\ result' = "false" /\ text' = text
  BY DEF endOfText
<1>2. HeadHolds
  BY <1>1 DEF HeadInv
<1>3. ~EndsWith(Ended, <<"LF">>) \/ text[Len(text)] # "LF"
  BY <1>2, Characters DEF HeadHolds, EndsWith
<1>4. Ended = Parts(<<"LF">> \o text, "CR")
  BY DEF Ended, Lined
<1>5. ~IsHead(text)
  BY <1>3, <1>4, NoHead
<1>. QED
  BY <1>1, <1>5 DEF Verdict

\* An iteration of parseHttpHeader.
LEMMA HeaderStep ==
  ASSUME HeadInv, NEW c \in HeadChar, parseHttpHeader(c)
  PROVE  HeadInv'
<1>1. /\ function' = "parseHttpHeader" /\ result = "none" /\ text' = Append(text, c)
      /\ NotContinued(text') => HeadHolds
      /\ function = "parseHttpHeader" /\ headerBefore' = headerBefore
  BY HeadRead
<1>2. text' \in Seq(Char) /\ Ranked(PositionsOf(Lined, "CR"), 0, Len(Lined))'
  BY <1>1, LinesRead
<1>3. ASSUME result' = "none", NotContinued(text') PROVE HeadHolds'
  <2>1. ~FinalLineFeed(c) /\ ~Fail(c)
    BY <1>3, FinalStep, FailStep
  <2>2. ~HeaderLws(c)
    <3>1. HeadHolds
      BY <1>1, <1>3
    <3>2. state # "HeaderLws"
      BY <3>1 DEF HeadHolds
    <3>3. HeaderLws(c) => state = "HeaderLws"
      BY Zenon DEF HeaderLws, headReads, headScans
    <3>. QED
      BY <3>2, <3>3
  <2>3. \/ FirstLineStart(c) \/ HeaderLineStart(c) \/ HeaderName(c)
        \/ SpaceBeforeHeaderValue(c) \/ HeaderValue(c) \/ LineFeed(c)
    BY <2>1, <2>2 DEF parseHttpHeader
  <2>. QED
    BY <1>3, <2>3, FirstLineStep, LineStartStep, HeaderNameStep, SpaceStep, HeaderValueStep,
       LineFeedStep
<1>4. ASSUME result' # "none", NotContinued(text') PROVE Verdict'
  <2>1. (\/ FirstLineStart(c) \/ HeaderLineStart(c) \/ HeaderName(c) \/ HeaderLws(c)
         \/ SpaceBeforeHeaderValue(c) \/ HeaderValue(c) \/ LineFeed(c)) => result' = result
    BY Zenon DEF FirstLineStart, HeaderLineStart, HeaderName, HeaderLws,
                 SpaceBeforeHeaderValue, HeaderValue, LineFeed, headReads
  <2>2. FinalLineFeed(c) \/ Fail(c)
    BY <1>1, <1>4, <2>1 DEF parseHttpHeader
  <2>. QED
    BY <1>4, <2>2, FinalStep, FailStep
<1>5. HeadersAreTheLines'
  BY <1>4, HeadersJudged
<1>6. IsFunction(header_') /\ IsFunction(headerBefore')
  <2>1. header_' = header_ \/ check_header
    BY Zenon DEF parseHttpHeader, FirstLineStart, HeaderLineStart, nextHeader, lastHeader,
                 HeaderName, HeaderLws, SpaceBeforeHeaderValue, HeaderValue, LineFeed,
                 FinalLineFeed, Fail, headVars
  <2>. QED
    BY <1>1, <2>1 DEF check_header, IsFunction, HeadInv
<1>. QED
  BY <1>2, <1>3, <1>5, <1>6 DEF HeadInv

\* Before the first character the one line that has begun is the LF in front.
LEMMA NothingLined ==
  LET line == <<"LF">> \o <<>> IN
  /\ <<>> \in Seq(Char) /\ Ranked(PositionsOf(line, "CR"), 0, Len(line))
  /\ Parts(line, "CR") = <<>> /\ Remains(line, "CR") = <<"LF">>
<1>. DEFINE line == <<"LF">>
<1>1. line = <<"LF">> \o <<>> /\ Len(line) = 1 /\ line \in Seq({"LF"}) /\ <<>> \in Seq(Char)
  OBVIOUS
<1>2. PositionsOf(line, "CR") = {}
  BY Characters DEF PositionsOf
<1>3. Ranked({}, 0, 1)
  BY NoneRanked
<1>4. Pieces(line, 0, {}) = <<>> /\ LastCut(0, {}) = 0
  BY NoPieces
<1>5. Parts(line, "CR") = <<>>
  BY <1>2, <1>4 DEF Parts
<1>6. Remains(line, "CR") = SubSeq(line, 1, Len(line))
  <2>1. Remains(line, "CR") = SubSeq(line, 0 + 1, Len(line))
    BY <1>2, <1>4 DEF Remains, Rest
  <2>. QED
    BY <2>1
<1>7. SubSeq(line, 1, Len(line)) = line
  <2>1. \A t \in Seq({"LF"}) : SubSeq(t, 1, Len(t)) = t
    OBVIOUS
  <2>. QED
    BY <1>1, <2>1
<1>. QED
  BY <1>1, <1>2, <1>3, <1>5, <1>6, <1>7

\* The next call has read nothing, and finds what is left.
LEMMA HeadCallStep ==
  ASSUME HeadInv, nextHead
  PROVE  HeadInv'
<1>1. /\ function = "parseHttpHeader" /\ text' = <<>> /\ name' = <<>> /\ value' = <<>>
      /\ result' = "none" /\ state' = "FirstLineStart" /\ headerBefore' = header_'
      /\ header_' = header_ \/ header_' = NoEntries
  BY DEF nextHead, Call
<1>2. /\ text' \in Seq(Char) /\ Ranked(PositionsOf(Lined, "CR"), 0, Len(Lined))'
      /\ Ended' = <<>> /\ Begun' = <<"LF">>
  BY <1>1, NothingLined DEF Lined, Ended, Begun
<1>3. HeadHolds'
  BY <1>1, <1>2 DEF HeadHolds, FirstHolds, HeadState, EndsWith
<1>4. HeadersAreTheLines'
  BY <1>1, HeadersJudged
<1>5. IsFunction(header_')
  BY <1>1 DEF IsFunction, NoEntries, HeadInv
<1>. QED
  BY <1>1, <1>2, <1>3, <1>4, <1>5 DEF HeadInv

\* HeadInv holds of every head that parseHttpHeader is given, at every character.
THEOREM HeadInvariance == Spec => []HeadInv
<1>1. Init => HeadInv
  <2>. SUFFICES ASSUME Init PROVE HeadInv
    OBVIOUS
  <2>1. /\ text = <<>> /\ result = "none" /\ name = <<>> /\ value = <<>>
        /\ header_ = NoEntries /\ headerBefore = header_
        /\ function = "parseHttpHeader" => state = "FirstLineStart"
    BY DEF Init
  <2>2. /\ text \in Seq(Char) /\ Ranked(PositionsOf(Lined, "CR"), 0, Len(Lined))
        /\ Ended = <<>> /\ Begun = <<"LF">>
    BY <2>1, NothingLined DEF Lined, Ended, Begun
  <2>3. state = "FirstLineStart" => HeadHolds
    BY <2>1, <2>2 DEF HeadHolds, FirstHolds, HeadState, EndsWith
  <2>4. HeadersAreTheLines
    BY <2>1, HeadersJudged
  <2>5. IsFunction(header_)
    BY <2>1 DEF IsFunction, NoEntries
  <2>. QED
    BY <2>1, <2>2, <2>3, <2>4, <2>5 DEF HeadInv
<1>2. HeadInv /\ [Next]_vars => HeadInv'
  <2>. SUFFICES ASSUME HeadInv, [Next]_vars PROVE HeadInv'
    OBVIOUS
  <2>1. CASE UNCHANGED vars
    <3>1. /\ function' = function /\ text' = text /\ state' = state /\ name' = name
          /\ value' = value /\ header_' = header_ /\ result' = result
          /\ headerBefore' = headerBefore
      BY <2>1 DEF vars, headVars, callVars
    <3>2. Lined' = Lined /\ Ended' = Ended /\ Begun' = Begun
      BY <3>1 DEF Lined, Ended, Begun
    <3>3. HeadHolds => HeadHolds'
      BY <3>1, <3>2 DEF HeadHolds, FirstHolds, NameHolds, ColonHolds, LineHolds, Written, Entered
    <3>4. HeadersAreTheLines => HeadersAreTheLines'
      BY <3>1, HeadersJudged DEF Verdict
    <3>. QED
      BY <3>1, <3>2, <3>3, <3>4 DEF HeadInv
  <2>2. CASE emptyUrl
    <3>1. function' = "parseUrl" /\ text' = text
      BY <2>2 DEF emptyUrl
    <3>. QED
      BY <3>1 DEF HeadInv, Lined
  <2>3. CASE endOfText
    <3>1. /\ result' # "none" /\ text' = text /\ function' = function
          /\ header_' = header_ /\ headerBefore' = headerBefore
      BY <2>3 DEF endOfText, headVars, callVars
    <3>2. HeadersAreTheLines'
      BY <2>3, <3>1, EndStep, HeadersJudged
    <3>. QED
      BY <3>1, <3>2 DEF HeadInv, Lined
  <2>4. ASSUME NEW c \in UrlChar, NEW isLast \in BOOLEAN, parseUrl(c, isLast) PROVE HeadInv'
    <3>1. function' = "parseUrl" /\ text' = Append(text, c) /\ c \in Char
      BY <2>4 DEF parseUrl, Start, Path, ParamKey, ParamValue, urlReads, Char
    <3>2. text' \in Seq(Char) /\ Ranked(PositionsOf(Lined, "CR"), 0, Len(Lined))'
      BY <3>1, CharacterRead
    <3>. QED
      BY <3>1, <3>2 DEF HeadInv
  <2>5. \/ \E c \in UrlChar, isLast \in BOOLEAN : parseUrl(c, isLast)
        \/ emptyUrl \/ (\E c \in HeadChar : parseHttpHeader(c)) \/ endOfText
        \/ nextUrl \/ nextHead \/ UNCHANGED vars
    BY DEF Next
  <2>6. CASE nextUrl
    <3>1. function' = "parseUrl" /\ text' = <<>>
      BY <2>6 DEF nextUrl, Call
    <3>. QED
      BY <3>1, NothingLined DEF HeadInv, Lined
  <2>. QED
    BY <2>1, <2>2, <2>3, <2>4, <2>5, <2>6, HeaderStep, HeadCallStep
<1>. QED
  BY <1>1, <1>2, PTL DEF Spec

\* The scanner has returned when the head ends, accepts the lists of header lines with an empty
\* line behind them and nothing else, and enters the last value of each name.
THEOREM HeadCorrect == Spec => []HeadIsScanned
<1>1. HeadInv => HeadersAreTheLines
  BY HeadersJudged DEF HeadInv
<1>2. HeadIsEnough /\ HeadersAreTheLines => HeadIsScanned
  BY DEF HeadIsScanned
<1>. QED
  BY <1>1, <1>2, HeadInvariance, HeadSuffices, PTL

------------------------------------------------------------------------------
(* Types *)

UrlTyped ==
  function = "parseUrl" => state \in UrlState /\ value \in Seq(UrlChar \ {"&"})

\* In these states there is no line that has a name.
Nameless == {"FirstLineStart", "FinalLineFeed", "Fail"}

\* Where a line is being read, or waits to be entered, it has a name.
HeadTyped ==
  function = "parseHttpHeader" =>
    /\ state \in HeadState
    /\ value \in Seq(HeadChar \ Control)
    /\ state \notin Nameless => name # <<>>

ParamsTyped(params) ==
  \A k \in DOMAIN params : k \in Seq(UrlChar \ {"="}) /\ params[k] \in Seq(UrlChar \ {"&"})
HeadersTyped(headers) ==
  \A n \in DOMAIN headers : n \in Seq(Token) \ {<<>>} /\ headers[n] \in Seq(HeadChar \ Control)

CallTyped ==
  /\ pathsBefore \in Seq(Seq(UrlChar \ {"/"}))
  /\ ParamsTyped(paramsBefore) /\ HeadersTyped(headerBefore)
  /\ scanned \in Nat

TypeInv ==
  /\ function \in {"parseUrl", "parseHttpHeader"}
  /\ text \in Seq(Char)
  /\ path \in Seq(UrlChar \ {"/"}) /\ key \in Seq(UrlChar \ {"="})
  /\ name \in Seq(Token)
  /\ paths_ \in Seq(Seq(UrlChar \ {"/"}))
  /\ ParamsTyped(params_) /\ HeadersTyped(header_)
  /\ CallTyped
  /\ result \in {"none", "true", "false"}
  /\ UrlTyped /\ HeadTyped

\* What trim leaves of a sequence is made of the same characters.
LEMMA TrimTyped ==
  ASSUME NEW C, NEW s \in Seq(C)
  PROVE  trim(s) \in Seq(C)
<1>. DEFINE I == Ink(s, Blank)
            a == CHOOSE i \in I : \A j \in I : i <= j
            b == CHOOSE i \in I : \A j \in I : i >= j
<1>1. trim(s) = IF I = {} THEN <<>> ELSE SubSeq(s, a, b)
  BY TrimIsTrimmed DEF Trimmed
<1>2. I \subseteq 1..Len(s) /\ Len(s) \in Nat
  BY LenProperties DEF Ink
<1>. HIDE DEF I
<1>3. CASE I = {}
  BY <1>1, <1>3
<1>4. CASE I # {}
  <2>1. First(I, 0) \in I /\ \A j \in I : First(I, 0) <= j
    <3>1. I \subseteq Nat
      BY <1>2
    <3>. QED
      BY <1>4, <3>1, FirstExists
  <2>2. Last(I) \in I /\ \A j \in I : j <= Last(I)
    BY <1>2, <1>4, LastExists
  <2>3. a \in I
    BY <2>1
  <2>4. b \in I
    <3>1. \A j \in I : Last(I) >= j
      BY <1>2, <2>2
    <3>. QED
      BY <2>2, <3>1
  <2>. HIDE DEF a, b
  <2>5. a \in Int /\ b \in Int /\ \A i \in a..b : i \in 1..Len(s)
    BY <1>2, <2>3, <2>4
  <2>6. \A i \in a..b : s[i] \in C
    BY <2>5, ElementOfSeq
  <2>7. SubSeq(s, a, b) \in Seq(C)
    BY <2>5, <2>6, SubSeqProperties
  <2>. QED
    BY <1>1, <1>4, <2>7
<1>. QED
  BY <1>3, <1>4

\* Appending one of its characters keeps the type of a sequence.
LEMMA Appended ==
  ASSUME NEW C, NEW s \in Seq(C), NEW c \in C
  PROVE  Append(s, c) \in Seq(C) \ {<<>>}
BY AppendProperties

\* An entry of the right type keeps the parameters typed.
LEMMA InsertTyped ==
  ASSUME ParamsTyped(params_), NEW k \in Seq(UrlChar \ {"="}), NEW v \in Seq(UrlChar \ {"&"}),
         insert(k, v)
  PROVE  ParamsTyped(params_')
BY DEF insert, ParamsTyped

\* An iteration of parseUrl.
LEMMA UrlTypeStep ==
  ASSUME TypeInv, NEW c \in UrlChar, NEW isLast \in BOOLEAN, parseUrl(c, isLast)
  PROVE  TypeInv'
<1>1. /\ function = "parseUrl" /\ function' = "parseUrl" /\ text' = Append(text, c)
      /\ name' = name /\ header_' = header_ /\ result' \in {"none", "true", "false"}
      /\ CallTyped'
  BY DEF parseUrl, Start, Path, ParamKey, ParamValue, urlReads, headVars, callVars, TypeInv,
         CallTyped
<1>2. text' \in Seq(Char)
  <2>1. text \in Seq(Char) /\ c \in Char
    BY DEF TypeInv, Char
  <2>. QED
    BY <1>1, <2>1, Appended
<1>3. value \in Seq(UrlChar \ {"&"}) /\ ParamsTyped(params_)
  BY <1>1 DEF TypeInv, UrlTyped
<1>. DEFINE
       Good == /\ path' \in Seq(UrlChar \ {"/"}) /\ key' \in Seq(UrlChar \ {"="})
               /\ paths_' \in Seq(Seq(UrlChar \ {"/"})) /\ ParamsTyped(params_')
               /\ state' \in UrlState /\ value' \in Seq(UrlChar \ {"&"})
<1>4. CASE Start(c, isLast)
  <2>1. /\ state' = "Path" /\ path' = IF c = "/" THEN path ELSE Append(path, c)
        /\ UNCHANGED <<key, value, paths_, params_>>
    BY <1>4 DEF Start
  <2>2. c # "/" => Append(path, c) \in Seq(UrlChar \ {"/"})
    BY Appended DEF TypeInv
  <2>3. Good
    BY <1>3, <2>1, <2>2 DEF TypeInv, UrlState
  <2>. QED
    BY <1>1, <1>2, <2>3 DEF TypeInv, UrlTyped, HeadTyped
<1>5. CASE Path(c, isLast)
  <2>1. Append(paths_, path) \in Seq(Seq(UrlChar \ {"/"}))
    <3>1. paths_ \in Seq(Seq(UrlChar \ {"/"})) /\ path \in Seq(UrlChar \ {"/"})
      BY DEF TypeInv
    <3>. QED
      BY <3>1, Appended
  <2>2. c \notin {"/", "?"} => Append(path, c) \in Seq(UrlChar \ {"/"})
    BY Appended DEF TypeInv
  <2>3. Good
    <3>1. /\ \/ /\ paths_' = Append(paths_, path) /\ path' = <<>>
                /\ state' \in {"Path", "ParamKey"}
             \/ /\ c \notin {"/", "?"} /\ path' = Append(path, c)
                /\ paths_' = paths_ /\ state' = "Path"
          /\ key' = key /\ value' = value /\ params_' = params_
      BY <1>5 DEF Path, urlReads
    <3>. DEFINE D == UrlChar \ {"/"}
    <3>2. /\ path \in Seq(D) /\ paths_ \in Seq(Seq(D)) /\ <<>> \in Seq(D)
          /\ Append(paths_, path) \in Seq(Seq(D))
          /\ c \notin {"/", "?"} => Append(path, c) \in Seq(D)
      BY <2>1, <2>2 DEF TypeInv
    <3>. HIDE DEF D
    <3>4. path' \in Seq(D) /\ paths_' \in Seq(Seq(D))
      BY <3>1, <3>2
    <3>3. state' \in UrlState /\ key' \in Seq(UrlChar \ {"="})
      BY <3>1 DEF TypeInv, UrlState
    <3>. QED
      BY <1>3, <3>1, <3>3, <3>4 DEF D
  <2>. QED
    BY <1>1, <1>2, <2>3 DEF TypeInv, UrlTyped, HeadTyped
<1>6. CASE ParamKey(c, isLast)
  <2>1. c # "=" => Append(key, c) \in Seq(UrlChar \ {"="})
    BY Appended DEF TypeInv
  <2>2. Good
    <3>1. /\ \/ state' = "ParamValue" /\ key' = key
             \/ c # "=" /\ key' = Append(key, c) /\ state' = "ParamKey"
          /\ path' = path /\ value' = value /\ paths_' = paths_ /\ params_' = params_
      BY <1>6 DEF ParamKey, urlReads
    <3>. QED
      BY <1>3, <2>1, <3>1 DEF TypeInv, UrlState
  <2>. QED
    BY <1>1, <1>2, <2>2 DEF TypeInv, UrlTyped, HeadTyped
<1>7. CASE ParamValue(c, isLast)
  <2>1. c # "&" => Append(value, c) \in Seq(UrlChar \ {"&"})
    BY <1>3, Appended
  <2>2. key \in Seq(UrlChar \ {"="})
    BY DEF TypeInv
  <2>3. Good
    <3>1. CASE c = "&"
      <4>1. insert(key, value) /\ key' = <<>> /\ value' = <<>> /\ state' = "ParamKey"
            /\ path' = path /\ paths_' = paths_
        BY <1>7, <3>1 DEF ParamValue
      <4>2. ParamsTyped(params_')
        BY <1>3, <2>2, <4>1, InsertTyped
      <4>. QED
        BY <4>1, <4>2 DEF TypeInv, UrlState
    <3>2. CASE c # "&"
      <4>1. /\ value' = Append(value, c) /\ (insert(key, value') \/ params_' = params_)
            /\ key' = key /\ state' = "ParamValue" /\ path' = path /\ paths_' = paths_
        BY <1>7, <3>2 DEF ParamValue, urlReads
      <4>2. value' \in Seq(UrlChar \ {"&"})
        BY <2>1, <3>2, <4>1
      <4>3. ParamsTyped(params_')
        BY <1>3, <2>2, <4>1, <4>2, InsertTyped
      <4>. QED
        BY <4>1, <4>2, <4>3 DEF TypeInv, UrlState
    <3>. QED
      BY <3>1, <3>2
  <2>. QED
    BY <1>1, <1>2, <2>3 DEF TypeInv, UrlTyped, HeadTyped
<1>. QED
  BY <1>4, <1>5, <1>6, <1>7 DEF parseUrl

\* check_header enters a name with a value of the right types.
LEMMA CheckTyped ==
  ASSUME HeadersTyped(header_), name \in Seq(Token) \ {<<>>}, value \in Seq(HeadChar \ Control),
         check_header
  PROVE  HeadersTyped(header_')
<1>1. trim(value) \in Seq(HeadChar \ Control)
  BY TrimTyped
<1>2. trim(name) = name
  BY Characters, NoBlanks, TrimIsTrimmed
<1>3. header_' = Replaced(header_, name, trim(value))
  BY <1>2 DEF check_header, Replaced
<1>. QED
  BY <1>1, <1>3 DEF HeadersTyped, Replaced

\* What an iteration of parseHttpHeader does to name, value and headers.
LEMMA HeadEffects ==
  ASSUME NEW c \in HeadChar, parseHttpHeader(c)
  PROVE  /\ name' = name \/ name' = <<>> \/ (c \in Token /\ name' \in {Append(name, c), <<c>>})
         /\ value' = value \/ value' = <<>> \/ (c \notin Control /\ value' = Append(value, c))
         /\ header_' = header_ \/ (state = "HeaderLineStart" /\ check_header)
         /\ state' \in HeadState
         /\ state' \in Nameless \/ name' \in {Append(name, c), <<c>>}
              \/ (state \notin Nameless /\ name' = name)
<1>1. CASE FirstLineStart(c)
  BY Zenon, <1>1 DEF FirstLineStart, headReads, headScans,
         HeadState, Nameless
<1>2. CASE HeaderLineStart(c)
  BY Zenon, <1>2 DEF HeaderLineStart, nextHeader, lastHeader, headReads, headScans,
         HeadState, Nameless
<1>3. CASE HeaderName(c)
  BY Zenon, <1>3 DEF HeaderName, scanName, headReads, headScans,
         HeadState, Nameless
<1>4. CASE HeaderLws(c)
  BY Zenon, <1>4 DEF HeaderLws, scanName, headReads, headScans,
         HeadState, Nameless
<1>5. CASE SpaceBeforeHeaderValue(c)
  BY Zenon, <1>5 DEF SpaceBeforeHeaderValue, headReads, headScans, headVars,
         HeadState, Nameless
<1>6. CASE HeaderValue(c)
  BY Zenon, <1>6 DEF HeaderValue, headReads, headScans, headVars,
         HeadState, Nameless
<1>7. CASE LineFeed(c)
  BY Zenon, <1>7 DEF LineFeed, headReads, headScans, headVars,
         HeadState, Nameless
<1>8. CASE FinalLineFeed(c) \/ Fail(c)
  BY Zenon, <1>8 DEF FinalLineFeed, Fail, headScans, headVars,
         HeadState, Nameless
<1>. QED
  BY <1>1, <1>2, <1>3, <1>4, <1>5, <1>6, <1>7, <1>8 DEF parseHttpHeader

\* An iteration of parseHttpHeader.
LEMMA HeadTypeStep ==
  ASSUME TypeInv, NEW c \in HeadChar, parseHttpHeader(c)
  PROVE  TypeInv'
<1>1. /\ function = "parseHttpHeader" /\ function' = "parseHttpHeader"
      /\ text' = Append(text, c) /\ UNCHANGED urlVars
  BY Zenon DEF parseHttpHeader, FirstLineStart, HeaderLineStart, HeaderName, HeaderLws,
               SpaceBeforeHeaderValue, HeaderValue, LineFeed, FinalLineFeed, Fail, headReads,
               headScans
<1>2. result' = result \/ result' \in {"true", "false"}
  BY Zenon DEF parseHttpHeader, FirstLineStart, HeaderLineStart, HeaderName, HeaderLws,
               SpaceBeforeHeaderValue, HeaderValue, LineFeed, FinalLineFeed, Fail, headReads
<1>3. text' \in Seq(Char)
  <2>1. text \in Seq(Char) /\ c \in Char
    BY Characters DEF TypeInv
  <2>. QED
    BY <1>1, <2>1, Appended
<1>4. /\ name \in Seq(Token) /\ value \in Seq(HeadChar \ Control) /\ HeadersTyped(header_)
      /\ state \notin Nameless => name # <<>>
  BY <1>1 DEF TypeInv, HeadTyped
<1>5. /\ c \in Token => Append(name, c) \in Seq(Token)
      /\ <<c>> # <<>> /\ Append(name, c) # <<>>
      /\ c \in Token => <<c>> \in Seq(Token)
  <2>1. c \in Token => Append(name, c) \in Seq(Token) \ {<<>>}
    BY <1>4, Appended
  <2>2. Append(name, c) # <<>>
    <3>1. name \in Seq(Token \cup {c}) /\ c \in Token \cup {c}
      BY <1>4
    <3>. QED
      BY <3>1, Appended
  <2>3. c \in Token => <<c>> \in Seq(Token)
    OBVIOUS
  <2>. QED
    BY <2>1, <2>2, <2>3
<1>6. c \notin Control => Append(value, c) \in Seq(HeadChar \ Control)
  BY <1>4, Appended
<1>. DEFINE longer == Append(name, c)
            first == <<c>>
            more == Append(value, c)
            none == <<>>
            D == HeadChar \ Control
<1>7. /\ name' = name \/ name' = none \/ (c \in Token /\ name' \in {longer, first})
      /\ value' = value \/ value' = none \/ (c \notin Control /\ value' = more)
      /\ state' \in HeadState
      /\ state' \in Nameless \/ name' \in {longer, first}
           \/ (state \notin Nameless /\ name' = name)
  BY Zenon, HeadEffects
<1>8. /\ name \in Seq(Token) /\ none \in Seq(Token) /\ value \in Seq(D) /\ none \in Seq(D)
      /\ c \in Token => longer \in Seq(Token) /\ first \in Seq(Token)
      /\ c \notin Control => more \in Seq(D)
      /\ longer # none /\ first # none /\ (state \notin Nameless => name # none)
  BY <1>4, <1>5, <1>6
<1>. HIDE DEF longer, first, more, none, D
<1>9. name' \in Seq(Token) /\ value' \in Seq(D) /\ (state' \notin Nameless => name' # none)
  BY <1>7, <1>8
<1>10. /\ name' \in Seq(Token) /\ value' \in Seq(HeadChar \ Control)
       /\ state' \notin Nameless => name' # <<>>
  BY <1>9 DEF D, none
<1>11. HeadersTyped(header_')
  <2>1. CASE header_' = header_
    BY <1>4, <2>1
  <2>2. CASE state = "HeaderLineStart" /\ check_header
    BY <1>4, <2>2, CheckTyped DEF Nameless
  <2>. QED
    BY Zenon, <2>1, <2>2, HeadEffects
<1>12. HeadTyped'
  BY <1>7, <1>10 DEF HeadTyped
<1>13. UrlTyped'
  BY <1>1 DEF UrlTyped
<1>14. /\ path' \in Seq(UrlChar \ {"/"}) /\ key' \in Seq(UrlChar \ {"="})
       /\ paths_' \in Seq(Seq(UrlChar \ {"/"})) /\ ParamsTyped(params_')
  BY <1>1 DEF TypeInv, urlVars
<1>15. result' \in {"none", "true", "false"}
  BY <1>2 DEF TypeInv
<1>16. function' \in {"parseUrl", "parseHttpHeader"} /\ name' \in Seq(Token)
  BY <1>1, <1>10
<1>17. CallTyped'
  <2>1. UNCHANGED callVars
    BY Zenon DEF parseHttpHeader, FirstLineStart, HeaderLineStart, HeaderName, HeaderLws,
                 SpaceBeforeHeaderValue, HeaderValue, LineFeed, FinalLineFeed, Fail, headReads,
                 headScans
  <2>. QED
    BY <2>1 DEF callVars, TypeInv, CallTyped
<1>. QED
  BY <1>3, <1>11, <1>12, <1>13, <1>14, <1>15, <1>16, <1>17 DEF TypeInv

\* The next call.
LEMMA CallTypeStep ==
  ASSUME TypeInv, nextUrl \/ nextHead
  PROVE  TypeInv'
<1>1. /\ text' = <<>> /\ path' = <<>> /\ key' = <<>> /\ name' = <<>> /\ value' = <<>>
      /\ result' = "none" /\ function' = function /\ paths_' = paths_ /\ params_' = params_
      /\ pathsBefore' = paths_ /\ paramsBefore' = params_ /\ headerBefore' = header_'
      /\ scanned' = scanned + Len(text)
  BY DEF nextUrl, nextHead, Call
<1>2. \/ function = "parseUrl" /\ state' = "Start"
      \/ function = "parseHttpHeader" /\ state' = "FirstLineStart"
  BY DEF nextUrl, nextHead, Call
<1>3. HeadersTyped(header_')
  <2>1. header_' = header_ \/ header_' = NoEntries
    BY DEF nextUrl, nextHead
  <2>. QED
    BY <2>1 DEF TypeInv, HeadersTyped, NoEntries
<1>4. scanned' \in Nat
  <2>1. Len(text) \in Nat /\ scanned \in Nat
    BY LenProperties DEF TypeInv, CallTyped
  <2>. QED
    BY <1>1, <2>1
<1>5. CallTyped'
  BY <1>1, <1>3, <1>4 DEF TypeInv, CallTyped
<1>6. /\ text' \in Seq(Char) /\ name' \in Seq(Token)
      /\ path' \in Seq(UrlChar \ {"/"}) /\ key' \in Seq(UrlChar \ {"="})
      /\ value' \in Seq(UrlChar \ {"&"}) /\ value' \in Seq(HeadChar \ Control)
  BY <1>1
<1>7. UrlTyped' /\ HeadTyped'
  BY <1>1, <1>2, <1>6 DEF UrlTyped, HeadTyped, UrlState, HeadState, Nameless
<1>. QED
  BY <1>1, <1>3, <1>5, <1>6, <1>7 DEF TypeInv

\* Every variable keeps its type: names are tokens, values free of control characters.
THEOREM TypeCorrect == Spec => []TypeOK
<1>1. Init => TypeInv
  BY DEF Init, TypeInv, UrlTyped, HeadTyped, ParamsTyped, HeadersTyped, CallTyped, NoEntries,
         Nameless, UrlState, HeadState
<1>2. TypeInv /\ [Next]_vars => TypeInv'
  <2>. SUFFICES ASSUME TypeInv, [Next]_vars PROVE TypeInv'
    OBVIOUS
  <2>1. CASE UNCHANGED vars
    BY <2>1 DEF vars, urlVars, headVars, callVars, TypeInv, UrlTyped, HeadTyped, CallTyped
  <2>2. CASE emptyUrl
    BY <2>2 DEF emptyUrl, urlVars, headVars, callVars, TypeInv, UrlTyped, HeadTyped, CallTyped
  <2>3. CASE endOfText
    BY <2>3 DEF endOfText, urlVars, headVars, callVars, TypeInv, UrlTyped, HeadTyped, CallTyped
  <2>4. \/ \E c \in UrlChar, isLast \in BOOLEAN : parseUrl(c, isLast)
        \/ emptyUrl \/ (\E c \in HeadChar : parseHttpHeader(c)) \/ endOfText
        \/ nextUrl \/ nextHead \/ UNCHANGED vars
    BY DEF Next
  <2>. QED
    BY <2>1, <2>2, <2>3, <2>4, UrlTypeStep, HeadTypeStep, CallTypeStep
<1>3. TypeInv => TypeOK
  <2>. SUFFICES ASSUME TypeInv PROVE TypeOK
    OBVIOUS
  <2>1. \/ function = "parseUrl" /\ state \in UrlState
        \/ function = "parseHttpHeader" /\ state \in HeadState
    BY DEF TypeInv, UrlTyped, HeadTyped
  <2>2. <<function, state>> \in ({"parseUrl"} \X UrlState) \cup ({"parseHttpHeader"} \X HeadState)
    BY <2>1
  <2>3. value \in Seq((UrlChar \cup HeadChar) \ Control)
    <3>1. UrlChar \cap Control = {}
      BY DEF UrlChar, Control
    <3>2. UrlChar \ {"&"} \subseteq (UrlChar \cup HeadChar) \ Control
      BY <3>1
    <3>3. HeadChar \ Control \subseteq (UrlChar \cup HeadChar) \ Control
      OBVIOUS
    <3>4. value \in Seq(UrlChar \ {"&"}) \/ value \in Seq(HeadChar \ Control)
      BY DEF TypeInv, UrlTyped, HeadTyped
    <3>5. \A C, D : C \subseteq D => Seq(C) \subseteq Seq(D)
      OBVIOUS
    <3>. QED
      BY <3>2, <3>3, <3>4, <3>5
  <2>4. text \in Seq(UrlChar \cup HeadChar)
    BY DEF TypeInv, Char
  <2>. QED
    BY <2>2, <2>3, <2>4 DEF TypeInv, TypeOK, ParamsTyped, HeadersTyped, CallTyped
<1>. QED
  BY <1>1, <1>2, <1>3, PTL DEF Spec
==============================================================================
