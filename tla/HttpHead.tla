------------------------------- MODULE HttpHead -------------------------------
(***************************************************************************)
(* The two scanners that read the head of a request: HttpParser::parseUrl  *)
(* and HttpParser::parseHttpHeader.  Each is a loop over the characters of *)
(* its argument with a state; one action here is one iteration.  The       *)
(* characters are chosen as the scanner comes to them, so that all texts   *)
(* are scanned.                                                            *)
(*                                                                         *)
(* A behaviour is one connection: its session keeps one HttpRequest, and   *)
(* what the scanners of later requests find in it depends on what          *)
(* onMessage took out.  parseUrl and parseHttpHeader fill different parts  *)
(* of it, so that a behaviour follows the calls of one of them.            *)
(*                                                                         *)
(* A character stands for the class the scanner puts it in: a letter, the  *)
(* delimiters themselves, "(" for the other special characters, "ctl" for  *)
(* control characters but CR and LF, "high" for those outside ASCII.       *)
(***************************************************************************)
EXTENDS Integers, Sequences, FiniteSets

CONSTANTS
  MaxUrl,    \* bound: characters of a connection's URLs
  MaxHead,   \* bound: characters of a connection's header lines
  MaxOdd     \* bound: odd characters, all of them in the first request

ASSUME LengthAssumption == MaxUrl \in Nat /\ MaxHead \in Nat /\ MaxOdd \in Nat

Token == {"a"}
Special == {"(", ":", " "}
Control == {"CR", "LF", "ctl"}
HeadChar == Token \cup Special \cup Control \cup {"high"}
UrlChar == {"a", "/", "?", "=", "&"}

\* Odd characters are those a text needs few of to reach every case.
Odd == {" ", "(", "ctl", "high"}

VARIABLES
  function,   \* the scanner that runs
  text,       \* the characters it has read
  state,
  path, key, name, value,      \* what it is collecting
  paths_, params_, header_,    \* the request it fills
  result,     \* what it returned, none before
  pathsBefore, paramsBefore, headerBefore,   \* what the request held at the call
  scanned     \* characters the calls before have read

urlVars == <<path, key, paths_, params_>>
headVars == <<name, header_>>
callVars == <<pathsBefore, paramsBefore, headerBefore, scanned>>
vars == <<function, text, state, urlVars, headVars, value, result, callVars>>

UrlState == {"Start", "Path", "ParamKey", "ParamValue"}
HeadState == {"FirstLineStart", "HeaderLineStart", "HeaderLws", "HeaderName",
              "SpaceBeforeHeaderValue", "HeaderValue", "LineFeed", "FinalLineFeed", "Fail"}

\* Names of headers are tokens, values are free of control characters.
TypeOK ==
  /\ <<function, state>> \in ({"parseUrl"} \X UrlState) \cup ({"parseHttpHeader"} \X HeadState)
  /\ text \in Seq(UrlChar \cup HeadChar)
  /\ path \in Seq(UrlChar \ {"/"}) /\ key \in Seq(UrlChar \ {"="})
  /\ value \in Seq((UrlChar \cup HeadChar) \ Control)
  /\ name \in Seq(Token)
  /\ {paths_, pathsBefore} \subseteq Seq(Seq(UrlChar \ {"/"}))
  /\ \A params \in {params_, paramsBefore} : \A k \in DOMAIN params :
       k \in Seq(UrlChar \ {"="}) /\ params[k] \in Seq(UrlChar \ {"&"})
  /\ \A header \in {header_, headerBefore} : \A n \in DOMAIN header :
       n \in Seq(Token) \ {<<>>} /\ header[n] \in Seq(HeadChar \ Control)
  /\ result \in {"none", "true", "false"}
  /\ scanned \in Nat

NoEntries == [x \in {} |-> <<>>]

Init ==
  /\ \/ function = "parseUrl" /\ state = "Start"
     \/ function = "parseHttpHeader" /\ state = "FirstLineStart"
  /\ text = <<>> /\ path = <<>> /\ key = <<>> /\ name = <<>> /\ value = <<>>
  /\ paths_ = <<>> /\ params_ = NoEntries /\ header_ = NoEntries
  /\ result = "none"
  /\ pathsBefore = paths_ /\ paramsBefore = params_ /\ headerBefore = header_
  /\ scanned = 0

------------------------------------------------------------------------------
(* The calls *)

\* The first thing of a call: nothing is read or collected.
Call(start) ==
  /\ state' = start
  /\ text' = <<>> /\ path' = <<>> /\ key' = <<>> /\ name' = <<>> /\ value' = <<>>
  /\ result' = "none"
  /\ pathsBefore' = paths_ /\ paramsBefore' = params_ /\ headerBefore' = header_'
  /\ scanned' = scanned + Len(text)
  /\ UNCHANGED <<function, paths_, params_>>

\* The next request's URL.  HttpRequest::swap and reset leave out paths_ and params_: what
\* earlier requests entered is still there.
nextUrl ==
  /\ function = "parseUrl" /\ result # "none"
  /\ UNCHANGED header_
  /\ Call("Start")

\* The next request's header lines.  A message takes header_ with it; none is made when
\* the head was refused, or its Content-Length is negative.
nextHead ==
  /\ function = "parseHttpHeader" /\ result # "none"
  /\ UNCHANGED header_ \/ (result = "true" /\ header_' = NoEntries)
  /\ Call("FirstLineStart")

------------------------------------------------------------------------------
(* parseUrl *)

\* The iteration that reads c in state s; after the last character it returns.
urlReads(s, c, isLast) ==
  /\ function = "parseUrl" /\ result = "none" /\ state = s
  /\ scanned + Len(text) < MaxUrl
  /\ text' = Append(text, c)
  /\ result' = IF isLast THEN "true" ELSE "none"
  /\ UNCHANGED <<function, headVars, callVars>>

\* std::map::insert: an entry that is there stays.
insert(k, v) ==
  params_' = [x \in DOMAIN params_ \cup {k} |-> IF x \in DOMAIN params_ THEN params_[x] ELSE v]

\* The slash in front is dropped.
Start(c, isLast) ==
  /\ urlReads("Start", c, isLast)
  /\ state' = "Path"
  /\ path' = IF c = "/" THEN path ELSE Append(path, c)
  /\ UNCHANGED <<key, value, paths_, params_>>

\* A slip: the segment before the question mark is forgotten.
PathNoLast(c, isLast) ==
  /\ urlReads("Path", c, isLast)
  /\ \/ /\ c = "/"
        /\ paths_' = Append(paths_, path)
        /\ path' = <<>>
        /\ state' = "Path"
     \/ /\ c # "/"
        /\ path' = IF c = "?" THEN <<>> ELSE Append(path, c)
        /\ state' = IF c = "?" THEN "ParamKey" ELSE "Path"
        /\ UNCHANGED paths_
  /\ UNCHANGED <<key, value, params_>>

\* A segment ends at a slash or at the question mark; the last one of a URL without
\* a question mark never ends.
Path(c, isLast) ==
  /\ urlReads("Path", c, isLast)
  /\ \/ /\ c \in {"/", "?"}
        /\ paths_' = Append(paths_, path)
        /\ path' = <<>>
        /\ state' = IF c = "?" THEN "ParamKey" ELSE "Path"
     \/ /\ c \notin {"/", "?"}
        /\ path' = Append(path, c)
        /\ UNCHANGED <<paths_, state>>
  /\ UNCHANGED <<key, value, params_>>

ParamKey(c, isLast) ==
  /\ urlReads("ParamKey", c, isLast)
  /\ \/ c = "=" /\ state' = "ParamValue" /\ UNCHANGED key
     \/ c # "=" /\ key' = Append(key, c) /\ UNCHANGED state
  /\ UNCHANGED <<path, value, paths_, params_>>

\* The last value is entered with its last character: an empty one is not.
ParamValue(c, isLast) ==
  /\ urlReads("ParamValue", c, isLast)
  /\ \/ /\ c = "&"
        /\ insert(key, value)
        /\ key' = <<>> /\ value' = <<>>
        /\ state' = "ParamKey"
     \/ /\ c # "&"
        /\ value' = Append(value, c)
        /\ IF isLast THEN insert(key, value') ELSE UNCHANGED params_
        /\ UNCHANGED <<key, state>>
  /\ UNCHANGED <<path, paths_>>

\* parseHttpFirstline passes an empty URL on.
emptyUrl ==
  /\ function = "parseUrl" /\ result = "none" /\ text = <<>>
  /\ result' = "true"
  /\ UNCHANGED <<function, text, state, urlVars, headVars, value, callVars>>

parseUrl(c, isLast) ==
  Start(c, isLast) \/ Path(c, isLast) \/ ParamKey(c, isLast) \/ ParamValue(c, isLast)

------------------------------------------------------------------------------
(* parseHttpHeader *)

headScans(s, c) ==
  /\ function = "parseHttpHeader" /\ result = "none" /\ state = s
  /\ scanned + Len(text) < MaxHead
  /\ c \in Odd => scanned = 0 /\ Cardinality({i \in 1..Len(text) : text[i] \in Odd}) < MaxOdd
  /\ text' = Append(text, c)
  /\ UNCHANGED <<function, urlVars, callVars>>

headReads(s, c) == headScans(s, c) /\ UNCHANGED result

trim(s) ==
  LET Ink == {i \in 1..Len(s) : s[i] # " "} IN
  IF Ink = {} THEN <<>>
  ELSE SubSeq(s, CHOOSE i \in Ink : \A j \in Ink : i <= j,
                 CHOOSE i \in Ink : \A j \in Ink : i >= j)

\* The header collected so far is entered; a later one of the same name replaces it.
check_header ==
  header_' = [x \in DOMAIN header_ \cup {trim(name)} |->
                IF x = trim(name) THEN trim(value) ELSE header_[x]]

FirstLineStart(c) ==
  /\ headReads("FirstLineStart", c)
  /\ \/ c = "CR" /\ state' = "FinalLineFeed" /\ UNCHANGED name
     \/ c \in Token /\ state' = "HeaderName" /\ name' = Append(name, c)
     \/ c \notin Token \cup {"CR"} /\ state' = "Fail" /\ UNCHANGED name
  /\ UNCHANGED <<value, header_>>

\* A new line starts with the first character of a name ...
nextHeader(c) ==
  /\ c \in Token
  /\ check_header
  /\ name' = <<c>> /\ value' = <<>>
  /\ state' = "HeaderName"

\* A slip: an empty line is one more line.
lastHeaderGoesOn(c) ==
  /\ c = "CR"
  /\ check_header
  /\ name' = <<>> /\ value' = <<>>
  /\ state' = "LineFeed"

\* ... or is the empty line behind the last header ...
lastHeader(c) ==
  /\ c = "CR"
  /\ check_header
  /\ name' = <<>> /\ value' = <<>>
  /\ state' = "FinalLineFeed"

\* ... or continues the value of the line before.
HeaderLineStart(c) ==
  /\ headReads("HeaderLineStart", c)
  /\ \/ nextHeader(c)
     \/ lastHeader(c)
     \/ c = " " /\ state' = "HeaderLws" /\ UNCHANGED <<name, value, header_>>
     \/ /\ c \notin Token \cup {"CR", " "}
        /\ state' = "Fail" /\ UNCHANGED <<name, value, header_>>

\* case HeaderName, also for what fell through from HeaderLws: a token goes to the
\* name, whichever state it leaves.
scanName(c) ==
  \/ c = ":" /\ state' = "SpaceBeforeHeaderValue" /\ UNCHANGED name
  \/ c \in Token /\ name' = Append(name, c)
       /\ state' = IF state = "HeaderLws" THEN "HeaderValue" ELSE state
  \/ c \notin Token \cup {":"} /\ state' = "Fail" /\ UNCHANGED name

HeaderName(c) ==
  /\ headReads("HeaderName", c)
  /\ scanName(c)
  /\ UNCHANGED <<value, header_>>

\* case HeaderLws has no break: what it takes for the value, case HeaderName scans too.
HeaderLws(c) ==
  /\ headReads("HeaderLws", c)
  /\ value' = IF c \in Control \cup {" "} THEN value ELSE Append(value, c)
  /\ scanName(c)
  /\ UNCHANGED header_

\* A slip: the first character of a value is taken for the space.
SpaceBeforeHeaderValueSkips(c) ==
  /\ headReads("SpaceBeforeHeaderValue", c)
  /\ state' = IF c \in Control THEN "Fail" ELSE "HeaderValue"
  /\ UNCHANGED <<headVars, value>>

SpaceBeforeHeaderValue(c) ==
  /\ headReads("SpaceBeforeHeaderValue", c)
  /\ state' = IF c \in Control THEN "Fail" ELSE "HeaderValue"
  /\ value' = IF c \in Control \cup {" "} THEN value ELSE Append(value, c)
  /\ UNCHANGED headVars

HeaderValue(c) ==
  /\ headReads("HeaderValue", c)
  /\ \/ c = "CR" /\ state' = "LineFeed" /\ UNCHANGED value
     \/ c \in Control \ {"CR"} /\ state' = "Fail" /\ UNCHANGED value
     \/ c \notin Control /\ value' = Append(value, c) /\ UNCHANGED state
  /\ UNCHANGED headVars

LineFeed(c) ==
  /\ headReads("LineFeed", c)
  /\ state' = IF c = "LF" THEN "HeaderLineStart" ELSE "Fail"
  /\ UNCHANGED <<headVars, value>>

FinalLineFeed(c) ==
  /\ headScans("FinalLineFeed", c)
  /\ result' = IF c = "LF" THEN "true" ELSE "false"
  /\ UNCHANGED <<headVars, value, state>>

\* Failure is noticed at the next character.
Fail(c) ==
  /\ headScans("Fail", c)
  /\ result' = "false"
  /\ UNCHANGED <<headVars, value, state>>

\* The text ends before the head does.
endOfText ==
  /\ function = "parseHttpHeader" /\ result = "none"
  /\ result' = "false"
  /\ UNCHANGED <<function, text, state, urlVars, headVars, value, callVars>>

parseHttpHeader(c) ==
  \/ FirstLineStart(c) \/ HeaderLineStart(c)
  \/ HeaderName(c) \/ HeaderLws(c)
  \/ SpaceBeforeHeaderValue(c) \/ HeaderValue(c)
  \/ LineFeed(c) \/ FinalLineFeed(c) \/ Fail(c)

Next ==
  \/ \E c \in UrlChar, isLast \in BOOLEAN : parseUrl(c, isLast)
  \/ emptyUrl
  \/ \E c \in HeadChar : parseHttpHeader(c)
  \/ endOfText
  \/ nextUrl
  \/ nextHead

Spec == Init /\ [][Next]_vars

------------------------------------------------------------------------------
(* Correctness *)

\* The parts of s that end before the positions in S, the first one behind from.
Nth(S, k) == CHOOSE i \in S : Cardinality({j \in S : j <= i}) = k
Pieces(s, from, S) ==
  [k \in 1..Cardinality(S) |->
     SubSeq(s, (IF k = 1 THEN from ELSE Nth(S, k - 1)) + 1, Nth(S, k) - 1)]

PositionsOf(s, c) == {i \in 1..Len(s) : s[i] = c}
First(S, default) == IF S = {} THEN default ELSE CHOOSE i \in S : \A j \in S : i <= j
Last(S) == CHOOSE i \in S : \A j \in S : j <= i

\* The first question mark that is not the first character of the URL.
QueryMark(url) == First(PositionsOf(url, "?") \ {1}, Len(url) + 1)

Segments(url) ==
  LET mark == QueryMark(url)
  IN Pieces(url, IF url[1] = "/" THEN 1 ELSE 0,
            {i \in PositionsOf(url, "/") \ {1} : i < mark} \cup ({mark} \cap 1..Len(url)))

Pairs(url) ==
  LET query == SubSeq(url, QueryMark(url) + 1, Len(url))
  IN Pieces(query, 0, PositionsOf(query, "&") \cup {Len(query) + 1})
EqualAt(pair) == First(PositionsOf(pair, "="), Len(pair))
KeyOf(pair) == SubSeq(pair, 1, EqualAt(pair) - 1)
ValueOf(pair) == SubSeq(pair, EqualAt(pair) + 1, Len(pair))

\* The first n pairs as a function: the first value of a key counts.
Entries(pairs, n) ==
  LET At(k) == First({i \in 1..n : KeyOf(pairs[i]) = k}, 0)
  IN [k \in {KeyOf(pairs[i]) : i \in 1..n} |-> ValueOf(pairs[At(k)])]
ParamsOf(pairs) ==
  LET last == Len(pairs)
  IN Entries(pairs, IF ValueOf(pairs[last]) = <<>> THEN last - 1 ELSE last)

\* What f says, and what g says besides.
Joined(f, g) == [x \in DOMAIN f \cup DOMAIN g |-> IF x \in DOMAIN f THEN f[x] ELSE g[x]]

\* Whatever the URL looks like, and whatever the requests before have left, paths_ gets
\* its segments up to the question mark, all that are followed by a delimiter; if its query
\* is a list of pairs, params_ gets each new key with the first of its values, but for a
\* last pair without value.  A key that an earlier request of the connection had keeps the
\* value it had there.  The scheme and the host of an absolute URL are segments as well,
\* although the parser's test counts only the segments behind them.
UrlIsSplit ==
  function = "parseUrl" /\ result = "true" /\ text # <<>> =>
    /\ paths_ = pathsBefore \o Segments(text)
    /\ LET pairs == Pairs(text) IN
       (\A i \in 1..Len(pairs) - 1 : PositionsOf(pairs[i], "=") # {}) =>
         params_ = Joined(paramsBefore, ParamsOf(pairs))

\* The end: onRead calls parseHttpHeader behind the first line break of a buffer in which it
\* found the first empty line, with a size that counts from the start of the buffer
\* and so reaches behind the head.  The scanner never gets there: at the end of
\* the head it has returned.
HeadIsEnough ==
  LET s == <<"CR", "LF">> \o text
      blank == <<"CR", "LF", "CR", "LF">>
  IN function = "parseHttpHeader" /\ result = "none" =>
       \A i \in 1..Len(s) - 3 : SubSeq(s, i, i + 3) # blank

\* The lines of a head, each with the LF before it, up to the last CR.
Lines(head) == Pieces(<<"LF">> \o head, 0, PositionsOf(<<"LF">> \o head, "CR"))
Colon(line) == First(PositionsOf(line, ":"), 0)
NameOf(line) == SubSeq(line, 2, Colon(line) - 1)
TextOf(line) == SubSeq(line, Colon(line) + 1, Len(line))

IsHeaderLine(line) ==
  /\ line # <<>> /\ line[1] = "LF"
  /\ NameOf(line) \in Seq(Token) \ {<<>>}
  /\ TextOf(line) \in Seq(HeadChar \ Control) \ {<<>>}

IsHead(head) ==
  LET lines == Lines(head) IN
  /\ lines # <<>> /\ lines[Len(lines)] = <<"LF">>
  /\ \A i \in 1..Len(lines) - 1 : IsHeaderLine(lines[i])
  /\ head[Len(head)] = "LF" /\ head[Len(head) - 1] = "CR"

\* The first n lines as a function: the last value of a name counts.
Headers(lines, n) ==
  LET At(x) == Last({i \in 1..n : NameOf(lines[i]) = x})
  IN [x \in {NameOf(lines[i]) : i \in 1..n} |-> trim(TextOf(lines[At(x)]))]
HeadersOf(lines) == Headers(lines, Len(lines) - 1)

\* The headers: unless a line is continued on the next, exactly the lists of lines
\* "name: value" that end with an empty line are accepted, and header_ has each
\* name with the last of its values: nothing of a line leaks into the next, and of the
\* heads before only what no message took is left.
HeadersAreTheLines ==
  /\ function = "parseHttpHeader" /\ result # "none"
  /\ \A i \in 2..Len(text) : text[i] = " " => text[i - 1] # "LF"
  => /\ result = "true" <=> IsHead(text)
     /\ result = "true" => header_ = Joined(HeadersOf(Lines(text)), headerBefore)

\* The scanner reads the head and nothing behind it, and enters what its lines say.
HeadIsScanned == HeadIsEnough /\ HeadersAreTheLines
==============================================================================
