------------------------------- MODULE IniFile -------------------------------
(***************************************************************************)
(* Reading, changing and writing an ini file (Inifile.cpp): a map of       *)
(* sections, each a comment and a list of items.                           *)
(*                                                                         *)
(* A file is the sequence of its lines, a line is what load makes of it    *)
(* when the blanks around it are trimmed and the comment behind it is cut  *)
(* off.  A comment is a sequence of lines, a line of it a sequence of      *)
(* texts: more than one where load appended to the line.  Names, keys and  *)
(* values contain no comment flag, no bracket and no equal sign.  There is *)
(* one file, which load reads and save (saveas) writes.                    *)
(*                                                                         *)
(* FileProofs extends this module and LogFile, so that the parts of the    *)
(* specification have names of their own: IniInit, IniNext, IniSpec.       *)
(***************************************************************************)
EXTENDS Integers, Sequences, FiniteSets, SequencesExt

CONSTANTS
  Name,       \* names of sections
  Default,    \* the section before the first header, whose name is empty
  Key, Value,
  Text,       \* comments, with a flag in front
  Bare,       \* text without a flag, which is neither an item nor a header
  NoSection,  \* no current section
  NoIniFile,  \* the file that cannot be opened
  MaxLines,   \* bound: lines of the file before the program starts
  MaxOps      \* bound: calls

ASSUME NameAssumption ==
  /\ Default \notin Name
  /\ NoSection \notin Name \cup {Default}
  /\ Bare \notin Text
ASSUME BoundAssumption == MaxLines \in Nat /\ MaxOps \in Nat

VARIABLES
  iniFile,    \* the lines on disk, or NoIniFile
  sections_,
  result,     \* of the last call: RET_OK, RET_ERR or none (undefined behaviour)
  ops         \* calls so far

iniVars == <<iniFile, sections_, result, ops>>

Blank == [kind |-> "blank"]
Junk == [kind |-> "junk"]
Unclosed == [kind |-> "unclosed"]
CommentLine(text) == [kind |-> "comment", text |-> text]
Header(name, behind) == [kind |-> "header", name |-> name, behind |-> behind]
ItemLine(key, value, behind) ==
  [kind |-> "item", key |-> key, value |-> value, behind |-> behind]

\* What may stand behind an item or a header: nothing or a comment.
Behind == {<<>>} \cup {<<t>> : t \in Text}
Line == {Blank, Junk, Unclosed} \cup {CommentLine(<<t>>) : t \in Text}
          \cup {Header(n, b) : n \in Name \cup {Default}, b \in Behind}
          \cup {ItemLine(k, v, b) : k \in Key, v \in Value, b \in Behind}

Comment == Seq(Seq(Text \cup {Bare}) \ {<<>>})
NoComment == <<>>

IniTypeOK ==
  /\ DOMAIN sections_ \subseteq Name \cup {Default}
  /\ \A s \in DOMAIN sections_ :
       /\ sections_[s].comment \in Comment
       /\ \A i \in DOMAIN sections_[s].items :
            LET item == sections_[s].items[i] IN
            item.key \in Key /\ item.value \in Value /\ item.comment \in Comment
  /\ result \in {"RET_OK", "RET_ERR", "none"}
  /\ ops \in 0..MaxOps

\* One more call.  After undefined behaviour there is nothing to say of the program.
Calls ==
  /\ ops < MaxOps
  /\ result # "none"
  /\ ops' = ops + 1

NoSections == [s \in {} |-> 0]
NewSection(comment) == [comment |-> comment, items |-> <<>>]
Item(key, value, comment) == [key |-> key, value |-> value, comment |-> comment]

\* sections_[s] = section.
Put(sections, s, section) ==
  [x \in DOMAIN sections \cup {s} |-> IF x = s THEN section ELSE sections[x]]

IniInit ==
  /\ iniFile \in (UNION {[1..n -> Line] : n \in 0..MaxLines}) \cup {NoIniFile}
  /\ sections_ = NoSections
  /\ result = "RET_OK"
  /\ ops = 0

------------------------------------------------------------------------------
(* load *)

withLine(comment, text) == Append(comment, text)

\* A slip: what stands behind an item or a header is all that is kept.
withBehindOnly(comment, text) == IF text = <<>> THEN comment ELSE <<text>>

\* What stands behind an item or a header is appended to the last line.
withBehind(comment, text) ==
  IF text = <<>> THEN comment
  ELSE IF comment = NoComment THEN <<text>>
  ELSE [comment EXCEPT ![Len(comment)] = @ \o text]

\* The loop of load before line: the sections read, the current one, the comment
\* that waits for an item or a header, and what load returned, if it did.
Reading == [sections |-> Put(NoSections, Default, NewSection(NoComment)),
            section |-> Default, comment |-> NoComment, returned |-> "no"]

Return(r, what) == [r EXCEPT !.returned = what]

\* An empty name leaves no current section; one that is there ends the reading.
readHeader(r, line) ==
  IF line.name = Default
  THEN [r EXCEPT !.section = NoSection, !.comment = withBehind(@, line.behind)]
  ELSE IF line.name \in DOMAIN r.sections THEN Return(r, "RET_ERR")
  ELSE [r EXCEPT !.section = line.name, !.comment = NoComment,
                 !.sections = Put(@, line.name, NewSection(withBehind(r.comment, line.behind)))]

\* A slip: the comment is kept for the next item.
readItemKeepsComment(r, line) ==
  IF r.section = NoSection THEN Return(r, "none")
  ELSE [r EXCEPT !.sections[r.section].items =
                   Append(@, Item(line.key, line.value, withBehind(r.comment, line.behind)))]

\* An item without a current section goes through a null pointer.
readItem(r, line) ==
  IF r.section = NoSection THEN Return(r, "none")
  ELSE [r EXCEPT !.comment = NoComment,
                 !.sections[r.section].items =
                   Append(@, Item(line.key, line.value, withBehind(r.comment, line.behind)))]

readLine(r, line) ==
  IF r.returned # "no" THEN r
  ELSE CASE line.kind = "blank" -> r
         [] line.kind = "comment" -> [r EXCEPT !.comment = withLine(@, line.text)]
         [] line.kind = "junk" -> [r EXCEPT !.comment = NoComment]
         [] line.kind = "unclosed" -> Return(r, "RET_ERR")
         [] line.kind = "header" -> readHeader(r, line)
         [] line.kind = "item" -> readItem(r, line)

readLines(lines) ==
  LET after[n \in 0..Len(lines)] ==
        IF n = 0 THEN Reading ELSE readLine(after[n - 1], lines[n])
  IN after[Len(lines)]

loadedFrom(lines) ==
  LET r == readLines(lines)
  IN IF r.returned = "no" THEN Return(r, "RET_OK") ELSE r

\* What is left of a comment at the end of the file belongs to nothing.  The
\* sections there were are gone, whatever becomes of the reading.
load ==
  /\ Calls
  /\ IF iniFile = NoIniFile
     THEN sections_' = NoSections /\ result' = "RET_ERR"
     ELSE LET r == loadedFrom(iniFile)
          IN sections_' = r.sections /\ result' = r.returned
  /\ UNCHANGED iniFile

------------------------------------------------------------------------------
(* saveas *)

\* A line of a comment is written as it is, with or without a flag.
commentLines(comment) ==
  [i \in 1..Len(comment) |-> IF comment[i][1] = Bare THEN Junk ELSE CommentLine(comment[i])]

itemLines(item) == Append(commentLines(item.comment), ItemLine(item.key, item.value, <<>>))

sectionLines(s, section) ==
  commentLines(section.comment)
    \o (IF s = Default THEN <<>> ELSE <<Header(s, <<>>)>>)
    \o FlattenSeq([i \in 1..Len(section.items) |-> itemLines(section.items[i])])

\* The map is ordered by name: the default section comes first, and the order of
\* the others makes no difference here.
defaultLines(sections) ==
  IF Default \in DOMAIN sections THEN sectionLines(Default, sections[Default]) ELSE <<>>

inOrder(sections) == SetToSeq(DOMAIN sections \ {Default})

namedLines(sections, order) ==
  FlattenSeq([i \in 1..Len(order) |-> sectionLines(order[i], sections[order[i]])])

savedLines(sections) == defaultLines(sections) \o namedLines(sections, inOrder(sections))

\* With a file that cannot be opened for writing the call does not return: fwrite gets
\* the null FILE, and the process ends.
saveas ==
  /\ Calls
  /\ iniFile' = savedLines(sections_)
  /\ result' = "RET_OK"
  /\ UNCHANGED sections_

------------------------------------------------------------------------------
(* Readers *)

hasSection(sections, s) == s \in DOMAIN sections

itemsOf(sections, s) == IF hasSection(sections, s) THEN sections[s].items ELSE <<>>

itemsOfKey(items, key) == SelectSeq(items, LAMBDA item : item.key = key)

\* Where the first item of the key is, 0 for none.
firstOfKey(items, key) == SelectInSeq(items, LAMBDA item : item.key = key)

\* The items of the key, in order: values and comments of getValues.
getValues(sections, s, key) == itemsOfKey(itemsOf(sections, s), key)

hasKey(sections, s, key) == \E i \in DOMAIN itemsOf(sections, s) : itemsOf(sections, s)[i].key = key

\* The first item of the key, in a sequence that is empty for RET_ERR.
getValue(sections, s, key) ==
  LET at == firstOfKey(itemsOf(sections, s), key)
  IN IF at = 0 THEN <<>> ELSE <<itemsOf(sections, s)[at]>>

getSectionComment(sections, s) ==
  IF hasSection(sections, s) THEN <<sections[s].comment>> ELSE <<>>

------------------------------------------------------------------------------
(* Writers *)

\* setValue puts a flag in front of the comment it is given.
Flagged == {NoComment} \cup {<< <<t>> >> : t \in Text}

\* The section is made when it is not there.
setValue(s, key, value, comment) ==
  LET section == IF hasSection(sections_, s) THEN sections_[s] ELSE NewSection(NoComment)
      at == firstOfKey(section.items, key)
      item == Item(key, value, comment)
  IN /\ Calls
     /\ sections_' = Put(sections_, s,
          [section EXCEPT !.items = IF at = 0 THEN Append(@, item) ELSE [@ EXCEPT ![at] = item]])
     /\ result' = "RET_OK"
     /\ UNCHANGED iniFile

\* The comment is taken as it is: it may come without a flag.
setSectionComment(s, comment) ==
  /\ Calls
  /\ IF hasSection(sections_, s)
     THEN sections_' = [sections_ EXCEPT ![s].comment = comment] /\ result' = "RET_OK"
     ELSE UNCHANGED sections_ /\ result' = "RET_ERR"
  /\ UNCHANGED iniFile

\* Only the first item of the key goes.
deleteKey(s, key) ==
  LET at == firstOfKey(itemsOf(sections_, s), key)
  IN /\ Calls
     /\ at # 0
     /\ sections_' = [sections_ EXCEPT ![s].items = RemoveAt(@, at)]
     /\ UNCHANGED <<iniFile, result>>

deleteSection(s) ==
  /\ Calls
  /\ hasSection(sections_, s)
  /\ sections_' = [x \in DOMAIN sections_ \ {s} |-> sections_[x]]
  /\ UNCHANGED <<iniFile, result>>

IniNext ==
  \/ load
  \/ saveas
  \/ \E s \in Name \cup {Default} :
       \/ \E key \in Key, value \in Value, comment \in Flagged : setValue(s, key, value, comment)
       \/ \E comment \in Flagged \cup {<< <<Bare>> >>} : setSectionComment(s, comment)
       \/ \E key \in Key : deleteKey(s, key)
       \/ deleteSection(s)

IniSpec == IniInit /\ [][IniNext]_iniVars

------------------------------------------------------------------------------
(* Properties *)

\* Comments that a reader of the file takes for comments of the same section: a
\* section's comment without a flag is read as a line that cannot be parsed, one
\* of the default section, which has no header to stand before, as the comment
\* of what follows.
Readable ==
  \A s \in DOMAIN sections_ :
    /\ \A i \in DOMAIN sections_[s].comment : sections_[s].comment[i][1] # Bare
    /\ s = Default => sections_[s].comment = NoComment

\* What saveas writes load reads: whatever was loaded, set and deleted before,
\* the saved file is read to its end, and each reader (getValue, getValues,
\* hasKey, hasSection, getSectionComment) answers as it did before it was saved.
WhatIsSavedIsRead ==
  Readable =>
    LET r == loadedFrom(savedLines(sections_))
    IN /\ r.returned = "RET_OK"
       /\ \A s \in Name : /\ hasSection(r.sections, s) = hasSection(sections_, s)
                          /\ getSectionComment(r.sections, s) = getSectionComment(sections_, s)
       /\ \A s \in Name \cup {Default}, key \in Key :
            /\ getValues(r.sections, s, key) = getValues(sections_, s, key)
            /\ getValue(r.sections, s, key) = getValue(sections_, s, key)
            /\ hasKey(r.sections, s, key) = hasKey(sections_, s, key)

------------------------------------------------------------------------------
(* What a file says, line by line *)

IsHeader(line) == line.kind = "header" /\ line.name # Default

TextsOf(line) ==
  CASE line.kind = "comment" -> line.text
    [] line.kind \in {"header", "item"} -> line.behind
    [] OTHER -> <<>>

\* What waits for an item or a header goes to it, or is dropped at a line that
\* cannot be parsed.
Stops(line) == IsHeader(line) \/ line.kind \in {"item", "junk"}

\* Where the last of them is before line i, 0 for nowhere.
lastStop(lines, i) == Max({0} \cup {j \in 1..(i - 1) : Stops(lines[j])})
lastHeader(lines, i) == Max({0} \cup {j \in 1..(i - 1) : IsHeader(lines[j])})

\* The comment on line i: all texts since then.
CommentOn(lines, i) ==
  LET last == lastStop(lines, i)
  IN FlattenSeq([j \in 1..(i - last) |-> TextsOf(lines[last + j])])

\* The header above line i.
SectionOf(lines, i) ==
  LET last == lastHeader(lines, i) IN IF last = 0 THEN Default ELSE lines[last].name

ItemsOn(lines, i, s) ==
  IF lines[i].kind = "item" /\ SectionOf(lines, i) = s
  THEN <<Item(lines[i].key, lines[i].value, CommentOn(lines, i))>>
  ELSE <<>>

ItemsIn(lines, s) == FlattenSeq([i \in 1..Len(lines) |-> ItemsOn(lines, i, s)])

HeadersIn(lines) ==
  {<<lines[i].name, CommentOn(lines, i)>> : i \in {j \in 1..Len(lines) : IsHeader(lines[j])}}

\* A header without its bracket, or the second of its name.
Bad(lines, i) ==
  \/ lines[i].kind = "unclosed"
  \/ IsHeader(lines[i]) /\ \E j \in 1..(i - 1) : IsHeader(lines[j]) /\ lines[j].name = lines[i].name

\* The lines before the first bad one.
GoodPart(lines) ==
  LET bad == {i \in 1..Len(lines) : Bad(lines, i)}
  IN IF bad = {} THEN lines ELSE SubSeq(lines, 1, Min(bad) - 1)

\* A load followed by a save keeps every item, with its section, its comments and
\* its place among the items of the section, and every header with its comments,
\* up to the first header that is bad: from there on all is lost, and RET_ERR says so.
LoadKeeps ==
  load /\ iniFile # NoIniFile /\ result' # "none" =>
    \E read \in {GoodPart(iniFile)}, saved \in {savedLines(sections_')} :
      /\ result' = "RET_OK" <=> read = iniFile
      /\ HeadersIn(saved) = HeadersIn(read)
      /\ \A s \in Name \cup {Default} : ItemsIn(saved, s) = ItemsIn(read, s)
LoadedIsSaved == [][LoadKeeps]_iniVars
==============================================================================
