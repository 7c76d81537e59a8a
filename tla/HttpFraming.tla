----------------------------- MODULE HttpFraming -----------------------------
(***************************************************************************)
(* How requests are cut out of the bytes of a connection: the read buffer  *)
(* of the session (SnBuffer, with its indices, its stale bytes and its     *)
(* growth) and HttpNormalHandler::onRead.                                  *)
(*                                                                         *)
(* One cell stands for four bytes.  Request k with a body of n cells is    *)
(*                                                                         *)
(*   line  len(n)  end  body(1) ... body(n)                                *)
(*                                                                         *)
(* the request line, the header lines with Content-Length, the four bytes  *)
(* of the blank line, and the body.  The buffer is zero where nothing was  *)
(* ever written.                                                           *)
(***************************************************************************)
EXTENDS Integers, Sequences

CONSTANTS
  Bodies,       \* the lengths of bodies clients send
  MaxReq,       \* bound: requests sent
  Window,       \* requests a client sends ahead of their delivery
  Capacity,     \* cells of a new buffer
  SizeT,        \* size_t counts modulo this
  SplitHeads,   \* a read may end inside a head
  SplitLast     \* a read may end just before the last four bytes of a request

ASSUME FramingAssumption ==
  /\ Bodies \subseteq Nat
  /\ MaxReq \in Nat /\ Window \in Nat /\ Capacity \in Nat \ {0} /\ SizeT \in Nat \ {0}
  /\ SplitHeads \in BOOLEAN /\ SplitLast \in BOOLEAN

VARIABLES
  lengths,        \* lengths[k]: body of the k-th request sent
  rx,             \* cells received by the kernel and not read
  readBuffer,     \* the session's SnBuffer
  contentLength_, \* of the request whose head was parsed, else -1
  httpRequset_,   \* what parsing has put into the request so far
  delivered       \* the messages handed to the queue

vars == <<lengths, rx, readBuffer, contentLength_, httpRequset_, delivered>>

Kind == {"line", "len", "end", "body"}
Cell == [req : 1..MaxReq, kind : Kind, n : Nat]
Nul == [req |-> 0, kind |-> "nul", n |-> 0]

TypeOK ==
  /\ lengths \in Seq(Bodies)
  /\ rx \in Seq(Cell)
  /\ readBuffer.buffer_ \in Seq(Cell \cup {Nul})
  /\ readBuffer.readIndex_ \in 0..Len(readBuffer.buffer_)
  /\ readBuffer.writeIndex_ \in 0..Len(readBuffer.buffer_)
  /\ contentLength_ \in {-1} \cup Bodies
  /\ httpRequset_ \in [url_ : 0..MaxReq, contentLength_ : Nat]
  /\ delivered \in Seq([url_ : 0..MaxReq, content_ : Seq(Cell \cup {Nul})])

NewRequest == [url_ |-> 0, contentLength_ |-> 0]

Init ==
  /\ lengths = <<>>
  /\ rx = <<>>
  /\ readBuffer = [buffer_ |-> [i \in 1..Capacity |-> Nul],
                   readIndex_ |-> 0, writeIndex_ |-> 0]
  /\ contentLength_ = -1
  /\ httpRequset_ = NewRequest
  /\ delivered = <<>>

HeadOf(k, n) == << [req |-> k, kind |-> "line", n |-> 0],
                   [req |-> k, kind |-> "len", n |-> n],
                   [req |-> k, kind |-> "end", n |-> 0] >>
BodyOf(k, n) == [i \in 1..n |-> [req |-> k, kind |-> "body", n |-> i]]

------------------------------------------------------------------------------
(* SnBuffer *)

size(b) == (b.writeIndex_ - b.readIndex_) % SizeT
getRemainSize(b) == Len(b.buffer_) - b.writeIndex_

\* The i-th cell of getReadbuffer(), which nothing limits to size().
At(b, i) ==
  IF b.readIndex_ + i < Len(b.buffer_) THEN b.buffer_[b.readIndex_ + i + 1] ELSE Nul

expand(b) == [b EXCEPT !.buffer_ = @ \o [i \in 1..Len(@) |-> Nul]]

\* A slip: a full buffer stays full.
peekFull(b, cells) ==
  [b EXCEPT !.buffer_ = [i \in 1..Len(@) |->
                           IF i - b.writeIndex_ \in 1..Len(cells)
                           THEN cells[i - b.writeIndex_] ELSE @[i]],
            !.writeIndex_ = @ + Len(cells)]

\* read() has put cells behind what was there, and peek counts them.
peek(b, cells) ==
  LET filled == [b EXCEPT !.buffer_ = [i \in 1..Len(@) |->
                                         IF i - b.writeIndex_ \in 1..Len(cells)
                                         THEN cells[i - b.writeIndex_] ELSE @[i]],
                          !.writeIndex_ = @ + Len(cells)]
  IN IF getRemainSize(filled) = 0 THEN expand(filled) ELSE filled

\* A slip: whatever is behind the request is thrown away with it.
consumAll(b, n) == [b EXCEPT !.readIndex_ = 0, !.writeIndex_ = 0]

\* Also the effect of read(), which copies the cells before.
consumHead(b, n) ==
  IF b.readIndex_ + n = b.writeIndex_
  THEN [b EXCEPT !.readIndex_ = 0, !.writeIndex_ = 0]
  ELSE [b EXCEPT !.readIndex_ = @ + n]

------------------------------------------------------------------------------
(* HttpNormalHandler::onRead *)

\* strstr(buffer, "\r\n\r\n"): it stops at the first zero, not at size().
IsBlankLine(b, i) ==
  At(b, i).kind = "end" /\ \A j \in 0..i-1 : At(b, j).kind \notin {"end", "nul"}
blankLine(b) ==
  IF \E i \in 0..Len(b.buffer_) : IsBlankLine(b, i)
  THEN CHOOSE i \in 0..Len(b.buffer_) : IsBlankLine(b, i)
  ELSE -1

\* The first line goes up to the first line break; the header lines follow it.
firstLine(b, end) ==
  CHOOSE i \in 0..end :
    At(b, i).kind # "body" /\ \A j \in 0..i-1 : At(b, j).kind = "body"
headers(b, end) == {At(b, i) : i \in firstLine(b, end) + 1 .. end - 1}

\* parseHttpHeader accepts header lines only.
headerParses(b, end) == \A cell \in headers(b, end) : cell.kind = "len"

parse(b, end, req) ==
  [url_ |-> IF At(b, 0).kind = "line" THEN At(b, 0).req ELSE 0,
   contentLength_ |-> IF headers(b, end) # {} /\ headerParses(b, end)
                      THEN (CHOOSE cell \in headers(b, end) : TRUE).n
                      ELSE req.contentLength_]

Keep(b, cl, req) ==
  [buffer |-> b, contentLength |-> cl, request |-> req, message |-> <<>>]

\* A slip: the session stays in the middle of a request that is complete.
onMessageNoReset(b, cl, req, content) ==
  [buffer |-> b, contentLength |-> cl, request |-> req,
   message |-> << [url_ |-> req.url_, content_ |-> content] >>]

\* The message takes the request over and leaves a new one.
onMessage(b, cl, req, content) ==
  [buffer |-> b, contentLength |-> -1, request |-> NewRequest,
   message |-> << [url_ |-> req.url_, content_ |-> content] >>]

\* The body follows the blank line, which is counted in both calls of consumHead when
\* the body is empty.  content_ is one byte longer than the body and ends with a zero.
takeRequest(b, end, cl, req) ==
  LET rest == consumHead(b, end + 1)
      content == Append([i \in 1..req.contentLength_ |-> At(rest, i - 1)], Nul)
  IN IF cl > 0 THEN onMessage(consumHead(rest, req.contentLength_), cl, req, content)
     ELSE IF cl = 0 THEN onMessage(consumHead(rest, end + 1), cl, req, <<>>)
     ELSE Keep(rest, cl, req)

\* A slip: the body is not waited for.
isCompleteHead(b, end, req) == end <= size(b)

\* The blank line itself is missing in the sum that is compared with size().
isComplete(b, end, req) == req.contentLength_ + end <= size(b)

onRead(b, cl, req) ==
  LET end == blankLine(b)
      parsed == IF cl < 0 THEN parse(b, end, req) ELSE req
      length == IF cl < 0 /\ headerParses(b, end) THEN parsed.contentLength_ ELSE cl
  IN IF end < 0 THEN Keep(b, cl, req)
     ELSE IF isComplete(b, end, parsed) THEN takeRequest(b, end, length, parsed)
     ELSE Keep(b, length, parsed)

------------------------------------------------------------------------------
Send ==
  /\ Len(lengths) < MaxReq
  /\ Len(lengths) < Len(delivered) + Window
  /\ \E n \in Bodies :
       /\ lengths' = Append(lengths, n)
       /\ rx' = rx \o HeadOf(Len(lengths) + 1, n) \o BodyOf(Len(lengths) + 1, n)
  /\ UNCHANGED <<readBuffer, contentLength_, httpRequset_, delivered>>

\* Where a read may end: rest is what stays in the kernel.  One that fills the
\* buffer may also end inside a head: what follows it in the buffer is zero.
MayEnd(n) ==
  n < Len(rx) =>
    LET next == rx[n + 1] IN
    CASE next.kind = "line" -> TRUE
      [] next.kind = "body" -> SplitLast \/ next.n # lengths[next.req]
      [] OTHER -> SplitHeads \/ n = getRemainSize(readBuffer)

\* NormalEventHandler::readHandler with n cells read.
readHandler ==
  \E n \in 1..Len(rx) :
    /\ n <= getRemainSize(readBuffer)
    /\ MayEnd(n)
    /\ \E b \in {peek(readBuffer, SubSeq(rx, 1, n))} :
       \E result \in {onRead(b, contentLength_, httpRequset_)} :
         /\ readBuffer' = result.buffer
         /\ contentLength_' = result.contentLength
         /\ httpRequset_' = result.request
         /\ delivered' = delivered \o result.message
    /\ rx' = SubSeq(rx, n + 1, Len(rx))
    /\ UNCHANGED lengths

Next == Send \/ readHandler

Spec == Init /\ [][Next]_vars

\* Clients go on sending and the loop thread goes on reading.
FairSpec == Spec /\ WF_vars(Send) /\ WF_vars(readHandler)

------------------------------------------------------------------------------
(* Correctness *)

\* The messages handed over are the requests sent, in their order, each with its
\* own body: no stale byte, no byte of a neighbour, nothing skipped or repeated,
\* however the reads cut the stream and whatever earlier requests left behind.  A body
\* ends with a zero, so that it can be read as a string.
ContentOf(k, n) == IF n > 0 THEN Append(BodyOf(k, n), Nul) ELSE <<>>
DeliversTheRequests ==
  /\ Len(delivered) <= Len(lengths)
  /\ \A k \in 1..Len(delivered) :
       delivered[k] = [url_ |-> k, content_ |-> ContentOf(k, lengths[k])]

\* Between two events the buffer holds exactly the bytes that were read and belong
\* to no message yet: the indices bound them, and nothing is consumed too early or
\* left behind.  There is room behind them: asked for 0 bytes, read() would return 0
\* and the client would seem to have gone.
Cells(s) == {s[i] : i \in DOMAIN s}
Undelivered ==
  UNION {Cells(HeadOf(k, lengths[k]) \o BodyOf(k, lengths[k])) :
           k \in Len(delivered) + 1 .. Len(lengths)}
BufferHoldsTheRest ==
  /\ {At(readBuffer, i) : i \in 0 .. size(readBuffer) - 1} = Undelivered \ Cells(rx)
  /\ getRemainSize(readBuffer) > 0

\* Every request is handed over when the next ones arrive; as onRead looks for one
\* request per read event, the last Window - 1 may wait for ever.
RequestsArrive ==
  \A k \in 1..MaxReq :
    (Len(lengths) >= k + Window - 1 /\ rx = <<>>) ~> (Len(delivered) >= k)
==============================================================================
