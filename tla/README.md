# Verification of SnServer

SnServer is a small multi-threaded HTTP echo server in C++11: one thread runs an epoll
reactor, one worker thread turns requests into answers, a third thread writes the log.
This directory holds TLA+ models of it, the TLC runs that check them on small instances,
and proofs of the core's safety properties for every value of the constants. Paths are
relative to `src/SnServer/SnServer/`.

## 1. The system

```
 clients ──► AcceptHandler ─┐                        ┌─────────────────┐
         ──► HttpNormal-    ├─ loop thread ─ SafeQueue ─► worker thread │
         ◄── Handler        ┘  (Reactor,  ◄─ noticeEvents_ + eventfd ───┘
                                 Epoll)
        all threads ── DoubleBufferedQueue ──► log thread ──► LogFile
        SIGINT ──► handler on the main thread: drain the log, exit(0)
```

| component (files) | state | operations | hard part |
|---|---|---|---|
| Request queue (SafeQueue.h) | queue, mutex, two condition variables, capacity | push, pop | notify_one, time-outs, capacity |
| Reactor and Epoll (Reactor, Epoll) | handler map, epoll set, eventSize_, noticeEvents_, eventfd | addHandler, remove, mod, waitEvent, addNoticeEvent, notice handler | a batch of events handled one after the other while handlers change the map; read/swap against append/write |
| AcceptHandler | listening socket | accept, error | reused descriptors, no descriptor left |
| LoopThread | connectionManager_, time wheel | addConnection, removeConnection, pushToQueue, loop | three tables that must agree |
| Sessions and handlers (Session, NormalHandler, HttpHandler) | read and write buffer, contentLength_, half-parsed request | read, write, error event; onRead, onMessage, onWrite | partial reads and writes, closing while answers are under way |
| SnBuffer | bytes, two indices | append, peek, consumHead, read, reset, expand | stale bytes, growth, unsigned size() |
| Worker (MessageProcessThread) | the message it works on | pop, addNoticeEvent, sendback (run by the loop thread) | the answer outlives the connection |
| Log (AsyncLog, DoubleBufferedQueue, SigProcess) | two queues, index_, isCancel_ | put, pop, flush, SIGINT handler | unlocked reads, draining at exit |
| LogFile | FILE and its buffer, size_, flushSize_, names | append, flush, rollFile | what is lost when the process ends, going on with files of an earlier process |
| Timer (TimeWheel, TimeEvent, TimeHandler) | buckets, index_, a timerfd | addSock, resetSock, remove, onTimer; setTime, cancle | stale descriptors in buckets, late ticks |
| HTTP text (HttpParser, HttpRequest, HttpResponse) | the state of a scanner, paths, parameters, headers | parseUrl, parseHttpHeader, serialize | parts cleared by hand, first and last parts, a size that reaches behind the head |
| ProducerConsumerDoubleBuffer | an atomic word, two cells | start/end writing, start/end reading | lock-free; no caller |
| Raft draft (RaftServer.h) | term, vote, log | message handlers | unfinished, does not compile |
| Start-up (SnServer.cpp, TcpServer, Socket) | — | bind, listen, start threads | — |
| Ini file (Inifile) | sections with items and comments | load, save, get, set, delete | comments that change their owner; no caller |
| Thread pool, Connector, LinkList, Url, Env | — | — | no caller |

How they meet: the loop thread calls handlers through `mapHandler_`; handlers call back
into LoopThread and Reactor; the loop thread pushes `MessagePackage`s into the SafeQueue;
the worker binds `sendback` with the session and the answer, appends it to
`noticeEvents_` under `noticeMutex_` and writes the eventfd; the loop thread reads the
eventfd, swaps the list and runs the callbacks. Sessions are shared pointers: an answer
keeps its session alive after the connection is closed and the descriptor has a new owner.

What makes each right: the queue is a bounded FIFO queue that loses no wake-up; the tables
agree after each handler; no event of a batch reaches a missing or foreign handler; no
notice is lost; each connection gets the answers to its own requests, once and in order;
requests are answered, dead connections are released; a message is exactly one request; the
log queue is a FIFO queue and is drained at Ctrl-C; the log's files lose only what was not
written out; idle connections, and no others, are closed; what was written to the ping-pong
buffer is read once and in order; what a text says is what its parser enters.

## 2. Modules

| module | models | runs |
|---|---|---|
| `FifoQueue` | abstract: what a queue promises (Put, Take) | refined by SafeQueue and LogQueue |
| `EchoService` | abstract: what the server promises a client (TakeRequest, GiveAnswers, Close) | refined by SnServer |
| `DurableLog` | abstract: what a log on disk promises (Accept, Write, Close, Open, Lose) | refined by LogFile |
| `SafeQueue`, `MCSafeQueue` | SafeQueue.h | safe_queue |
| `SafeQueueProofs` | theorems about `SafeQueue` | — |
| `SnServer`, `MCSnServer` | reactor, handlers, sessions, worker, clients and kernel | server, server_live |
| `SnServerProofs` | theorems about `SnServer` | — |
| `HttpFraming`, `MCHttpFraming` | SnBuffer's read side and HttpNormalHandler::onRead | http_framing, http_framing_empty |
| `LogQueue`, `MCLogQueue` | DoubleBufferedQueue, AsyncLog, the SIGINT handler | log_queue, log_exit |
| `LogQueueProofs` | theorems about `LogQueue` | — |
| `PingPong`, `MCPingPong` | ProducerConsumerDoubleBuffer | ping_pong |
| `PingPongProofs` | theorems about `PingPong` | — |
| `TimeWheel` | TimeWheel and LoopThread's calls to it | in time_wheel |
| `IdleTimer`, `MCTimeWheel` | TimeWheel turned by TimeEvent and TimeHandler | time_wheel |
| `TimeWheelProofs` | theorems about `TimeWheel` and `IdleTimer` | — |
| `LogFile`, `MCLogFile` | LogFile and PosixWritableFile over starts of the server | log_file |
| `FileProofs` | theorems about `LogFile` and `IniFile` | — |
| `HttpFramingProofs` | theorems about `HttpFraming` | — |
| `HttpHead`, `MCHttpHead` | HttpParser::parseUrl and parseHttpHeader, request after request | http_head |
| `HttpHeadProofs` | theorems about `HttpHead` | — |
| `IniFile`, `MCIniFile` | Inifile.cpp | ini_file |

### SafeQueue

A thread is `idle`, contends (`lock`), holds the mutex (`check`) or sleeps in `wait_for`
(`wait`). One action runs from one scheduling point to the next: `PushCall`, `Lock`,
`PushWait` (full: release and sleep), `PushEmplace` (emplace, notify_one, release), the
same for pop, and `WaitTimeout` for the one-second time-out and spurious wake-ups.
notify_one picks any sleeper. `Fairness` has no time-out: what must happen may not depend
on a wait being cut short. A single push or pop is not promised to return: notify_one may pick
the other sleeper each time. `SomePushReturns` says what is: whenever n pushes have returned
and one is under way, another returns; `ValuePopped` says the same of pops, that
every value queued is taken. Neither relies on the producers coming to an end, as they do in the
model: the next return is promised whatever n is. `MCSafeQueue` has two producers, two consumers and the
capacities 0 (no limit, the one the server uses), 1 and 2; two pushes per producer fill
and overflow these, and both sides have a second thread to be notified wrongly.

### SnServer

| variable | code |
|---|---|
| `table`, `interest`, `signalled` | the kernel: open descriptors, epoll set, eventfd |
| `mapHandler_`, `eventSize_`, `connectionManager_` | the members of that name |
| `sock_`, `readBuffer`, `writeBuffer` | ConnectSession; the read buffer counts pieces of requests, the write buffer holds pieces of answers |
| `batch` | events of the last epoll_wait not dispatched yet |
| `atSwap`, `funcs` | NoticeEventHandler::readHandler between read and swap; the swapped list |
| `queue_`, `noticeEvents_` | the queue and the list the threads share |
| `worker`, `spMessage` | the worker's place and message |
| `peer`, `sent`, `rx`, `full`, `tx`, `listening`, `alive` | clients, sockets, the process |
| `handed` | history: requests pushed to the queue |

`waitEvent` chooses a batch; each `HandlerStep` dispatches one event of it and runs the
whole handler with everything it calls. Two handlers contain a point where the other
thread matters and are split there: the notice handler (read the eventfd; swap under
the mutex; run one callback at a time) and addNoticeEvent (append; write the eventfd and
release). SafeQueue's operations are single steps here, which the refinement
`SafeQueue!ImplementsFifo` justifies. A connection stands for a socket with its session and
handler object; descriptors are reused, connections are not. Abstractions:

- A request has a body and comes in `Parts` pieces. onRead's test leaves out the last four
  bytes, so a request may be handed over when all but its last piece is there; which bytes
  become its text is HttpFraming's subject.
- An answer comes in `AnswerParts` pieces, `Pieces`, in the write buffer (`append`) and in what the client
  received. A write takes any number of pieces, so that it may end inside an answer; a short write
  means that the send buffer is full.
- errorHandler of the listening socket (AcceptHandler.h:41-42) is destroyed by its own
  Reactor::remove and then reads its member `sock_`. The freed memory still holds the number, or another
  thread has been given it: what would be closed then is not modelled.
- The kernel may give a new connection any descriptor that is not open (Linux gives the
  lowest), and dispatches a batch in any order.
- epoll_ctl succeeds. EPOLLERR is reported for a reset connection in every mode.
- A write after FIN and then RST raises SIGPIPE, which nobody ignores: `writeKills` ends
  the process, and liveness properties except that.
- The time wheel is left out: its timer is never registered (LoopThread.cpp:43), so
  nothing reads what addSock, resetSock and remove record.
- Global::cancleFlag is never set: both loops are endless.

`CHECK_DEADLOCK FALSE`: clients may stop for ever, and then the server only waits.

Bounds. `server`: two clients, two descriptors, two and one requests, pipelining. With
two descriptors connections are served together and their descriptors can be swapped
between them; two requests on one connection are needed for order and for
an answer that arrives while another waits to be written, two pieces of an answer for
writes that end inside one. `server_live`: one
descriptor, so the second client can only be served on the first one's descriptor while the
first one's answers may still be on the way; one request each, which the next client's
request and answer are enough to disturb, and a listening socket that may fail. An answer has
two pieces here, too, so that short writes and full sockets occur.

Fairness: `WF` of the loop thread and of the worker (each is one thread in an endless
loop, scheduled by the kernel), and a connected client reads what it was sent (`Drain`;
without it a full socket stays full and nothing is promised). Nothing makes a client
send, finish or connect.

### HttpFraming

One cell stands for four bytes, so that the blank line is one cell and the four bytes
onRead forgets are one cell. The buffer keeps its old content behind `writeIndex_` exactly
as the code does, `blankLine` is strstr, which stops at a zero and not at size(), and
`parse` takes Content-Length from whatever header lines it finds. The content of a message is its body
and one zero byte more (HttpHandler.cpp:46), a cell `Nul`. The model assumes no zero
bytes in requests and no body that contains a blank line.

`http_framing` shows under which cuts the framing is right: bodies are not empty, and no
read ends inside a head (unless it fills the buffer, behind which all is zero) or just
before the last four bytes. Two requests may be read together. Bodies of 1 to 3 cells in a
buffer of 8 make requests that fill the buffer, leave stale heads at other offsets and
force it to grow; five requests let it happen repeatedly. `http_framing_empty` lifts
the first condition and finds the comment of onMessage refuted (section 4). With `SplitHeads`
or with `SplitLast` alone `DeliversTheRequests` fails too: a head that arrives in two reads is
completed with the end of an old one, and a request without its last four bytes is handed
over with stale bytes in their place.
`RequestsArrive` is stated for all but the last `Window - 1` requests: onRead looks
for one request per event, so what was read together with an earlier request waits for the
next event.

### LogQueue

`pop` is split at every access another thread can interleave with: the unlocked test, the
locked swap, the second test with the swap back, the sleep, front/pop, and the append to
the file. The handler's `flush` reads the sizes of the two queues in two steps. `index_` is
never initialised (DoubleBufferedQueue.h:51) and starts as 0 or 1: with any other value the first push
goes outside `queues_`, which has no defined outcome, and no property here speaks of it.
`isFileExsit_` may be false, as LogThread's other constructor allows: then the log
thread ends at once. fwrite_unlocked and fflush may race; `flushFileRacing` lists what can
happen. One read of a deque's size is one step: a torn read could only yield a wrong 0 with
16 queued lines, beyond the bound. Two writers with two lines each: one
line may be in each queue, one in the log thread's hands and one in a put that started
before Ctrl-C. Fairness: every thread runs, and SF of the two lock acquisitions (no thread
is passed over for ever at a mutex); nothing makes anybody log or press Ctrl-C.

### PingPong

Nothing uses ProducerConsumerDoubleBuffer yet, but its protocol is the subtlest of the repository:
one atomic word, split here at each of its loads, additions and the compare-and-exchange.
The word is a number with the code's bits and wraps at `WordSize`; `TypeOK`, which is proved,
says that no addition of a flag ever carries into the next bit. The accesses are taken to be
sequentially consistent: the fetch_sub of end_reading is relaxed, so on a weakly ordered
machine the consumer's read of the cell could be delayed beyond it, which the model does
not show. The consumer's exchange (DoubleBufferedQueue.h:136) compares a flag with 1, never
happens, and so is no action. Six values let every sequence of overwriting, exchanging and
reading the two cells occur several times.

Fairness: the consumer asks again and again (it polls; start_reading returns nullptr when
there is nothing). Nothing makes the producer go on. So `ExchangedIsRead` promises only that a
value is read, or a newer one, once the producer has exchanged its cell. A value that was
written while the consumer counted as a user stays in the active cell until the
producer writes again, which is the effect of line 136 (section 4).

### TimeWheel

All of it runs on the loop thread: the actions are LoopThread's addConnection,
resetConnection (`resetSock`), removeConnection and the timer's tick. LoopThread::init
leaves the registration of the timer commented out, so today only the first three happen
and `index_` stays 0; the module is the component as it would run with the timer.
`age`, `ignored` and `leftover` are history variables. `age` counts the ticks since the last
event of any kind. resetSock leaves an entry that is due at the next tick where it is (TimeWheel.cpp:49-52):
the second disjunct of the action; until the tick or its end the connection is in `ignored`.
A descriptor is in `leftover` as long as an entry is in the wheel that an earlier owner left there.
`OnlyIdleAreClosed` excepts these two, and says of the first that only an event after
`Size - 1` ticks is ignored, `NotTooSoon` that it comes after `Size - 2` intervals at least.

`IdleTimer` adds the timerfd (`left`, `ready`), the handler (`registered`, `cancleFlag_`) and
time: `pass` lets a unit of it pass and expires the timer, `readHandler` turns the wheel and sets
the timer again, or closes it after `cancle`. Between the two any number of units may pass and
other handlers run, so ticks are late by any amount and several expirations become one tick.
`idle` is a history variable that stops counting at `MaxIdle`, beyond which the properties do
not look. Fairness: time passes, and the loop thread gets round to a timer that is ready
(epoll_wait reports it until it is read). Events come or not. What the timer's handler
would do to a batch of events in which a closed connection's event is still to come is
SnServer's subject, where the timer is not registered.

The wheel has the three buckets of the code's default; two descriptors, each reused without
limit, make the state space finite without a bound; with an interval of two units a tick can
come late without coming a whole interval late.

### LogFile

| variable | code |
|---|---|
| `pc` | the log thread in LogThread's constructor (`create`), between lines (`idle`), in appendUnlock (`appended`), in rollFile (`close`, `roll`), with a null FILE (`null`); `ended` without a file, `down` without a process |
| `size_`, `flushSize_` | the members of that name |
| `fileNames_` | the number of names in the vector |
| `file`, `buffer` | the FILE that is open and the bytes in its buffer |
| `disk` | the files and their bytes; a byte of the n-th line is n |
| `day`, `starts`, `lines` | the date, starts of the server, lines appended |

`append` and `appendEnd` are the two halves of appendUnlock, `rollNext`, `rollOpen` and `rollFails`
the loop of rollFile, `rollClose` the end of the old file's FILE; `flush` is AsyncLog::flush
on the main thread and may come between any two of them. stdio may write out any first part of
its buffer when a line is appended. What a flush does in the very middle of an fwrite_unlocked is
left to LogQueue (`flushFileRacing`). The log thread loops for ever, so the process ends by a
signal (`kill`) or by a line written to a null FILE (`appendNull`).

`ImplementsDurableLog` maps the files to `DurableLog`, which knows nothing of sizes, names, days
and starts: files that are only appended to, one at a time, with a tail that waits and is all
that is lost. `CHECK_DEADLOCK FALSE`: after the last line, day and start nothing is left to do.

Bounds: files of four bytes, a flush after more than two, lines of one or two bytes, so that a
file ends with its last line inside or beyond its limit and a flush is due before, at and after
a roll; six lines fill more than two files; three starts on two days let a process go on with a
file of the first or the second, pass over full ones, and begin anew at a change of the date.

### HttpHead

A character stands for its class (letter, delimiter, other special, control, not ASCII);
the scanner's switch has one action per state, which chooses the character it reads, so a
run goes through every text. `HeaderLws` falls through to `HeaderName` as the code does: a
continued line also extends the name. The properties compare with a definition that knows
nothing of states: the parts of a URL between its delimiters, the lines of a head. For
queries that are not lists of `key=value`, and for heads with continued lines, there is no
such definition but the code, and the properties are silent there (`HeadIsEnough`, the
part about where the scanner stops, holds for all).

A behaviour is one connection. Its session keeps one HttpRequest: swap and reset
(HttpRequst.h:110-127) leave out `paths_` and `params_`, so `nextUrl` starts the next
call with all that earlier calls entered, and `nextHead` with the headers of a request that was
not handed over. `pathsBefore`, `paramsBefore` and `headerBefore` remember what was there, and the
properties say what a call adds to it. Eight characters, over all URLs of a connection, have room
for two URLs with a parameter of the same key, twelve for two headers or a refused head and
another; `MaxOdd` limits spaces and characters
that only fail to one, in the first request.

### IniFile

A file is a sequence of lines, each what load makes of it. A comment is a sequence of
lines, because that is where save cuts it. `load` reads line after line (`readLines`); an item
with no section dereferences a null pointer, and a save to a file that cannot be opened writes to
a null FILE; after either nothing is said. Changes are single
calls with comments of one line. Three lines hold a comment, a header and an item, a section
twice, or two items of one key; two calls are a load and a change, whose result
`WhatIsSavedIsRead` saves and reads again in every state; `LoadedIsSaved` compares a file with
what is saved after it was loaded, up to the line where load gives up (`GoodPart`), with
sections, items and comments found line by line, by another definition (`ItemsIn`,
`HeadersIn`, `CommentOn`, `SectionOf`). The parts of the specification have names of their
own (`IniInit`, `IniNext`, `IniSpec`), because `FileProofs` extends this module and `LogFile`.

## 3. Properties

- `SafeQueue`: `NoMissedNotEmpty`, `NoMissedNotFull` (a sleeper implies
  that enough others are on their way), `ImplementsFifo`, `SomePushReturns`, `ValuePopped`.
- `SnServer`: `RegistryConsistent` (kernel and user tables agree, eventSize_ exact),
  `EventsFindTheirHandler` (the unchecked lookup in waitEvent is safe), `NoLostNotice`,
  `OutputArmed`, `AnswersInOrder`, `ImplementsEcho`; with fairness `HandedIsAnswered`,
  `SentIsAnswered`, `ReadingResumes`, `DeadPeerReleased`.
- `HttpFraming`: `DeliversTheRequests`, `BufferHoldsTheRest`, `RequestsArrive`.
- `LogQueue`: `RaceFree`, `ImplementsFifo`, `FlushDrains`, `PutIsLogged`, `FlushEnds`,
  `ExitEnds` (refuted).
- `PingPong`: `CellsApart`, `ReadsInOrder`; with fairness `ExchangedIsRead`.
- `TimeWheel`: `ExpiryIsAge` (an idle connection is closed after three ticks, its entry is
  where its session says), `OnlyIdleAreClosed` (what a stale entry or an ignored event may do, and
  nothing else); `IdleTimer`:
  `NotTooSoon` (late ticks close nobody early) and, with fairness, `IdleIsClosed`.
- `LogFile`: `ImplementsDurableLog`, `FilesInOrder`, `FilesStayBounded`, `LossIsBounded`.
- `HttpHead`: `UrlIsSplit`, and `HeadIsScanned` (`HeadIsEnough`: the scanner never reads behind
  the first empty line; `HeadersAreTheLines`: what it accepts and enters).
- `IniFile`: `WhatIsSavedIsRead`, for comments that carry a flag, and `LoadedIsSaved`.

Every property of a passing run has a slip beside the definition it would corrupt (an
operator whose comment begins "A slip"): with it in place of the definition TLC finds the
property violated. PROJECT.json lists the pairs, and the hazards each property is for.

## 4. Where the code and its comments disagree

1. HttpHandler.cpp:42 and :52 consume the head of a request with an empty body twice: the
   next request is skipped (`http_framing_empty`).
2. SigProcess.cpp:13 exits into the destructor of the AsyncLog, which joins a thread that
   never ends: after Ctrl-C the process hangs (`log_exit`).

Three more without a run of their own.

- test/HttpParserTest.cpp:40 expects 3 paths of the absolute URL in line 21, the segments behind
  the host. HttpParser.cpp:73 ends a segment at every slash: the scheme, the empty segment
  and the host are paths, too, and there are 6. `UrlIsSplit` states, and `UrlCorrect` proves, what the
  code does: all six.
- DoubleBufferedQueue.h:74-76 leaves the exchange to the consumer when it is the last to
  go, but line 136 compares a flag of 8 or 16 with 1: the consumer never exchanges the cells. A
  value written completely while the consumer reads the one before stays unread for ever when the
  producer stops after it. With

      \A n \in 1..MaxWrite :
        <>[](written = n /\ producer = "idle") => <>(read # <<>> /\ read[Len(read)] = n)

  as a further property of `ping_pong` TLC shows just that, with two values; were line 136 to compare
  with `!= 0`, it would find no error.
- NormalHandler.h:23 says that a packet is processed when
  it is complete, but HttpHandler.cpp:39 leaves the four bytes of the blank line out of its sum,
  and a request whose last four bytes have not arrived is processed (`http_framing` with
  `SplitLast` TRUE shows it).

Further observations without a statement in the repository to hold them against: SIGPIPE is
not ignored; a request that was read with an earlier one waits for the next read event; if a
log file cannot be opened, Ctrl-C waits for ever; `TimeWheel::resetSock` and `remove`
leave a descriptor in the bucket that fires next, so with the timer registered a connection
that has just had an event could be closed, or the next owner of its descriptor (section 2, TimeWheel);
the error handler of the listening socket reads a member after it was destroyed;
HttpHandler.cpp:25 searches the blank line up to the first zero byte, in the bytes of earlier
requests too; parseUrl drops a last segment without a question mark and a last empty value;
HttpRequest::reset and swap leave out paths_ and params_, so that a request has the paths and
parameters of all earlier ones of its connection; a log that cannot open its next file
ends the process at the next line (LogFile.cpp:54); an ini file that load gives up on is
overwritten by the next save, a save to a file that cannot be opened ends the
process, an item below `[]` goes through a null pointer, and a comment
of the default section is read back as the comment of what follows it.

## 5. Proofs

`SnServerProofs` proves, for all sets of connections and finite sets of descriptors, all
`Parts` > 1, all `AnswerParts` > 0, all `MaxReq` and both values of the switches, with no assumption but the named ones of
`SnServer`:

| theorem | statement |
|---|---|
| `Invariance` | `Spec => []IndInv` |
| `Typing` | `Spec => []TypeOK` |
| `RegistryIsConsistent` | `Spec => []RegistryConsistent` |
| `EventsAreDispatched` | `Spec => []EventsFindTheirHandler` |
| `NoNoticeIsLost` | `Spec => []NoLostNotice` |
| `OutputIsArmed` | `Spec => []OutputArmed` |
| `AnswersAreInOrder` | `Spec => []AnswersInOrder` |
| `EchoIsImplemented` | `Spec => ImplementsEcho` |

The argument. None of these is inductive alone. `TablesAgree` needs that a connection
which has a descriptor is accepted once (`sock_` is set when it enters `table`) and that a
batch holds at most events the current tables explain; `EventsFindTheirHandler` needs that
handlers change only the descriptor whose event they handle, which is why a callback that
closes a connection in the middle of a batch (the slip `sendbackAtOnce`) breaks it.
`AnswersInOrder` is about one sequence through all stages, `InFlight = funcs ∘
noticeEvents_ ∘ Held ∘ queue_`: the steps between the threads (swap, pop, append)
leave it unchanged, taking a request appends to it, `sendback` removes its head; the lemmas
about `HoldsInOrder` say what appending and removing do to it, for any sequences. `IndInv`
is the conjunction of these parts; the invariance proof has one step per action. The
refinement follows from `AnswersInOrder`: a write gives the next answers of the prefix.

`TimeWheelProofs` proves, for every set of descriptors and every number of buckets,
`Spec => []TypeOK`, `Spec => []ExpiryIsAge` and `Spec => OnlyIdleAreClosed`, and for every
interval of the timer `TimerSpec => NotTooSoon`. The
invariant added is `EntriesAreExplained`: an entry of a bucket belongs to the open
connection whose session names that bucket, or its descriptor was left behind. Without it an
old entry could close any connection. `IgnoredAreDue` adds that no tick has come since an event
that was not recorded. One lemma says what `%` does for two places of the
wheel, one that a new entry, however its buckets were cleaned before, keeps the invariant.
A step of the timer is a step of the wheel or none (`TimerTurnsWheel`), so the wheel's results
hold with it. `NotTooSoon` needs in addition that a connection of age n has been idle
for n - 1 intervals and for what has passed of the present one (`IdleLongEnough`): setting the
timer anew at each tick is what makes the sum right when ticks are late. The same bound says
how late an event must be not to be recorded.

`SafeQueueProofs` proves, for all finite sets of producers and consumers and every capacity,
`Spec => []` of `TypeOK`, `MutexHeldInside`, `NoMissedNotEmpty` and `NoMissedNotFull`, and
`Spec => ImplementsFifo`. The no-missed-wake-up invariants count the threads on their way to
the queue against what is in it, so their steps are about cardinalities: an operation takes
its own thread away and brings the one it notified. `PushHasValue` is added to type the
value a producer pushes.

`LogQueueProofs` proves, for every set of writers, `Spec => []TypeOK`, `Spec => []RaceFree`,
`Spec => ImplementsFifo` and `Spec => []FlushDrains`. Its invariant adds who holds `mutex_` (`MutexHeld`), that a
writer in emplace has chosen the queue that is not read (`WriteSide`) and what the log
thread knows of the queues where it stands (`ReadSide`): it exchanges them only when the one
it reads is empty, so the exchange does not reorder the lines. `FlushDrains` has an invariant of its
own, `DrainInv`: until the file is flushed every queued line is in a queue, in the log thread's
hands, or in the file (`NothingLost`), and a queue the handler found empty gets no line back
that is owed (`OwedGone`), because a writer numbers its lines and queues each once.

`FileProofs` proves of `LogFile`, for every size of files, buffer and lines and every number of starts
and days, `Spec => []` of `TypeOK`, `FilesInOrder`, `FilesStayBounded` and `LossIsBounded`,
and `Spec => ImplementsDurableLog`. The invariant adds that the numbers on disk, then those in
the buffer, are in order, the buffer's behind all others and no line of theirs in another file
(`InOrder`), that `size_` is the size of the open file with what waits for it (`SizesOK`), and
that what waits is no more than `flushSize_` counts (`FlushOK`). A new file may be any that is
not full, so order inside a file cannot follow from names: it follows from lines being
numbered upward and a file being left with nothing waiting (`OpenOK`).

`PingPongProofs` proves, for every number of values, `Spec => []` of `TypeOK`, `CellsApart` and
`ReadsInOrder`. The word is taken apart once (`WordBits`, `BitsOfWord`) and each access becomes
a lemma about one part (`Enter`, `Leave`, `Raise`, `Lower`, `Exchange`). The invariant: the
word counts exactly those who have a cell (`UsersCounted`); the producer's cell is the
active one and its stale copy of the word is still right about that cell
(`ProducerCell`); the consumer's is the other one, full (`ConsumerCell`); a full cell is newer
than what was read and the active one newer than the other (`Newer`). The exchange succeeds only
on the word the producer left without users, so it moves no cell from under the consumer.

`HttpFramingProofs` proves `Spec => []` of `TypeOK`, `DeliversTheRequests` and `BufferHoldsTheRest`,
for bodies of every length but zero, every capacity of a new buffer and any number of requests. It
assumes what the passing run assumes, under names: `Cuts` (bodies are not empty, and reads end
neither inside a head, unless they fill the buffer, nor just before the last four bytes of a request; section 4
says what the code does otherwise) and `Fits` (what a client sends ahead is less than `size_t` can
count, where the longest body is some `B`; 2^64 in the code). The invariant takes the
cells in the buffer from `readIndex_` on and behind them those in the kernel as one function
(`Pending`) and says that it is the requests not delivered, whole and in order
(`Framed`). A client's sending appends a request to it, a read leaves it as it is although peek moves
cells and may double the buffer, and taking a request drops the first one. What
onRead finds in the buffer must be derived from that: `strstr` looks at everything behind
`readIndex_`, stale bytes included, so `ReadEnded` keeps where the last read ended and, when that
is inside a head, that the buffer is zero behind it; `HeadKnown` says that what was parsed in an
earlier event belongs to the request that is now first. `OnReadCases` reduces onRead to three cases:
wait for the head, wait for the body, take the request.

`HttpHeadProofs` proves `Spec => []` of `UrlIsSplit` and `HeadIsScanned`, for URLs and heads of
every length; no assumption is made about the texts beyond those the properties state. For
`HeadIsEnough`, a part of the second, the state of the scanner says how much of an empty line may be
behind it (`StateKnows`). The rest compares what a scanner collects with definitions that cut the
whole text at delimiters (`Pieces`), so the induction over the text is carried by the
scanner's own steps: lemmas say what one more character does to such a cut (`PiecesStay`,
`PiecesCut`, `DelimitedGrows`), and the invariants say of the text read so far which parts have
ended, which one is being read, and that the collected variables are what those parts
say, added to what earlier requests of the connection left in `paths_`, `params_` and
`header_` (`Joined`: a new parameter does not replace an old one).
`UrlInv` has one part per state (`PathHolds`, `QueryHolds` with `ParamsHold`); what it says of parameters
depends on the pairs before having an equals sign, as the property does. `HeadInv` distinguishes
the line being read (`NameHolds`, `ColonHolds`, `LineHolds`) from those that have ended
(`Headers`, of which the last enters only when the next line begins) and holds, as the property
does, while no line is continued. Of a value it knows only that a blank in front may be missing
(`Written`), which trim makes up for (`BlankInFront`). Both invariants were model-checked on
the run's bounds first. `TypeCorrect` holds of continued lines, too: no header is entered
without a name, because a state that leads to check_header is reached only through a token (`HeadTyped`).

`FileProofs` proves of `IniFile`, for all names, keys, values and comments, files of any length
and any number of calls, `IniSpec => []` of `IniTypeOK` and `WhatIsSavedIsRead`, and `IniSpec =>
LoadedIsSaved`. What load and saveas do are loops, so most of it is induction over lines,
sections and items. The library's induction theorems cannot be used (they take an operator as a
parameter); `Inductive` says the same of a set of numbers and follows from `LeastOf`. The
functions `FlattenSeq` and `readLines` are defined by exist for every length and agree on a
common beginning (`FlatExists`, `FlatAgrees`, `ReadExists`, `ReadAgrees`); from there `FlatMore`
and `ReadMore` say what one part and one line more do, and nothing else of the recursion is
needed. `WhatIsSavedIsRead`: reading the lines of a comment, an item, a section and then all
sections, in any order, puts back what was saved (`ReadComments`, `ReadOneItem`, `ReadItems`,
`ReadNamed`, `ReadSaved`). `ReadNamed` needs that no section of that name has been read, which
holds because the names are those of a map. The invariant `IniInv` says that what was loaded and
changed is such that a load reads it back but for an unflagged comment; it was model-checked on
the run's bounds first. `LoadedIsSaved`: by induction over the lines, what has been read is at
each moment what the lines so far say (`Says`: the headers, the items of each section, the
comment that waits, the current section, and that no line is bad), one lemma for each kind of
line (`SaysPlain`, `SaysHeader`, `SaysItem`, `AllReadFail`). It is applied to the file that is
loaded and to the one that is saved, which `ReadSaved` shows to be read as the same sections.

Only model-checked: the liveness properties (`SomePushReturns`, `ValuePopped`, `HandedIsAnswered`,
`SentIsAnswered`, `ReadingResumes`, `DeadPeerReleased`, `RequestsArrive`, `PutIsLogged`,
`FlushEnds`, `ExchangedIsRead`, `IdleIsClosed`), because the prover does not handle ENABLED and
fairness. Every invariant and every action property of the passing runs, and every refinement,
is a theorem.

## 6. Not modelled

Socket options and failing calls of the start-up, the first line of a request and the text
of answers, log levels and the formatting of lines; the ini file's reading of lines into a buffer,
trimming and comment flags, which are string handling without state. The Raft draft does not compile,
has no constructor and sends no message; of the thread pool, Connector, LinkList, Acceptor and Url
nothing is instantiated, so nothing in the repository says how they are to be used. The
move constructor of SnBuffer, SnBufferOld and removeClient have no caller. PROJECT.json gives
the reason for each.

## 7. Plan

Done: SafeQueue, SnServer and LogQueue with their proofs, HttpFraming with its
proof, PingPong, TimeWheel
with IdleTimer and LogFile with their proofs, HttpHead and IniFile with their proofs. What would come next:

1. `IniFile`: values read as numbers and the calls that change comment flags.
2. SnServer with the idle timer registered, if the repository comes to register it: the
   removal of connections by a tick in the middle of a batch of events.
