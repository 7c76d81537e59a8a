------------------------------- MODULE SnServer -------------------------------
(***************************************************************************)
(* The running server: one loop thread (LoopThread, Reactor, Epoll,        *)
(* AcceptHandler, HttpNormalHandler) and one worker (MessageProcessThread) *)
(* as TcpServer::run starts them, the clients and the kernel around them.  *)
(*                                                                         *)
(*   client --rx--> readBuffer --queue_--> worker                          *)
(*   client <--tx-- writeBuffer <--noticeEvents_, eventfd-- worker         *)
(*                                                                         *)
(* The loop thread alone touches connections; the two threads meet in      *)
(* queue_ (SafeQueue, whose operations are atomic: module SafeQueue shows  *)
(* it), in noticeEvents_ under noticeMutex_, and in the eventfd.           *)
(*                                                                         *)
(* A connection stands for one accepted socket with its ConnectSession and *)
(* its handler object; descriptors are reused, connections are not.        *)
(* Requests have a body and arrive in Parts pieces; which bytes onRead     *)
(* takes for a request is the subject of module HttpFraming.  An answer    *)
(* has AnswerParts pieces, and a write may end between any two of them.    *)
(***************************************************************************)
EXTENDS Integers, Sequences, FiniteSets

CONSTANTS
  Conn,          \* connections clients may open
  Fd,            \* descriptors the kernel has for accepted sockets
  EventFd,       \* the reactor's eventfd
  ListenFd,      \* the listening socket
  NoFd, NoConn,
  Parts,         \* pieces in which a request arrives
  AnswerParts,   \* pieces in which an answer may be written
  MaxReq,        \* bound: MaxReq[c] requests are sent by client c
  Pipelining,    \* a client may send before the last answer is back
  ListenFaults   \* the listening socket may fail

ASSUME FdAssumption ==
  /\ IsFiniteSet(Fd)
  /\ NoFd \notin Fd
  /\ EventFd \notin Fd
  /\ ListenFd \notin Fd
  /\ EventFd # ListenFd
ASSUME ConnAssumption == NoConn \notin Conn
ASSUME BoundAssumption ==
  /\ Parts \in Nat \ {0, 1}
  /\ AnswerParts \in Nat \ {0}
  /\ MaxReq \in [Conn -> Nat]
  /\ Pipelining \in BOOLEAN
  /\ ListenFaults \in BOOLEAN

VARIABLES
  \* The client's end and the socket of each connection.
  peer,               \* none, open, fin (closed), rst (reset), finrst (both)
  sent,               \* pieces sent by the client
  rx,                 \* pieces received by the kernel and not read yet
  full,               \* the socket's send buffer is full
  tx,                 \* the pieces of answers written to the socket
  \* Kernel tables.
  table,              \* table[f]: the connection open descriptor f stands for
  interest,           \* the epoll set: none, R (EPOLLIN) or W (EPOLLOUT)
  signalled,          \* the eventfd's counter is not zero
  listening,          \* ok, failed (EPOLLERR pending) or closed
  \* The loop thread: Reactor, Epoll, LoopThread, ConnectSession.
  mapHandler_,        \* the handler registered for a descriptor
  eventSize_,         \* how many events one epoll_wait may return
  connectionManager_, \* the session kept for a descriptor
  sock_,              \* sock_[c]: the descriptor c's session was created with
  readBuffer,         \* size() of the read buffer, in pieces
  writeBuffer,        \* the pieces of answers waiting in the write buffer
  handed,             \* how many requests of c were pushed to the queue
  batch,              \* events of the last epoll_wait not dispatched yet
  atSwap,             \* NoticeEventHandler is between read() and swap()
  funcs,              \* the callbacks it swapped out and has not run yet
  \* Shared by the two threads.
  queue_,             \* LoopThread::spQueue_
  noticeEvents_,      \* sendbacks bound by the worker
  \* The worker.
  worker,             \* pop, add (answer ready) or notify (noticeMutex_ held)
  spMessage,          \* the message it works on
  alive               \* no signal has killed the process

clientVars == <<peer, sent, full>>
socketVars == <<rx, tx>>
kernelVars == <<table, interest>>
registryVars == <<mapHandler_, eventSize_, connectionManager_>>
sessionVars == <<sock_, readBuffer, writeBuffer, handed>>
loopVars == <<batch, atSwap, funcs>>
noticeVars == <<noticeEvents_, signalled>>
workerVars == <<worker, spMessage>>
vars == <<clientVars, socketVars, kernelVars, listening, registryVars, sessionVars,
          loopVars, queue_, noticeVars, workerVars, alive>>

\* Request n of connection c, and its answer; or the n-th of all the pieces of the
\* answers to the requests of c.
Message == Conn \X (Nat \ {0})
NoMessage == <<NoConn, 0>>

\* What epoll_wait returns, with the connection it was returned for.
Event == (Fd \cup {EventFd, ListenFd}) \X {"in", "out", "err"}
           \X (Conn \cup {NoConn})

SocketTypeOK ==
  /\ peer \in [Conn -> {"none", "open", "fin", "rst", "finrst"}]
  /\ sent \in [Conn -> Nat]
  /\ rx \in [Conn -> Nat]
  /\ full \in [Conn -> BOOLEAN]
  /\ tx \in [Conn -> Seq(Message)]

RegistryTypeOK ==
  /\ table \in [Fd -> Conn \cup {NoConn}]
  /\ interest \in [Fd -> {"none", "R", "W"}]
  /\ mapHandler_ \in [Fd -> Conn \cup {NoConn}]
  /\ connectionManager_ \in [Fd -> Conn \cup {NoConn}]
  /\ eventSize_ \in Int

SessionTypeOK ==
  /\ sock_ \in [Conn -> Fd \cup {NoFd}]
  /\ readBuffer \in [Conn -> Int]
  /\ writeBuffer \in [Conn -> Seq(Message)]
  /\ handed \in [Conn -> Nat]

ThreadTypeOK ==
  /\ batch \subseteq Event
  /\ funcs \in Seq(Message)
  /\ queue_ \in Seq(Message)
  /\ noticeEvents_ \in Seq(Message)
  /\ spMessage \in Message \cup {NoMessage}
  /\ worker \in {"pop", "add", "notify"}

FlagTypeOK ==
  /\ signalled \in BOOLEAN
  /\ listening \in {"ok", "failed", "closed"}
  /\ atSwap \in BOOLEAN
  /\ alive \in BOOLEAN

TypeOK ==
  SocketTypeOK /\ RegistryTypeOK /\ SessionTypeOK /\ ThreadTypeOK /\ FlagTypeOK

\* TcpServer::run: the socket listens, and no client has come.
ListenInit ==
  /\ listening = "ok"
  /\ peer = [c \in Conn |-> "none"]
  /\ sent = [c \in Conn |-> 0]
  /\ rx = [c \in Conn |-> 0]
  /\ full = [c \in Conn |-> FALSE]
  /\ tx = [c \in Conn |-> <<>>]

\* Reactor's constructor registers the eventfd, which nobody has written, and init the
\* listening socket (the timer's addHandler is commented out).
ReactorInit ==
  /\ interest = [f \in Fd |-> "none"]
  /\ mapHandler_ = [f \in Fd |-> NoConn]
  /\ eventSize_ = 2
  /\ signalled = FALSE
  /\ noticeEvents_ = <<>>

LoopInit ==
  /\ table = [f \in Fd |-> NoConn]
  /\ connectionManager_ = [f \in Fd |-> NoConn]
  /\ batch = {}
  /\ atSwap = FALSE
  /\ funcs = <<>>

\* A session is created for a descriptor by accept, with both buffers empty.
SessionInit ==
  /\ sock_ = [c \in Conn |-> NoFd]
  /\ readBuffer = [c \in Conn |-> 0]
  /\ writeBuffer = [c \in Conn |-> <<>>]
  /\ handed = [c \in Conn |-> 0]

\* The worker is given the loop thread's queue.
WorkerInit ==
  /\ queue_ = <<>>
  /\ worker = "pop"
  /\ spMessage = NoMessage
  /\ alive = TRUE

Init == ListenInit /\ ReactorInit /\ LoopInit /\ SessionInit /\ WorkerInit

Reset(c) == peer[c] \in {"rst", "finrst"}
Closed(c) == sock_[c] # NoFd /\ table[sock_[c]] # c

------------------------------------------------------------------------------
(* Clients and the kernel.  A client connects, sends its requests piece by  *)
(* piece, reads what was sent to it, and closes or resets at any time.      *)

serverVars == <<kernelVars, registryVars, sessionVars, loopVars, queue_, noticeVars,
                workerVars, alive>>

Connect(c) ==
  /\ peer[c] = "none"
  /\ listening = "ok"
  /\ peer' = [peer EXCEPT ![c] = "open"]
  /\ UNCHANGED <<sent, full, socketVars, listening, serverVars>>

\* The answers the client has completely.
Received(c) == Len(tx[c]) \div AnswerParts

SendPart(c) ==
  /\ peer[c] = "open"
  /\ sent[c] < MaxReq[c] * Parts
  /\ Pipelining \/ sent[c] < (Received(c) + 1) * Parts
  /\ sent' = [sent EXCEPT ![c] = @ + 1]
  /\ rx' = [rx EXCEPT ![c] = @ + 1]
  /\ UNCHANGED <<peer, full, tx, listening, serverVars>>

Drain(c) ==
  /\ full[c]
  /\ full' = [full EXCEPT ![c] = FALSE]
  /\ UNCHANGED <<peer, sent, socketVars, listening, serverVars>>

Finish(c) ==
  /\ peer[c] = "open"
  /\ peer' = [peer EXCEPT ![c] = "fin"]
  /\ UNCHANGED <<sent, full, socketVars, listening, serverVars>>

Abort(c) ==
  /\ peer[c] \in {"open", "fin"}
  /\ ~Closed(c)
  /\ peer' = [peer EXCEPT ![c] = IF @ = "fin" THEN "finrst" ELSE "rst"]
  /\ UNCHANGED <<sent, full, socketVars, listening, serverVars>>

ListenFails ==
  /\ ListenFaults
  /\ listening = "ok"
  /\ listening' = "failed"
  /\ UNCHANGED <<clientVars, socketVars, serverVars>>

ClientStep(c) == Connect(c) \/ SendPart(c) \/ Drain(c) \/ Finish(c) \/ Abort(c)

------------------------------------------------------------------------------
(* Epoll::waitEvent.  The events of one epoll_wait are dispatched one after *)
(* the other, in the kernel's order (any order here); EPOLLERR hides the    *)
(* other events of its descriptor.                                          *)

Backlog == {c \in Conn : peer[c] # "none" /\ sock_[c] = NoFd}

ReadyAt(f) ==
  LET c == table[f] IN
  IF interest[f] = "none" THEN {}
  ELSE IF Reset(c) THEN {<<f, "err", c>>}
  ELSE IF interest[f] = "R" /\ (rx[c] > 0 \/ peer[c] = "fin") THEN {<<f, "in", c>>}
  ELSE IF interest[f] = "W" /\ ~full[c] THEN {<<f, "out", c>>}
  ELSE {}

ConnectionEvents == UNION {ReadyAt(f) : f \in Fd}

NoticeEvents == IF signalled THEN {<<EventFd, "in", NoConn>>} ELSE {}

ListenEvents ==
  IF listening = "failed" THEN {<<ListenFd, "err", NoConn>>}
  ELSE IF listening = "ok" /\ Backlog # {} THEN {<<ListenFd, "in", NoConn>>}
  ELSE {}

Ready == ConnectionEvents \cup NoticeEvents \cup ListenEvents

\* Between two handlers: nothing of the last event is left to do.
AtDispatch == alive /\ ~atSwap /\ funcs = <<>>

waitEvent ==
  /\ AtDispatch
  /\ batch = {}
  /\ batch' \in SUBSET Ready \ {{}}
  /\ \/ Cardinality(batch') = eventSize_
     \/ batch' = Ready /\ Cardinality(Ready) <= eventSize_
  /\ UNCHANGED <<clientVars, socketVars, kernelVars, listening, registryVars, sessionVars,
                 atSwap, funcs, queue_, noticeVars, workerVars, alive>>

\* Event e is the next one the loop over vecEvents reaches.
Dispatch(e) ==
  /\ AtDispatch
  /\ e \in batch
  /\ batch' = batch \ {e}

------------------------------------------------------------------------------
(* Reactor and LoopThread operations on a connection *)

\* A descriptor new to the epoll set is counted.
addEvent(f) ==
  /\ interest' = [interest EXCEPT ![f] = "R"]
  /\ eventSize_' = eventSize_ + 1

\* EPOLL_CTL_DEL: a descriptor that is not in the epoll set is not counted down.
removeEvent(f) ==
  /\ interest' = [interest EXCEPT ![f] = "none"]
  /\ eventSize_' = IF interest[f] # "none" THEN eventSize_ - 1 ELSE eventSize_

\* EPOLL_CTL_MOD: one that is not in it is refused.
modEvent(f, event) ==
  interest' = IF interest[f] # "none" THEN [interest EXCEPT ![f] = event] ELSE interest

\* A descriptor that already has a handler gets the new one and is only modified.
addHandler(f, c) ==
  /\ mapHandler_' = [mapHandler_ EXCEPT ![f] = c]
  /\ IF mapHandler_[f] = NoConn
     THEN addEvent(f)
     ELSE modEvent(f, "R") /\ UNCHANGED eventSize_

\* The session of c, created with the descriptor accept returned.
newSession(c, f) == sock_' = [sock_ EXCEPT ![c] = f]

addConnection(f, c) == connectionManager_' = [connectionManager_ EXCEPT ![f] = c]

remove(f) ==
  /\ mapHandler_' = [mapHandler_ EXCEPT ![f] = NoConn]
  /\ IF mapHandler_[f] # NoConn THEN removeEvent(f) ELSE UNCHANGED <<interest, eventSize_>>

\* ConnectSession::close gives the descriptor back to the kernel.
close(f) == table' = [table EXCEPT ![f] = NoConn]

\* A slip: the session is closed and forgotten, its handler is not.
removeKeepsHandler(c) ==
  LET f == sock_[c] IN
  /\ table' = [table EXCEPT ![f] = NoConn]
  /\ interest' = [interest EXCEPT ![f] = "none"]
  /\ connectionManager_' = [connectionManager_ EXCEPT ![f] = NoConn]
  /\ UNCHANGED <<mapHandler_, eventSize_>>

\* remove, then close and erase of the session kept for the descriptor.
removeConnection(c) ==
  LET f == sock_[c] IN
  /\ remove(f)
  /\ IF connectionManager_[f] # NoConn THEN close(f) ELSE UNCHANGED table
  /\ connectionManager_' = [connectionManager_ EXCEPT ![f] = NoConn]

\* Reactor::mod, by number: whoever has descriptor f now.
mod(f, event) == IF mapHandler_[f] # NoConn THEN modEvent(f, event) ELSE UNCHANGED interest

------------------------------------------------------------------------------
(* AcceptHandler *)

\* A slip: the closed listening socket stays counted in eventSize_.
acceptErrorMiscounts(e) ==
  /\ e[1] = ListenFd /\ e[2] = "err"
  /\ Dispatch(e)
  /\ listening' = "closed"
  /\ UNCHANGED <<clientVars, socketVars, kernelVars, registryVars,
                 sessionVars, atSwap, funcs, queue_, noticeVars, workerVars, alive>>

\* The kernel gives the new connection a descriptor that is not open.
acceptRead(e) ==
  /\ e[1] = ListenFd /\ e[2] = "in"
  /\ Dispatch(e)
  /\ \E c \in Backlog, f \in {g \in Fd : table[g] = NoConn} :
       /\ table' = [table EXCEPT ![f] = c]
       /\ newSession(c, f)
       /\ addConnection(f, c)
       /\ addHandler(f, c)
  /\ UNCHANGED <<clientVars, socketVars, listening, readBuffer, writeBuffer, handed,
                 atSwap, funcs, queue_, noticeVars, workerVars, alive>>

\* No descriptor is left: accept fails with EMFILE and the handler returns.
acceptFails(e) ==
  /\ e[1] = ListenFd /\ e[2] = "in"
  /\ Dispatch(e)
  /\ \A f \in Fd : table[f] # NoConn
  /\ UNCHANGED <<clientVars, socketVars, kernelVars, listening, registryVars, sessionVars,
                 atSwap, funcs, queue_, noticeVars, workerVars, alive>>

\* The handler closes the listening socket behind Reactor::remove, which has destroyed the
\* handler itself: the map held its last pointer.  close() gets the number from freed
\* memory, where it still is unless another thread has been given that memory in between;
\* what such a thread may have written there is not modelled.
acceptError(e) ==
  /\ e[1] = ListenFd /\ e[2] = "err"
  /\ Dispatch(e)
  /\ listening' = "closed"
  /\ eventSize_' = eventSize_ - 1
  /\ UNCHANGED <<clientVars, socketVars, kernelVars, mapHandler_, connectionManager_,
                 sessionVars, atSwap, funcs, queue_, noticeVars, workerVars, alive>>

------------------------------------------------------------------------------
(* NormalEventHandler and HttpNormalHandler: the three events of a connection *)

\* The request at the front of the read buffer, of size() size, is taken out of it
\* and pushed to the queue.
onMessage(c, size) ==
  /\ size >= Parts - 1
  /\ readBuffer' = [readBuffer EXCEPT ![c] = size - Parts]
  /\ handed' = [handed EXCEPT ![c] = @ + 1]
  /\ queue_' = Append(queue_, <<c, handed[c] + 1>>)

notComplete(c, size) ==
  /\ size < Parts
  /\ readBuffer' = [readBuffer EXCEPT ![c] = size]
  /\ UNCHANGED <<handed, queue_>>

\* read() returned n pieces and onRead looks at the buffer once: it hands over at
\* most one request, all of it, or (the last four bytes are not counted) all but its
\* last piece.
onRead(c, n) ==
  \/ onMessage(c, readBuffer[c] + n)
  \/ notComplete(c, readBuffer[c] + n)

readData(e) ==
  /\ e[1] \in Fd /\ e[2] = "in"
  /\ Dispatch(e)
  /\ LET c == mapHandler_[e[1]]
         k == table[e[1]]
     IN \E n \in 1..rx[k] :
          /\ rx' = [rx EXCEPT ![k] = @ - n]
          /\ onRead(c, n)
  /\ UNCHANGED <<clientVars, tx, kernelVars, listening, registryVars, sock_, writeBuffer,
                 atSwap, funcs, noticeVars, workerVars, alive>>

\* A slip: end of file taken for EAGAIN.
readEndIgnored(e) ==
  /\ e[1] \in Fd /\ e[2] = "in"
  /\ Dispatch(e)
  /\ rx[table[e[1]]] = 0
  /\ peer[table[e[1]]] # "open"
  /\ UNCHANGED <<clientVars, socketVars, kernelVars, listening, registryVars, sessionVars,
                 atSwap, funcs, queue_, noticeVars, workerVars, alive>>

\* read() returned 0, or failed with another error than EAGAIN.
readEnd(e) ==
  /\ e[1] \in Fd /\ e[2] = "in"
  /\ Dispatch(e)
  /\ rx[table[e[1]]] = 0
  /\ peer[table[e[1]]] # "open"
  /\ removeConnection(mapHandler_[e[1]])
  /\ UNCHANGED <<clientVars, socketVars, listening, sessionVars, atSwap, funcs, queue_,
                 noticeVars, workerVars, alive>>

\* Slips: reading resumes although bytes are left, or does not when the buffer was
\* empty to begin with.
onWriteAlways(f, n, total) == mod(f, "R")
onWriteNotEmpty(f, n, total) ==
  IF n < total \/ n = 0 THEN UNCHANGED interest ELSE mod(f, "R")

\* onWrite: reading resumes when all of the buffer, an empty one too, is written.
onWrite(f, n, total) == IF n < total THEN UNCHANGED interest ELSE mod(f, "R")

\* A slip: after a short write the buffer is kept from its start.
unwrittenFromStart(c, n) ==
  IF n < Len(writeBuffer[c]) THEN writeBuffer[c] ELSE <<>>

\* consumHead or reset.
unwritten(c, n) == SubSeq(writeBuffer[c], n + 1, Len(writeBuffer[c]))

\* write() took n pieces, of one answer or several; a short write means the send
\* buffer is full.
writeData(e) ==
  /\ e[1] \in Fd /\ e[2] = "out"
  /\ Dispatch(e)
  /\ LET c == mapHandler_[e[1]]
         k == table[e[1]]
         total == Len(writeBuffer[c])
     IN /\ ~Reset(k)
        /\ \E n \in 0..total :
             /\ n = 0 => total = 0
             /\ tx' = [tx EXCEPT ![k] = @ \o SubSeq(writeBuffer[c], 1, n)]
             /\ writeBuffer' = [writeBuffer EXCEPT ![c] = unwritten(c, n)]
             /\ full' = [full EXCEPT ![k] = n < total]
             /\ onWrite(e[1], n, total)
  /\ UNCHANGED <<peer, sent, rx, table, listening, registryVars, sock_, readBuffer, handed,
                 atSwap, funcs, queue_, noticeVars, workerVars, alive>>

\* write() failed: ECONNRESET.
writeFails(e) ==
  /\ e[1] \in Fd /\ e[2] = "out"
  /\ Dispatch(e)
  /\ peer[table[e[1]]] = "rst"
  /\ removeConnection(mapHandler_[e[1]])
  /\ UNCHANGED <<clientVars, socketVars, listening, sessionVars, atSwap, funcs, queue_,
                 noticeVars, workerVars, alive>>

\* A socket reset after the peer's FIN fails with EPIPE, and nobody ignores the
\* SIGPIPE that comes with it.
writeKills(e) ==
  /\ e[1] \in Fd /\ e[2] = "out"
  /\ Dispatch(e)
  /\ peer[table[e[1]]] = "finrst"
  /\ alive' = FALSE
  /\ UNCHANGED <<clientVars, socketVars, kernelVars, listening, registryVars, sessionVars,
                 atSwap, funcs, queue_, noticeVars, workerVars>>

errorHandler(e) ==
  /\ e[1] \in Fd /\ e[2] = "err"
  /\ Dispatch(e)
  /\ removeConnection(mapHandler_[e[1]])
  /\ UNCHANGED <<clientVars, socketVars, listening, sessionVars, atSwap, funcs, queue_,
                 noticeVars, workerVars, alive>>

------------------------------------------------------------------------------
(* NoticeEventHandler and the sendbacks it runs *)

\* read() empties the eventfd before the list is looked at.
noticeRead(e) ==
  /\ e[1] = EventFd
  /\ Dispatch(e)
  /\ signalled' = FALSE
  /\ atSwap' = TRUE
  /\ UNCHANGED <<clientVars, socketVars, kernelVars, listening, registryVars, sessionVars,
                 funcs, queue_, noticeEvents_, workerVars, alive>>

\* The swap waits for noticeMutex_.
noticeSwap ==
  /\ alive
  /\ atSwap
  /\ worker # "notify"
  /\ atSwap' = FALSE
  /\ funcs' = noticeEvents_
  /\ noticeEvents_' = <<>>
  /\ UNCHANGED <<clientVars, socketVars, kernelVars, listening, registryVars, sessionVars,
                 batch, queue_, signalled, workerVars, alive>>

\* The pieces of an answer.
Pieces(message) ==
  [i \in 1..AnswerParts |-> <<message[1], (message[2] - 1) * AnswerParts + i>>]

\* The answer goes behind what the write buffer of c holds.
append(c, message) ==
  writeBuffer' = [writeBuffer EXCEPT ![c] = @ \o Pieces(message)]

\* A slip: the answer goes to the session that has the descriptor now.
sendbackByNumber ==
  /\ alive
  /\ funcs # <<>>
  /\ LET f == sock_[Head(funcs)[1]]
         c == IF connectionManager_[f] = NoConn THEN Head(funcs)[1] ELSE connectionManager_[f]
     IN /\ append(c, Head(funcs))
        /\ mod(f, "W")
  /\ funcs' = Tail(funcs)
  /\ UNCHANGED <<clientVars, socketVars, table, listening, registryVars, sock_, readBuffer,
                 handed, batch, atSwap, queue_, noticeVars, workerVars, alive>>

\* A slip: the callback tries to write at once and removes a connection that was
\* reset, although events of the same batch are still to be dispatched.
sendbackAtOnce ==
  /\ alive
  /\ funcs # <<>>
  /\ LET c == Head(funcs)[1] IN
       /\ append(c, Head(funcs))
       /\ IF ~Closed(c) /\ Reset(c)
          THEN removeConnection(c)
          ELSE mod(sock_[c], "W") /\ UNCHANGED <<table, registryVars>>
  /\ funcs' = Tail(funcs)
  /\ UNCHANGED <<clientVars, socketVars, listening, sock_, readBuffer,
                 handed, batch, atSwap, queue_, noticeVars, workerVars, alive>>

\* mod goes by the number the session keeps, even if the session is closed.
sendback ==
  /\ alive
  /\ funcs # <<>>
  /\ LET c == Head(funcs)[1] IN
       /\ append(c, Head(funcs))
       /\ mod(sock_[c], "W")
  /\ funcs' = Tail(funcs)
  /\ UNCHANGED <<clientVars, socketVars, table, listening, registryVars, sock_, readBuffer,
                 handed, batch, atSwap, queue_, noticeVars, workerVars, alive>>

------------------------------------------------------------------------------
(* MessageProcessThread::run and Reactor::addNoticeEvent *)

workerPop ==
  /\ alive
  /\ worker = "pop"
  /\ queue_ # <<>>
  /\ spMessage' = Head(queue_)
  /\ queue_' = Tail(queue_)
  /\ worker' = "add"
  /\ UNCHANGED <<clientVars, socketVars, kernelVars, listening, registryVars, sessionVars,
                 loopVars, noticeVars, alive>>

\* A slip: the connection is moved out of the message before it is bound, as
\* the call commented out in run() (MessageProcessThread.cpp, line 30) did.
addNoticeMovedFrom ==
  /\ alive
  /\ worker = "add"
  /\ noticeEvents_' = Append(noticeEvents_, NoMessage)
  /\ worker' = "notify"
  /\ spMessage' = NoMessage
  /\ UNCHANGED <<clientVars, socketVars, kernelVars, listening, registryVars, sessionVars,
                 loopVars, queue_, signalled, alive>>

\* noticeMutex_ is taken and the bound sendback appended ...
addNoticeEvent ==
  /\ alive
  /\ worker = "add"
  /\ noticeEvents_' = Append(noticeEvents_, spMessage)
  /\ worker' = "notify"
  /\ spMessage' = NoMessage
  /\ UNCHANGED <<clientVars, socketVars, kernelVars, listening, registryVars, sessionVars,
                 loopVars, queue_, signalled, alive>>

\* A slip: no need to wake a loop thread that is running sendbacks anyway.
noticeUnlessBusy ==
  /\ alive
  /\ worker = "notify"
  /\ signalled' = IF funcs = <<>> THEN TRUE ELSE signalled
  /\ worker' = "pop"
  /\ UNCHANGED <<clientVars, socketVars, kernelVars, listening, registryVars, sessionVars,
                 loopVars, queue_, noticeEvents_, spMessage, alive>>

\* ... and the eventfd written before noticeMutex_ is released.
notice ==
  /\ alive
  /\ worker = "notify"
  /\ signalled' = TRUE
  /\ worker' = "pop"
  /\ UNCHANGED <<clientVars, socketVars, kernelVars, listening, registryVars, sessionVars,
                 loopVars, queue_, noticeEvents_, spMessage, alive>>

------------------------------------------------------------------------------
HandlerStep(e) ==
  \/ acceptRead(e)
  \/ acceptFails(e)
  \/ acceptError(e)
  \/ readData(e)
  \/ readEnd(e)
  \/ writeData(e)
  \/ writeFails(e)
  \/ writeKills(e)
  \/ errorHandler(e)
  \/ noticeRead(e)

LoopStep == waitEvent \/ (\E e \in batch : HandlerStep(e)) \/ noticeSwap \/ sendback

WorkerStep == workerPop \/ addNoticeEvent \/ notice

Next ==
  \/ \E c \in Conn : ClientStep(c)
  \/ ListenFails
  \/ LoopStep
  \/ WorkerStep

Spec == Init /\ [][Next]_vars

(***************************************************************************)
(* Scheduling: both threads loop for ever and are scheduled; a client that *)
(* stays connected reads what it was sent.  Nothing else is assumed of     *)
(* clients.                                                                *)
(***************************************************************************)
Fairness ==
  /\ WF_vars(LoopStep)
  /\ WF_vars(WorkerStep)
  /\ \A c \in Conn : WF_vars(Drain(c))

FairSpec == Spec /\ Fairness

------------------------------------------------------------------------------
(* Correctness *)

Registered == {f \in Fd : mapHandler_[f] # NoConn}

TablesAgree ==
  \A f \in Fd :
    /\ mapHandler_[f] = table[f]
    /\ connectionManager_[f] = table[f]
    /\ interest[f] = "none" <=> table[f] = NoConn
    /\ table[f] # NoConn => sock_[table[f]] = f

EventSizeExact ==
  eventSize_ = Cardinality(Registered) + IF listening = "closed" THEN 1 ELSE 2

\* The loop thread's three tables and the kernel's two agree after every step: a
\* descriptor has a handler exactly if it is open, in the epoll set and in
\* connectionManager_, all for the same connection and under the number its session
\* keeps, and eventSize_ counts what is registered (one too few starves a
\* descriptor, one too many hides a leak).
RegistryConsistent == TablesAgree /\ EventSizeExact

\* waitEvent looks the handler up with operator[] and calls it unchecked.  Whatever
\* the handlers run before it in the same batch did (closed, accepted, sent back),
\* an event still finds the handler of the connection it was reported for.
EventsFindTheirHandler ==
  \A e \in batch : e[1] \in Fd => mapHandler_[e[1]] = e[3] /\ e[3] # NoConn

\* A sendback in noticeEvents_ is never forgotten: the eventfd is readable, or the
\* loop thread is past its read and about to swap, or the worker still holds the
\* mutex and is about to write the eventfd.
NoLostNotice ==
  noticeEvents_ # <<>> => signalled \/ atSwap \/ worker = "notify"

\* A connection with bytes to write waits for EPOLLOUT, although its reads, its
\* short writes and sendbacks for earlier owners of its descriptor change the interest.
OutputArmed ==
  \A f \in Fd :
    table[f] # NoConn /\ writeBuffer[table[f]] # <<>> => interest[f] = "W"

\* The requests handed to the queue whose answers are in no write buffer yet, oldest
\* first: one sequence through all the stages between the two threads.
Held == IF worker = "add" THEN <<spMessage>> ELSE <<>>
InFlight == funcs \o noticeEvents_ \o Held \o queue_

\* What was written to each socket or waits in its write buffer.
Output == [c \in Conn |-> tx[c] \o writeBuffer[c]]
Answered == [c \in Conn |-> Len(Output[c]) \div AnswerParts]

OutputInOrder ==
  \A c \in Conn :
    /\ Answered[c] <= handed[c]
    /\ Len(Output[c]) = Answered[c] * AnswerParts
    /\ \A i \in 1..Len(Output[c]) : Output[c][i] = <<c, i>>

\* q holds, for each connection, exactly the messages after the first from[c] of its
\* to[c] ones, in their order.
HoldsInOrder(q, from, to) ==
  /\ \A i \in 1..Len(q) : q[i][2] \in from[q[i][1]] + 1 .. to[q[i][1]]
  /\ \A j \in 1..Len(q) : \A i \in 1..j-1 : q[i][1] = q[j][1] => q[i][2] < q[j][2]
  /\ \A c \in Conn : \A n \in from[c] + 1 .. to[c] : \E i \in 1..Len(q) : q[i] = <<c, n>>

InFlightInOrder == HoldsInOrder(InFlight, Answered, handed)

\* Each request taken from a connection is at each moment in exactly one place
\* between queue_ and the socket, in the order of the requests, and the output of a
\* connection holds the answers to its own first requests, each once and whole, although
\* descriptors are reused while answers to their former owners are still on the way and
\* writes end in the middle of an answer.
AnswersInOrder == OutputInOrder /\ InFlightInOrder

\* The server is the echo service of module EchoService.
Echo == INSTANCE EchoService WITH
          taken <- handed, given <- tx, gone <- {c \in Conn : Closed(c)}

ImplementsEcho == Echo!Spec

\* A request handed to the worker is answered completely, unless its connection is closed
\* or the process killed first.
HandedIsAnswered ==
  \A c \in Conn : \A n \in 1..MaxReq[c] :
    (handed[c] >= n) ~> (Received(c) >= n \/ Closed(c) \/ ~alive)

\* A client that does not pipeline gets an answer to each request it sent
\* completely, as soon as its connection was accepted.
SentIsAnswered ==
  \A c \in Conn : \A n \in 1..MaxReq[c] :
    (sent[c] >= n * Parts /\ sock_[c] # NoFd)
      ~> (Received(c) >= n \/ Closed(c) \/ ~alive)

\* No connection stays deaf: whoever put it in write mode, its own answers or a
\* sendback meant for an earlier owner of its descriptor, it reads again or is closed.
ReadingResumes ==
  \A f \in Fd : (interest[f] = "W") ~> (interest[f] # "W" \/ ~alive)

\* A connection whose client went away gives its descriptor back.
DeadPeerReleased ==
  \A c \in Conn :
    (sock_[c] # NoFd /\ peer[c] # "open") ~> (Closed(c) \/ ~alive)
==============================================================================
