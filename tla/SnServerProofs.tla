---------------------------- MODULE SnServerProofs ----------------------------
(***************************************************************************)
(* Proofs about SnServer for any number of connections and descriptors.    *)
(*                                                                         *)
(* No property is inductive alone: a handler is called for an event found  *)
(* in batch, so even typing needs that the event finds its handler, which  *)
(* needs the tables to agree, and one event per descriptor in a batch.     *)
(* IndInv puts them together; each of its parts is shown to survive a step *)
(* in a lemma of its own, one proof step per action.                       *)
(***************************************************************************)
EXTENDS SnServer, FiniteSetTheorems, SequenceTheorems, TLAPS

\* While the worker has an answer ready it holds a message.
HeldIsMessage == worker = "add" => spMessage \in Message

\* NoticeEventHandler swaps only after the callbacks of the last swap have run.
SwapsWhenDone == atSwap => funcs = <<>>

\* Nothing was taken from a connection that is not accepted yet.
FreshIsUnused == \A c \in Conn : sock_[c] = NoFd => handed[c] = 0

\* A batch holds one event of a descriptor at most, and an error of the listening
\* socket only while it has failed and is not closed yet.
BatchSound ==
  /\ \A e, g \in batch : e[1] = g[1] => e = g
  /\ \A e \in batch : e[1] = ListenFd /\ e[2] = "err" => listening = "failed"

IndInv ==
  /\ TypeOK
  /\ TablesAgree
  /\ EventSizeExact
  /\ EventsFindTheirHandler
  /\ BatchSound
  /\ NoLostNotice
  /\ HeldIsMessage
  /\ SwapsWhenDone
  /\ FreshIsUnused
  /\ OutputInOrder
  /\ InFlightInOrder
  /\ OutputArmed

------------------------------------------------------------------------------
(* Typing *)

\* removeConnection keeps the types of the tables.
LEMMA RemoveTyping ==
  ASSUME RegistryTypeOK, SessionTypeOK, NEW c \in Conn, removeConnection(c)
  PROVE  RegistryTypeOK'
<1>1. /\ mapHandler_' \in [Fd -> Conn \cup {NoConn}]
      /\ interest' \in [Fd -> {"none", "R", "W"}]
      /\ connectionManager_' \in [Fd -> Conn \cup {NoConn}]
  BY DEF RegistryTypeOK, removeConnection, remove, removeEvent, close
<1>2. eventSize_' \in Int
  BY DEF RegistryTypeOK, removeConnection, remove, removeEvent, close
<1>3. table' \in [Fd -> Conn \cup {NoConn}]
  BY DEF RegistryTypeOK, removeConnection, remove, removeEvent, close
<1>. QED
  BY <1>1, <1>2, <1>3 DEF RegistryTypeOK

\* Changing the interest of a descriptor keeps the types of the tables.
LEMMA ModTyping ==
  ASSUME RegistryTypeOK, NEW f, NEW ev \in {"R", "W"}, mod(f, ev),
         UNCHANGED <<table, registryVars>>
  PROVE  RegistryTypeOK'
BY DEF RegistryTypeOK, mod, modEvent, registryVars

\* Reading from a socket keeps the types of the session and of the queue.
LEMMA ReadTyping ==
  ASSUME SessionTypeOK, ThreadTypeOK, NEW c \in Conn, NEW n \in Nat, onRead(c, n),
         UNCHANGED <<sock_, writeBuffer>>
  PROVE  SessionTypeOK' /\ queue_' \in Seq(Message)
<1>1. <<c, handed[c] + 1>> \in Message /\ readBuffer[c] + n \in Int
  BY DEF SessionTypeOK, Message
<1>2. CASE onMessage(c, readBuffer[c] + n)
  <2>1. readBuffer' \in [Conn -> Int]
    BY <1>1, <1>2, BoundAssumption DEF onMessage, SessionTypeOK
  <2>2. handed' \in [Conn -> Nat]
    BY <1>2 DEF onMessage, SessionTypeOK
  <2>3. queue_' \in Seq(Message)
    BY <1>1, <1>2 DEF onMessage, ThreadTypeOK
  <2>. QED
    BY <2>1, <2>2, <2>3 DEF SessionTypeOK
<1>3. CASE notComplete(c, readBuffer[c] + n)
  BY <1>1, <1>3 DEF notComplete, SessionTypeOK, ThreadTypeOK
<1>. QED
  BY <1>2, <1>3 DEF onRead

\* accept gives a new session a descriptor that no table knows.
LEMMA AcceptEffect ==
  ASSUME TypeOK, TablesAgree, NEW e \in batch, acceptRead(e)
  PROVE  \E c \in Backlog, f \in Fd :
           /\ table[f] = NoConn
           /\ table' = [table EXCEPT ![f] = c]
           /\ sock_' = [sock_ EXCEPT ![c] = f]
           /\ connectionManager_' = [connectionManager_ EXCEPT ![f] = c]
           /\ mapHandler_' = [mapHandler_ EXCEPT ![f] = c]
           /\ interest' = [interest EXCEPT ![f] = "R"]
           /\ eventSize_' = eventSize_ + 1
<1>1. PICK c \in Backlog, f \in Fd :
        /\ table[f] = NoConn
        /\ table' = [table EXCEPT ![f] = c]
        /\ newSession(c, f)
        /\ addConnection(f, c)
        /\ addHandler(f, c)
  BY DEF acceptRead
<1>2. mapHandler_[f] = NoConn
  BY <1>1 DEF TablesAgree
<1>3. addEvent(f) /\ mapHandler_' = [mapHandler_ EXCEPT ![f] = c]
  BY <1>1, <1>2 DEF addHandler
<1>4. QED
  BY <1>1, <1>3 DEF newSession, addConnection, addEvent

\* An answer put behind a sequence of pieces makes a sequence of pieces.
LEMMA PiecesTyping ==
  ASSUME NEW message \in Message, NEW s \in Seq(Message)
  PROVE  /\ Pieces(message) \in Seq(Message)
         /\ Len(Pieces(message)) = AnswerParts
         /\ s \o Pieces(message) \in Seq(Message)
<1>1. message[1] \in Conn /\ message[2] \in Nat \ {0}
  BY DEF Message
<1>2. AnswerParts \in Nat \ {0}
  BY BoundAssumption
<1>3. \A i \in 1..AnswerParts :
        <<message[1], (message[2] - 1) * AnswerParts + i>> \in Message
  <2>. SUFFICES ASSUME NEW i \in 1..AnswerParts
                PROVE  (message[2] - 1) * AnswerParts + i \in Nat \ {0}
    BY <1>1 DEF Message
  <2>1. (message[2] - 1) * AnswerParts \in Nat
    BY <1>1, <1>2
  <2>. QED
    BY <1>2, <2>1
<1>. QED
  BY <1>2, <1>3 DEF Pieces

\* A handler step leaves every variable in its type.
LEMMA HandlerTyping ==
  ASSUME TypeOK, TablesAgree, EventsFindTheirHandler,
         NEW e \in batch, HandlerStep(e)
  PROVE  TypeOK'
<1> USE DEF clientVars, socketVars, kernelVars, registryVars, sessionVars, loopVars,
      noticeVars, workerVars, Dispatch
<1>0. e[1] \in Fd => mapHandler_[e[1]] \in Conn /\ table[e[1]] = mapHandler_[e[1]]
  BY ConnAssumption DEF TypeOK, RegistryTypeOK, TablesAgree, EventsFindTheirHandler, Event
<1>1. CASE acceptRead(e)
  <2>1. SocketTypeOK' /\ FlagTypeOK'
    BY <1>1 DEF TypeOK, acceptRead, SocketTypeOK, FlagTypeOK
  <2>2. ThreadTypeOK'
    BY <1>1 DEF TypeOK, acceptRead, ThreadTypeOK
  <2>3. RegistryTypeOK'
    BY <1>1, AcceptEffect DEF TypeOK, RegistryTypeOK, Backlog
  <2>4. SessionTypeOK'
    BY <1>1 DEF TypeOK, acceptRead, newSession, SessionTypeOK, Backlog
  <2>. QED
    BY <2>1, <2>2, <2>3, <2>4 DEF TypeOK
<1>2. CASE acceptFails(e)
  BY <1>2 DEF TypeOK, acceptFails, SocketTypeOK, FlagTypeOK, ThreadTypeOK, RegistryTypeOK,
              SessionTypeOK
<1>3. CASE acceptError(e)
  <2>1. RegistryTypeOK'
    BY <1>3 DEF TypeOK, acceptError, RegistryTypeOK
  <2>2. SocketTypeOK' /\ FlagTypeOK' /\ SessionTypeOK'
    BY <1>3 DEF TypeOK, acceptError, SocketTypeOK, FlagTypeOK, SessionTypeOK
  <2>3. ThreadTypeOK'
    BY <1>3 DEF TypeOK, acceptError, ThreadTypeOK
  <2>. QED
    BY <2>1, <2>2, <2>3 DEF TypeOK
<1>4. CASE readData(e)
  <2>. PICK n \in 1..rx[table[e[1]]] :
              /\ rx' = [rx EXCEPT ![table[e[1]]] = @ - n]
              /\ onRead(mapHandler_[e[1]], n)
    BY <1>4 DEF readData
  <2>0. table[e[1]] \in Conn /\ mapHandler_[e[1]] \in Conn /\ n \in Nat
        /\ rx[table[e[1]]] - n \in Nat
    BY <1>0, <1>4 DEF readData, TypeOK, SocketTypeOK
  <2>1. SessionTypeOK' /\ queue_' \in Seq(Message)
    BY <1>4, <2>0, ReadTyping DEF TypeOK, readData
  <2>2. ThreadTypeOK'
    BY <1>4, <2>1 DEF TypeOK, readData, ThreadTypeOK
  <2>3. SocketTypeOK'
    BY <1>4, <2>0 DEF TypeOK, readData, SocketTypeOK
  <2>4. RegistryTypeOK' /\ FlagTypeOK'
    BY <1>4 DEF TypeOK, readData, RegistryTypeOK, FlagTypeOK
  <2>. QED
    BY <2>1, <2>2, <2>3, <2>4 DEF TypeOK
<1>5. CASE readEnd(e)
  <2>1. RegistryTypeOK'
    BY <1>0, <1>5, RemoveTyping DEF TypeOK, readEnd
  <2>2. SocketTypeOK' /\ FlagTypeOK' /\ SessionTypeOK'
    BY <1>5 DEF TypeOK, readEnd, SocketTypeOK, FlagTypeOK, SessionTypeOK
  <2>3. ThreadTypeOK'
    BY <1>5 DEF TypeOK, readEnd, ThreadTypeOK
  <2>. QED
    BY <2>1, <2>2, <2>3 DEF TypeOK
<1>6. CASE writeData(e)
  <2>. DEFINE c == mapHandler_[e[1]]
              k == table[e[1]]
              total == Len(writeBuffer[c])
  <2>. PICK n \in 0..total :
              /\ tx' = [tx EXCEPT ![k] = @ \o SubSeq(writeBuffer[c], 1, n)]
              /\ writeBuffer' = [writeBuffer EXCEPT ![c] = unwritten(c, n)]
              /\ full' = [full EXCEPT ![k] = n < total]
              /\ onWrite(e[1], n, total)
    BY <1>6 DEF writeData
  <2>0. c \in Conn /\ k \in Conn /\ writeBuffer[c] \in Seq(Message) /\ tx[k] \in Seq(Message)
    BY <1>0, <1>6 DEF writeData, TypeOK, SessionTypeOK, SocketTypeOK
  <2>1. RegistryTypeOK'
    <3>1. CASE UNCHANGED interest
      BY <1>6, <3>1 DEF TypeOK, RegistryTypeOK, writeData
    <3>2. CASE mod(e[1], "R")
      BY <1>6, <3>2, ModTyping DEF TypeOK, writeData
    <3>. QED
      BY <3>1, <3>2 DEF onWrite
  <2>2. SubSeq(writeBuffer[c], 1, n) \in Seq(Message) /\ unwritten(c, n) \in Seq(Message)
    BY <2>0 DEF unwritten
  <2>3. SessionTypeOK'
    BY <1>6, <2>0, <2>2 DEF TypeOK, SessionTypeOK, writeData
  <2>4. tx' \in [Conn -> Seq(Message)]
    BY <2>0, <2>2 DEF TypeOK, SocketTypeOK
  <2>5. SocketTypeOK'
    BY <1>6, <2>0, <2>4 DEF TypeOK, SocketTypeOK, writeData
  <2>6. ThreadTypeOK' /\ FlagTypeOK'
    BY <1>6 DEF TypeOK, ThreadTypeOK, FlagTypeOK, writeData
  <2>. QED
    BY <2>1, <2>3, <2>5, <2>6 DEF TypeOK
<1>7. CASE writeFails(e)
  <2>1. RegistryTypeOK'
    BY <1>0, <1>7, RemoveTyping DEF TypeOK, writeFails
  <2>2. SocketTypeOK' /\ FlagTypeOK' /\ SessionTypeOK'
    BY <1>7 DEF TypeOK, writeFails, SocketTypeOK, FlagTypeOK, SessionTypeOK
  <2>3. ThreadTypeOK'
    BY <1>7 DEF TypeOK, writeFails, ThreadTypeOK
  <2>. QED
    BY <2>1, <2>2, <2>3 DEF TypeOK
<1>8. CASE writeKills(e)
  BY <1>8 DEF TypeOK, writeKills, SocketTypeOK, FlagTypeOK, ThreadTypeOK, RegistryTypeOK,
              SessionTypeOK
<1>9. CASE errorHandler(e)
  <2>1. RegistryTypeOK'
    BY <1>0, <1>9, RemoveTyping DEF TypeOK, errorHandler
  <2>2. SocketTypeOK' /\ FlagTypeOK' /\ SessionTypeOK'
    BY <1>9 DEF TypeOK, errorHandler, SocketTypeOK, FlagTypeOK, SessionTypeOK
  <2>3. ThreadTypeOK'
    BY <1>9 DEF TypeOK, errorHandler, ThreadTypeOK
  <2>. QED
    BY <2>1, <2>2, <2>3 DEF TypeOK
<1>10. CASE noticeRead(e)
  BY <1>10 DEF TypeOK, noticeRead, SocketTypeOK, FlagTypeOK, ThreadTypeOK, RegistryTypeOK,
               SessionTypeOK
<1>. QED
  BY <1>1, <1>2, <1>3, <1>4, <1>5, <1>6, <1>7, <1>8, <1>9, <1>10 DEF HandlerStep

\* A connection's events are reported for its descriptor.
LEMMA ConnectionEventsAre ==
  \A e \in ConnectionEvents : \E f \in Fd : e \in ReadyAt(f)
BY Zenon DEF ConnectionEvents

\* So does every other step.
LEMMA StepTyping ==
  ASSUME TypeOK, TablesAgree, EventsFindTheirHandler, HeldIsMessage, [Next]_vars
  PROVE  TypeOK'
<1> USE DEF vars, clientVars, socketVars, kernelVars, registryVars, sessionVars,
      loopVars, noticeVars, workerVars, serverVars
<1>1. ASSUME NEW c \in Conn, ClientStep(c) PROVE TypeOK'
  <2>1. SocketTypeOK'
    <3>1. CASE Connect(c)
      BY <3>1 DEF TypeOK, SocketTypeOK, Connect
    <3>2. CASE SendPart(c)
      BY <3>2 DEF TypeOK, SocketTypeOK, SendPart
    <3>3. CASE Drain(c)
      BY <3>3 DEF TypeOK, SocketTypeOK, Drain
    <3>4. CASE Finish(c)
      BY <3>4 DEF TypeOK, SocketTypeOK, Finish
    <3>5. CASE Abort(c)
      BY <3>5 DEF TypeOK, SocketTypeOK, Abort
    <3>. QED
      BY <1>1, <3>1, <3>2, <3>3, <3>4, <3>5 DEF ClientStep
  <2>2. RegistryTypeOK' /\ SessionTypeOK' /\ ThreadTypeOK' /\ FlagTypeOK'
    BY <1>1 DEF TypeOK, RegistryTypeOK, SessionTypeOK, ThreadTypeOK, FlagTypeOK,
                ClientStep, Connect, SendPart, Drain, Finish, Abort
  <2>. QED
    BY <2>1, <2>2 DEF TypeOK
<1>2. CASE ListenFails
  BY <1>2 DEF TypeOK, ListenFails, SocketTypeOK, FlagTypeOK, ThreadTypeOK, RegistryTypeOK,
              SessionTypeOK
<1>3. CASE waitEvent
  <2>1. Ready \subseteq Event
    <3>1. ConnectionEvents \subseteq Event
      BY ConnectionEventsAre DEF ReadyAt, Event, TypeOK, RegistryTypeOK
    <3>2. NoticeEvents \subseteq Event /\ ListenEvents \subseteq Event
      BY DEF NoticeEvents, ListenEvents, Event
    <3>. QED
      BY <3>1, <3>2 DEF Ready
  <2>2. ThreadTypeOK'
    BY <1>3, <2>1 DEF TypeOK, waitEvent, ThreadTypeOK
  <2>3. SocketTypeOK' /\ RegistryTypeOK' /\ SessionTypeOK' /\ FlagTypeOK'
    BY <1>3 DEF TypeOK, waitEvent, SocketTypeOK, RegistryTypeOK, SessionTypeOK, FlagTypeOK
  <2>. QED
    BY <2>2, <2>3 DEF TypeOK
<1>4. ASSUME NEW e \in batch, HandlerStep(e) PROVE TypeOK'
  BY <1>4, HandlerTyping
<1>5. CASE noticeSwap
  <2>1. ThreadTypeOK'
    BY <1>5 DEF TypeOK, ThreadTypeOK, noticeSwap
  <2>2. SocketTypeOK' /\ RegistryTypeOK' /\ SessionTypeOK' /\ FlagTypeOK'
    BY <1>5 DEF TypeOK, SocketTypeOK, RegistryTypeOK, SessionTypeOK, FlagTypeOK, noticeSwap
  <2>. QED
    BY <2>1, <2>2 DEF TypeOK
<1>6. CASE sendback
  <2>1. Head(funcs) \in Message /\ Head(funcs)[1] \in Conn /\ Tail(funcs) \in Seq(Message)
    BY <1>6 DEF TypeOK, ThreadTypeOK, sendback, Message
  <2>2. RegistryTypeOK'
    BY <1>6, ModTyping DEF TypeOK, sendback
  <2>3. SessionTypeOK'
    BY <1>6, <2>1, PiecesTyping DEF TypeOK, SessionTypeOK, sendback, append
  <2>4. SocketTypeOK' /\ ThreadTypeOK' /\ FlagTypeOK'
    BY <1>6, <2>1 DEF TypeOK, SocketTypeOK, ThreadTypeOK, FlagTypeOK, sendback
  <2>. QED
    BY <2>2, <2>3, <2>4 DEF TypeOK
<1>7. CASE workerPop
  <2>1. Head(queue_) \in Message /\ Tail(queue_) \in Seq(Message)
    BY <1>7 DEF TypeOK, ThreadTypeOK, workerPop
  <2>2. ThreadTypeOK'
    BY <1>7, <2>1 DEF TypeOK, ThreadTypeOK, workerPop
  <2>3. SocketTypeOK' /\ RegistryTypeOK' /\ SessionTypeOK' /\ FlagTypeOK'
    BY <1>7 DEF TypeOK, SocketTypeOK, RegistryTypeOK, SessionTypeOK, FlagTypeOK, workerPop
  <2>. QED
    BY <2>2, <2>3 DEF TypeOK
<1>8. CASE addNoticeEvent
  BY <1>8 DEF TypeOK, addNoticeEvent, HeldIsMessage, SocketTypeOK, FlagTypeOK, ThreadTypeOK,
              RegistryTypeOK, SessionTypeOK
<1>9. CASE notice
  BY <1>9 DEF TypeOK, notice, SocketTypeOK, FlagTypeOK, ThreadTypeOK, RegistryTypeOK,
              SessionTypeOK
<1>10. CASE UNCHANGED vars
  BY <1>10 DEF TypeOK, SocketTypeOK, FlagTypeOK, ThreadTypeOK, RegistryTypeOK, SessionTypeOK
<1>. QED
  BY <1>1, <1>2, <1>3, <1>4, <1>5, <1>6, <1>7, <1>8, <1>9, <1>10
     DEF Next, LoopStep, WorkerStep

------------------------------------------------------------------------------
(* The tables and their count *)

\* The connection an event of a batch is dispatched to.
LEMMA EventOwner ==
  ASSUME TypeOK, TablesAgree, EventsFindTheirHandler, NEW e \in batch, e[1] \in Fd
  PROVE  /\ mapHandler_[e[1]] \in Conn
         /\ table[e[1]] = mapHandler_[e[1]]
         /\ sock_[mapHandler_[e[1]]] = e[1]
BY ConnAssumption DEF TypeOK, RegistryTypeOK, TablesAgree, EventsFindTheirHandler

\* removeConnection empties the entries of one descriptor, and no other.
LEMMA RemoveEffect ==
  ASSUME TypeOK, TablesAgree, NEW c \in Conn, sock_[c] \in Fd, table[sock_[c]] = c,
         removeConnection(c)
  PROVE  /\ mapHandler_' = [mapHandler_ EXCEPT ![sock_[c]] = NoConn]
         /\ interest' = [interest EXCEPT ![sock_[c]] = "none"]
         /\ table' = [table EXCEPT ![sock_[c]] = NoConn]
         /\ connectionManager_' = [connectionManager_ EXCEPT ![sock_[c]] = NoConn]
         /\ eventSize_' = eventSize_ - 1
BY ConnAssumption DEF removeConnection, remove, removeEvent, close, TablesAgree

\* removeConnection clears every table, so that they still agree.
LEMMA RemoveTables ==
  ASSUME TypeOK, TablesAgree, NEW c \in Conn, sock_[c] \in Fd, table[sock_[c]] = c,
         removeConnection(c), UNCHANGED sock_
  PROVE  TablesAgree'
BY RemoveEffect DEF TablesAgree, TypeOK, RegistryTypeOK

\* Changing the interest of a descriptor leaves the tables in agreement.
LEMMA ModTables ==
  ASSUME TypeOK, TablesAgree, NEW f, NEW ev \in {"R", "W"}, mod(f, ev),
         UNCHANGED <<table, registryVars, sock_>>
  PROVE  TablesAgree'
<1>1. CASE f \in Fd /\ mapHandler_[f] # NoConn
  BY <1>1 DEF TablesAgree, TypeOK, RegistryTypeOK, mod, modEvent, registryVars
<1>2. CASE interest' = interest
  BY <1>2 DEF TablesAgree, registryVars
<1>3. CASE f \notin Fd /\ interest' = [interest EXCEPT ![f] = ev]
  <2>1. interest' = interest
    BY <1>3 DEF TypeOK, RegistryTypeOK
  <2>. QED
    BY <2>1, <1>2
<1>. QED
  BY <1>1, <1>2, <1>3 DEF mod, modEvent

\* Every step of the server leaves the tables in agreement.
LEMMA TablesStep ==
  ASSUME TypeOK, TablesAgree, EventsFindTheirHandler, [Next]_vars
  PROVE  TablesAgree'
<1> USE DEF vars, clientVars, socketVars, kernelVars, registryVars, sessionVars,
      loopVars, noticeVars, workerVars, serverVars, Dispatch
<1>1. CASE UNCHANGED <<kernelVars, registryVars, sock_>>
  BY <1>1 DEF TablesAgree
<1>2. CASE \/ UNCHANGED vars \/ ListenFails \/ waitEvent \/ noticeSwap
           \/ WorkerStep \/ \E c \in Conn : ClientStep(c)
  BY <1>1, <1>2 DEF ListenFails, waitEvent, noticeSwap, WorkerStep, workerPop,
       addNoticeEvent, notice, ClientStep, Connect, SendPart, Drain, Finish, Abort
<1>3. CASE sendback
  BY <1>3, ModTables DEF sendback
<1>4. ASSUME NEW e \in batch, HandlerStep(e) PROVE TablesAgree'
  <2>1. CASE acceptRead(e)
    <3>. PICK c \in Backlog, f \in {g \in Fd : table[g] = NoConn} :
           /\ table' = [table EXCEPT ![f] = c]
           /\ sock_' = [sock_ EXCEPT ![c] = f]
           /\ connectionManager_' = [connectionManager_ EXCEPT ![f] = c]
           /\ mapHandler_' = [mapHandler_ EXCEPT ![f] = c]
           /\ interest' = [interest EXCEPT ![f] = "R"]
      BY <2>1, AcceptEffect
    <3>. QED
      BY FdAssumption, ConnAssumption
         DEF TablesAgree, TypeOK, RegistryTypeOK, SessionTypeOK, Backlog
  <2>2. CASE acceptFails(e) \/ acceptError(e) \/ readData(e) \/ writeKills(e) \/ noticeRead(e)
    BY <2>2 DEF TablesAgree, acceptFails, acceptError, readData, writeKills, noticeRead
  <2>3. CASE readEnd(e)
    BY <2>3, EventOwner, RemoveTables DEF readEnd
  <2>4. CASE writeData(e)
    <3>1. UNCHANGED interest \/ mod(e[1], "R")
      BY <2>4 DEF writeData, onWrite
    <3>. QED
      BY <2>4, <3>1, <1>1, ModTables DEF writeData
  <2>5. CASE writeFails(e)
    BY <2>5, EventOwner, RemoveTables DEF writeFails
  <2>6. CASE errorHandler(e)
    BY <2>6, EventOwner, RemoveTables DEF errorHandler
  <2>. QED
    BY <1>4, <2>1, <2>2, <2>3, <2>4, <2>5, <2>6 DEF HandlerStep
<1>. QED
  BY <1>2, <1>3, <1>4 DEF Next, LoopStep

\* Every step keeps eventSize_ the number of registered descriptors.
LEMMA EventSizeStep ==
  ASSUME TypeOK, TablesAgree, EventsFindTheirHandler, BatchSound, EventSizeExact, [Next]_vars
  PROVE  EventSizeExact'
<1> USE DEF vars, clientVars, socketVars, kernelVars, registryVars, sessionVars,
      loopVars, noticeVars, workerVars, serverVars, Dispatch
<1>0. IsFiniteSet(Registered) /\ Cardinality(Registered) \in Nat /\ Registered \subseteq Fd
  BY FdAssumption, FS_Subset, FS_CardinalityType DEF Registered
<1>1. CASE UNCHANGED <<mapHandler_, eventSize_, listening>>
  BY <1>1 DEF EventSizeExact, Registered
<1>2. CASE \/ UNCHANGED vars \/ waitEvent \/ noticeSwap \/ sendback
           \/ WorkerStep \/ \E c \in Conn : ClientStep(c)
  BY <1>1, <1>2 DEF waitEvent, noticeSwap, sendback, WorkerStep, workerPop,
       addNoticeEvent, notice, ClientStep, Connect, SendPart, Drain, Finish, Abort
<1>3. CASE ListenFails
  BY <1>3 DEF ListenFails, EventSizeExact, Registered
<1>4. ASSUME NEW e \in batch, HandlerStep(e) PROVE EventSizeExact'
  <2>0. ASSUME e[1] \in Fd, removeConnection(mapHandler_[e[1]]), UNCHANGED listening
        PROVE  EventSizeExact'
    <3>1. /\ e[1] \in Registered
          /\ mapHandler_' = [mapHandler_ EXCEPT ![e[1]] = NoConn]
          /\ eventSize_' = eventSize_ - 1
      BY <2>0, EventOwner, RemoveEffect, ConnAssumption DEF Registered
    <3>2. Registered' = Registered \ {e[1]}
      BY <3>1 DEF Registered, TypeOK, RegistryTypeOK
    <3>3. Cardinality(Registered') = Cardinality(Registered) - 1
      BY <1>0, <3>1, <3>2, FS_RemoveElement
    <3>. QED
      BY <1>0, <2>0, <3>1, <3>3 DEF EventSizeExact
  <2>1. CASE acceptRead(e)
    <3>. PICK c \in Backlog, f \in {g \in Fd : table[g] = NoConn} :
           /\ mapHandler_' = [mapHandler_ EXCEPT ![f] = c]
           /\ eventSize_' = eventSize_ + 1
      BY <2>1, AcceptEffect
    <3>1. f \in Fd /\ mapHandler_[f] = NoConn /\ c \in Conn /\ c # NoConn
      BY ConnAssumption DEF TablesAgree, Backlog
    <3>2. Registered' = Registered \cup {f} /\ f \notin Registered
      BY <3>1 DEF Registered, TypeOK, RegistryTypeOK
    <3>3. Cardinality(Registered') = Cardinality(Registered) + 1
      BY <1>0, <3>2, FS_AddElement
    <3>. QED
      BY <1>0, <2>1, <3>1, <3>3
         DEF EventSizeExact, acceptRead
  <2>2. CASE acceptError(e)
    <3>1. listening = "failed" /\ listening' = "closed" /\ eventSize_' = eventSize_ - 1
      BY <2>2 DEF acceptError, BatchSound
    <3>2. Registered' = Registered
      BY <2>2 DEF acceptError, Registered
    <3>. QED
      BY <1>0, <3>1, <3>2 DEF EventSizeExact
  <2>3. CASE acceptFails(e) \/ readData(e) \/ writeData(e) \/ writeKills(e) \/ noticeRead(e)
    BY <1>1, <2>3 DEF acceptFails, readData, writeData, writeKills, noticeRead
  <2>4. CASE readEnd(e)
    BY <2>0, <2>4 DEF readEnd
  <2>5. CASE writeFails(e)
    BY <2>0, <2>5 DEF writeFails
  <2>6. CASE errorHandler(e)
    BY <2>0, <2>6 DEF errorHandler
  <2>. QED
    BY <1>4, <2>1, <2>2, <2>3, <2>4, <2>5, <2>6 DEF HandlerStep
<1>. QED
  BY <1>2, <1>3, <1>4 DEF Next, LoopStep

------------------------------------------------------------------------------
(* The batch *)

\* Serving the event of one descriptor leaves the handlers of the others in place.
LEMMA OthersKeepHandler ==
  ASSUME TypeOK, TablesAgree, EventsFindTheirHandler, NEW e \in batch, HandlerStep(e)
  PROVE  \A f \in Fd : mapHandler_[f] # NoConn /\ f # e[1] => mapHandler_'[f] = mapHandler_[f]
<1> USE DEF kernelVars, registryVars
<1>1. CASE acceptRead(e)
  BY <1>1, AcceptEffect DEF TypeOK, RegistryTypeOK, TablesAgree
<1>2. CASE UNCHANGED mapHandler_
  BY <1>2
<1>3. CASE acceptFails(e) \/ acceptError(e) \/ readData(e) \/ writeData(e) \/ writeKills(e)
           \/ noticeRead(e)
  BY <1>2, <1>3 DEF acceptFails, acceptError, readData, writeData, writeKills, noticeRead
<1>4. ASSUME e[1] \in Fd, removeConnection(mapHandler_[e[1]])
      PROVE  \A f \in Fd : mapHandler_[f] # NoConn /\ f # e[1] => mapHandler_'[f] = mapHandler_[f]
  BY <1>4, EventOwner, RemoveEffect DEF TypeOK, RegistryTypeOK
<1>5. CASE readEnd(e) \/ writeFails(e) \/ errorHandler(e)
  BY <1>4, <1>5 DEF readEnd, writeFails, errorHandler
<1>. QED
  BY <1>1, <1>3, <1>5 DEF HandlerStep

\* Every step leaves the events of the batch with the handler they were reported for.
LEMMA BatchStep ==
  ASSUME TypeOK, TablesAgree, EventsFindTheirHandler, BatchSound, [Next]_vars
  PROVE  EventsFindTheirHandler' /\ BatchSound'
<1> USE DEF vars, clientVars, socketVars, kernelVars, registryVars, sessionVars,
      loopVars, noticeVars, workerVars, serverVars
<1>1. CASE UNCHANGED <<batch, mapHandler_, listening>>
  BY <1>1 DEF EventsFindTheirHandler, BatchSound
<1>2. CASE \/ UNCHANGED vars \/ noticeSwap \/ sendback
           \/ WorkerStep \/ \E c \in Conn : ClientStep(c)
  BY <1>1, <1>2 DEF noticeSwap, sendback, WorkerStep, workerPop,
       addNoticeEvent, notice, ClientStep, Connect, SendPart, Drain, Finish, Abort
<1>3. CASE ListenFails
  BY <1>3 DEF ListenFails, EventsFindTheirHandler, BatchSound
<1>4. CASE waitEvent
  <2>1. batch' \subseteq Ready /\ mapHandler_' = mapHandler_ /\ listening' = listening
    BY <1>4 DEF waitEvent
  <2>2. \A e \in ConnectionEvents :
          /\ e[1] \in Fd /\ e \in ReadyAt(e[1])
          /\ e[3] = mapHandler_[e[1]] /\ e[3] # NoConn
    BY ConnectionEventsAre DEF ReadyAt, TablesAgree
  <2>3. \A f \in Fd : \A e, g \in ReadyAt(f) : e = g
    BY DEF ReadyAt
  <2>4. /\ \A e \in NoticeEvents : e = <<EventFd, "in", NoConn>>
        /\ \A e, g \in ListenEvents : e = g
        /\ \A e \in ListenEvents : e[1] = ListenFd /\ (e[2] = "err" => listening = "failed")
    BY DEF NoticeEvents, ListenEvents
  <2>5. EventsFindTheirHandler'
    BY <2>1, <2>2, <2>4, FdAssumption DEF EventsFindTheirHandler, Ready
  <2>6. BatchSound'
    BY <2>1, <2>2, <2>3, <2>4, FdAssumption DEF BatchSound, Ready
  <2>. QED
    BY <2>5, <2>6
<1>5. ASSUME NEW e \in batch, HandlerStep(e) PROVE EventsFindTheirHandler' /\ BatchSound'
  <2>1. batch' = batch \ {e}
    BY <1>5 DEF HandlerStep, acceptRead, acceptFails, acceptError, readData, readEnd,
         writeData, writeFails, writeKills, errorHandler, noticeRead, Dispatch
  <2>2. EventsFindTheirHandler'
    BY <1>5, <2>1, OthersKeepHandler DEF EventsFindTheirHandler, BatchSound
  <2>3. listening' # listening => e[1] = ListenFd
    BY <1>5 DEF HandlerStep, acceptRead, acceptFails, acceptError, readData, readEnd,
         writeData, writeFails, writeKills, errorHandler, noticeRead, Dispatch
  <2>4. BatchSound'
    BY <2>1, <2>3 DEF BatchSound
  <2>. QED
    BY <2>2, <2>4
<1>. QED
  BY <1>2, <1>3, <1>4, <1>5 DEF Next, LoopStep

------------------------------------------------------------------------------
(* The hand-over between the threads *)

\* Every step leaves a wake-up on its way for the callbacks that wait.
LEMMA HandOverStep ==
  ASSUME TypeOK, NoLostNotice, HeldIsMessage, SwapsWhenDone, [Next]_vars
  PROVE  NoLostNotice' /\ HeldIsMessage' /\ SwapsWhenDone'
<1> USE DEF vars, clientVars, socketVars, kernelVars, registryVars, sessionVars,
      loopVars, noticeVars, workerVars, serverVars, NoLostNotice, HeldIsMessage, SwapsWhenDone
<1>1. CASE UNCHANGED <<noticeEvents_, signalled, atSwap, worker, spMessage, funcs>>
  BY <1>1
<1>2. CASE \/ UNCHANGED vars \/ ListenFails \/ waitEvent \/ \E c \in Conn : ClientStep(c)
  BY <1>1, <1>2 DEF waitEvent, ListenFails, ClientStep, Connect, SendPart, Drain, Finish, Abort
<1>3. CASE noticeSwap
  BY <1>3 DEF noticeSwap
<1>4. CASE sendback
  BY <1>4 DEF sendback
<1>5. CASE workerPop
  <2>1. Head(queue_) \in Message
    BY <1>5 DEF workerPop, TypeOK, ThreadTypeOK
  <2>. QED
    BY <1>5, <2>1 DEF workerPop
<1>6. CASE addNoticeEvent
  BY <1>6 DEF addNoticeEvent
<1>7. CASE notice
  BY <1>7 DEF notice
<1>8. ASSUME NEW e \in batch, HandlerStep(e)
      PROVE  NoLostNotice' /\ HeldIsMessage' /\ SwapsWhenDone'
  <2>1. CASE noticeRead(e)
    BY <2>1 DEF noticeRead, Dispatch, AtDispatch
  <2>2. CASE ~noticeRead(e)
    BY <1>1, <1>8, <2>2 DEF HandlerStep, acceptRead, acceptFails, acceptError, readData, readEnd,
       writeData, writeFails, writeKills, errorHandler
  <2>. QED
    BY <2>1, <2>2
<1>. QED
  BY <1>2, <1>3, <1>4, <1>5, <1>6, <1>7, <1>8 DEF Next, LoopStep, WorkerStep

------------------------------------------------------------------------------
(* The pipeline as one sequence of four parts *)

\* Appending to the last of four sequences appends to their concatenation.
LEMMA AppendLast ==
  ASSUME NEW S, NEW a \in Seq(S), NEW b \in Seq(S), NEW c \in Seq(S), NEW d \in Seq(S), NEW x \in S
  PROVE  a \o b \o c \o Append(d, x) = Append(a \o b \o c \o d, x)
<1> DEFINE t == a \o b \o c
<1>1. t \in Seq(S)
  BY ConcatProperties
<1>2. Append(d, x) = d \o <<x>> /\ <<x>> \in Seq(S)
  BY AppendIsConcat
<1>3. t \o (d \o <<x>>) = (t \o d) \o <<x>>
  BY <1>1, <1>2, ConcatAssociative
<1>4. t \o d \in Seq(S)
  BY <1>1, ConcatProperties
<1>5. Append(t \o d, x) = (t \o d) \o <<x>>
  BY <1>4, AppendIsConcat
<1>. QED
  BY <1>2, <1>3, <1>5

\* The head of the fourth sequence moves into the empty third one (pop).
LEMMA MoveHeadToThird ==
  ASSUME NEW S, NEW a \in Seq(S), NEW b \in Seq(S), NEW d \in Seq(S), d # <<>>
  PROVE  a \o b \o <<Head(d)>> \o Tail(d) = a \o b \o <<>> \o d
<1> DEFINE t == a \o b
<1>1. t \in Seq(S)
  BY ConcatProperties
<1>2. Head(d) \in S /\ <<Head(d)>> \in Seq(S) /\ Tail(d) \in Seq(S)
  BY HeadTailProperties
<1>3. <<Head(d)>> \o Tail(d) = d
  BY <1>2
<1>4. (t \o <<Head(d)>>) \o Tail(d) = t \o (<<Head(d)>> \o Tail(d))
  BY <1>1, <1>2, ConcatAssociative
<1>5. t \o <<>> = t
  BY <1>1, ConcatEmptySeq
<1>. QED
  BY <1>3, <1>4, <1>5

\* The one element of the third moves to the end of the second (append).
LEMMA MoveThirdToSecond ==
  ASSUME NEW S, NEW a \in Seq(S), NEW b \in Seq(S), NEW x \in S, NEW d \in Seq(S)
  PROVE  a \o Append(b, x) \o <<>> \o d = a \o b \o <<x>> \o d
<1>1. Append(b, x) = b \o <<x>> /\ <<x>> \in Seq(S) /\ b \o <<x>> \in Seq(S)
  BY AppendIsConcat, ConcatProperties
<1>2. a \o (b \o <<x>>) = (a \o b) \o <<x>>
  BY <1>1, ConcatAssociative
<1>3. a \o (b \o <<x>>) \in Seq(S)
  BY <1>1, ConcatProperties
<1>4. (a \o (b \o <<x>>)) \o <<>> = a \o (b \o <<x>>)
  BY <1>3, ConcatEmptySeq
<1>. QED
  BY <1>1, <1>2, <1>4

\* The whole second moves into the empty first one (swap).
LEMMA MoveSecondToFirst ==
  ASSUME NEW S, NEW b \in Seq(S), NEW c \in Seq(S), NEW d \in Seq(S)
  PROVE  b \o <<>> \o c \o d = <<>> \o b \o c \o d
BY ConcatEmptySeq

\* The head of a concatenation is the head of its first part.
LEMMA TakeHead ==
  ASSUME NEW S, NEW s \in Seq(S), NEW t \in Seq(S), s # <<>>
  PROVE  /\ s \o t \in Seq(S) /\ s \o t # <<>>
         /\ Head(s \o t) = Head(s)
         /\ Tail(s \o t) = Tail(s) \o t
<1>1. s \o t \in Seq(S) /\ Len(s \o t) = Len(s) + Len(t) /\ Len(s) > 0
  BY ConcatProperties
<1>2. s \o t # <<>> /\ Head(s \o t) = Head(s)
  BY <1>1, ConcatProperties
<1>3. Tail(s) \in Seq(S) /\ Len(Tail(s)) = Len(s) - 1
      /\ \A i \in 1..Len(s) - 1 : Tail(s)[i] = s[i + 1]
  BY HeadTailProperties
<1>4. Tail(s \o t) \in Seq(S) /\ Len(Tail(s \o t)) = Len(s) + Len(t) - 1
      /\ \A i \in 1..Len(s) + Len(t) - 1 : Tail(s \o t)[i] = (s \o t)[i + 1]
  BY <1>1, <1>2, HeadTailProperties
<1>5. Tail(s) \o t \in Seq(S) /\ Len(Tail(s) \o t) = Len(s) - 1 + Len(t)
      /\ \A i \in 1..Len(s) - 1 + Len(t) :
            (Tail(s) \o t)[i] = IF i <= Len(s) - 1 THEN Tail(s)[i] ELSE t[i - (Len(s) - 1)]
  BY <1>3, ConcatProperties
<1>6. \A i \in 1..Len(s) + Len(t) : (s \o t)[i] = IF i <= Len(s) THEN s[i] ELSE t[i - Len(s)]
  BY ConcatProperties
<1>7. \A i \in 1..Len(Tail(s \o t)) : Tail(s \o t)[i] = (Tail(s) \o t)[i]
  BY <1>1, <1>3, <1>4, <1>5, <1>6
<1>8. Tail(s \o t) = Tail(s) \o t
  BY <1>1, <1>4, <1>5, <1>7, SeqEqual
<1>. QED
  BY <1>1, <1>2, <1>8

------------------------------------------------------------------------------
(* What the steps do to the pipeline *)

\* All stages between the reading and the answering of a request hold messages.
LEMMA PipelineTypes ==
  ASSUME TypeOK, HeldIsMessage
  PROVE  /\ funcs \in Seq(Message) /\ noticeEvents_ \in Seq(Message)
         /\ Held \in Seq(Message) /\ queue_ \in Seq(Message)
         /\ InFlight \in Seq(Message)
<1>1. /\ funcs \in Seq(Message) /\ noticeEvents_ \in Seq(Message)
      /\ Held \in Seq(Message) /\ queue_ \in Seq(Message)
  BY DEF TypeOK, ThreadTypeOK, Held, HeldIsMessage
<1>. QED
  BY <1>1, ConcatProperties DEF InFlight

\* The threads move messages from stage to stage; the sequence stays what it is.
LEMMA InFlightSame ==
  ASSUME TypeOK, HeldIsMessage, SwapsWhenDone,
         noticeSwap \/ workerPop \/ addNoticeEvent \/ notice
  PROVE  InFlight' = InFlight
<1> USE DEF loopVars, noticeVars, workerVars
<1>1. CASE noticeSwap
  <2>1. funcs = <<>> /\ funcs' = noticeEvents_ /\ noticeEvents_' = <<>>
        /\ Held' = Held /\ queue_' = queue_
    BY <1>1 DEF noticeSwap, SwapsWhenDone, Held
  <2>. QED
    BY <2>1, PipelineTypes, MoveSecondToFirst DEF InFlight
<1>2. CASE workerPop
  <2>1. queue_ # <<>> /\ Held = <<>> /\ Held' = <<Head(queue_)>> /\ queue_' = Tail(queue_)
        /\ UNCHANGED <<funcs, noticeEvents_>>
    BY <1>2 DEF workerPop, Held
  <2>. QED
    BY <2>1, PipelineTypes, MoveHeadToThird DEF InFlight
<1>3. CASE addNoticeEvent
  <2>1. spMessage \in Message /\ Held = <<spMessage>> /\ Held' = <<>>
        /\ noticeEvents_' = Append(noticeEvents_, spMessage) /\ UNCHANGED <<funcs, queue_>>
    BY <1>3 DEF addNoticeEvent, Held, HeldIsMessage
  <2>. QED
    BY <2>1, PipelineTypes, MoveThirdToSecond DEF InFlight
<1>4. CASE notice
  BY <1>4 DEF notice, InFlight, Held
<1>. QED
  BY <1>1, <1>2, <1>3, <1>4

\* onMessage puts the next request of its connection at the end of the sequence.
LEMMA InFlightPush ==
  ASSUME TypeOK, HeldIsMessage, NEW c \in Conn, NEW size, onMessage(c, size),
         UNCHANGED <<funcs, noticeEvents_, worker, spMessage>>
  PROVE  InFlight' = Append(InFlight, <<c, handed[c] + 1>>)
<1>1. <<c, handed[c] + 1>> \in Message
  BY DEF Message, TypeOK, SessionTypeOK
<1>2. Held' = Held
  BY DEF Held
<1>. QED
  BY <1>1, <1>2, PipelineTypes, AppendLast DEF InFlight, onMessage

\* sendback takes the first message out of it.
LEMMA InFlightTake ==
  ASSUME TypeOK, HeldIsMessage, sendback
  PROVE  InFlight # <<>> /\ Head(funcs) = Head(InFlight) /\ InFlight' = Tail(InFlight)
<1>1. funcs # <<>> /\ funcs' = Tail(funcs) /\ UNCHANGED <<noticeEvents_, queue_>> /\ Held' = Held
  BY DEF sendback, noticeVars, workerVars, Held
<1>. QED
  <2>1. InFlight # <<>> /\ Head(InFlight) = Head(funcs)
        /\ Tail(InFlight) = Tail(funcs) \o noticeEvents_ \o Held \o queue_
    <3>1. /\ funcs \in Seq(Message) /\ noticeEvents_ \in Seq(Message)
          /\ Held \in Seq(Message) /\ queue_ \in Seq(Message)
      BY PipelineTypes
    <3>. DEFINE s == funcs \o noticeEvents_
                t == s \o Held
    <3>2. s \in Seq(Message) /\ s # <<>> /\ Head(s) = Head(funcs)
          /\ Tail(s) = Tail(funcs) \o noticeEvents_
      BY <1>1, <3>1, TakeHead
    <3>. HIDE DEF s
    <3>3. t \in Seq(Message) /\ t # <<>> /\ Head(t) = Head(s) /\ Tail(t) = Tail(s) \o Held
      BY <3>1, <3>2, TakeHead
    <3>. HIDE DEF t
    <3>4. t \o queue_ # <<>> /\ Head(t \o queue_) = Head(t)
          /\ Tail(t \o queue_) = Tail(t) \o queue_
      BY <3>1, <3>3, TakeHead
    <3>. QED
      BY <3>2, <3>3, <3>4 DEF InFlight, s, t
  <2>2. InFlight' = Tail(funcs) \o noticeEvents_ \o Held \o queue_
    BY <1>1 DEF InFlight
  <2>. QED
    BY <2>1, <2>2

\* A write moves bytes from the buffer to the socket of the same connection.
LEMMA OutputWritten ==
  ASSUME TypeOK, TablesAgree, EventsFindTheirHandler, NEW e \in batch, writeData(e)
  PROVE  Output' = Output
<1> DEFINE c == mapHandler_[e[1]]
           w == writeBuffer[c]
<1>1. c \in Conn /\ table[e[1]] = c
  BY EventOwner DEF writeData
<1>2. w \in Seq(Message) /\ tx[c] \in Seq(Message) /\ Len(w) \in Nat
  BY <1>1 DEF TypeOK, SessionTypeOK, SocketTypeOK
<1>3. PICK n \in 0..Len(w) :
        /\ tx' = [tx EXCEPT ![c] = @ \o SubSeq(w, 1, n)]
        /\ writeBuffer' = [writeBuffer EXCEPT ![c] = SubSeq(w, n + 1, Len(w))]
  BY <1>1 DEF writeData, unwritten
<1> HIDE DEF c, w
<1>4. SubSeq(w, 1, n) \o SubSeq(w, n + 1, Len(w)) = w
  <2>1. n \in 1-1 .. Len(w) /\ 1 \in 1..Len(w)+1 /\ Len(w) \in n..Len(w)
    BY <1>2
  <2>2. SubSeq(w, 1, n) \o SubSeq(w, n + 1, Len(w)) = SubSeq(w, 1, Len(w))
    BY <1>2, <2>1, ConcatAdjacentSubSeq
  <2>. QED
    BY <1>2, <2>2, SubSeqFull
<1>5. SubSeq(w, 1, n) \in Seq(Message) /\ SubSeq(w, n + 1, Len(w)) \in Seq(Message)
  BY <1>2, <1>3
<1>6. (tx[c] \o SubSeq(w, 1, n)) \o SubSeq(w, n + 1, Len(w)) = tx[c] \o w
  <2>1. ASSUME NEW s \in Seq(Message), NEW t \in Seq(Message), NEW u \in Seq(Message)
        PROVE  (s \o t) \o u = s \o (t \o u)
    BY ConcatAssociative
  <2>2. (tx[c] \o SubSeq(w, 1, n)) \o SubSeq(w, n + 1, Len(w))
          = tx[c] \o (SubSeq(w, 1, n) \o SubSeq(w, n + 1, Len(w)))
    BY ONLY <1>2, <1>5, <2>1
  <2>. QED
    BY ONLY <1>4, <2>2
<1>7. tx'[c] \o writeBuffer'[c] = tx[c] \o writeBuffer[c]
  BY <1>1, <1>3, <1>6 DEF TypeOK, SessionTypeOK, SocketTypeOK, w
<1>8. \A d \in Conn : d # c => tx'[d] = tx[d] /\ writeBuffer'[d] = writeBuffer[d]
  BY <1>3 DEF TypeOK, SessionTypeOK, SocketTypeOK
<1>. QED
  BY <1>7, <1>8 DEF Output

------------------------------------------------------------------------------
(* Order *)

\* What a connection was or will be sent is a sequence of messages.
LEMMA OutputTypes ==
  ASSUME TypeOK
  PROVE  Output \in [Conn -> Seq(Message)] /\ Answered \in [Conn -> Nat]
<1>1. \A c \in Conn : tx[c] \o writeBuffer[c] \in Seq(Message)
  BY ConcatProperties DEF TypeOK, SessionTypeOK, SocketTypeOK
<1>2. Output \in [Conn -> Seq(Message)]
  BY <1>1 DEF Output
<1>3. \A n \in Nat : n \div AnswerParts \in Nat
  BY BoundAssumption
<1>. QED
  BY <1>2, <1>3 DEF Answered

\* A message more at the end.
LEMMA HoldsMore ==
  ASSUME NEW q \in Seq(Message), NEW from \in [Conn -> Nat], NEW to \in [Conn -> Nat],
         HoldsInOrder(q, from, to), NEW c \in Conn, from[c] <= to[c]
  PROVE  HoldsInOrder(Append(q, <<c, to[c] + 1>>), from, [to EXCEPT ![c] = @ + 1])
<1> DEFINE r == Append(q, <<c, to[c] + 1>>)
           t == [to EXCEPT ![c] = @ + 1]
           last == Len(q) + 1
<1>1. /\ t[c] = to[c] + 1
      /\ \A d \in Conn : to[d] \in Nat /\ t[d] \in Nat /\ from[d] \in Nat /\ to[d] <= t[d]
      /\ \A d \in Conn : d # c => t[d] = to[d]
  OBVIOUS
<1>2. /\ Len(q) \in Nat /\ Len(r) = last
      /\ \A i \in 1..Len(q) : r[i] = q[i]
      /\ r[last] = <<c, to[c] + 1>>
  BY <1>1, AppendProperties DEF Message
<1>3. \A i \in 1..Len(q) : q[i][1] \in Conn /\ q[i][2] \in Nat
  BY DEF Message
<1> HIDE DEF r, t
<1>4. \A i \in 1..Len(r) : r[i][2] \in from[r[i][1]] + 1 .. t[r[i][1]]
  <2>. SUFFICES ASSUME NEW i \in 1..Len(r) PROVE r[i][2] \in from[r[i][1]] + 1 .. t[r[i][1]]
    OBVIOUS
  <2>1. CASE i = last
    BY <1>1, <1>2, <2>1
  <2>2. CASE i \in 1..Len(q)
    <3>1. q[i][2] \in from[q[i][1]] + 1 .. to[q[i][1]] /\ r[i] = q[i] /\ q[i][1] \in Conn
      BY <1>2, <1>3, <2>2 DEF HoldsInOrder
    <3>2. to[q[i][1]] <= t[q[i][1]] /\ to[q[i][1]] \in Nat /\ t[q[i][1]] \in Nat
      BY <1>1, <3>1
    <3>. QED
      BY <1>1, <1>3, <2>2, <3>1, <3>2
  <2>. QED
    BY <1>2, <2>1, <2>2
<1>5. \A j \in 1..Len(r) : \A i \in 1..j-1 : r[i][1] = r[j][1] => r[i][2] < r[j][2]
  <2>. SUFFICES ASSUME NEW j \in 1..Len(r), NEW i \in 1..j-1, r[i][1] = r[j][1]
                PROVE  r[i][2] < r[j][2]
    OBVIOUS
  <2>0. i \in 1..Len(q) /\ r[i] = q[i]
    BY <1>2
  <2>1. CASE j = last
    <3>1. q[i][1] = c /\ q[i][2] \in from[c] + 1 .. to[c]
      BY <1>2, <2>0, <2>1 DEF HoldsInOrder
    <3>. QED
      BY <1>1, <1>2, <2>0, <2>1, <3>1
  <2>2. CASE j \in 1..Len(q)
    BY <1>2, <2>0, <2>2 DEF HoldsInOrder
  <2>. QED
    BY <1>2, <2>1, <2>2
<1>6. \A d \in Conn : \A n \in from[d] + 1 .. t[d] : \E i \in 1..Len(r) : r[i] = <<d, n>>
  <2>. SUFFICES ASSUME NEW d \in Conn, NEW n \in from[d] + 1 .. t[d]
                PROVE  \E i \in 1..Len(r) : r[i] = <<d, n>>
    OBVIOUS
  <2>1. CASE d = c /\ n = to[c] + 1
    <3>1. last \in 1..Len(r) /\ r[last] = <<d, n>>
      BY <1>2, <2>1
    <3>. QED
      BY <3>1
  <2>2. CASE n \in from[d] + 1 .. to[d]
    <3>1. PICK i \in 1..Len(q) : q[i] = <<d, n>>
      BY <2>2 DEF HoldsInOrder
    <3>2. i \in 1..Len(r) /\ r[i] = <<d, n>>
      BY <1>2, <3>1
    <3>. QED
      BY <3>2
  <2>3. \/ d = c /\ n = to[c] + 1
        \/ n \in from[d] + 1 .. to[d]
    <3>1. CASE d = c
      BY <1>1, <3>1
    <3>2. CASE d # c
      BY <1>1, <3>2
    <3>. QED
      BY <3>1, <3>2
  <2>. QED
    BY <2>1, <2>2, <2>3
<1>7. HoldsInOrder(r, from, t)
  BY <1>4, <1>5, <1>6 DEF HoldsInOrder
<1>. QED
  BY <1>7 DEF r, t

\* The first message taken: it is the next one of its connection.
LEMMA HoldsLess ==
  ASSUME NEW q \in Seq(Message), NEW from \in [Conn -> Nat], NEW to \in [Conn -> Nat],
         HoldsInOrder(q, from, to), q # <<>>
  PROVE  LET c == Head(q)[1] IN
         /\ c \in Conn
         /\ Head(q) = <<c, from[c] + 1>>
         /\ from[c] + 1 <= to[c]
         /\ HoldsInOrder(Tail(q), [from EXCEPT ![c] = @ + 1], to)
<1> DEFINE c == Head(q)[1]
           r == Tail(q)
           f == [from EXCEPT ![c] = @ + 1]
<1>1. /\ Len(q) \in Nat \ {0} /\ Head(q) = q[1] /\ Head(q) \in Message
      /\ Len(r) = Len(q) - 1 /\ \A i \in 1..Len(r) : r[i] = q[i + 1]
  BY HeadTailProperties, EmptySeq
<1>2. c \in Conn /\ Head(q)[2] \in Nat /\ Head(q) = <<c, Head(q)[2]>>
  BY <1>1 DEF Message
<1>3. /\ f[c] = from[c] + 1 /\ \A d \in Conn : from[d] \in Nat /\ to[d] \in Nat
      /\ \A d \in Conn : d # c => f[d] = from[d]
  BY <1>2
<1>4. \A i \in 1..Len(q) : q[i][1] \in Conn /\ q[i][2] \in Nat
  BY DEF Message
<1> HIDE DEF c, r, f
<1>5. Head(q)[2] = from[c] + 1 /\ from[c] + 1 <= to[c]
  <2>1. q[1][2] \in from[c] + 1 .. to[c]
    BY <1>1, <1>2 DEF HoldsInOrder, c
  <2>2. from[c] + 1 \in from[c] + 1 .. to[c]
    BY <1>1, <1>2, <1>3, <2>1
  <2>3. PICK i \in 1..Len(q) : q[i] = <<c, from[c] + 1>>
    BY <1>2, <2>2 DEF HoldsInOrder
  <2>4. CASE i = 1
    BY <1>1, <2>1, <2>3, <2>4, <1>3, <1>2
  <2>5. CASE i # 1
    <3>1. 1 \in 1..i-1 /\ q[1][1] = q[i][1]
      BY <1>1, <2>3, <2>5 DEF c
    <3>2. q[1][2] < q[i][2]
      BY <3>1 DEF HoldsInOrder
    <3>. QED
      BY <1>2, <1>3, <2>1, <2>3, <3>2
  <2>. QED
    BY <2>4, <2>5
<1>6. \A i \in 1..Len(r) : r[i][2] \in f[r[i][1]] + 1 .. to[r[i][1]]
  <2>. SUFFICES ASSUME NEW i \in 1..Len(r) PROVE r[i][2] \in f[r[i][1]] + 1 .. to[r[i][1]]
    OBVIOUS
  <2>1. i + 1 \in 1..Len(q) /\ r[i] = q[i + 1] /\ 1 \in 1..(i + 1)-1 /\ q[i + 1][1] \in Conn
        /\ q[i + 1][2] \in Nat
    BY <1>1, <1>4
  <2>2. q[i + 1][2] \in from[q[i + 1][1]] + 1 .. to[q[i + 1][1]]
    BY <2>1 DEF HoldsInOrder
  <2>3. CASE r[i][1] = c
    <3>1. q[1][1] = q[i + 1][1]
      BY <1>1, <2>1, <2>3 DEF c
    <3>2. q[1][2] < q[i + 1][2]
      BY <2>1, <3>1 DEF HoldsInOrder
    <3>. QED
      BY <1>1, <1>2, <1>3, <1>5, <2>1, <2>2, <2>3, <3>2
  <2>4. CASE r[i][1] # c
    BY <1>3, <2>1, <2>2, <2>4
  <2>. QED
    BY <2>3, <2>4
<1>7. \A j \in 1..Len(r) : \A i \in 1..j-1 : r[i][1] = r[j][1] => r[i][2] < r[j][2]
  <2>. SUFFICES ASSUME NEW j \in 1..Len(r), NEW i \in 1..j-1, r[i][1] = r[j][1]
                PROVE  r[i][2] < r[j][2]
    OBVIOUS
  <2>1. j + 1 \in 1..Len(q) /\ i + 1 \in 1..(j + 1)-1 /\ r[j] = q[j + 1] /\ r[i] = q[i + 1]
    BY <1>1
  <2>. QED
    BY <2>1 DEF HoldsInOrder
<1>8. \A d \in Conn : \A n \in f[d] + 1 .. to[d] : \E i \in 1..Len(r) : r[i] = <<d, n>>
  <2>. SUFFICES ASSUME NEW d \in Conn, NEW n \in f[d] + 1 .. to[d]
                PROVE  \E i \in 1..Len(r) : r[i] = <<d, n>>
    OBVIOUS
  <2>1. n \in from[d] + 1 .. to[d] /\ (d = c => n # from[c] + 1)
    BY <1>3
  <2>2. PICK i \in 1..Len(q) : q[i] = <<d, n>>
    BY <2>1 DEF HoldsInOrder
  <2>3. i # 1
    BY <1>1, <1>2, <1>5, <2>1, <2>2
  <2>4. i - 1 \in 1..Len(r) /\ r[i - 1] = q[(i - 1) + 1] /\ (i - 1) + 1 = i
    BY <1>1, <2>3
  <2>. QED
    BY <2>2, <2>4
<1>9. HoldsInOrder(r, f, to)
  BY <1>6, <1>7, <1>8 DEF HoldsInOrder
<1>. QED
  BY <1>2, <1>5, <1>9 DEF c, r, f

\* So many pieces more are an answer more.
LEMMA OneAnswerMore ==
  ASSUME NEW n \in Nat
  PROVE  /\ (n * AnswerParts) \div AnswerParts = n
         /\ n * AnswerParts + AnswerParts = (n + 1) * AnswerParts
         /\ n * AnswerParts \in Nat
BY BoundAssumption

\* sendback puts its answer behind the output of the message's connection.
LEMMA OutputAppended ==
  ASSUME TypeOK, sendback, NEW c \in Conn, c = Head(funcs)[1], Head(funcs) \in Message,
         Len(Output[c]) = Answered[c] * AnswerParts
  PROVE  /\ Output' = [Output EXCEPT ![c] = @ \o Pieces(Head(funcs))]
         /\ Len(Output'[c]) = (Answered[c] + 1) * AnswerParts
         /\ Answered' = [Answered EXCEPT ![c] = @ + 1]
<1> DEFINE p == Pieces(Head(funcs))
<1>1. /\ writeBuffer' = [writeBuffer EXCEPT ![c] = @ \o p]
      /\ tx' = tx
  BY DEF sendback, append, socketVars
<1>2. /\ tx \in [Conn -> Seq(Message)] /\ writeBuffer \in [Conn -> Seq(Message)]
      /\ Output \in [Conn -> Seq(Message)] /\ Answered \in [Conn -> Nat]
  BY OutputTypes DEF TypeOK, SessionTypeOK, SocketTypeOK
<1>3. p \in Seq(Message) /\ Len(p) = AnswerParts /\ AnswerParts \in Nat
  BY PiecesTyping, BoundAssumption, <<>> \in Seq(Message)
<1> HIDE DEF p
<1>4. tx[c] \o (writeBuffer[c] \o p) = (tx[c] \o writeBuffer[c]) \o p
  <2>1. ASSUME NEW s \in Seq(Message), NEW t \in Seq(Message), NEW u \in Seq(Message)
        PROVE  s \o (t \o u) = (s \o t) \o u
    BY ConcatAssociative
  <2>2. tx[c] \in Seq(Message) /\ writeBuffer[c] \in Seq(Message)
    BY <1>2
  <2>. QED
    BY ONLY <1>3, <2>1, <2>2
<1>5. Output' = [Output EXCEPT ![c] = @ \o p]
  BY <1>1, <1>2, <1>4 DEF Output
<1>6. Len(Output'[c]) = (Answered[c] + 1) * AnswerParts
  <2>1. Len(Output[c] \o p) = Len(Output[c]) + AnswerParts
    <3>1. ASSUME NEW s \in Seq(Message), NEW t \in Seq(Message)
          PROVE  Len(s \o t) = Len(s) + Len(t)
      BY ConcatProperties
    <3>2. Output[c] \in Seq(Message)
      BY <1>2
    <3>. QED
      BY ONLY <1>3, <3>1, <3>2
  <2>. QED
    BY <1>2, <1>5, <2>1, OneAnswerMore
<1>7. Answered' = [Answered EXCEPT ![c] = @ + 1]
  <2>1. Len(Output'[c]) \div AnswerParts = Answered[c] + 1
    <3>1. Answered[c] + 1 \in Nat
      BY <1>2
    <3>. HIDE DEF Answered
    <3>2. ((Answered[c] + 1) * AnswerParts) \div AnswerParts = Answered[c] + 1
      BY <3>1, OneAnswerMore
    <3>. QED
      BY <1>6, <3>2
  <2>2. \A d \in Conn : d # c => Output'[d] = Output[d]
    BY <1>2, <1>5
  <2>. QED
    BY <2>1, <2>2 DEF Answered
<1>. QED
  BY <1>5, <1>6, <1>7 DEF p

\* A step that changes neither the requests in flight nor the output keeps their order.
LEMMA OrderSame ==
  ASSUME OutputInOrder, InFlightInOrder, Output' = Output, InFlight' = InFlight, handed' = handed
  PROVE  OutputInOrder' /\ InFlightInOrder'
<1>1. Answered' = Answered
  BY DEF Answered
<1>. QED
  BY <1>1 DEF OutputInOrder, InFlightInOrder, HoldsInOrder

\* Taking a request puts it behind those in flight.
LEMMA OrderPush ==
  ASSUME TypeOK, HeldIsMessage, OutputInOrder, InFlightInOrder,
         NEW c \in Conn, NEW size, onMessage(c, size),
         UNCHANGED <<tx, writeBuffer, funcs, noticeEvents_, worker, spMessage>>
  PROVE  OutputInOrder' /\ InFlightInOrder'
<1>1. Output' = Output
  BY DEF Output
<1>2. Answered' = Answered
  BY <1>1 DEF Answered
<1>3. InFlight' = Append(InFlight, <<c, handed[c] + 1>>)
  BY InFlightPush
<1>4. handed' = [handed EXCEPT ![c] = @ + 1] /\ handed \in [Conn -> Nat]
  BY DEF onMessage, TypeOK, SessionTypeOK
<1>5. InFlight \in Seq(Message) /\ Answered \in [Conn -> Nat] /\ Answered[c] <= handed[c]
  BY PipelineTypes, OutputTypes DEF OutputInOrder
<1>6. InFlightInOrder'
  <2>1. HoldsInOrder(Append(InFlight, <<c, handed[c] + 1>>), Answered,
                     [handed EXCEPT ![c] = @ + 1])
    BY <1>4, <1>5, HoldsMore DEF InFlightInOrder
  <2>. QED
    BY <1>2, <1>3, <1>4, <2>1 DEF InFlightInOrder
<1>7. OutputInOrder'
  <2>1. \A d \in Conn : handed[d] \in Nat /\ Answered[d] \in Nat /\ Answered[d] <= handed[d]
    BY <1>4, <1>5 DEF OutputInOrder
  <2>2. \A d \in Conn : Answered[d] <= handed'[d]
    BY <1>4, <2>1
  <2>. QED
    BY <1>1, <1>2, <2>2 DEF OutputInOrder
<1>. QED
  BY <1>6, <1>7

\* sendback answers the request at the head of those in flight.
LEMMA OrderTake ==
  ASSUME TypeOK, HeldIsMessage, OutputInOrder, InFlightInOrder, sendback
  PROVE  OutputInOrder' /\ InFlightInOrder'
<1> DEFINE c == Head(funcs)[1]
<1>1. InFlight # <<>> /\ Head(funcs) = Head(InFlight) /\ InFlight' = Tail(InFlight)
  BY InFlightTake
<1>2. /\ InFlight \in Seq(Message) /\ Answered \in [Conn -> Nat] /\ handed \in [Conn -> Nat]
      /\ Output \in [Conn -> Seq(Message)] /\ handed' = handed /\ Head(funcs) \in Message
  BY PipelineTypes, OutputTypes DEF sendback, TypeOK, SessionTypeOK, ThreadTypeOK
<1>3. /\ c \in Conn
      /\ Head(funcs) = <<c, Answered[c] + 1>>
      /\ Answered[c] + 1 <= handed[c]
      /\ HoldsInOrder(InFlight', [Answered EXCEPT ![c] = @ + 1], handed)
  BY <1>1, <1>2, HoldsLess DEF InFlightInOrder
<1>4. /\ Output' = [Output EXCEPT ![c] = @ \o Pieces(Head(funcs))]
      /\ Len(Output'[c]) = (Answered[c] + 1) * AnswerParts
      /\ Answered' = [Answered EXCEPT ![c] = @ + 1]
  BY <1>2, <1>3, OutputAppended DEF OutputInOrder
<1> HIDE DEF c
<1>5. InFlightInOrder'
  BY <1>2, <1>3, <1>4 DEF InFlightInOrder
<1>6. \A d \in Conn : /\ Answered'[d] <= handed'[d]
                       /\ Len(Output'[d]) = Answered'[d] * AnswerParts
  <2>1. Answered'[c] = Answered[c] + 1 /\ handed'[c] = handed[c]
    BY <1>2, <1>3, <1>4
  <2>2. ASSUME NEW d \in Conn, d # c
        PROVE  Answered'[d] = Answered[d] /\ Output'[d] = Output[d] /\ handed'[d] = handed[d]
    BY <1>2, <1>4, <2>2
  <2>. QED
    BY <1>3, <1>4, <2>1, <2>2 DEF OutputInOrder
<1>7. ASSUME NEW d \in Conn, NEW i \in 1..Len(Output'[d]) PROVE Output'[d][i] = <<d, i>>
  <2>1. CASE d # c
    BY <1>2, <1>4, <1>7, <2>1 DEF OutputInOrder
  <2>2. CASE d = c
    <3>. DEFINE p == Pieces(<<c, Answered[c] + 1>>)
    <3>1. p \in Seq(Message) /\ Len(p) = AnswerParts
      BY <1>2, <1>3, PiecesTyping
    <3>2. /\ Output'[c] = Output[c] \o p /\ Output[c] \in Seq(Message)
          /\ Len(Output[c]) = Answered[c] * AnswerParts /\ Answered[c] \in Nat
      BY <1>2, <1>3, <1>4 DEF OutputInOrder
    <3>3. \A j \in 1..AnswerParts : p[j] = <<c, Len(Output[c]) + j>>
      <4>1. (Answered[c] + 1) - 1 = Answered[c]
        BY <3>2
      <4>. QED
        BY <3>2, <4>1 DEF Pieces
    <3>. HIDE DEF p
    <3>4. CASE i \in 1..Len(Output[c])
      <4>1. Output'[c][i] = Output[c][i]
        BY <3>1, <3>2, <3>4
      <4>. QED
        BY <1>3, <2>2, <3>4, <4>1 DEF OutputInOrder
    <3>5. CASE i \notin 1..Len(Output[c])
      <4>1. /\ i - Len(Output[c]) \in 1..AnswerParts
            /\ Output'[c][i] = p[i - Len(Output[c])]
            /\ Len(Output[c]) + (i - Len(Output[c])) = i
        <5>1. ASSUME NEW u \in Seq(Message), NEW t \in Seq(Message)
              PROVE  /\ Len(u \o t) = Len(u) + Len(t)
                     /\ \A j \in 1..Len(u) + Len(t) :
                          (u \o t)[j] = IF j <= Len(u) THEN u[j] ELSE t[j - Len(u)]
          OBVIOUS
        <5>2. Len(Output'[c]) = Len(Output[c]) + AnswerParts /\ Len(Output[c]) \in Nat
          <6>1. Len(Output[c] \o p) = Len(Output[c]) + Len(p) /\ Len(Output[c]) \in Nat
            <7>1. p \in Seq(Message) /\ Output[c] \in Seq(Message)
              BY <3>1, <3>2
            <7>2. ASSUME NEW u \in Seq(Message), NEW t \in Seq(Message)
                  PROVE  Len(u \o t) = Len(u) + Len(t) /\ Len(u) \in Nat
              BY ConcatProperties
            <7>. QED
              BY ONLY <7>1, <7>2
          <6>. QED
            BY ONLY <3>1, <3>2, <6>1
        <5>3. i \in 1..Len(Output[c]) + AnswerParts /\ ~(i <= Len(Output[c]))
          BY <2>2, <3>5, <5>2, BoundAssumption
        <5>4. Output'[c][i] = p[i - Len(Output[c])]
          BY <3>1, <3>2, <5>1, <5>3
        <5>. QED
          BY <5>2, <5>3, <5>4, BoundAssumption
      <4>. QED
        BY <2>2, <3>3, <4>1
    <3>. QED
      BY <3>4, <3>5
  <2>. QED
    BY <2>1, <2>2
<1>8. OutputInOrder'
  BY <1>6, <1>7 DEF OutputInOrder
<1>. QED
  BY <1>5, <1>8

\* Every step keeps the order of requests and answers.
LEMMA OrderStep ==
  ASSUME TypeOK, TablesAgree, EventsFindTheirHandler, HeldIsMessage, SwapsWhenDone,
         OutputInOrder, InFlightInOrder, [Next]_vars
  PROVE  OutputInOrder' /\ InFlightInOrder'
<1> USE DEF vars, clientVars, socketVars, kernelVars, registryVars, sessionVars,
      loopVars, noticeVars, workerVars, serverVars
<1>1. CASE UNCHANGED <<tx, writeBuffer, handed, funcs, noticeEvents_, queue_, worker, spMessage>>
  BY <1>1, OrderSame DEF Output, InFlight, Held
<1>2. CASE \/ UNCHANGED vars \/ ListenFails \/ waitEvent \/ \E c \in Conn : ClientStep(c)
  BY <1>1, <1>2 DEF waitEvent, ListenFails, ClientStep, Connect, SendPart, Drain, Finish, Abort
<1>3. CASE noticeSwap \/ workerPop \/ addNoticeEvent \/ notice
  <2>1. UNCHANGED <<tx, writeBuffer, handed>>
    BY <1>3 DEF noticeSwap, workerPop, addNoticeEvent, notice
  <2>. QED
    BY <1>3, <2>1, InFlightSame, OrderSame DEF Output
<1>4. CASE sendback
  BY <1>4, OrderTake
<1>5. ASSUME NEW e \in batch, HandlerStep(e) PROVE OutputInOrder' /\ InFlightInOrder'
  <2>1. CASE acceptRead(e) \/ acceptFails(e) \/ acceptError(e) \/ readEnd(e) \/ writeFails(e)
             \/ writeKills(e) \/ errorHandler(e) \/ noticeRead(e)
    BY <1>1, <2>1 DEF acceptRead, acceptFails, acceptError, readEnd, writeFails, writeKills,
         errorHandler, noticeRead
  <2>2. CASE readData(e)
    <3>. DEFINE c == mapHandler_[e[1]]
    <3>1. c \in Conn
      BY <2>2, EventOwner DEF readData
    <3>2. PICK n : onRead(c, n)
      BY <2>2 DEF readData
    <3>3. UNCHANGED <<tx, writeBuffer, funcs, noticeEvents_, worker, spMessage>>
      BY <2>2 DEF readData
    <3>4. CASE onMessage(c, readBuffer[c] + n)
      BY <3>1, <3>3, <3>4, OrderPush
    <3>5. CASE notComplete(c, readBuffer[c] + n)
      BY <1>1, <3>3, <3>5 DEF notComplete
    <3>. QED
      BY <3>2, <3>4, <3>5 DEF onRead
  <2>3. CASE writeData(e)
    <3>1. Output' = Output
      BY <2>3, OutputWritten
    <3>2. handed' = handed /\ InFlight' = InFlight
      BY <2>3 DEF writeData, InFlight, Held
    <3>. QED
      BY <3>1, <3>2, OrderSame
  <2>. QED
    BY <1>5, <2>1, <2>2, <2>3 DEF HandlerStep
<1>. QED
  BY <1>2, <1>3, <1>4, <1>5 DEF Next, LoopStep, WorkerStep

------------------------------------------------------------------------------
(* Connections not accepted yet, and connections with something to write *)

\* Every step leaves the connections that were never accepted unused.
LEMMA FreshStep ==
  ASSUME TypeOK, TablesAgree, EventsFindTheirHandler, FreshIsUnused, [Next]_vars
  PROVE  FreshIsUnused'
<1> USE DEF vars, clientVars, socketVars, kernelVars, registryVars, sessionVars,
      loopVars, noticeVars, workerVars, serverVars
<1>1. CASE UNCHANGED <<sock_, handed>>
  BY <1>1 DEF FreshIsUnused
<1>2. CASE \/ UNCHANGED vars \/ ListenFails \/ waitEvent \/ noticeSwap \/ sendback
           \/ WorkerStep \/ \E c \in Conn : ClientStep(c)
  BY <1>1, <1>2 DEF waitEvent, ListenFails, noticeSwap, sendback, WorkerStep, workerPop,
       addNoticeEvent, notice, ClientStep, Connect, SendPart, Drain, Finish, Abort
<1>3. ASSUME NEW e \in batch, HandlerStep(e) PROVE FreshIsUnused'
  <2>1. CASE acceptRead(e)
    <3>1. \E c \in Backlog, f \in Fd : sock_' = [sock_ EXCEPT ![c] = f]
      BY <2>1 DEF acceptRead, newSession
    <3>. QED
      BY <2>1, <3>1, FdAssumption
         DEF acceptRead, FreshIsUnused, Backlog, TypeOK, SessionTypeOK
  <2>2. CASE readData(e)
    <3>. DEFINE c == mapHandler_[e[1]]
    <3>1. c \in Conn /\ sock_[c] # NoFd
      BY <2>2, EventOwner, FdAssumption DEF readData
    <3>2. sock_' = sock_ /\ \A d \in Conn : d # c => handed'[d] = handed[d]
      BY <2>2 DEF readData, onRead, onMessage, notComplete, TypeOK, SessionTypeOK
    <3>. QED
      BY <3>1, <3>2 DEF FreshIsUnused
  <2>3. CASE acceptFails(e) \/ acceptError(e) \/ readEnd(e) \/ writeData(e) \/ writeFails(e)
             \/ writeKills(e) \/ errorHandler(e) \/ noticeRead(e)
    BY <1>1, <2>3 DEF acceptFails, acceptError, readEnd, writeData, writeFails, writeKills,
         errorHandler, noticeRead
  <2>. QED
    BY <1>3, <2>1, <2>2, <2>3 DEF HandlerStep
<1>. QED
  BY <1>2, <1>3 DEF Next, LoopStep

\* Closing a connection leaves the others armed.
LEMMA RemoveArmed ==
  ASSUME TypeOK, TablesAgree, EventsFindTheirHandler, OutputArmed,
         NEW e \in batch, e[1] \in Fd, removeConnection(mapHandler_[e[1]]), UNCHANGED writeBuffer
  PROVE  OutputArmed'
<1>1. /\ interest' = [interest EXCEPT ![e[1]] = "none"]
      /\ table' = [table EXCEPT ![e[1]] = NoConn]
  BY EventOwner, RemoveEffect
<1>. QED
  BY <1>1 DEF OutputArmed, TypeOK, RegistryTypeOK

\* writeData keeps EPOLLOUT while something is left to write.
LEMMA WriteArmed ==
  ASSUME TypeOK, TablesAgree, EventsFindTheirHandler, OutputArmed,
         NEW e \in batch, writeData(e)
  PROVE  OutputArmed'
<1> DEFINE c == mapHandler_[e[1]]
           w == writeBuffer[c]
<1>1. c \in Conn /\ table[e[1]] = c /\ e[1] \in Fd /\ c # NoConn
  BY EventOwner, ConnAssumption DEF writeData
<1>2. w \in Seq(Message) /\ Len(w) \in Nat
  BY <1>1 DEF TypeOK, SessionTypeOK
<1>3. PICK n \in 0..Len(w) :
        /\ writeBuffer' = [writeBuffer EXCEPT ![c] = SubSeq(w, n + 1, Len(w))]
        /\ onWrite(e[1], n, Len(w))
  BY DEF writeData, unwritten
<1>4. table' = table /\ \A f \in Fd : f # e[1] => interest'[f] = interest[f] /\ table[f] # c
  BY <1>1, <1>3 DEF writeData, onWrite, mod, modEvent, TablesAgree, TypeOK, RegistryTypeOK
<1>5. \A d \in Conn : d # c => writeBuffer'[d] = writeBuffer[d]
  BY <1>3 DEF TypeOK, SessionTypeOK
<1>6. CASE n < Len(w)
  <2>1. interest' = interest /\ w # <<>>
    BY <1>2, <1>3, <1>6 DEF onWrite
  <2>2. interest'[e[1]] = "W"
    BY <1>1, <2>1 DEF OutputArmed
  <2>. QED
    BY <1>4, <1>5, <2>2 DEF OutputArmed, TypeOK, RegistryTypeOK
<1>7. CASE n = Len(w)
  <2>1. writeBuffer'[c] = <<>>
    BY <1>1, <1>2, <1>3, <1>7 DEF TypeOK, SessionTypeOK
  <2>. QED
    BY <1>1, <1>4, <1>5, <2>1 DEF OutputArmed, TypeOK, RegistryTypeOK
<1>. QED
  BY <1>2, <1>3, <1>6, <1>7

\* Nothing together, nothing in the second part.
LEMMA EmptyConcat ==
  ASSUME NEW S, NEW s \in Seq(S), NEW t \in Seq(S), Len(s \o t) = 0
  PROVE  t = <<>>
<1>1. Len(s \o t) = Len(s) + Len(t) /\ Len(s) \in Nat /\ Len(t) \in Nat
  BY ConcatProperties
<1>2. Len(t) = 0
  BY <1>1
<1>. QED
  BY <1>2, EmptySeq

\* A connection is accepted with nothing to write, because nothing was answered yet.
LEMMA AcceptArmed ==
  ASSUME TypeOK, TablesAgree, OutputInOrder, FreshIsUnused, OutputArmed,
         NEW e \in batch, acceptRead(e)
  PROVE  OutputArmed'
<1>1. PICK c \in Backlog, f \in Fd :
        /\ table[f] = NoConn
        /\ table' = [table EXCEPT ![f] = c]
        /\ interest' = [interest EXCEPT ![f] = "R"]
  BY AcceptEffect
<1>2. c \in Conn /\ sock_[c] = NoFd
  BY <1>1 DEF Backlog
<1>3. Len(Output[c]) = 0
  <2>1. Answered[c] = 0
    <3>1. Answered[c] \in Nat /\ handed[c] = 0 /\ Answered[c] <= handed[c]
      BY <1>2, OutputTypes DEF OutputInOrder, FreshIsUnused
    <3>. QED
      BY ONLY <3>1
  <2>. QED
    BY <1>2, <2>1, BoundAssumption DEF OutputInOrder
<1>4. writeBuffer[c] = <<>>
  <2>1. tx[c] \in Seq(Message) /\ writeBuffer[c] \in Seq(Message)
    BY <1>2 DEF TypeOK, SessionTypeOK, SocketTypeOK
  <2>2. Len(tx[c] \o writeBuffer[c]) = 0
    BY <1>2, <1>3 DEF Output
  <2>. QED
    BY ONLY <2>1, <2>2, EmptyConcat
<1>5. writeBuffer' = writeBuffer
  BY DEF acceptRead
<1>. QED
  BY <1>1, <1>4, <1>5 DEF OutputArmed, TypeOK, RegistryTypeOK

\* Every step leaves a connection with bytes to write waiting for EPOLLOUT.
LEMMA ArmedStep ==
  ASSUME TypeOK, TablesAgree, EventsFindTheirHandler, OutputInOrder, FreshIsUnused,
         OutputArmed, [Next]_vars
  PROVE  OutputArmed'
<1> USE DEF vars, clientVars, socketVars, kernelVars, registryVars, sessionVars,
      loopVars, noticeVars, workerVars, serverVars
<1>1. CASE UNCHANGED <<table, interest, writeBuffer>>
  BY <1>1 DEF OutputArmed
<1>2. CASE \/ UNCHANGED vars \/ ListenFails \/ waitEvent \/ noticeSwap
           \/ WorkerStep \/ \E c \in Conn : ClientStep(c)
  BY <1>1, <1>2 DEF waitEvent, ListenFails, noticeSwap, WorkerStep, workerPop,
       addNoticeEvent, notice, ClientStep, Connect, SendPart, Drain, Finish, Abort
<1>3. CASE sendback
  <2>. DEFINE c == Head(funcs)[1]
  <2>1. /\ table' = table /\ mod(sock_[c], "W")
        /\ writeBuffer' = [writeBuffer EXCEPT ![c] = @ \o Pieces(Head(funcs))]
    BY <1>3 DEF sendback, append
  <2>. HIDE DEF c
  <2>2. \A d \in Conn : d # c => writeBuffer'[d] = writeBuffer[d]
    BY <2>1 DEF TypeOK, SessionTypeOK
  <2>3. \A f \in Fd : interest'[f] = interest[f] \/ interest'[f] = "W"
    BY <2>1 DEF mod, modEvent, TypeOK, RegistryTypeOK
  <2>4. \A f \in Fd : table[f] = c /\ c # NoConn => interest'[f] = "W"
    BY <2>1 DEF mod, modEvent, TablesAgree, TypeOK, RegistryTypeOK
  <2>. QED
    BY <2>1, <2>2, <2>3, <2>4 DEF OutputArmed, TypeOK, RegistryTypeOK
<1>4. ASSUME NEW e \in batch, HandlerStep(e) PROVE OutputArmed'
  <2>1. CASE acceptRead(e)
    BY <2>1, AcceptArmed
  <2>2. CASE writeData(e)
    BY <2>2, WriteArmed
  <2>3. CASE readEnd(e) \/ writeFails(e) \/ errorHandler(e)
    BY <2>3, RemoveArmed DEF readEnd, writeFails, errorHandler
  <2>4. CASE acceptFails(e) \/ acceptError(e) \/ readData(e) \/ writeKills(e) \/ noticeRead(e)
    BY <1>1, <2>4 DEF acceptFails, acceptError, readData, writeKills, noticeRead
  <2>. QED
    BY <1>4, <2>1, <2>2, <2>3, <2>4 DEF HandlerStep
<1>. QED
  BY <1>2, <1>3, <1>4 DEF Next, LoopStep

------------------------------------------------------------------------------
(* The invariant *)

\* The invariant holds at the start.
LEMMA InitInd == Init => IndInv
<1>. SUFFICES ASSUME Init PROVE IndInv
  OBVIOUS
<1> USE DEF Init, ListenInit, ReactorInit, LoopInit, SessionInit, WorkerInit
<1>1. SocketTypeOK /\ SessionTypeOK /\ ThreadTypeOK
  <2>1. <<>> \in Seq(Message)
    OBVIOUS
  <2>2. SocketTypeOK
    BY <2>1 DEF SocketTypeOK
  <2>3. SessionTypeOK
    BY <2>1 DEF SessionTypeOK
  <2>4. ThreadTypeOK
    BY <2>1 DEF ThreadTypeOK
  <2>. QED
    BY <2>2, <2>3, <2>4
<1>2. RegistryTypeOK /\ FlagTypeOK
  <2>1. RegistryTypeOK
    BY DEF RegistryTypeOK
  <2>2. FlagTypeOK
    BY DEF FlagTypeOK
  <2>. QED
    BY <2>1, <2>2
<1>3. TypeOK
  BY <1>1, <1>2 DEF TypeOK
<1>4. TablesAgree /\ EventsFindTheirHandler /\ BatchSound
  BY DEF TablesAgree, EventsFindTheirHandler, BatchSound
<1>5. EventSizeExact
  <2>1. Registered = {}
    BY DEF Registered
  <2>. QED
    BY <2>1, FS_EmptySet DEF EventSizeExact
<1>6. NoLostNotice /\ HeldIsMessage /\ SwapsWhenDone /\ FreshIsUnused /\ OutputArmed
  BY DEF NoLostNotice, HeldIsMessage, SwapsWhenDone, FreshIsUnused, OutputArmed
<1>7. \A c \in Conn : Output[c] = <<>> /\ Answered[c] = 0
  <2>1. 0 \div AnswerParts = 0
    BY BoundAssumption
  <2>. QED
    BY <2>1 DEF Output, Answered
<1>8. InFlight = <<>>
  BY DEF InFlight, Held
<1>9. OutputInOrder
  BY <1>7, BoundAssumption DEF OutputInOrder
<1>10. InFlightInOrder
  BY <1>7, <1>8 DEF InFlightInOrder, HoldsInOrder
<1>. QED
  BY <1>3, <1>4, <1>5, <1>6, <1>9, <1>10 DEF IndInv

\* Every step keeps the invariant.
LEMMA StepInd == IndInv /\ [Next]_vars => IndInv'
<1>. SUFFICES ASSUME IndInv, [Next]_vars PROVE IndInv'
  OBVIOUS
<1> USE DEF IndInv
<1>1. TypeOK' /\ TablesAgree' /\ EventSizeExact'
  BY StepTyping, TablesStep, EventSizeStep
<1>2. EventsFindTheirHandler' /\ BatchSound'
  BY BatchStep
<1>3. NoLostNotice' /\ HeldIsMessage' /\ SwapsWhenDone'
  BY HandOverStep
<1>4. OutputInOrder' /\ InFlightInOrder'
  BY OrderStep
<1>5. FreshIsUnused' /\ OutputArmed'
  BY FreshStep, ArmedStep
<1>. QED
  BY <1>1, <1>2, <1>3, <1>4, <1>5

\* Every state the server reaches satisfies the invariant.
THEOREM Invariance == Spec => []IndInv
BY InitInd, StepInd, PTL DEF Spec

\* The variables keep their types: no handler reads a table where nothing is.
THEOREM Typing == Spec => []TypeOK
<1>1. IndInv => TypeOK
  BY DEF IndInv
<1>. QED
  BY <1>1, Invariance, PTL

\* The registration tables of loop thread and kernel agree and are counted right,
\* whatever descriptors are reused.
THEOREM RegistryIsConsistent == Spec => []RegistryConsistent
<1>1. IndInv => RegistryConsistent
  BY DEF IndInv, RegistryConsistent
<1>. QED
  BY <1>1, Invariance, PTL

\* Epoll::waitEvent never dereferences a missing or a foreign handler.
THEOREM EventsAreDispatched == Spec => []EventsFindTheirHandler
<1>1. IndInv => EventsFindTheirHandler
  BY DEF IndInv
<1>. QED
  BY <1>1, Invariance, PTL

\* No callback stays behind in noticeEvents_ without a wake-up under way.
THEOREM NoNoticeIsLost == Spec => []NoLostNotice
<1>1. IndInv => NoLostNotice
  BY DEF IndInv
<1>. QED
  BY <1>1, Invariance, PTL

\* A connection with something to write waits for EPOLLOUT.
THEOREM OutputIsArmed == Spec => []OutputArmed
<1>1. IndInv => OutputArmed
  BY DEF IndInv
<1>. QED
  BY <1>1, Invariance, PTL

\* Requests are answered in order, once, on their own connection.
THEOREM AnswersAreInOrder == Spec => []AnswersInOrder
<1>1. IndInv => AnswersInOrder
  BY DEF IndInv, AnswersInOrder
<1>. QED
  BY <1>1, Invariance, PTL

------------------------------------------------------------------------------
(* The server implements the echo service *)

\* What is on the socket of a connection is the start of its output.
SocketHoldsAnswers ==
  \A c \in Conn :
    /\ Len(tx[c]) \in Nat /\ Len(tx[c]) <= handed[c] * AnswerParts /\ handed[c] \in Nat
    /\ tx[c] = Echo!Answers(c, Len(tx[c]))

\* With the output in order, what was sent is the answers to the first requests.
LEMMA SocketIsAnswers == TypeOK /\ OutputInOrder => SocketHoldsAnswers
<1>. SUFFICES ASSUME TypeOK, OutputInOrder, NEW c \in Conn
              PROVE  /\ Len(tx[c]) \in Nat /\ Len(tx[c]) <= handed[c] * AnswerParts
                     /\ handed[c] \in Nat
                     /\ tx[c] = Echo!Answers(c, Len(tx[c]))
  BY DEF SocketHoldsAnswers
<1>1. tx[c] \in Seq(Message) /\ writeBuffer[c] \in Seq(Message) /\ handed[c] \in Nat
  BY DEF TypeOK, SocketTypeOK, SessionTypeOK
<1>2. Output[c] = tx[c] \o writeBuffer[c]
  BY DEF Output
<1>3. /\ Len(tx[c]) \in Nat /\ Len(tx[c]) <= Len(Output[c])
      /\ \A i \in 1..Len(tx[c]) : Output[c][i] = tx[c][i]
  <2>1. ASSUME NEW s \in Seq(Message), NEW t \in Seq(Message)
        PROVE  /\ Len(s) \in Nat /\ Len(s) <= Len(s \o t)
               /\ \A i \in 1..Len(s) : (s \o t)[i] = s[i]
    BY ConcatProperties
  <2>2. /\ Len(tx[c]) \in Nat /\ Len(tx[c]) <= Len(tx[c] \o writeBuffer[c])
        /\ \A i \in 1..Len(tx[c]) : (tx[c] \o writeBuffer[c])[i] = tx[c][i]
    BY ONLY <1>1, <2>1
  <2>. QED
    BY ONLY <1>2, <2>2
<1>4. /\ Len(Output[c]) \in Nat
      /\ Len(Output[c]) <= handed[c] * AnswerParts
  <2>1. Answered[c] \in Nat /\ Output[c] \in Seq(Message)
    BY OutputTypes
  <2>2. Answered[c] * AnswerParts <= handed[c] * AnswerParts
    BY <1>1, <2>1, BoundAssumption DEF OutputInOrder
  <2>. QED
    BY <2>1, <2>2 DEF OutputInOrder
<1>5. \A i \in 1..Len(tx[c]) : tx[c][i] = <<c, i>>
  BY <1>3, <1>4 DEF OutputInOrder
<1>6. tx[c] = [i \in 1..Len(tx[c]) |-> tx[c][i]]
  BY <1>1
<1>7. tx[c] = Echo!Answers(c, Len(tx[c]))
  BY <1>5, <1>6 DEF Echo!Answers
<1>8. Len(tx[c]) <= handed[c] * AnswerParts
  <2>1. handed[c] * AnswerParts \in Nat
    BY <1>1, BoundAssumption
  <2>. QED
    BY <1>3, <1>4, <2>1
<1>. QED
  BY <1>1, <1>3, <1>7, <1>8

Gone == {c \in Conn : Closed(c)}

\* An event of the batch belongs to a connection that is not gone.
LEMMA EventNotGone ==
  ASSUME TypeOK, TablesAgree, EventsFindTheirHandler, NEW e \in batch, e[1] \in Fd
  PROVE  mapHandler_[e[1]] \in Conn /\ mapHandler_[e[1]] \notin Gone
BY EventOwner DEF Gone, Closed

\* Removing a connection makes it gone, and no other.
LEMMA RemoveCloses ==
  ASSUME TypeOK, TablesAgree, EventsFindTheirHandler, NEW e \in batch, e[1] \in Fd,
         removeConnection(mapHandler_[e[1]]), UNCHANGED <<handed, tx, sock_>>
  PROVE  Echo!Close(mapHandler_[e[1]])
<1>1. PICK c \in Conn : c = mapHandler_[e[1]] /\ c \notin Gone /\ sock_[c] = e[1]
                        /\ table[e[1]] = c
  BY EventOwner, EventNotGone
<1>2. table' = [table EXCEPT ![e[1]] = NoConn]
  BY <1>1, RemoveEffect
<1>3. /\ table'[e[1]] = NoConn /\ \A f \in Fd : f # e[1] => table'[f] = table[f]
      /\ sock_' = sock_ /\ sock_ \in [Conn -> Fd \cup {NoFd}]
  BY <1>2 DEF TypeOK, RegistryTypeOK, SessionTypeOK
<1>4. Closed(c)' /\ \A d \in Conn : d # c => (Closed(d)' <=> Closed(d))
  <2>1. e[1] # NoFd /\ c # NoConn
    BY <1>1, FdAssumption, ConnAssumption
  <2>2. Closed(c)'
    BY <1>1, <1>3, <2>1 DEF Closed
  <2>3. ASSUME NEW d \in Conn, d # c PROVE Closed(d)' <=> Closed(d)
    <3>1. CASE sock_[d] = e[1]
      BY <1>1, <1>3, <2>1, <2>3, <3>1, ConnAssumption DEF Closed
    <3>2. CASE sock_[d] \in Fd /\ sock_[d] # e[1]
      BY <1>3, <3>2 DEF Closed
    <3>3. CASE sock_[d] = NoFd
      BY <1>3, <3>3 DEF Closed
    <3>. QED
      BY <1>3, <3>1, <3>2, <3>3
  <2>. QED
    BY <2>2, <2>3
<1>5. Gone' = Gone \cup {c}
  BY <1>1, <1>4 DEF Gone
<1>. QED
  BY <1>1, <1>5 DEF Echo!Close, Gone

\* Accepting a connection, on a used descriptor too, closes none and revives none.
LEMMA AcceptCloses ==
  ASSUME TypeOK, TablesAgree, NEW e \in batch, acceptRead(e)
  PROVE  Gone' = Gone
<1>1. PICK c \in Backlog, f \in Fd :
        /\ table[f] = NoConn
        /\ table' = [table EXCEPT ![f] = c]
        /\ sock_' = [sock_ EXCEPT ![c] = f]
  BY DEF acceptRead, newSession
<1>2. c \in Conn /\ sock_[c] = NoFd /\ c # NoConn
  BY <1>1, ConnAssumption DEF Backlog
<1>3. ~Closed(c)' /\ ~Closed(c)
  BY <1>1, <1>2 DEF Closed, TypeOK, RegistryTypeOK, SessionTypeOK
<1>4. ASSUME NEW d \in Conn, d # c PROVE Closed(d)' <=> Closed(d)
  <2>1. sock_'[d] = sock_[d] /\ sock_[d] \in Fd \cup {NoFd} /\ d # NoConn
    BY <1>1, <1>4, ConnAssumption DEF TypeOK, SessionTypeOK
  <2>2. CASE sock_[d] = f
    BY <1>1, <1>4, <2>1, <2>2, FdAssumption DEF Closed, TypeOK, RegistryTypeOK
  <2>3. CASE sock_[d] # f
    BY <1>1, <2>1, <2>3 DEF Closed, TypeOK, RegistryTypeOK
  <2>. QED
    BY <2>2, <2>3
<1>. QED
  BY <1>3, <1>4 DEF Gone

\* writeData gives the next answers of the connection, or nothing.
LEMMA WriteAnswers ==
  ASSUME TypeOK, TypeOK', TablesAgree, EventsFindTheirHandler, OutputInOrder, OutputInOrder',
         NEW e \in batch, writeData(e)
  PROVE  Echo!GiveAnswers(mapHandler_[e[1]]) \/ UNCHANGED <<handed, tx, Gone>>
<1> DEFINE c == mapHandler_[e[1]]
           w == writeBuffer[c]
<1>1. c \in Conn /\ c \notin Gone /\ table[e[1]] = c
  BY EventOwner, EventNotGone DEF writeData
<1>2. PICK n \in 0..Len(w) : tx' = [tx EXCEPT ![c] = @ \o SubSeq(w, 1, n)]
  BY <1>1 DEF writeData
<1>3. handed' = handed /\ Gone' = Gone
  BY DEF writeData, Gone, Closed
<1>4. w \in Seq(Message) /\ tx[c] \in Seq(Message) /\ tx \in [Conn -> Seq(Message)]
  BY <1>1 DEF TypeOK, SocketTypeOK, SessionTypeOK
<1> HIDE DEF c, w
<1>5. SubSeq(w, 1, n) \in Seq(Message) /\ Len(SubSeq(w, 1, n)) = n
  BY <1>4
<1>6. tx'[c] = tx[c] \o SubSeq(w, 1, n)
  BY <1>1, <1>2, <1>4
<1>7. CASE n = 0
  <2>1. SubSeq(w, 1, n) = <<>>
    BY <1>5, <1>7, EmptySeq
  <2>2. tx[c] \o <<>> = tx[c]
    BY <1>4, ConcatEmptySeq
  <2>3. tx' = tx
    BY <1>2, <1>4, <2>1, <2>2
  <2>. QED
    BY <1>3, <2>3
<1>8. CASE n > 0
  <2>1. /\ Len(tx'[c]) \in Nat /\ Len(tx'[c]) <= handed[c] * AnswerParts
        /\ handed[c] \in Nat
        /\ tx'[c] = Echo!Answers(c, Len(tx'[c]))
    <3>1. SocketHoldsAnswers'
      BY SocketIsAnswers, PTL
    <3>. QED
      BY <1>1, <1>3, <3>1 DEF SocketHoldsAnswers, Echo!Answers
  <2>2. Len(tx'[c]) = Len(tx[c]) + n /\ Len(tx[c]) \in Nat
    <3>1. ASSUME NEW s \in Seq(Message), NEW t \in Seq(Message)
          PROVE  Len(s \o t) = Len(s) + Len(t) /\ Len(s) \in Nat
      BY ConcatProperties
    <3>. QED
      BY <1>4, <1>5, <1>6, <3>1
  <2>3. Len(tx'[c]) \in Len(tx[c]) + 1 .. handed[c] * AnswerParts
    <3>1. handed[c] * AnswerParts \in Nat
      BY <2>1, BoundAssumption
    <3>. QED
      BY <1>2, <1>8, <2>1, <2>2, <3>1
  <2>4. tx' = [tx EXCEPT ![c] = Echo!Answers(c, Len(tx'[c]))]
    BY <1>2, <1>4, <1>6, <2>1
  <2>. QED
    BY <1>1, <1>3, <2>3, <2>4 DEF Echo!GiveAnswers, Gone, c
<1>9. n = 0 \/ n > 0
  BY <1>2, <1>4
<1>. QED
  BY <1>7, <1>8, <1>9 DEF c

\* Every step of the server is a step of the echo service or none.
LEMMA EchoStep ==
  ASSUME IndInv, IndInv', [Next]_vars
  PROVE  [Echo!Next]_<<handed, tx, Gone>>
<1> USE DEF IndInv, vars, clientVars, socketVars, kernelVars, registryVars, sessionVars,
      loopVars, noticeVars, workerVars, serverVars
<1>1. CASE UNCHANGED <<handed, tx, table, sock_>>
  BY <1>1 DEF Gone, Closed
<1>2. CASE \/ UNCHANGED vars \/ ListenFails \/ waitEvent \/ noticeSwap \/ sendback
           \/ WorkerStep \/ \E c \in Conn : ClientStep(c)
  BY <1>1, <1>2 DEF waitEvent, ListenFails, noticeSwap, sendback, WorkerStep, workerPop,
       addNoticeEvent, notice, ClientStep, Connect, SendPart, Drain, Finish, Abort
<1>3. ASSUME NEW e \in batch, HandlerStep(e) PROVE [Echo!Next]_<<handed, tx, Gone>>
  <2>1. CASE acceptRead(e)
    BY <2>1, AcceptCloses DEF acceptRead
  <2>2. CASE readData(e)
    <3>. DEFINE c == mapHandler_[e[1]]
    <3>1. c \in Conn /\ c \notin Gone
      BY <2>2, EventNotGone DEF readData
    <3>2. Gone' = Gone /\ tx' = tx
      BY <2>2 DEF readData, Gone, Closed
    <3>3. handed' = handed \/ handed' = [handed EXCEPT ![c] = @ + 1]
      BY <2>2 DEF readData, onRead, onMessage, notComplete
    <3>4. CASE handed' = [handed EXCEPT ![c] = @ + 1]
      BY <3>1, <3>2, <3>4 DEF Echo!Next, Echo!TakeRequest, Gone
    <3>. QED
      BY <3>2, <3>3, <3>4
  <2>3. CASE writeData(e)
    <3>1. mapHandler_[e[1]] \in Conn
      BY <2>3, EventOwner DEF writeData
    <3>2. Echo!GiveAnswers(mapHandler_[e[1]]) \/ UNCHANGED <<handed, tx, Gone>>
      BY <2>3, WriteAnswers
    <3>. QED
      BY <3>1, <3>2 DEF Echo!Next
  <2>4. CASE readEnd(e) \/ writeFails(e) \/ errorHandler(e)
    <3>1. mapHandler_[e[1]] \in Conn
      BY <2>4, EventOwner DEF readEnd, writeFails, errorHandler
    <3>2. Echo!Close(mapHandler_[e[1]])
      BY <2>4, RemoveCloses DEF readEnd, writeFails, errorHandler
    <3>. QED
      BY <3>1, <3>2 DEF Echo!Next
  <2>5. CASE acceptFails(e) \/ acceptError(e) \/ writeKills(e) \/ noticeRead(e)
    BY <1>1, <2>5 DEF acceptFails, acceptError, writeKills, noticeRead
  <2>. QED
    BY <1>3, <2>1, <2>2, <2>3, <2>4, <2>5 DEF HandlerStep
<1>. QED
  BY <1>2, <1>3 DEF Next, LoopStep

\* The server is an echo service: each connection gets the answers to its own
\* requests, each once, in order, and nothing after the server closed it.
THEOREM EchoIsImplemented == Spec => ImplementsEcho
<1>1. Init => Echo!Init
  BY DEF Init, ListenInit, SessionInit, LoopInit,  Echo!Init, Closed
<1>2. IndInv /\ IndInv' /\ [Next]_vars => [Echo!Next]_(Echo!echoVars)
  BY EchoStep DEF Gone, Echo!echoVars
<1>. QED
  BY <1>1, <1>2, Invariance, PTL DEF Spec, ImplementsEcho, Echo!Spec
==============================================================================
