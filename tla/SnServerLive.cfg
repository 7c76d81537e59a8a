SPECIFICATION FairSpec
CONSTANTS
  k1 = k1
  k2 = k2
  f1 = f1
  f2 = f2
  EventFd = EventFd
  ListenFd = ListenFd
  NoFd = NoFd
  NoConn = NoConn
  Conn <- TwoConn
  Fd <- OneFd
  Parts = 2
  AnswerParts = 2
  MaxReq <- OneEach
  Pipelining = FALSE
  ListenFaults = TRUE
CHECK_DEADLOCK FALSE
INVARIANTS
  RegistryConsistent
PROPERTIES
  HandedIsAnswered
  SentIsAnswered
  ReadingResumes
  DeadPeerReleased
