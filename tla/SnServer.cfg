SPECIFICATION Spec
CONSTANTS
  k1 = k1
  k2 = k2
  f1 = f1
  f2 = f2
  EventFd = EventFd
  ListenFd = ListenFd
  NoFd = NoFd
  NoConn = NoConn
  Conn <- TwoConn
  Fd <- TwoFd
  Parts = 2
  AnswerParts = 2
  MaxReq <- TwoAndOne
  Pipelining = TRUE
  ListenFaults = FALSE
CHECK_DEADLOCK FALSE
SYMMETRY Symmetric
INVARIANTS
  TypeOK
  RegistryConsistent
  EventsFindTheirHandler
  NoLostNotice
  OutputArmed
  AnswersInOrder
PROPERTIES
  ImplementsEcho
