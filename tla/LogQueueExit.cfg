SPECIFICATION FairSpec
CONSTANTS
  w1 = w1
  w2 = w2
  logger = logger
  NoThread = NoThread
  NoLine = NoLine
  Writer <- TwoWriters
  MaxPut = 2
CHECK_DEADLOCK FALSE
PROPERTIES
  ExitEnds
