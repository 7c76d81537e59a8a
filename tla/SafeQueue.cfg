SPECIFICATION FairSpec
CONSTANTS
  p1 = p1
  p2 = p2
  c1 = c1
  c2 = c2
  NoThread = NoThread
  NoValue = NoValue
  Producer <- MCProducer
  Consumer <- MCConsumer
  MaxSizes <- MCMaxSizes
  MaxPush = 2
INVARIANTS
  NoMissedNotEmpty
  NoMissedNotFull
PROPERTIES
  ImplementsFifo
  SomePushReturns
  ValuePopped
