SPECIFICATION FairSpec
CONSTANTS
  Bodies <- SomeBodies
  MaxReq = 5
  Window = 2
  Capacity = 8
  SizeT = 256
  SplitHeads = FALSE
  SplitLast = FALSE
CHECK_DEADLOCK FALSE
INVARIANTS
  DeliversTheRequests
  BufferHoldsTheRest
PROPERTIES
  RequestsArrive
