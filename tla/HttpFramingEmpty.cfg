SPECIFICATION Spec
CONSTANTS
  Bodies <- NoBodies
  MaxReq = 5
  Window = 2
  Capacity = 8
  SizeT = 256
  SplitHeads = FALSE
  SplitLast = FALSE
CHECK_DEADLOCK FALSE
INVARIANTS
  DeliversTheRequests
