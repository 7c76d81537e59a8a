SPECIFICATION Spec
CONSTANTS
  MaxWrite = 6
  WordSize = 256
CHECK_DEADLOCK FALSE
INVARIANTS
  CellsApart
  ReadsInOrder
PROPERTIES
  ExchangedIsRead
