SPECIFICATION Spec
CONSTANTS
  rollSize_ = 4
  BufferSize = 2
  NoFile = NoFile
  MaxLine = 6
  MaxSize = 2
  MaxDay = 1
  MaxStart = 3
CHECK_DEADLOCK FALSE
INVARIANTS
  FilesInOrder
  FilesStayBounded
  LossIsBounded
PROPERTIES
  ImplementsDurableLog
