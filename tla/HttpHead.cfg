SPECIFICATION Spec
CONSTANTS
  MaxUrl = 8
  MaxHead = 12
  MaxOdd = 1
CHECK_DEADLOCK FALSE
INVARIANTS
  UrlIsSplit
  HeadIsScanned
