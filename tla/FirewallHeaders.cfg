\* The inputs of MCAlgorithms, with small integers, and one row of forth.
CONSTANTS
  LimitInt = 7
  OctetBits = 5
  NumLimit = 330
  DurBits = 7
  DurUnits <- UnitLengths
  Rows <- ForthRows
  Numbers <- ForthNumbers
  MaxRows = 1
  MaxLen = 6
SPECIFICATION AlgorithmsSpec
INVARIANTS
  ForbiddenHeadersRefused
\* A call returns once.
CHECK_DEADLOCK FALSE
