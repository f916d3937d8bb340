SPECIFICATION Spec
CONSTANTS
  Cells <- AnyCells
  Requests <- LongShortRequests
  Window = 1
  Fragmenting = TRUE
  HostTimesOut = FALSE
  BufLen = 12
  IbqBuffers = 2
  ObqRoom = 1
  Numbers <- EdgeNumbers
CHECK_DEADLOCK FALSE
PROPERTY
  ExecutesOnlyWholeRequests
