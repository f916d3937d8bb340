SPECIFICATION Spec
CONSTANTS
  Cells <- AnyCells
  Requests <- OnOffRequests
  Window = 1
  Fragmenting = FALSE
  HostTimesOut = TRUE
  BufLen = 15
  IbqBuffers = 2
  ObqRoom = 1
  Numbers <- EdgeNumbers
INVARIANTS
  TypeOK
  DecodeSeesOnlyThisRead
  DecodeInBounds
  NoCircularWait
PROPERTY
  ExecutesOnlyWholeRequests
