SPECIFICATION FairSpec
CONSTANTS
  Cells <- AnyCells
  Requests <- AllRequests
  Window = 1
  Fragmenting = FALSE
  HostTimesOut = FALSE
  BufLen = 20
  IbqBuffers = 2
  ObqRoom = 1
  Numbers <- EdgeNumbers
INVARIANTS
  AnswersItsRequest
  ParserIsRight
  WidthIsSawtooth
PROPERTIES
  ImplementsService
  EveryRequestAnswered
