SPECIFICATION FairSpec
CONSTANTS
  BootOrders <- OneOfAKind
  Threads <- AllThreads
  Prio <- PrioOf
  Idle = "idle"
  Main = "main"
  MaxRequests = 0
PROPERTIES
  SamplingRuns
