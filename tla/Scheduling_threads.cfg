SPECIFICATION FairSpec
CONSTANTS
  BootOrders <- HalvesOfMain
  Threads <- AllThreads
  Prio <- PrioOf
  Idle = "idle"
  Main = "main"
  MaxRequests = 1
INVARIANTS
  NoPanic
  KernelConsistent
PROPERTIES
  MessageStands
  NoPeerInBetween
  UrgentDispatched
  EveryoneDispatched
