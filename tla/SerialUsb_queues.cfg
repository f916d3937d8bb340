SPECIFICATION Spec
CONSTANTS
  BuffersNumber = 2
  BuffersSize = 2
  ReadLength = 3
  WriteLengths <- EvenReplies
  ChunkSize = 1
  MaxPacket = 2
  CanSuspend = TRUE
  MaxIn = 3
  MaxOut = 4
INVARIANTS
  TypeOK
  NoPanic
  HardwareOwnsItsBuffer
  DriverConsistent
PROPERTIES
  ImplementsChannel
  ReadsWholeTransfers
