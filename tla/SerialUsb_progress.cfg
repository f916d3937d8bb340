SPECIFICATION FairSpec
CONSTANTS
  BuffersNumber = 2
  BuffersSize = 2
  ReadLength = 3
  WriteLengths <- Replies
  ChunkSize = 1
  MaxPacket = 2
  CanSuspend = FALSE
  MaxIn = 3
  MaxOut = 4
INVARIANT
  ReceivesWhenRoom
PROPERTIES
  InputDrains
  OutputDrains
