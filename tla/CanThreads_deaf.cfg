SPECIFICATION FairSpec
CONSTANTS
  Flags <- MailboxFlags
  FifoDepth = 3
  TxMailboxes = 3
PROPERTY
  FramesAttended
