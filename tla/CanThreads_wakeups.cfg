SPECIFICATION FairSpec
CONSTANTS
  Flags <- MailboxFlags
  FifoDepth = 3
  TxMailboxes = 3
INVARIANTS
  CanConsistent
  ReceiverWillDrain
PROPERTIES
  ListenedFramesAttended
  OverrunRevives
  TransmitterGoesOn
