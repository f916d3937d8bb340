SPECIFICATION FairSpec
CONSTANTS
  MaxPacket = 2
  Answers <- AnswerSizes
  MaxLength = 4
  LineCoding = 3
  Aborts = FALSE
INVARIANTS
  NoPanic
  ControlConsistent
  ViewsAgree
PROPERTY
  TransfersEnd
