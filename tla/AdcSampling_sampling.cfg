SPECIFICATION FairSpec
CONSTANTS
  NumChannels = 2
  BufDepth = 2
  MaxConversions = 4
INVARIANTS
  NoPanic
  TwoConversionsAtMost
  AdcConsistent
PROPERTY
  SamplerIsResumed
