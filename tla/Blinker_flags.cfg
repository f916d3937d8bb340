SPECIFICATION FairSpec
CONSTANT
  Flags <- ChannelFlags
INVARIANTS
  BlinkerConsistent
PROPERTY
  TrafficShows
