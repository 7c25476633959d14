SPECIFICATION FairSpec
CONSTANT MaxStops = 3
INVARIANTS
  ExitStatusKept
PROPERTIES
  JaiEnds
  NoJailWithoutJai
  FirstStopFollows
CHECK_DEADLOCK FALSE
