SPECIFICATION Spec
CONSTANT MaxStops = 0
INVARIANTS
  TermSignalKept
CHECK_DEADLOCK FALSE
