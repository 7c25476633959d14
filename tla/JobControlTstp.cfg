SPECIFICATION Spec
CONSTANT MaxStops = 2
INVARIANTS
  StopSignalKept
CHECK_DEADLOCK FALSE
