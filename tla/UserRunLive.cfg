SPECIFICATION FairSpec
CONSTANTS
  Procs = {r1, u1}
  Runners = {r1}
  Unmounters = {u1}
  Inodes = {i1, i2, i3}
  None = None
  MaxDead = 1
PROPERTIES
  EveryoneReturns
CHECK_DEADLOCK FALSE
