SPECIFICATION FairSpec
CONSTANTS
  Procs = {p1, p2, p3}
  Inodes = {i1, i2, i3}
  None = None
  MaxDead = 1
INVARIANTS
  TypeOK
  MutualExclusion
  RootInUse
  NoMountUnder
PROPERTIES
  SetupOnceSpec
  UnlinksOwn
  RunJaiReturns
CHECK_DEADLOCK FALSE
