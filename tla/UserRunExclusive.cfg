SPECIFICATION Spec
CONSTANTS
  Procs = {r1, r2, u1}
  Runners = {r1, r2}
  Unmounters = {u1}
  Inodes = {i1, i2, i3, i4}
  None = None
  MaxDead = 0
SYMMETRY Symmetry
INVARIANTS
  MutualExclusion
CHECK_DEADLOCK FALSE
