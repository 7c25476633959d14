------------------------------ MODULE MCUserRun ------------------------------
EXTENDS UserRun, TLC

Symmetry ==
  Permutations(Runners) \cup Permutations(Unmounters) \cup Permutations(Inodes)
=============================================================================
