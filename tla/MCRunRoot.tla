------------------------------ MODULE MCRunRoot ------------------------------
EXTENDS RunRoot, TLC

ProcSymmetry == Permutations(Procs)
InodeSymmetry == Permutations(Inodes)
Symmetry == ProcSymmetry \cup InodeSymmetry
=============================================================================
