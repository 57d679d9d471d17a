-------------------------- MODULE MCExtentLocation --------------------------
EXTENDS ExtentLocation, TLC
Symmetry == Permutations(Threads)
=============================================================================
