---------------------------- MODULE MCCartLadder ----------------------------
EXTENDS CartLadder, TLC
Symmetry == Permutations(Worker)
=============================================================================
