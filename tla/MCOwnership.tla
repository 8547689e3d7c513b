---------------------------- MODULE MCOwnership ----------------------------
EXTENDS Ownership, TLC

Symmetry == Permutations(Vars)
=============================================================================
