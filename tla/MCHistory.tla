------------------------------ MODULE MCHistory ------------------------------
EXTENDS History
Symmetry == Permutations(Numbers)
==============================================================================
