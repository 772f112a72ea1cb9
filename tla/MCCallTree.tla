----------------------------- MODULE MCCallTree -----------------------------
EXTENDS CallTree, TLC
Symmetry == Permutations(Calls) \union Permutations(Confs)
=============================================================================
