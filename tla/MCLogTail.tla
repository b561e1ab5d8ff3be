------------------------------ MODULE MCLogTail ------------------------------
EXTENDS LogTail, TLC

Symmetry == Permutations(Pod) \cup Permutations(Line)
=============================================================================
