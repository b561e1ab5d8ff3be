-------------------------- MODULE MCServiceSettings --------------------------
EXTENDS ServiceSettings, TLC

Symmetry == Permutations(Slot) \cup Permutations(User)
=============================================================================
