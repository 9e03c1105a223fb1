------------------------------- MODULE MCMux -------------------------------
EXTENDS Mux, TLC
CONSTANTS c1, c2
CallerSymmetry == Permutations(Callers)
=============================================================================
