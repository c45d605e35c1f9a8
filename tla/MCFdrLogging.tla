---------------------------- MODULE MCFdrLogging ----------------------------
EXTENDS FdrLogging, TLC

Symmetry == Permutations(Threads)
============================================================================
