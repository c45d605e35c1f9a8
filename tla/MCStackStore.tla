---------------------------- MODULE MCStackStore ----------------------------
EXTENDS StackStore, TLC

ThreadSymmetry == Permutations(Threads)
=============================================================================
