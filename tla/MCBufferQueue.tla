--------------------------- MODULE MCBufferQueue ---------------------------
EXTENDS BufferQueue, TLC

Symmetry == Permutations(Threads)
============================================================================
