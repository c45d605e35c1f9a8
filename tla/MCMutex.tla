------------------------------- MODULE MCMutex -------------------------------
(* Mutex for TLC: threads are interchangeable.                             *)
EXTENDS Mutex, TLC

ThreadSymmetry == Permutations(Threads)
=============================================================================
