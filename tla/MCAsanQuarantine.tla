-------------------------- MODULE MCAsanQuarantine --------------------------
(* Two threads with a cache of their own and one without. *)
EXTENDS AsanQuarantine, TLC

CONSTANTS t1, t2, bare

MCOptions == {[size |-> 10, cache_size |-> 6]}
Symmetry == Permutations(Chunks) \cup Permutations({t1, t2})
=============================================================================
