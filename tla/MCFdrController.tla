-------------------------- MODULE MCFdrController --------------------------
(* A small instance of FdrController: the CPUs are interchangeable.        *)
EXTENDS FdrController, TLC

Symmetry == Permutations(CPUs)
============================================================================
