-------------------------- MODULE MCInternalRandom --------------------------
(***************************************************************************)
(* InternalRandom for TLC: the threads are interchangeable.                *)
(***************************************************************************)
EXTENDS InternalRandom, TLC

Symmetry == Permutations(Thread)
=============================================================================
