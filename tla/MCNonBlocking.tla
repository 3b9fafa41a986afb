---------------------------- MODULE MCNonBlocking ----------------------------
(* Operations are interchangeable: every property here is of single states  *)
(* or single steps, for which this symmetry is sound.                       *)
EXTENDS NonBlocking, TLC

Symmetric == Permutations(Op)
=============================================================================
