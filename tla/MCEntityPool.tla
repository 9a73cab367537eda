--------------------------- MODULE MCEntityPool ---------------------------
(***************************************************************************)
(* A pool of one slot that grows to four, two values of the generation     *)
(* counter so that reuse and wrap-around both happen.                      *)
(***************************************************************************)
EXTENDS EntityPool, TLC

Symmetry == Permutations(Uuid)
===========================================================================
