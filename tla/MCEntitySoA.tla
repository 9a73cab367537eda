---------------------------- MODULE MCEntitySoA ----------------------------
(***************************************************************************)
(* Three slots, a plain data type and one that owns what its init makes.   *)
(***************************************************************************)
EXTENDS EntitySoA, TLC

Symmetry == Permutations(Slots)
============================================================================
