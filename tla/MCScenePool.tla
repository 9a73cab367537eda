---------------------------- MODULE MCScenePool ----------------------------
(***************************************************************************)
(* Three scenes against a registry of two pools, as 256 against 64; both   *)
(* tables start with one slot and grow.                                    *)
(***************************************************************************)
EXTENDS ScenePool

CONSTANTS p1, p2, p3, p4

Addresses == Permutations(Pool)
============================================================================
