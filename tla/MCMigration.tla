---------------------------- MODULE MCMigration ----------------------------
(***************************************************************************)
(* Two pools, one of three slots and one of two, so that a subtree of two  *)
(* can leave its parent behind; three things and one component.            *)
(***************************************************************************)
EXTENDS Migration, TLC

CONSTANTS p1, p2

Rooms == p1 :> 3 @@ p2 :> 2

Interchangeable == Permutations(Thing) \cup Permutations(Component)
============================================================================
