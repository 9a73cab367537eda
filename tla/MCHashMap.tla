------------------------------ MODULE MCHashMap ------------------------------
(***************************************************************************)
(* Eight keys, enough to fill the first table, in a table that can double  *)
(* once, and a reserved key.  k1 and k2 collide in both tables, k3 and k4  *)
(* only in the first, where the end of the table comes next; k5 to k8 lie  *)
(* in the way of displaced keys.                                           *)
(***************************************************************************)
EXTENDS HashMap, TLC

CONSTANTS k1, k2, k3, k4, k5, k6, k7, k8, reserved

Hashes ==
  k1 :> 6 @@ k2 :> 6 @@ k3 :> 7 @@ k4 :> 15 @@ k5 :> 0 @@ k6 :> 2 @@ k7 :> 3 @@ k8 :> 4
    @@ reserved :> 1

Symmetry == Permutations({k1, k2}) \cup Permutations(Value)
==============================================================================
