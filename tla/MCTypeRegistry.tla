--------------------------- MODULE MCTypeRegistry ---------------------------
(***************************************************************************)
(* Three types, each registered up to twice, and two components.           *)
(***************************************************************************)
EXTENDS TypeRegistry

Interchangeable == Permutations(Type) \cup Permutations(Component)
=============================================================================
