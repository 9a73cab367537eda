------------------------ MODULE MCComponentLifetime ------------------------
(***************************************************************************)
(* Two entities and four components, three of one type, so that its list   *)
(* has a first, a middle and a last item: of these one is a Python object  *)
(* with up to one reference besides its entity's, one is left out by a     *)
(* filtered walk, and one is C++ with Python bindings, whose wrapper can   *)
(* outlive it.  The component of the other type is C++ again.              *)
(***************************************************************************)
EXTENDS ComponentLifetime, TLC

CONSTANTS c1, c2, c3, c4, shared, single

Types == c1 :> shared @@ c2 :> shared @@ c3 :> shared @@ c4 :> single

Interchangeable == Permutations(Entity)
============================================================================
