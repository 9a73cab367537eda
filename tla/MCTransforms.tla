--------------------------- MODULE MCTransforms ---------------------------
(***************************************************************************)
(* Slots enough for a chain of three and for a parent with two children.   *)
(***************************************************************************)
EXTENDS Transforms

\* Bound: an entity attached below an orphan, then orphaned itself, caches an
\* ever longer stale path; paths as long as the longest true one are kept.
NoLongPath == \A i \in LiveSlots : Len(world[i]) <= 3

\* tc_entity_pool_alloc overwrites what a dead slot holds, and the cached
\* transform of a dirty entity is recomputed before it is read: states that
\* differ there only behave alike.
Readable ==
  <<alive, orphaned,
    [i \in LiveSlots |->
       <<parent[i], local[i], dirty[i], IF dirty[i] THEN <<>> ELSE world[i]>>]>>
===========================================================================
