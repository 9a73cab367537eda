---------------------------- MODULE Transforms ----------------------------
(***************************************************************************)
(* The world transforms of an entity pool (src/tc_entity_pool.c): setters  *)
(* and set_parent mark a whole subtree dirty, and the world transform of   *)
(* an entity is recomputed only when it is read while dirty.               *)
(*                                                                         *)
(* A world transform is the product of the local transforms on the path    *)
(* from the root.  It is kept here as that path, the sequence of local     *)
(* transforms, so that two different products are never confused.          *)
(*                                                                         *)
(* The children arrays are not repeated: EntityPool's HierarchyAgrees      *)
(* makes them the inverse of the parent links, and shows that a living     *)
(* entity's parent lives, so the stale-parent branch of                    *)
(* update_entity_transform is never taken.  The three version counters of  *)
(* mark_dirty are left out: nothing in the repository reads them.          *)
(***************************************************************************)
EXTENDS Naturals, Sequences

CONSTANTS
  Slots,
  Local,      \* local transforms
  Identity,   \* the local transform of a new entity
  NoParent

ASSUME IdentityAssumption == Identity \in Local
ASSUME NoParentAssumption == NoParent \notin Slots

VARIABLES
  alive,
  parent,
  local,
  world,      \* the cached world transform
  dirty,      \* transform_dirty
  orphaned    \* history: slots made roots by the death of their parent and
              \* not marked dirty since

vars == <<alive, parent, local, world, dirty, orphaned>>

LiveSlots == { i \in Slots : alive[i] }
Children(i) == { j \in LiveSlots : parent[j] = i }

\* i and everything below it: the least set that has i and is closed under
\* children.
Subtree(i) ==
  { j \in Slots :
      \A S \in SUBSET Slots :
        (i \in S /\ \A k \in S : Children(k) \subseteq S) => j \in S }

Path(i) == { j \in Slots : i \in Subtree(j) }
---------------------------------------------------------------------------
(* Marking and recomputing                                                 *)

\* Mutant: only the entity itself is marked.
DirtyHere(i, flags) == [flags EXCEPT ![i] = TRUE]

\* spread_changes_to_distal: what mark_dirty does to the flags.
DirtyBelow(i, flags) == [j \in Slots |-> flags[j] \/ j \in Subtree(i)]

\* The marked entities no longer hold what they cached under a dead parent.
StillOrphaned(i) == orphaned \ Subtree(i)

\* tc_entity_pool_mark_dirty
MarkDirty(i) ==
  /\ dirty' = DirtyBelow(i, dirty)
  /\ orphaned' = StillOrphaned(i)

\* The world transform that update_entity_transform computes: a clean
\* ancestor's cached transform is used as it is.
Recomputed ==
  LET w[i \in Slots] ==
        IF ~dirty[i] THEN world[i]
        ELSE IF parent[i] = NoParent THEN <<local[i]>>
        ELSE Append(w[parent[i]], local[i])
  IN  w

\* Mutant: the ancestors that were recomputed on the way stay dirty.
UpdatedAlone(i) == {i}

\* The slots one call of update_entity_transform updates: i and the dirty
\* ancestors up to the first clean one.
UpdatedWith(i) ==
  { j \in Path(i) : \A k \in Path(i) : k \in Subtree(j) => dirty[k] }

Update(updated) ==
  /\ world' = [j \in Slots |-> IF j \in updated THEN Recomputed[j] ELSE world[j]]
  /\ dirty' = [j \in Slots |-> dirty[j] /\ j \notin updated]
---------------------------------------------------------------------------
Init ==
  /\ alive = [i \in Slots |-> FALSE]
  /\ parent = [i \in Slots |-> NoParent]
  /\ local = [i \in Slots |-> Identity]
  /\ world = [i \in Slots |-> <<>>]
  /\ dirty = [i \in Slots |-> FALSE]
  /\ orphaned = {}

\* tc_entity_pool_alloc
Alloc(i) ==
  /\ ~alive[i]
  /\ alive' = [alive EXCEPT ![i] = TRUE]
  /\ parent' = [parent EXCEPT ![i] = NoParent]
  /\ local' = [local EXCEPT ![i] = Identity]
  /\ world' = [world EXCEPT ![i] = <<Identity>>]
  /\ dirty' = [dirty EXCEPT ![i] = TRUE]
  /\ UNCHANGED orphaned

ParentsAfterFree(i) == [j \in Slots |-> IF j \in Children(i) THEN NoParent ELSE parent[j]]

\* tc_entity_pool_free: the children become roots, and are not marked.
Free(i) ==
  /\ alive[i]
  /\ alive' = [alive EXCEPT ![i] = FALSE]
  /\ parent' = ParentsAfterFree(i)
  /\ orphaned' = (orphaned \ {i}) \cup Children(i)
  /\ UNCHANGED <<local, world, dirty>>

\* tc_entity_pool_set_local_position, _rotation, _scale and _pose
SetLocal(i, v) ==
  /\ alive[i]
  /\ local' = [local EXCEPT ![i] = v]
  /\ MarkDirty(i)
  /\ UNCHANGED <<alive, parent, world>>

\* tc_entity_pool_set_parent; the caller makes no cycle (docs/gotchas.md).
\* The parent link changes first, then the subtree, which is the same
\* before and after, is marked.
SetParent(i, p) ==
  /\ alive[i]
  /\ p = NoParent \/ (p \in LiveSlots /\ p \notin Subtree(i))
  /\ parent' = [parent EXCEPT ![i] = p]
  /\ MarkDirty(i)
  /\ UNCHANGED <<alive, local, world>>

\* tc_entity_pool_get_global_position and the other readers of the world
\* transform, when they find it dirty.
ReadGlobal(i) ==
  /\ alive[i]
  /\ dirty[i]
  /\ Update(UpdatedWith(i))
  /\ UNCHANGED <<alive, parent, local, orphaned>>

\* tc_entity_pool_update_transforms
UpdateTransforms ==
  /\ Update({ i \in LiveSlots : dirty[i] })
  /\ UNCHANGED <<alive, parent, local, orphaned>>

Next ==
  \/ UpdateTransforms
  \/ \E i \in Slots :
       \/ Alloc(i)
       \/ Free(i)
       \/ ReadGlobal(i)
       \/ \E v \in Local : SetLocal(i, v)
       \/ \E p \in Slots \cup {NoParent} : SetParent(i, p)

Spec == Init /\ [][Next]_vars
---------------------------------------------------------------------------
\* What the world transform of i is, by definition.
TrueWorld ==
  LET w[i \in Slots] ==
        IF parent[i] = NoParent THEN <<local[i]>> ELSE Append(w[parent[i]], local[i])
  IN  w

\* The parent of an entity that is clean is clean: update_entity_transform
\* stops at the first clean ancestor and relies on it.
CleanAbove ==
  \A i \in LiveSlots : ~dirty[i] /\ parent[i] # NoParent => ~dirty[parent[i]]

\* A cached transform that is not marked dirty is the true one, whatever
\* was set, moved or freed since it was computed, unless the entity lies
\* below one that lost its parent to tc_entity_pool_free and was not marked.
CacheIsTrue ==
  \A i \in LiveSlots :
    ~dirty[i] => world[i] = TrueWorld[i] \/ \E j \in Path(i) : j \in orphaned

\* "Global(World) pose (cached, auto-updated)" (tc_entity_pool.h): a cached
\* transform that is not dirty is always the true one.
WorldPoseIsCurrent == \A i \in LiveSlots : ~dirty[i] => world[i] = TrueWorld[i]
===========================================================================
