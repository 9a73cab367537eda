---------------------------- MODULE EntityPool ----------------------------
(***************************************************************************)
(* The entity pool of src/tc_entity_pool.c: generational slots, the        *)
(* parent/child hierarchy and the uuid and pick-id lookups of one pool.    *)
(*                                                                         *)
(* The pool keeps parallel arrays indexed by slot; each is a function on   *)
(* Slots here.  Slots from `capacity` on are those a later pool_grow adds. *)
(* The parts of tc_entity_pool_free that release components and the        *)
(* archetype row act on state of other modules and are modelled there.     *)
(***************************************************************************)
EXTENDS SwapArrays, FiniteSets

CONSTANTS
  InitialCapacity,  \* the argument of tc_entity_pool_create
  MaxCapacity,      \* bound: the pool does not grow past it
  GenerationMod,    \* number of values of the generation counter (uint32_t)
  MaxPickId,        \* bound: the largest pick id handed out
  Uuid,             \* uuid strings
  NoUuid,           \* a NULL entry of uuids
  NoId,             \* TC_ENTITY_ID_INVALID
  DistinctUuids     \* callers never give an entity a uuid another one holds

ASSUME CapacityAssumption ==
  /\ InitialCapacity \in Nat \ {0}
  /\ MaxCapacity \in Nat
  /\ InitialCapacity <= MaxCapacity

ASSUME GenerationAssumption == GenerationMod \in Nat \ {0}

Slots == 0..MaxCapacity-1
Generations == 0..GenerationMod-1
EntityId == [index : Slots, generation : Generations]
PickId == 1..MaxPickId

ASSUME NoIdAssumption == NoId \notin EntityId
ASSUME NoUuidAssumption == NoUuid \notin Uuid
ASSUME PickIdAssumption == MaxPickId \in Nat

VARIABLES
  capacity,
  free_stack,    \* free_stack[0..free_count-1]; the top is the last item
  count,
  generations,
  alive,
  parent_ids,
  children,
  uuids,
  pick_ids,
  next_pick_id,
  by_uuid,       \* the string map: uuid -> id, NoId where there is no entry
  by_pick_id,    \* the u32 map: pick id -> id
  retired        \* history: every id that was freed

slotVars == <<capacity, free_stack, count, generations, alive, retired>>
treeVars == <<parent_ids, children>>
nameVars == <<uuids, pick_ids, next_pick_id, by_uuid, by_pick_id>>
vars == <<slotVars, treeVars, nameVars>>
---------------------------------------------------------------------------
(* Reading the pool                                                        *)

\* tc_entity_pool_alive
Alive(id) ==
  /\ id # NoId
  /\ id.index < capacity
  /\ alive[id.index]
  /\ generations[id.index] = id.generation

\* The id of the present occupant of a slot (tc_entity_pool_id_at).
IdAt(i) == [index |-> i, generation |-> generations[i]]

LiveSlots == { i \in Slots : alive[i] }
LiveIds == { IdAt(i) : i \in LiveSlots }

\* tc_entity_pool_find_by_uuid and tc_entity_pool_find_by_pick_id: the map
\* entry counts only if the id in it is still alive.
FindByUuid(u) == IF Alive(by_uuid[u]) THEN by_uuid[u] ELSE NoId
FindByPickId(p) == IF Alive(by_pick_id[p]) THEN by_pick_id[p] ELSE NoId

\* What lies n links above slot i: a slot, or NoId past the root.
Above(i) ==
  LET up[n \in 0..MaxCapacity] ==
        IF n = 0 THEN i
        ELSE IF up[n-1] = NoId \/ parent_ids[up[n-1]] = NoId THEN NoId
        ELSE parent_ids[up[n-1]].index
  IN  up

\* Making `parent` the parent of `id` would close a cycle.
WouldCycle(id, parent) == \E n \in 0..MaxCapacity : Above(parent.index)[n] = id.index
---------------------------------------------------------------------------
(* The free stack                                                          *)

\* The stack that tc_entity_pool_create and pool_grow build from the slots
\* lo..hi-1: the lowest slot is on top.
FreshStack(lo, hi) == [k \in 1..hi-lo |-> hi-k]

\* pool_grow, run by an allocation that finds the stack empty.
NeedsGrow == free_stack = <<>>
CapacityForAlloc == IF NeedsGrow THEN 2 * capacity ELSE capacity

\* Mutant: pool_grow restacks the old slots with the new ones.
StackForAllocFromZero == IF NeedsGrow THEN FreshStack(0, 2 * capacity) ELSE free_stack

StackForAlloc == IF NeedsGrow THEN FreshStack(capacity, 2 * capacity) ELSE free_stack
---------------------------------------------------------------------------
Init ==
  /\ capacity = InitialCapacity
  /\ free_stack = FreshStack(0, InitialCapacity)
  /\ count = 0
  /\ generations = [i \in Slots |-> 0]
  /\ alive = [i \in Slots |-> FALSE]
  /\ parent_ids = [i \in Slots |-> NoId]
  /\ children = [i \in Slots |-> <<>>]
  /\ uuids = [i \in Slots |-> NoUuid]
  /\ pick_ids = [i \in Slots |-> 0]
  /\ next_pick_id = 1
  /\ by_uuid = [u \in Uuid |-> NoId]
  /\ by_pick_id = [p \in PickId |-> NoId]
  /\ retired = {}

\* The caller's side of DistinctUuids, for an entity in slot i about to get u.
UuidAllowed(i, u) ==
  DistinctUuids => \A j \in LiveSlots \ {i} : uuids[j] # u

\* tc_entity_pool_alloc_with_uuid; a random uuid is any member of Uuid.
Alloc(u) ==
  LET idx == Last(StackForAlloc)
      id == IdAt(idx)
  IN
  /\ CapacityForAlloc <= MaxCapacity
  /\ next_pick_id <= MaxPickId
  /\ UuidAllowed(idx, u)
  /\ capacity' = CapacityForAlloc
  /\ free_stack' = Front(StackForAlloc)
  /\ alive' = [alive EXCEPT ![idx] = TRUE]
  /\ count' = count + 1
  /\ parent_ids' = [parent_ids EXCEPT ![idx] = NoId]
  /\ children' = [children EXCEPT ![idx] = <<>>]
  /\ uuids' = [uuids EXCEPT ![idx] = u]
  /\ pick_ids' = [pick_ids EXCEPT ![idx] = next_pick_id]
  /\ next_pick_id' = next_pick_id + 1
  /\ by_uuid' = [by_uuid EXCEPT ![u] = id]
  /\ by_pick_id' = [by_pick_id EXCEPT ![next_pick_id] = id]
  /\ UNCHANGED <<generations, retired>>

\* The children arrays once `id` has left the array of its present parent.
WithoutChild(id) ==
  LET p == parent_ids[id.index]
  IN  IF Alive(p) THEN [children EXCEPT ![p.index] = SwapRemove(@, id)] ELSE children

\* Mutant: the children keep the link to their dead parent.
NotOrphaned(idx, arrays) == parent_ids

\* The parent links once the children of slot idx are orphaned.
Orphaned(idx, arrays) ==
  [j \in Slots |->
     IF \E c \in ToSet(arrays[idx]) : Alive(c) /\ c.index = j THEN NoId ELSE parent_ids[j]]

\* Mutants: a counter that never wraps, and one that never moves.
NextGenerationWider(g) == g + 1
NextGenerationSame(g) == g

NextGeneration(g) == (g + 1) % GenerationMod

\* tc_entity_pool_free
Free(id) ==
  LET idx == id.index
  IN
  /\ Alive(id)
  /\ parent_ids' = Orphaned(idx, WithoutChild(id))
  /\ children' = [WithoutChild(id) EXCEPT ![idx] = <<>>]
  /\ by_uuid' = [u \in Uuid |-> IF u = uuids[idx] THEN NoId ELSE by_uuid[u]]
  /\ uuids' = [uuids EXCEPT ![idx] = NoUuid]
  /\ by_pick_id' = [by_pick_id EXCEPT ![pick_ids[idx]] = NoId]
  /\ alive' = [alive EXCEPT ![idx] = FALSE]
  /\ generations' = [generations EXCEPT ![idx] = NextGeneration(@)]
  /\ free_stack' = Append(free_stack, idx)
  /\ count' = count - 1
  /\ retired' = retired \cup {id}
  /\ UNCHANGED <<capacity, pick_ids, next_pick_id>>

\* Mutant: the entry of the old uuid stays.
RenamedKeepingOld(id, u) == [by_uuid EXCEPT ![u] = id]

\* The uuid map once entity id has changed its uuid to u.
Renamed(id, u) ==
  [v \in Uuid |-> IF v = u THEN id ELSE IF v = uuids[id.index] THEN NoId ELSE by_uuid[v]]

\* tc_entity_pool_set_uuid
SetUuid(id, u) ==
  LET idx == id.index
  IN
  /\ Alive(id)
  /\ UuidAllowed(idx, u)
  /\ by_uuid' = Renamed(id, u)
  /\ uuids' = [uuids EXCEPT ![idx] = u]
  /\ UNCHANGED <<slotVars, treeVars, pick_ids, next_pick_id, by_pick_id>>

\* tc_entity_pool_set_parent.  docs/gotchas.md leaves the absence of cycles
\* to the caller, so a call that would close one is not made.
SetParent(id, parent) ==
  LET idx == id.index
      arrays == WithoutChild(id)
  IN
  /\ Alive(id)
  /\ Alive(parent) => ~WouldCycle(id, parent)
  /\ IF Alive(parent)
       THEN /\ parent_ids' = [parent_ids EXCEPT ![idx] = parent]
            /\ children' = [arrays EXCEPT ![parent.index] = Append(@, id)]
       ELSE /\ parent_ids' = [parent_ids EXCEPT ![idx] = NoId]
            /\ children' = arrays
  /\ UNCHANGED <<slotVars, nameVars>>

\* Callers keep ids past the life of the entity, so `parent` may be stale.
Next ==
  \/ \E u \in Uuid : Alloc(u)
  \/ \E id \in LiveIds : Free(id)
  \/ \E id \in LiveIds, u \in Uuid : SetUuid(id, u)
  \/ \E id \in LiveIds, parent \in LiveIds \cup retired \cup {NoId} : SetParent(id, parent)

Spec == Init /\ [][Next]_vars
---------------------------------------------------------------------------
TypeOK ==
  /\ capacity \in InitialCapacity..MaxCapacity
  /\ free_stack \in Seq(Slots)
  /\ count \in 0..MaxCapacity
  /\ generations \in [Slots -> Generations]
  /\ alive \in [Slots -> BOOLEAN]
  /\ parent_ids \in [Slots -> EntityId \cup {NoId}]
  /\ children \in [Slots -> Seq(EntityId)]
  /\ uuids \in [Slots -> Uuid \cup {NoUuid}]
  /\ pick_ids \in [Slots -> 0..MaxPickId]
  /\ next_pick_id \in 1..MaxPickId+1
  /\ by_uuid \in [Uuid -> EntityId \cup {NoId}]
  /\ by_pick_id \in [PickId -> EntityId \cup {NoId}]
  /\ retired \subseteq EntityId

\* Every slot below capacity is either occupied or on the free stack, once;
\* a slot that were on the stack twice, or both alive and on the stack,
\* would later be handed to two entities (free_stack and alive across
\* pool_grow, alloc and free).
SlotAccounting ==
  /\ IsInjective(free_stack)
  /\ ToSet(free_stack) = { i \in 0..capacity-1 : ~alive[i] }
  /\ \A i \in LiveSlots : i < capacity
  /\ count = Cardinality(LiveSlots)

\* Every generation of slot i has been handed out and freed.
Exhausted(i) == \A g \in Generations : [index |-> i, generation |-> g] \in retired

\* An id that was freed is never alive again, until the generation counter
\* of its slot has gone all the way round (docs/gotchas.md, "Generational
\* handles": an old id stays invalid even when its index is reused).
StaleIdsStayDead == \A id \in retired : Alive(id) => Exhausted(id.index)

\* parent_ids and children are two views of one forest: a living entity with
\* a parent is exactly once in the array of that parent, the parent lives,
\* and every item of a living entity's array lives and points back to it.
HierarchyAgrees ==
  \A i \in LiveSlots :
    /\ IsInjective(children[i])
    /\ \A c \in ToSet(children[i]) : Alive(c) /\ parent_ids[c.index] = IdAt(i)
    /\ parent_ids[i] # NoId =>
         /\ Alive(parent_ids[i])
         /\ Contains(children[parent_ids[i].index], IdAt(i))

\* A uuid or pick id of a living entity leads to it, one that no living
\* entity has leads nowhere, and no map entry outlives its entity.
LookupsAgree ==
  /\ \A i \in LiveSlots : FindByUuid(uuids[i]) = IdAt(i) /\ FindByPickId(pick_ids[i]) = IdAt(i)
  /\ \A u \in Uuid : by_uuid[u] # NoId => Alive(by_uuid[u]) /\ uuids[by_uuid[u].index] = u
  /\ \A p \in PickId :
       by_pick_id[p] # NoId => Alive(by_pick_id[p]) /\ pick_ids[by_pick_id[p].index] = p

\* The pool is a HandleStore: the ids of its occupants are the live handles.
Store == INSTANCE HandleStore WITH live <- LiveIds, spent <- retired
ImplementsHandleStore == Store!Spec
===========================================================================
