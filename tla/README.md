# Verification of termin-scene

termin-scene is the scene core of an engine: scenes, pools of entities with a
transform hierarchy, data-only (SoA) components in archetypes, object
components with a lifecycle, and the update loop. It is a single-threaded C
library with C++ and Python wrappers. This directory holds TLA+ models of it,
TLC configurations that check them on small instances, and proofs checked by
TLAPS.

## Inventory

| Component | State | Operations | Interacts with |
|---|---|---|---|
| Entity pool (`src/tc_entity_pool.c`) | parallel arrays by slot: generation, alive, parent, children, uuid, pick id; free stack; two hash maps | alloc, free, set_uuid, set_parent, find, grow | scene lists (through its components), archetypes, hash maps |
| World transforms (same file) | local and cached world transform, dirty flag | setters, mark_dirty, lazy readers, update_transforms | hierarchy |
| SoA storage (`src/tc_archetype.c`, end of `tc_entity_pool.c`) | archetypes (rows, element arrays), per-entity archetype, row and mask | add_soa, remove_soa, get_soa, queries, free | pool slots, user init/destroy |
| Object components (`tc_entity_pool.c`, `tc_scene.c`, `tc_component.h`, `cpp/entity/component.cpp`) | component arrays, owner handles, four scheduler lists, intrusive type lists, reference counts | make, add, remove, free, retain, release, walk a type | scene, Python objects, factories |
| Update loop (`src/tc_scene.c`) | pending_start and lists being walked, accumulated time | update, editor_update, before_render, set_mode, notify | callbacks, which call back into everything above |
| Scene pool (`src/tc_scene.c`) | generational scene slots, each with a pool, lists, type heads | new, free, fields, shutdown | entity pool registry, extensions |
| Entity pool registry (`src/tc_entity_pool_registry.c`) | 64 generational pool slots, standalone pool | create, register, find, destroy, shutdown | entity handles |
| Migration (`tc_entity_pool_migrate`) | two pools | migrate, recursively | components, children, scene lists |
| Component factories and instances (`src/tc_component.c`, `cpp/entity/component_registry.cpp`) | factories by type | register, create, unlink | type registry |
| Type registry (`src/tc_type_registry.c`) | entries with parent, children and instance lists | register, unregister, link, unlink, descendants | component factories |
| Scene extensions (`src/tc_scene_extension.c`) | types, one array of instances of all scenes | register, attach, detach, walks of hooks, deserialize, shutdown | scene pool, update loop, scene files |
| Scene files (`cpp/tc_scene.cpp`, `cpp/entity/entity.cpp`, `cpp/bindings/entity_bindings.cpp`) | the document, the list of entities made so far | serialize, load_from_data; the Python functions for an entity | pool, components, extensions, `on_added` hooks |
| Hash maps (`src/tc_hash_map.c`) | open-addressing tables with tombstones | set, get, remove, resize | entity pool, archetypes |
| Wrappers and bindings (`cpp/`, `src/tc_component_python.c`, `python/`) | handles | forwarding | everything |

There are no threads. What is hard is the rest: handles that outlive what they
name, arrays that reorder under a swap-remove, callbacks that change the lists
being walked, caches that must be invalidated by every operation that touches
their inputs, and counters that wrap. PROJECT.json lists these hazards at their
lines, with the properties that would catch each.

What makes the components correct:

- pool: no slot has two owners, dead ids stay dead, the two halves of the
  hierarchy agree, a lookup leads to the living owner of the key and nowhere else;
- transforms: a cache that is not dirty is true;
- SoA: rows and entities point at each other, an element is destroyed exactly
  once, queries are exact;
- components: every list holds exactly the attached components it is for, every
  count is the number of those who hold, nothing that is counted or linked leads to
  what was deleted;
- update loop and other walks: nobody is called twice, nobody is forgotten, frames
  end, what waits for its start gets it;
- scene pool and registry: stale handles denote nothing, every pool has one owner;
- migration: to its users an entity is one thing, wherever it is;
- type registry: a polymorphic query finds the descendants, an instance list the
  instances;
- extensions: the array is exactly what was created and not destroyed, whatever
  hooks do; loading restores what was saved;
- scene files: what is loaded is what was saved, a component of an unknown type inside
  a placeholder, and hooks cannot make it go into the wrong entity;
- hash maps: get answers as a map would, and the table never fills up.

## Modules

| Module | Models | Checked by |
|---|---|---|
| `SwapArrays` | the growable arrays with swap-remove, shared by all | through its users |
| `EntityPool` | slots, hierarchy, lookups of one pool | `MCEntityPool` |
| `HandleStore` | abstract: handles issued, released, never reissued early | refinement of `EntityPool` |
| `EntitySoA` | archetypes, rows, moves, queries | `MCEntitySoA` |
| `ComponentTable` | abstract: a table of cells that only their own entity's operations change | refinement of `EntitySoA` |
| `Transforms` | dirty flags and lazily recomputed world transforms | `MCTransforms` |
| `SceneComponents` | component arrays, scheduler lists, type lists | through the two below |
| `ComponentLifetime` | `SceneComponents` with reference counts, factories, Python references and wrappers, and walks of type lists | `MCComponentLifetime` |
| `SceneScheduler` | `SceneComponents` with frames, notifications and re-entrant callbacks | `MCSceneScheduler` |
| `SlotTable` | generational slots with a growing free stack, as the next module's two tables are | through it |
| `ScenePool` | scenes and the registry of entity pools, composed | `MCScenePool` |
| `SceneExtensions` | extensions, their walks and re-entrant hooks, runtime start-up | `MCSceneExtensions` |
| `TypeRegistry` | types with parents, factories and instance lists | `MCTypeRegistry` |
| `Migration` | several pools with hierarchy, components and scene lists | `MCMigration` |
| `SceneForest` | abstract: named things in scenes, forming a forest and carrying components | refinement of `Migration` |
| `SceneFile` | saving a scene by either serializer, loading it back in two ways, hooks during the load | `MCSceneFile` |
| `HashMap` | the three hash maps, one algorithm | `MCHashMap` |
| `SwapArrays_proofs` | lemmas about arrays with swap-remove, loops over arrays, arrays in a row | TLAPS |
| `EntityPool_proofs` | theorems: slots, ids, hierarchy, lookups, the refinement | TLAPS |
| `EntitySoA_proofs` | theorems: rows, queries, ownership, the refinement | TLAPS |
| `Scenes_proofs` | theorems of `ScenePool` (pools, handles, registrations) and of `SceneFile` (reloading, what hooks see, where components go) | TLAPS |
| `SceneComponents_proofs` | theorems of `ComponentLifetime` (owners, lists, type lists, references, walks) and of `SceneScheduler` (who is called in a pass) | TLAPS |
| `PoolParts_proofs` | theorems of `HashMap` (counts, searches, get after set) and of `Transforms` (the tree, what is clean, what is true) | TLAPS |
| `Registries_proofs` | theorems of `SceneExtensions` (instances, walks, loading) and of `TypeRegistry` (descendants, lists and counts) | TLAPS |
| `Migration_proofs` | theorems: the forest of each pool, children, components, the refinement | TLAPS |

The variables carry the names of the C fields and the actions those of the C
functions; each action is one whole call. Calls that run code of the host are the
exception: they are cut into steps at every callback, and between the call and its
return the callback may do what the module's header says it may.

- `SceneScheduler`: a frame is a sequence of passes over lists. Between `Call` and
  `Return` the running component may do anything the application may do
  (`ChangeRegistry`, `SetEnabled`, `SetEntityEnabled`, `ResetAccumulatedTime`)
  except start a frame or a notification. A notification (`BeginNotify`,
  `NextEntity`) goes by entities: `visit` is the entity it is at and the number of
  components it read there.
- `ComponentLifetime`: a walk of a type list is `StartWalk`, then a callback for
  each component, between which everything else may happen. Python holds a Python
  component by its reference count (`HostTakes`, `HostDrops`; `host` counts them). Of a
  C++ component `component_to_python` gives it a wrapper that owns nothing
  (`rv_policy::reference`): `HostWraps`, `HostUnwraps`, the set `wrapped`. `outlived` is
  history: the wrapped components that left an entity, which may have deleted them.
- `SceneExtensions`: calls in progress are a stack, so that a hook can start
  another walk or an attach whose create hook runs in turn.
- `SceneFile`: a load is one step for each entity and each component; after a
  component is added its hook may run `HookFrees` and `HookMakes`.

Abstractions, by module:

- `EntityPool`: slots from `capacity` up exist in the arrays from the start and
  are unused until `pool_grow`; plain fields are left out; a random uuid is any
  uuid not in use. `DistinctUuids` states the callers' side of uuids. A pick id
  counts up to a bound. The free stack is a sequence whose last item is the top.
- `EntitySoA`: an element is zero, the value init made, or the value its owner
  wrote, so that copies of one value can be told from values made separately.
  Which dead slot an allocation takes is left open. Memory vacated by a
  swap-remove keeps its content.
- `Transforms`: a world transform is the sequence of local transforms it was
  multiplied from. The children arrays are the inverse of the parent links,
  which is what `HierarchyAgrees` says of the pool.
- `SceneComponents`: callers attach only detached components; `on_added` and
  `on_removed` hooks do not call back into the pool.
- `ComponentLifetime`: the components and their types are given, whether C++ or
  Python; the callback of a walk does not remove the component it is called for
  (the walk would end there); a scene is destroyed outside walks and when Python
  holds none of its components (the pool does not unlink what survives it). Whether a
  type has Python bindings is given too (`Bindable`): without them the conversion
  raises. A `TcComponentRef` is a pointer that is as little counted as a wrapper, and
  is not modelled apart.
- `SceneScheduler`: time is counted in units of which a fixed step takes
  `FixedStep`; the step is not changed; extension hooks touch no component.
- `ScenePool`: entity pools are addresses that may be reused once freed. Hosts
  destroy by handle no pool that is a scene's, and shut the registry down last.
  One uuid stands for all fields a scene keeps in its slot.
- `SceneExtensions`: growth and exhausted memory are left out; create hooks do not
  attach each other in a circle; types are
  registered outside hooks; a create hook attaches what its own type depends on
  and frees no scene; destroy and serialize hooks change nothing.
- `TypeRegistry`: the tree of parents has no cycle, and the registry is cleaned up
  after the last component. What a query collects is a set: its order, and a type met
  twice, are not told. The caps of 64 names in the callers' arrays are out.
- `Migration`: pools do not grow and generations do not wrap (`EntityPool` is about
  both); a recursion that moves a subtree is one step, as no callback interrupts
  it. `at` is history: which thing is in which slot.
- `SceneFile`: a document is the list of entities with the place of their parents
  in it; pose, flags and the fields of a component are one datum each. Parents and
  children are slots. `UnknownComponent` is registered. A saved component may itself be
  in a placeholder, since an earlier load, whether its type is known by now or not. The
  children of a saved entity are in any order. A load goes no further when the scene is full, where the pool
  would grow (`EntityPool` is about that); the run's `Capacity` leaves room for all
  that loading and hooks make.
- `HashMap`: a table is the sequence of its entries (key and value, `Empty` or
  `Deleted`), a hash any number for any key. The string map marks entries in a
  field and the integer maps in the key itself, which is why these refuse two
  keys. What `set` changes is written `SetIn`, of the table after the resize it
  may begin with. `stored` is a history, not a field.

`EntityPool` takes `by_uuid` and `by_pick_id` to be functions from keys to ids;
`GetsWhatWasSet` of `HashMap` is what it takes for granted.

## Runs

| Run | Instance and bounds | Shows |
|---|---|---|
| `entity_pool` | capacity 1 growing to 4, two generations, 6 allocations, 4 uuids (symmetric) | two growths, reuse and wrap-around of generations occur in every order with renames and reparenting |
| `entity_soa` | 3 slots (symmetric), a plain type and one with init and destroy, 5 rows filled, one reuse of each slot | every archetype move between the three masks, swaps of first, middle and last rows |
| `transforms` | 3 slots, 2 local transforms | chains of three, two children, orphans |
| `component_lifetime` | 2 entities, 4 components, 3 of one type (one Python, one filtered out), one Python reference each, one C++ component that Python can wrap | type lists with first, middle, last items, frees of entities with several components, walks in which they change, wrappers from before, during and after the time in an entity |
| `scheduler` | 2 entities, 2 components, frames of 0 or 2 fixed steps | up to two fixed passes a frame, notifications over two entities, every change by every callback, progress under fairness |
| `hash_map` | 8 keys, 2 values, a table of 8 that doubles once | all collisions within a full first table, wrap-around of probes, tombstones reused, a resize of every table that overflows |
| `scene_pool` | 3 scenes against 2 registry slots (256 against 64 in the code), both growing from 1; 4 addresses (symmetric); one reuse of each slot | scenes that miss the registry, reused addresses, standalone and created pools, both shutdowns |
| `extensions` | 2 scenes (symmetric), 2 types, the second's create hook attaching the first; one walk (`MaxWalks`) with the attach calls nested in its hooks; walks within walks are left to the theorems | removals before, at and after the position of a walk, scenes freed by hooks |
| `type_registry` | 3 types (symmetric), each registered up to twice, 2 components | every tree and every reparenting of three types |
| `migration` | a pool of 3 slots and one of 2, one reuse of each slot, 3 things, 1 component | subtrees of two that leave a parent behind or meet reused slots on their way back |
| `scene_file` | every forest of 3 entities, each serializable or not, with no component or one of a known and one of an unknown type, each type in placeholders or not; 5 slots, 2 things done by hooks | both ways to load and both ways to save, hooks that free what is still to be filled and take its slot |
| `transforms_orphan` | as `transforms` | the finding below |

A view and a constraint reduce `transforms`. `MCTransforms!Readable` leaves out
what a dead slot holds, and the cached transform of a dirty entity, which is
recomputed before it is read. `MCTransforms!NoLongPath` cuts off stale cached
paths longer than three: below an orphan that was not marked dirty they can grow
without end. Deadlock checking is off where the bounds on counters (generations,
pick ids, rows), a finished load or a component-free scene may stop the model; the
code itself has no waiting.

Three or four slots are enough for the interesting shapes: a parent with two
children and a chain of three, a row that is first, middle or last, a list in
which the removed item is before, at or after the cursor. The hash map needs more:
a slot once used stays used until a resize, and linear probing spreads n keys
over no more than n slots, so that a table of eight (the smallest the code makes)
can only fill up if there are eight keys. Lists of three components under a
re-entrant walk are in `component_lifetime`; `scheduler` has two components because
its liveness properties are checked over every state.

### Fairness

`scheduler` assumes `WF(FrameStep)` and `WF(Return)`: the loops go on and a
callback returns. `SF(BeginUpdate(FALSE))` is the host's main loop: it goes on
calling `tc_scene_update`, whatever it does between frames (strong fairness,
because editor frames, before_render passes and notifications keep disabling it
for a while). Nothing is assumed of what the callbacks do.

### Findings

`transforms_orphan`: `tc_entity_pool_free` makes children roots without marking
them dirty; their cached world pose stays that below the dead parent until
something else marks them.

### Known divergences

Seen while modelling, and built into the models as the code has them; no run
checks them.

- `tc_entity_pool_remove_soa` of one type of several moves the row with
  `tc_archetype_detach_row` and never destroys the removed element
  (`tc_entity_pool.c:1515`).
- An element of a type without init is not zeroed in a row that was used before,
  although `include/core/tc_archetype.h:27` says "NULL = zero-init".
- A component removed by another's start in the same frame is still started,
  because `process_pending_start` walks a copy; docs/lifecycle.md:19 says start is
  for the components of pending_start.
- A component added during a frame is updated before its start;
  docs/getting-started.md:52 gives the opposite order.
- A migrated entity gets a new uuid, keeps its row in the archetype of the pool it
  left, loses its SoA data, and its components get `on_removed` without `on_added`.
- The uuid of a scene is saved and not restored by `load_from_data`; entities
  loaded from Python get new uuids.
- From Python a component's `on_added` runs before its data is deserialized, from
  C++ after.
- The two serializers differ on placeholders. `TcSceneRef::serialize`
  (`cpp/tc_scene.cpp:336`) writes one as a component of type `UnknownComponent`, with
  `original_type` and `original_data` as its data; `TcComponentRef::serialize`
  (`cpp/bindings/tc_component_ref_bindings.cpp:89`) writes what it stands for. So a type
  that is registered again is back after a load of what Python wrote, and remains in its
  placeholder after a load of what C++ wrote. `ReloadIsFaithful` says what each of the
  two writes; nothing is lost in either.
- A Python wrapper of a C++ component dangles once the component is removed or its
  entity freed, and nothing tells it. docs/ownership.md makes this the caller's duty:
  no one is to rely on the life of a component without the reference counts.

## Proofs

Every theorem is of the module's specification and holds for every value of the
constants. Each rests on an inductive invariant, which the sections below name and
give the reason for. Most properties are not inductive as they stand: they speak of
what users see, and what keeps them true is a fact about slots, rows, places in a
list or history.

### Arrays

`SwapArrays_proofs`: `SwapRemove` keeps the type, removes exactly the item and
keeps the array free of duplicates; removing several items in turn removes exactly
these; after a removal or an append nothing is further back than it was
(`SwapRemoveRest`, `AppendRest`), which is what a loop over the array by index
depends on. A loop along an array that makes each state from the one before has
one result (`LoopDefined`), and arrays put in a row hold what each of them holds
(`ConcatItems`, `FlattenItems`).

### Entity pool

`EntityPool_proofs`, for every initial and maximal capacity, every width of the
generation counter and every set of uuids:

- `TypeCorrect` and `SlotsAccountedFor`. The type invariant is not inductive by
  itself: that the slot an allocation pops is in range, and that `count` stays
  in range, rests on the accounting of slots, so both are proved together.
  Growth is the interesting case: the stack is empty, hence every old slot is
  alive, hence the new stack is exactly the dead slots.
- `StaleIdsNeverRevive`. The invariant says nothing of ids yet to be issued; the
  strengthening `GenerationHistory` says that the retired ids of a slot are
  exactly those of the generations below its present one, until the counter has
  gone all the way round.
- `PoolImplementsStore`. With the same invariant, an allocation is an `Issue` of
  the abstract store, a free a `Release`, and every other step a stutter.
- `HierarchyConsistent`. The invariant is stated of ids, the code works on slots;
  the bridge is that two living ids with one index are one id. Said of slots
  (`Links`) it is inductive, given the accounting: the slot an allocation takes is
  no living entity's, so no link of a living entity leads to it.
- `LookupsCorrect`. To be inductive the invariant needs that a living entity has a
  uuid, and a pick id that the counter has left behind: otherwise an allocation
  could overwrite the entry of another entity.

### SoA storage

`EntitySoA_proofs`, for every number of slots, types and rows. A move vacates a row
of one archetype and fills one of another, with the entity nowhere in between. So
the operations are reasoned about on a *layout*: the archetypes, and for each slot
of a set where it is said to be. Vacating takes the slot out of the set, filling
puts it back, and each keeps the layout whole.

- `RowsAndEntitiesAgree`, `QueriesAreExact`. `LayoutInv` adds to `RowsAgree` that
  an archetype's mask is that of its entities, that no two archetypes have one
  mask, that the element arrays of an archetype reach as far as its rows, and that
  an entity without types is in no archetype.
- `NothingDestroyedTwice`. `OwnershipInv` names a value by the filling that made
  it: a value that is owed a destroy was made, was not destroyed, and is in one row
  only, so a value made later is new. It assumes `OwnersConstruct`, that a type with a
  destroy has an init, as `SoaRegistrar` (`include/termin/soa/soa_type.hpp:38`)
  makes them; without it rows start with zeroes, and destroy runs on these again
  and again.
- `StorageImplementsTable`. Every step changes the cells of its own entity only;
  `SameElements` says so of each half of a move.

### World transforms

Part 2 of `PoolParts_proofs`, for any set of slots and of local transforms. The
invariant `TreeInv` (`TreeStaysWhole`) says that no set of slots holds the parents of
all its members, dead slots included, as these keep their last parent: so every
walk up ends, however many slots there are, and what is defined along the walk (the
true world transform, the recomputed one) exists and is one
(`ProductsExist`, `ProductsUnique`).

- `CleanStaysAbove`. `mark_dirty` marks all of a subtree; a
  reader cleans a path from the root down. The subtree is the least set closed under
  children, so that what is outside of it keeps its path to the root
  (`KeptOutside`).
- `CacheStaysTrue`. What a setter changes it marks: outside the marked subtree the
  true transform is as before (`KeptWorld`). What a reader writes is true because it
  starts below a clean ancestor, whose cache is (`RecomputedIsTrue`). Below an entity
  made a root by the death of its parent nothing is promised (`BelowAnOrphan`).

### Scene pool and registry

Part 1 of `Scenes_proofs`, for every capacity of the two tables. Its first half is about a
table of `SlotTable` alone: growing, taking and releasing a slot keep every slot
alive or on the free stack, once. The second is `PoolInv`:

- `PoolsAreAgreed`. The part `OwnedInv` says that the pool of every scene exists and
  names that scene as its own, which is why no two scenes share one; that every
  registered pool exists and is registered once; and that no other pool exists. It
  says nothing of the age of pools, as a freed address may be reused.
- `HandlesAreSound`. A handle is spent only if its generation is below that of its
  slot; shutting a table down is what ends that, so it forgets the spent handles.
- `RegistrationStaysStable`, an action property: step by step, a scene that lives on
  keeps its slot and its pool, and the pool the slot it is registered in.

### Object components

Part 1 of `SceneComponents_proofs` has what `ComponentLifetime` and `SceneScheduler`
share: `RegistryInv`, kept by adding and removing a component and by allocating and freeing
an entity.

- A slot without an entity has no components (`OwnersInv`); otherwise the next
  entity in it would have them.
- `LinkedExactly`: for each type there is a sequence of exactly the attached
  components of that type such that `type_next` and `type_prev` are its successor
  and predecessor. `TypeListsExact` speaks of the n-th component from the head; the
  sequence is the witness that makes linking at the head and unlinking anywhere
  provable link by link.

Part 2 proves, of `ComponentLifetime`, `OwnersStayAgreed`, `ListsStayExact`,
`TypeListsStayExact`, and

- `ReferencesAreExact`. `HoldInv` adds that a component with an owner has lost the
  factory's reference and that nothing holds what does not exist; from it follows
  that a release brings the count to zero only when no one else is left.
- `NothingDangles`, from `HoldInv`, the walk's own part of the invariant, and
  `WrapperInv`: a C++ component is not deleted before it leaves an entity, because only
  entities hold references to it; so a wrapper of one that did not leave is good.
- `WalksMeetAll`. `WalkInv`: a walk at a component owes calls only to components
  after it in its list, and has called none of these. A component added is put
  before the walk, one removed is owed no longer, and the order of those that stay
  is never changed.

### Update loop

Part 3 of `SceneComponents_proofs` proves `ListsExactInFrames` and two action
properties:

- `NobodyIsCalledTwice`. `TwiceInv`: what the loop still comes to was not called in
  this pass. It is kept because no operation on a scene moves a component further
  back in a list (`NothingMovesBack`): additions go to the end, a removal fills the
  hole from the end.
- `NobodyIsMissed`. `MissedInv`: what the loop has passed was called, is excused
  (added, enabled, disabled or moved over the position by a removal, see
  `MovedOver`), or is not to be called.

For a notification both say this of the array it is at, of those it has left and of
those it still comes to.

### Hash maps

Part 1 of `PoolParts_proofs`, for any hash function, any number of keys and any capacity of at
least 8, proves `CountersMatchEntries`, `EmptyEntryRemains` and
`GetReturnsWhatWasSet`. `MapInv` says that each key is in one entry at most, that a
search for it comes there before it meets an empty entry (`Findable`), and that the
load is at most seven tenths of the capacity and one entry (`LoadInv`). The last
is where the smallest capacity matters: in a table of two the one entry may be the
last empty one, in one of eight it never is. A set
into a tombstone keeps `Findable` because the search has already been all the way to
an empty entry; a removal keeps it because a tombstone does not stop a search; a
resize, because it goes by sets into an empty table of twice the capacity.

### Scene extensions

Part 1 of `Registries_proofs`, for any scenes, types and keys, and calls nested as deep
as one likes. `ExtInv` (`CallsStayInOrder`) has a part for each kind of call in
progress and one for two calls of which one runs within the other:

- a walk (`LoopInv`): what it owes a call and has not called is excused or ahead of
  it, nothing it called is ahead of it;
- a deserialize (`LoadInv`): what it has left behind is restored or excused;
- an attach in its create hook (`CreateInv`): its extension is not there yet. What
  runs within it creates what it depends on (`NestInv`), which is something else
  because dependencies go in no circle.

Most steps only remove. Removals let items go and move others towards the front of the
array, never back (`Shrinks`), and all parts of the invariant are kept by that; so they
are proved once for all calls of the stack. From the invariant follow
`InstancesStayTrue` (which needs only the array), `WalksStayComplete` and
`DeserializeStaysFaithful`.

### Type registry

Part 2 of `Registries_proofs`, for any finite set of types and any components.

- `DescendantsStayExact`. A parent's array of children may hold stale entries, of types
  that have been registered anew under another parent; the recursion tells them by
  their parent. `ParentsInv` says that the array holds every child at least. The chain
  of a type's parents is the least set closed under parents; that there are finitely
  many types makes the recursion end, and what it collects is what the chains say
  (`ParentsGiveDescendants`).
- `ListsAndCountsStayExact` is inductive together with the types of the variables: a
  component that a factory made points at its entry until the registry is wiped.

### Migration

`Migration_proofs`, for any pools of any room, things and components.

- `ForestStays`: each pool is good by itself. A free slot is not occupied and is
  stacked once; parents live; no set of entities holds the parents of all its members
  (`Rooted`, the form of "no cycle" that every cut and every new root keeps); the
  children arrays mirror the parents, without duplicates; what else is in an array is
  an id of the past, that no entity has again. What an operation does to a pool is said of the fields of one
  pool, and a migration is a removal from one and additions to the other: the
  entities of the subtree get new slots one to one. That the recursion
  reaches all of the subtree rests on a path being no longer than the set of entities is
  large.
- `ChildrenStayAgreed` is the property of children from `ForestInv`.
- `ComponentsStayWithEntities`: `ComponentInv` says of each component that its owner's
  array, its owner handle and the list of its scene agree; a migration changes all of
  them for the components of the subtree, and none of any other.
- `EntitiesAreAForest`: `Migration` implements `SceneForest`. The invariant needs `AtInv`
  besides: the history `at` names exactly the living slots, each by one thing. What the
  abstract forest says of a thing is a function of relations that users see (`Placed`,
  `Kin`, `Holds`), so that each step is shown on these relations and the abstract state
  follows. A freed subtree and a migrated one are the abstract `Below` because the least
  set closed under children is, in every pool, the offspring of the slot
  (`BelowIsOffspring`).

### Scene files

Part 2 of `Scenes_proofs`, for any forest in any slots of a scene, any component types,
and any number of things hooks do.

What `serialize_entity_recursive` writes for a set of entities is a *wood* (`Wood`): each
entity comes after its parent or is one of the roots, what comes between an entity and a
child of it is below it too, all that is below is there, and siblings come in their order
if the arrays of children ascend. One entity with the woods below it is a wood
(`WoodPlanted`), and so are woods in a row (`WoodsInARow`). So the document of any scene
nests (`DocNests`), and only then can it be loaded by going through it once.

- `HooksAlwaysSeeWholeScene`, `NoComponentStrays`. `FileInv` says that a handle which was
  made is valid until its entity is freed, and that a freed handle is behind its slot's
  generation: so when a hook reuses the slot, no handle of the load leads there
  (`HandlesTrue`). A component at a place of a slot belongs to the entity of the document
  whose handle that slot answers to (`AtHome`); and what is loaded is whole but for what
  was freed and what was below it (`LoadedTrue`). For the latter the arrays of
  children must hold only entities that live and name the slot as their parent
  (`ChildrenTrue`): `WithoutEntity` clears the parents of all that is in the array.
- `ReloadsAreFaithful`. While no hook has done anything (`UntouchedInv`), the n-th entity of
  the document is in slot n-1, hangs where the document has it if its call has
  returned, and the arrays of children ascend. The Python functions hang an entity
  when all below it is done: each call returns once and, in the end, all do
  (`ReturnsOnce`, `AllReturn`), and siblings in their order (`HungInTurn`). At the end the
  scene is one whose entities 0, 1, 2... nest, and the one wood of such a scene is 0, 1,
  2... again (`WoodIsInOrder`). Of the components, `TcSceneRef::serialize` writes
  `Wrapped(c, Type \ Known)`, what is in a placeholder remaining there, and
  `Entity.serialize` writes `Unwrapped(c)`; both follow from what a load makes of `c`
  (`MadeIs`) and hold after either way to load (`SameData`).

### Assumptions

The theorems rest on the assumptions the modules state about constants:

- capacities and moduli are positive, the null values (`NoComponent`, `NoHandle`,
  `NoArchetype`...) differ from real ones;
- the slots of a pool, the components of a scene and the component types are finitely
  many;
- create hooks of extensions do not attach each other in a circle
  (`DependencyAssumption`): in the code that would recurse without end, because
  `tc_scene_ext_attach` looks for the extension before the create hook and not after;
- the saved entities are in slots below the capacity of the loaded scene, and no
  component type has the name of the placeholder;
- the initial capacity of a hash map is at least 8, as its constructors make it.

About callers two theorems assume more: `LookupsCorrect` that they keep uuids of
living entities distinct (`DistinctUuids`), `NothingDestroyedTwice` that types are
registered as `SoaRegistrar` does (`OwnersConstruct`). Each is false without it.

### Recursive functions

The prover has no induction over data. Where a model has a loop over an array as a
recursive function (`RemovedInTurn`, `UnlinkedInTurn`, `Nth`, `Resized`, `DetachAll`, `UnhookedInTurn`,
`AfterReturns`), the
proof unfolds its definition once and shows what holds after each step by counting up:
the first number for which it failed would have a predecessor for which it held
(`CountingUp`, from the least element of a set of numbers). That such a function
exists is shown too: a function defined by its own values may not.

Where the recursion goes over a tree (`Recomputed`, `TrueWorld`, `Descendants`,
`Traversal`, `Written`), the place of counting is taken by the fact that no set holds the
parents of all its members: the set of nodes for which something failed would have one
whose parent is not among them.

### Only model-checked

The liveness properties `PendingIsStarted` and `FrameEnds`: fairness and ENABLED are
beyond the proof system. Every other property that a run checks is a theorem, except
`WorldPoseIsCurrent`, which the code violates.

## Not modelled

- Hooks `on_added` and `on_removed` that call back into the pool, outside a load.
- Scenes created or freed inside a frame: what could go wrong is that the arrays
  being walked move or are freed, which is a matter of addresses.
- SoA rows in a migration: the row that stays behind breaks `RowsAgree` at once.
- Plain fields and their setters, metadata, layer and flag names, versions of
  transforms: nothing else depends on them.
- Text and value conversion: JSON, `tc_value`, Python dictionaries, inspection of
  fields.
- Growth of the extension arrays, exhausted memory, the caps of 64 type names.
- The transform view `GeneralTransform3` and the members of the C++ and Python
  wrappers that only forward.

## Plan

Done: all components of the inventory are modelled and checked. All safety and action
properties are proved, and so are the three refinements. What would extend it: hooks
that call back into the pool outside a load, and scenes freed inside a frame.
