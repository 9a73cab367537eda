----------------------------- MODULE Migration -----------------------------
(***************************************************************************)
(* Entities of several pools and their migration from one to another       *)
(* (tc_entity_pool_migrate, src/tc_entity_pool.c): slots, the hierarchy,   *)
(* the components with their owner handles, and the list a pool's scene    *)
(* keeps of them.  A pool is named by its registry handle.                 *)
(*                                                                         *)
(* `at` is history: where the entity is that users know as a thing, under  *)
(* whatever id.                                                            *)
(* Hooks do not call back into the pools (SceneComponents says the same);  *)
(* generations do not wrap and pools do not grow (EntityPool is about      *)
(* that).  An id in another pool than the entity's is no parent: the C++   *)
(* wrapper refuses it, and the C function takes both ids in one pool.      *)
(***************************************************************************)
EXTENDS SwapArrays, FiniteSets

CONSTANTS
  Pool,
  Room,           \* bound: Room[p] is the number of slots of pool p
  Capacity,       \* the largest of them
  MaxGeneration,  \* bound: a slot is not reused past it
  Thing,
  Component,
  None,           \* TC_ENTITY_ID_INVALID, TC_ENTITY_HANDLE_INVALID
  DeadOwner       \* any handle to an entity that was freed

ASSUME MigrationAssumption ==
  /\ Capacity \in Nat
  /\ Room \in [Pool -> 1..Capacity]
  /\ MaxGeneration \in Nat

Slots == 0..Capacity-1
EntityId == [index : Slots, generation : Nat]

\* Nothing that None is told from is None.
ASSUME NoneAssumption ==
  /\ None \notin EntityId
  /\ None \notin Pool \X Slots
  /\ None \notin Pool \cup Thing

VARIABLES
  generations,  \* generations[p][i], and likewise below: slot i of pool p
  alive,        \* alive[p]: the occupied slots of pool p
  free_stack,
  parent_ids,
  children,
  components,
  owner,        \* owner[c]: the entity handle c->owner, [pool, id]
  registered,   \* registered[p]: the components on the lists of p's scene
  at            \* at[e]: the pool and slot of thing e, None if it does not exist

slotVars == <<generations, alive, free_stack>>
treeVars == <<parent_ids, children>>
componentVars == <<components, owner, registered>>
vars == <<slotVars, treeVars, componentVars, at>>
----------------------------------------------------------------------------
\* tc_entity_pool_alive
Alive(p, id) == id # None /\ id.index \in alive[p] /\ generations[p][id.index] = id.generation

IdAt(p, i) == [index |-> i, generation |-> generations[p][i]]

HandleAt(p, i) == [pool |-> p, id |-> IdAt(p, i)]

Attached == UNION { ToSet(components[p][i]) : p \in Pool, i \in Slots }

\* Mutant: the items of a children array are taken for living.
LiveChildrenUnchecked(p, i) ==
  SelectSeq([k \in 1..Len(children[p][i]) |-> children[p][i][k].index], LAMBDA j : j \in alive[p])

\* The slots of the items of a children array that are still alive.  The
\* array also keeps the ids of entities that migrated away.
LiveChildren(p, i) ==
  LET items == children[p][i]
      living[k \in 0..Len(items)] ==
        IF k = 0 THEN <<>>
        ELSE IF Alive(p, items[k]) THEN Append(living[k-1], items[k].index)
        ELSE living[k-1]
  IN  living[Len(items)]

\* The slots of slot `root` and all below it, each before its children or each
\* after them.  Children come in the order of their array.
Traversal(p, root, parents_first) ==
  LET below[n \in 0..Capacity] ==
        [i \in Slots |->
           IF n = 0 THEN <<>>
           ELSE LET kids == LiveChildren(p, i)
                    under == FlattenSeq([k \in 1..Len(kids) |-> below[n-1][kids[k]]])
                IN  IF parents_first THEN <<i>> \o under ELSE under \o <<i>>]
  IN  below[Capacity][root]

Preorder(p, root) == Traversal(p, root, TRUE)
Postorder(p, root) == Traversal(p, root, FALSE)

Subtree(p, i) == ToSet(Preorder(p, i))
----------------------------------------------------------------------------
Init ==
  /\ generations = [p \in Pool |-> [i \in Slots |-> 0]]
  /\ alive = [p \in Pool |-> {}]
  /\ free_stack = [p \in Pool |-> [k \in 1..Room[p] |-> Room[p] - k]]
  /\ parent_ids = [p \in Pool |-> [i \in Slots |-> None]]
  /\ children = [p \in Pool |-> [i \in Slots |-> <<>>]]
  /\ components = [p \in Pool |-> [i \in Slots |-> <<>>]]
  /\ owner = [c \in Component |-> None]
  /\ registered = [p \in Pool |-> {}]
  /\ at = [e \in Thing |-> None]

\* tc_entity_pool_alloc
Create(p, e) ==
  LET i == Last(free_stack[p])
  IN
  /\ free_stack[p] # <<>>
  /\ at[e] = None
  /\ alive' = [alive EXCEPT ![p] = @ \cup {i}]
  /\ free_stack' = [free_stack EXCEPT ![p] = Front(@)]
  /\ parent_ids' = [parent_ids EXCEPT ![p][i] = None]
  /\ children' = [children EXCEPT ![p][i] = <<>>]
  /\ components' = [components EXCEPT ![p][i] = <<>>]
  /\ at' = [at EXCEPT ![e] = <<p, i>>]
  /\ UNCHANGED <<generations, owner, registered>>

\* The end of tc_entity_pool_free and of tc_entity_pool_migrate for the slots
\* of `order` in turn: each slot gets its next generation and is stacked.
ReleaseSlots(p, order) ==
  /\ \A i \in ToSet(order) : generations[p][i] < MaxGeneration
  /\ generations' = [generations EXCEPT ![p] =
                       [i \in Slots |-> IF i \in ToSet(order) THEN @[i] + 1 ELSE @[i]]]

\* Mutant: an entity that gets a new parent stays in the array of the old one.
ChildrenWithAll(p, id) == children[p]

\* The children arrays of pool p once id has left that of its present parent.
ChildrenWithout(p, id) ==
  LET up == parent_ids[p][id.index]
  IN  IF Alive(p, up) THEN [children[p] EXCEPT ![up.index] = SwapRemove(@, id)] ELSE children[p]

\* The children arrays after the entity in slot i left that of its parent and
\* its own was emptied.
Unhooked(p, arrays, i) ==
  LET up == parent_ids[p][i]
      orphaned == [arrays EXCEPT ![i] = <<>>]
  IN  IF Alive(p, up) THEN [orphaned EXCEPT ![up.index] = SwapRemove(@, IdAt(p, i))]
      ELSE orphaned

UnhookedInTurn(p, order) ==
  LET after[k \in 0..Len(order)] ==
        IF k = 0 THEN children[p] ELSE Unhooked(p, after[k-1], order[k])
  IN  after[Len(order)]

\* tc_entity_pool_free for the slots of `order` in turn.  Each leaves its
\* parent's array; its children are orphaned; its components are taken off
\* the scene and keep the handle to the entity that is gone.
FreeAll(p, order) ==
  LET gone == ToSet(order)
      dropped == UNION { ToSet(components[p][i]) : i \in gone }
  IN
  /\ ReleaseSlots(p, order)
  /\ alive' = [alive EXCEPT ![p] = @ \ gone]
  /\ free_stack' = [free_stack EXCEPT ![p] = @ \o order]
  /\ children' = [children EXCEPT ![p] = UnhookedInTurn(p, order)]
  /\ parent_ids' = [parent_ids EXCEPT ![p] = [i \in Slots |->
       IF i \in gone \/ \E j \in gone : Contains(LiveChildren(p, j), i) THEN None ELSE @[i]]]
  /\ components' = [components EXCEPT ![p] = [i \in Slots |-> IF i \in gone THEN <<>> ELSE @[i]]]
  /\ registered' = [registered EXCEPT ![p] = @ \ dropped]
  /\ owner' = [c \in Component |-> IF c \in dropped THEN DeadOwner ELSE owner[c]]
  /\ at' = [e \in Thing |-> IF \E i \in gone : at[e] = <<p, i>> THEN None ELSE at[e]]

Free(p, i) == i \in alive[p] /\ FreeAll(p, <<i>>)

\* Entity::destroy_children: everything below i, children before parents.
DestroyChildren(p, i) ==
  /\ i \in alive[p]
  /\ LiveChildren(p, i) # <<>>
  /\ FreeAll(p, Front(Postorder(p, i)))

\* tc_entity_pool_set_parent.  Callers close no cycle; any id that is not
\* alive, for which None stands, makes the entity a root.
SetParent(p, i, up) ==
  /\ i \in alive[p]
  /\ Alive(p, up) => up.index \notin Subtree(p, i)
  /\ parent_ids' = [parent_ids EXCEPT ![p][i] = IF Alive(p, up) THEN up ELSE None]
  /\ children' = [children EXCEPT ![p] =
       IF Alive(p, up) THEN [ChildrenWithout(p, IdAt(p, i)) EXCEPT ![up.index] = Append(@, IdAt(p, i))]
       ELSE ChildrenWithout(p, IdAt(p, i))]
  /\ UNCHANGED <<slotVars, componentVars, at>>

\* tc_entity_pool_add_component
AddComponent(p, i, c) ==
  /\ i \in alive[p]
  /\ c \notin Attached
  /\ components' = [components EXCEPT ![p][i] = Append(@, c)]
  /\ owner' = [owner EXCEPT ![c] = HandleAt(p, i)]
  /\ registered' = [registered EXCEPT ![p] = @ \cup {c}]
  /\ UNCHANGED <<slotVars, treeVars, at>>

\* tc_entity_pool_remove_component
RemoveComponent(p, i, c) ==
  /\ i \in alive[p]
  /\ Contains(components[p][i], c)
  /\ components' = [components EXCEPT ![p][i] = SwapRemove(@, c)]
  /\ owner' = [owner EXCEPT ![c] = None]
  /\ registered' = [registered EXCEPT ![p] = @ \ {c}]
  /\ UNCHANGED <<slotVars, treeVars, at>>
----------------------------------------------------------------------------
(* tc_entity_pool_migrate of the entity in slot i of p to q: every entity  *)
(* of its subtree, before its children, takes the next free slot of q, and *)
(* gives up its own slot after them.                                       *)

\* The slot of q that the entity in slot j of p gets.
Image(p, i, q, j) ==
  free_stack[q][Len(free_stack[q]) + 1 -
                (CHOOSE k \in 1..Len(Preorder(p, i)) : Preorder(p, i)[k] = j)]

\* The slot of p whose image slot j of q is.
Original(p, i, q, j) == CHOOSE k \in Subtree(p, i) : Image(p, i, q, k) = j

\* The parent of an image is the image of the parent, set by set_parent; the
\* root of the subtree has none.
ImageParents(p, i, q, images) ==
  [j \in Slots |->
     IF j \notin images THEN parent_ids[q][j]
     ELSE IF Original(p, i, q, j) = i THEN None
     ELSE IdAt(q, Image(p, i, q, parent_ids[p][Original(p, i, q, j)].index))]

ImageChildren(p, i, q, images) ==
  [j \in Slots |->
     IF j \notin images THEN children[q][j]
     ELSE LET living == LiveChildren(p, Original(p, i, q, j))
          IN  [k \in 1..Len(living) |-> IdAt(q, Image(p, i, q, living[k]))]]

\* The entity of pool p whose array component c is in.
Holder(p, c) == CHOOSE j \in Slots : c \in ToSet(components[p][j])

\* Mutant: the components keep the handle to the entity they came with.
OwnersNotMoved(p, i, q, moved) == owner

OwnersMoved(p, i, q, moved) ==
  [c \in Component |->
     IF c \in moved THEN HandleAt(q, Image(p, i, q, Holder(p, c))) ELSE owner[c]]

Migrate(p, i, q) ==
  LET tree == Subtree(p, i)
      images == { Image(p, i, q, j) : j \in tree }
      moved == UNION { ToSet(components[p][j]) : j \in tree }
  IN
  /\ p # q
  /\ i \in alive[p]
  /\ Len(Preorder(p, i)) <= Len(free_stack[q])
  /\ ReleaseSlots(p, Postorder(p, i))
  /\ alive' = [alive EXCEPT ![p] = @ \ tree, ![q] = @ \cup images]
  /\ free_stack' = [free_stack EXCEPT ![p] = @ \o Postorder(p, i),
                                      ![q] = SubSeq(@, 1, Len(@) - Len(Preorder(p, i)))]
  /\ parent_ids' = [parent_ids EXCEPT ![q] = ImageParents(p, i, q, images)]
  /\ children' = [children EXCEPT ![q] = ImageChildren(p, i, q, images)]
  /\ components' = [components EXCEPT
       ![p] = [j \in Slots |-> IF j \in tree THEN <<>> ELSE @[j]],
       ![q] = [j \in Slots |-> IF j \in images THEN components[p][Original(p, i, q, j)] ELSE @[j]]]
  /\ owner' = OwnersMoved(p, i, q, moved)
  /\ registered' = [registered EXCEPT ![p] = @ \ moved, ![q] = @ \cup moved]
  /\ at' = [e \in Thing |->
       IF \E j \in tree : at[e] = <<p, j>> THEN <<q, Image(p, i, q, at[e][2])>> ELSE at[e]]

Next ==
  \E p \in Pool :
    \/ \E e \in Thing : Create(p, e)
    \/ \E i \in Slots :
         \/ Free(p, i)
         \/ DestroyChildren(p, i)
         \/ SetParent(p, i, None)
         \/ \E j \in alive[p] : SetParent(p, i, IdAt(p, j))
         \/ \E c \in Component : AddComponent(p, i, c) \/ RemoveComponent(p, i, c)
         \/ \E q \in Pool : Migrate(p, i, q)

Spec == Init /\ [][Next]_vars
----------------------------------------------------------------------------
\* A component is in one array, of a living entity; its handle leads to that
\* entity in that pool, and it is on the lists of that pool's scene and of no
\* other: after a migration nobody updates it in the scene it left.
ComponentsFollow ==
  /\ \A p \in Pool, i \in Slots : \A c \in ToSet(components[p][i]) :
       i \in alive[p] /\ owner[c] = HandleAt(p, i)
  /\ \A p \in Pool, i \in Slots : IsInjective(components[p][i])
  /\ \A p \in Pool : registered[p] = UNION { ToSet(components[p][i]) : i \in Slots }

\* The living items of a living entity's children array are exactly the
\* entities that name it as their parent, each once, although migration
\* leaves dead ids in the array of the parent that stays behind.
ChildrenAgree ==
  \A p \in Pool : \A i \in alive[p] :
    /\ IsInjective(LiveChildren(p, i))
    /\ ToSet(LiveChildren(p, i)) = { j \in alive[p] : parent_ids[p][j] = IdAt(p, i) }

\* The entities are a SceneForest: where each thing is, what it hangs below
\* and what it carries.  In particular a migration moves the whole subtree,
\* keeps its shape and its components, and touches no other entity.
ThingAt(p, i) == CHOOSE e \in Thing : at[e] = <<p, i>>

SceneOf == [e \in Thing |-> IF at[e] = None THEN None ELSE at[e][1]]

ParentOf ==
  [e \in Thing |->
     IF at[e] = None \/ ~Alive(at[e][1], parent_ids[at[e][1]][at[e][2]]) THEN None
     ELSE ThingAt(at[e][1], parent_ids[at[e][1]][at[e][2]].index)]

HolderOf ==
  [c \in Component |->
     IF \E e \in Thing : at[e] # None /\ Contains(components[at[e][1]][at[e][2]], c)
     THEN CHOOSE e \in Thing : at[e] # None /\ Contains(components[at[e][1]][at[e][2]], c)
     ELSE None]

Forest == INSTANCE SceneForest WITH
  Scene <- Pool,
  scene <- SceneOf, parent <- ParentOf, holder <- HolderOf

ImplementsForest == Forest!Spec
============================================================================
