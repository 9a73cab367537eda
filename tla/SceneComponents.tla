-------------------------- MODULE SceneComponents --------------------------
(***************************************************************************)
(* Object components of one scene: the component arrays of its entities    *)
(* (src/tc_entity_pool.c) and the lists the scene keeps of them            *)
(* (src/tc_scene.c): pending_start, update, fixed_update, before_render    *)
(* and, for every component type, an intrusive doubly linked list.         *)
(*                                                                         *)
(* A component is in at most one entity: add_component does not check, and *)
(* its callers pass new or removed components.  Reference counts are       *)
(* ComponentLifetime's subject.  The on_added and on_removed hooks do not  *)
(* call back into the pool.                                                *)
(***************************************************************************)
EXTENDS SwapArrays, FiniteSets

CONSTANTS
  Entity,           \* entity slots
  Component,
  Type,             \* component types
  TypeOf,           \* tc_component_type_name
  HasUpdate,        \* components with has_update set
  HasFixedUpdate,
  HasBeforeRender,
  NoComponent,      \* NULL
  NoOwner,          \* TC_ENTITY_HANDLE_INVALID
  DeadOwner         \* a handle to an entity that was freed

ASSUME ComponentAssumption ==
  /\ IsFiniteSet(Component)
  /\ TypeOf \in [Component -> Type]
  /\ HasUpdate \subseteq Component
  /\ HasFixedUpdate \subseteq Component
  /\ HasBeforeRender \subseteq Component
  /\ NoComponent \notin Component
  /\ {NoOwner, DeadOwner} \cap Entity = {}

VARIABLES
  alive,               \* the entities that exist
  components,          \* components[e]: the component array of entity e
  owner,
  started,             \* _started
  pending_start,
  update_list,
  fixed_update_list,
  before_render_list,
  type_links           \* type_heads with type_prev and type_next

listVars == <<pending_start, update_list, fixed_update_list, before_render_list>>
registryVars == <<alive, components, owner, listVars, type_links>>

Attached == { c \in Component : \E e \in alive : Contains(components[e], c) }
----------------------------------------------------------------------------
(* The scene's lists                                                       *)

\* list_push behind the list_contains test of tc_scene_register_component.
PushNew(list, c) == IF Contains(list, c) THEN list ELSE Append(list, c)

PushIf(condition, list, c) == IF condition THEN PushNew(list, c) ELSE list

\* The field `side` of neighbour n becomes v, if there is such a neighbour.
Relinked(field, n, v) == IF n = NoComponent THEN field ELSE [field EXCEPT ![n] = v]

\* Linking c at the head of its type's list (tc_scene_register_component).
Link(links, c) ==
  LET head == links.head[TypeOf[c]]
      linked == links.prev[c] # NoComponent \/ links.next[c] # NoComponent
  IN
  IF linked \/ head = c THEN links
  ELSE [head |-> [links.head EXCEPT ![TypeOf[c]] = c],
        prev |-> Relinked(links.prev, head, c),
        next |-> [links.next EXCEPT ![c] = head]]

\* Mutant: the new head of a list keeps its link back to the old one.
UnlinkHeadOnly(links, c) ==
  [head |-> [links.head EXCEPT ![TypeOf[c]] = IF @ = c THEN links.next[c] ELSE @],
   prev |-> [links.prev EXCEPT ![c] = NoComponent],
   next |-> [Relinked(links.next, links.prev[c], links.next[c]) EXCEPT ![c] = NoComponent]]

\* Unlinking c (tc_scene_unregister_component).
Unlink(links, c) ==
  LET p == links.prev[c]
      n == links.next[c]
      first == links.head[TypeOf[c]] = c
  IN
  [head |-> IF first THEN [links.head EXCEPT ![TypeOf[c]] = n] ELSE links.head,
   prev |-> [Relinked(links.prev, n, IF first THEN NoComponent ELSE p) EXCEPT ![c] = NoComponent],
   next |-> [IF first THEN links.next ELSE Relinked(links.next, p, n)
               EXCEPT ![c] = NoComponent]]

\* tc_scene_register_component
Register(c) ==
  /\ pending_start' = PushIf(~started[c], pending_start, c)
  /\ update_list' = PushIf(c \in HasUpdate, update_list, c)
  /\ fixed_update_list' = PushIf(c \in HasFixedUpdate, fixed_update_list, c)
  /\ before_render_list' = PushIf(c \in HasBeforeRender, before_render_list, c)
  /\ type_links' = Link(type_links, c)

\* The links after each of the items was unlinked in turn.
UnlinkedInTurn(links, items) ==
  LET after[k \in 0..Len(items)] ==
        IF k = 0 THEN links ELSE Unlink(after[k-1], items[k])
  IN  after[Len(items)]

\* tc_scene_unregister_component for each item of arr in turn.
UnregisterAll(arr) ==
  /\ pending_start' = RemovedInTurn(pending_start, arr)
  /\ update_list' = RemovedInTurn(update_list, arr)
  /\ fixed_update_list' = RemovedInTurn(fixed_update_list, arr)
  /\ before_render_list' = RemovedInTurn(before_render_list, arr)
  /\ type_links' = UnlinkedInTurn(type_links, arr)

\* Mutant: an index that advances while the array shrinks under it.
RemovalOrderAdvancing(arr) == [k \in 1..(Len(arr) + 1) \div 2 |-> arr[k]]

\* The order in which tc_entity_pool_free empties an array by swap-removing
\* its first item until nothing is left.
RemovalOrder(arr) == [k \in 1..Len(arr) |-> IF k = 1 THEN arr[1] ELSE arr[Len(arr) - k + 2]]
----------------------------------------------------------------------------
RegistryInit ==
  /\ alive = {}
  /\ components = [e \in Entity |-> <<>>]
  /\ owner = [c \in Component |-> NoOwner]
  /\ started = [c \in Component |-> FALSE]
  /\ pending_start = <<>>
  /\ update_list = <<>>
  /\ fixed_update_list = <<>>
  /\ before_render_list = <<>>
  /\ type_links = [head |-> [t \in Type |-> NoComponent],
                   prev |-> [c \in Component |-> NoComponent],
                   next |-> [c \in Component |-> NoComponent]]

\* tc_entity_pool_alloc, as far as components go.
AllocEntity(e) ==
  /\ e \notin alive
  /\ alive' = alive \cup {e}
  /\ UNCHANGED <<components, owner, listVars, type_links, started>>

\* tc_entity_pool_add_component
AddComponent(e, c) ==
  /\ e \in alive
  /\ c \notin Attached
  /\ owner' = [owner EXCEPT ![c] = e]
  /\ components' = [components EXCEPT ![e] = Append(@, c)]
  /\ Register(c)
  /\ UNCHANGED <<alive, started>>

\* tc_entity_pool_remove_component
RemoveComponent(e, c) ==
  /\ e \in alive
  /\ Contains(components[e], c)
  /\ UnregisterAll(<<c>>)
  /\ owner' = [owner EXCEPT ![c] = NoOwner]
  /\ components' = [components EXCEPT ![e] = SwapRemove(@, c)]
  /\ UNCHANGED <<alive, started>>

\* Mutant: the handles of the components still lead to the entity's slot.
OwnersKept(e) == owner

OwnersAfterFree(e) == [c \in Component |-> IF owner[c] = e THEN DeadOwner ELSE owner[c]]

\* tc_entity_pool_free, as far as components go: every component of e is
\* taken off the scene, and keeps its handle to the entity that is gone.
FreeEntity(e) ==
  /\ e \in alive
  /\ UnregisterAll(RemovalOrder(components[e]))
  /\ owner' = OwnersAfterFree(e)
  /\ components' = [components EXCEPT ![e] = <<>>]
  /\ alive' = alive \ {e}
  /\ UNCHANGED started

RegistryNext ==
  \E e \in Entity :
    \/ AllocEntity(e)
    \/ FreeEntity(e)
    \/ \E c \in Component : AddComponent(e, c) \/ RemoveComponent(e, c)
----------------------------------------------------------------------------
\* A component is in the array of at most one entity, once, and its owner
\* handle leads to that entity; a detached component never claims a living
\* owner, so that nobody follows its handle into another entity's data.
OwnersAgree ==
  /\ \A e \in alive : IsInjective(components[e])
  /\ \A e \in Entity, c \in Component : owner[c] = e <=> e \in alive /\ Contains(components[e], c)

Lists(list, expected) == IsInjective(list) /\ ToSet(list) = expected

\* Each of the scene's lists holds exactly the attached components it is for,
\* once: none is called after it was removed, and none is forgotten.
ListsExact ==
  /\ Lists(pending_start, { c \in Attached : ~started[c] })
  /\ Lists(update_list, Attached \cap HasUpdate)
  /\ Lists(fixed_update_list, Attached \cap HasFixedUpdate)
  /\ Lists(before_render_list, Attached \cap HasBeforeRender)

\* The component n links after the head of the list of type t.
Nth(t) ==
  LET nth[n \in 0..Cardinality(Component)] ==
        IF n = 0 THEN type_links.head[t]
        ELSE IF nth[n-1] = NoComponent THEN NoComponent
        ELSE type_links.next[nth[n-1]]
  IN  nth

OfType(t) == { c \in Attached : TypeOf[c] = t }

\* Walking the list of a type meets every attached component of the type
\* once and stops; type_prev is the way back, and a detached component keeps
\* no link, as register takes "no link" for "not in a list".
TypeListsExact ==
  /\ \A t \in Type :
       LET size == Cardinality(OfType(t))
       IN  /\ { Nth(t)[n] : n \in 0..size-1 } = OfType(t)
           /\ Nth(t)[size] = NoComponent
  /\ \A c, d \in Component : type_links.next[c] = d <=> type_links.prev[d] = c
  /\ \A c \in Component \ Attached :
       type_links.prev[c] = NoComponent /\ type_links.next[c] = NoComponent
============================================================================
