----------------------------- MODULE SceneFile -----------------------------
(***************************************************************************)
(* Saving a scene and loading the result into an empty scene, in one of    *)
(* two ways: as a whole (TcSceneRef::serialize and load_from_data in       *)
(* cpp/tc_scene.cpp, the Entity functions they call in                     *)
(* cpp/entity/entity.cpp), or by the Python functions for an entity and    *)
(* what is below it (Entity.serialize and deserialize_with_children in     *)
(* cpp/bindings/entity_bindings.cpp), root by root.  Loading runs the      *)
(* on_added hooks of the components it adds, and a hook may free and make  *)
(* entities of the scene that is being loaded; from Python, not the entity *)
(* of the component itself, which is used after the hook.                  *)
(*                                                                         *)
(* A document is the list of its entities, each before its children, with  *)
(* the place of its parent in the list.  The flags and the pose of an      *)
(* entity, and the fields of a component, are one datum each.  Parents and *)
(* children are slots: EntityPool is about the ids in their place.  The    *)
(* type UnknownComponent is registered, and every known type has a         *)
(* factory; a load ends when the scene is full, where the pool would grow; *)
(* extensions are in SceneExtensions.                                      *)
(***************************************************************************)
EXTENDS SwapArrays, FiniteSets

CONSTANTS
  Nodes,      \* the slots that the saved scene uses
  Capacity,   \* bound: slots of the scene that is loaded
  Type,       \* component types
  Contents,   \* bound: the lists of types of the components of an entity
  Known,      \* the types registered when the document is loaded
  Placeholder,  \* the type UnknownComponent
  None,       \* no parent, an unnamed layer
  Name,       \* a name a layer can have
  Fresh,      \* the random uuid of an entity that is made without one
  MaxHooks    \* bound: what hooks do during one load

ASSUME FileAssumption ==
  /\ Nodes \subseteq 0..Capacity-1
  /\ Known \subseteq Type
  /\ \A list \in Contents : list \in Seq(Type)
  /\ Placeholder \notin Type
  /\ None \notin 0..Capacity-1
  /\ Capacity \in Nat /\ MaxHooks \in Nat

Slots == 0..Capacity-1

VARIABLES
  saved,        \* the scene that was saved
  scene,        \* the scene that is loaded
  phase,        \* "settings", "entities", "components" or "done"
  entities,     \* entity_data_pairs: the handle made for each entity of the document
  item,         \* the next component of the entity whose turn it is
  node,         \* whose turn it is
  in_hook,      \* an on_added hook is running
  from_python,  \* loaded by deserialize_with_children, not by load_from_data
  hooks,        \* history: how many things hooks did
  update_settings,
  freed         \* history: the handles of the entities that hooks freed

loadVars == <<phase, entities, item, node, in_hook, hooks, from_python, update_settings, freed>>
fileVars == <<saved, scene, loadVars>>

HandleTo(s, i) == [index |-> i, generation |-> s.generations[i]]

\* Mutant: a handle is taken for valid when something lives in its slot.
SlotTaken(s, h) == h.index \in s.alive

\* Entity::valid
Valid(s, h) == h.index \in s.alive /\ s.generations[h.index] = h.generation
----------------------------------------------------------------------------
(* Saving                                                                  *)

\* The entities tc_entity_pool_foreach finds that have no parent.
Roots(s) == { i \in s.alive : s.parent[i] = None }

\* serialize_entity_recursive, for each slot: what is not serializable is left
\* out with all below it.
Written(s) ==
  LET part[i \in Slots] ==
        IF i \notin s.serializable THEN <<>>
        ELSE <<i>> \o FlattenSeq([k \in 1..Len(s.children[i]) |-> part[s.children[i][k]]])
  IN  part

SaveOrder(s) ==
  FlattenSeq([k \in 1..Capacity |-> IF k-1 \in Roots(s) THEN Written(s)[k-1] ELSE <<>>])

\* Entity::serialize_base and the components, for the entity in slot i.
EntityData(s, order, i) ==
  [uuid |-> s.uuid[i],
   above |-> IF s.parent[i] = None THEN 0
             ELSE CHOOSE k \in 1..Len(order) : order[k] = s.parent[i],
   components |-> s.components[i]]

\* TcSceneRef::serialize, which writes a placeholder like any other component:
\* under its own type, with what it stands for as its data.
Save(s) ==
  LET order == SaveOrder(s)
  IN  [entities |-> [k \in 1..Len(order) |-> EntityData(s, order, order[k])],
       layer_name |-> s.layer_name]

\* TcComponentRef::serialize writes a placeholder as what it stands for.
Unwrapped(c) == IF c.type = Placeholder THEN c.original ELSE c

\* Entity.serialize of the bindings
PythonData(s, order, i) ==
  [EntityData(s, order, i) EXCEPT !.components = [j \in 1..Len(@) |-> Unwrapped(@[j])]]

\* The document.  What Entity.serialize writes is the document of the scene
\* that has in place of each placeholder what it stands for.
doc == Save(saved)
----------------------------------------------------------------------------
(* The pool of the scene that is loaded                                    *)

EmptyScene ==
  [alive |-> {}, generations |-> [i \in Slots |-> 0],
   free_stack |-> [k \in 1..Capacity |-> Capacity - k],
   uuid |-> [i \in Slots |-> None], parent |-> [i \in Slots |-> None],
   children |-> [i \in Slots |-> <<>>], components |-> [i \in Slots |-> <<>>],
   serializable |-> {}, layer_name |-> None]

\* Entity::create_with_uuid, which takes the top of the free stack
WithEntity(s, u) ==
  LET i == Last(s.free_stack)
  IN  [s EXCEPT !.alive = @ \cup {i}, !.free_stack = Front(@), !.uuid[i] = u,
                !.parent[i] = None, !.children[i] = <<>>, !.components[i] = <<>>,
                !.serializable = @ \cup {i}]

\* Entity::set_parent of a new entity
WithParent(s, i, up) == [s EXCEPT !.parent[i] = up, !.children[up] = Append(@, i)]

\* tc_entity_pool_free
WithoutEntity(s, i) ==
  [s EXCEPT
     !.alive = @ \ {i}, !.serializable = @ \ {i}, !.free_stack = Append(@, i),
     !.generations[i] = @ + 1, !.components[i] = <<>>,
     !.parent = [j \in Slots |-> IF Contains(s.children[i], j) THEN None ELSE @[j]],
     !.children = [j \in Slots |-> IF j = i THEN <<>> ELSE SwapRemove(@[j], i)]]
----------------------------------------------------------------------------
(* Loading                                                                 *)

\* The scenes there are to save: forests on Nodes, in whatever slots, whose
\* entities hold components of the types in one of Contents, some of them in
\* placeholders since an earlier load; a component knows the entity it is
\* saved in.
Forests ==
  { up \in [Nodes -> Nodes \cup {None}] :
      \E depth \in [Nodes -> Nodes] : \A i \in Nodes : up[i] # None => depth[up[i]] < depth[i] }

\* A component in a placeholder if its type is one of `lost`.
Wrapped(c, lost) == IF c.type \in lost THEN [type |-> Placeholder, original |-> c] ELSE c

\* The children of an entity are in any order.
ChildArrays(up) ==
  LET Orders == { q \in SeqOf(Nodes, Cardinality(Nodes)) : IsInjective(q) }
  IN  { ch \in [Nodes -> Orders] : \A i \in Nodes : ToSet(ch[i]) = { j \in Nodes : up[j] = i } }

SavedScene(up, below, visible, held, named) ==
  [alive |-> Nodes, generations |-> [i \in Slots |-> 0], free_stack |-> <<>>,
   uuid |-> [i \in Slots |-> i],
   parent |-> [i \in Slots |-> IF i \in Nodes THEN up[i] ELSE None],
   children |-> [i \in Slots |-> IF i \in Nodes THEN below[i] ELSE <<>>],
   components |-> [i \in Slots |-> IF i \in Nodes THEN held[i] ELSE <<>>],
   serializable |-> visible, layer_name |-> named]

FileInit ==
  /\ \E up \in Forests : \E below \in ChildArrays(up), visible \in SUBSET Nodes,
        named \in {None, Name}, types \in [Nodes -> Contents], lost \in SUBSET Type :
       saved = SavedScene(up, below, visible,
         [i \in Nodes |->
            [j \in 1..Len(types[i]) |-> Wrapped([type |-> types[i][j], origin |-> i], lost)]],
         named)
  /\ scene = EmptyScene
  /\ entities = <<>>
  /\ node = 1 /\ item = 1
  /\ in_hook = FALSE /\ hooks = 0 /\ freed = {}
  /\ \/ phase = "settings" /\ from_python = FALSE /\ update_settings \in BOOLEAN
     \/ phase = "entities" /\ from_python = TRUE /\ update_settings = FALSE
  /\ from_python => Roots(saved) \cap saved.serializable # {}

Settings ==
  /\ phase = "settings"
  /\ phase' = IF doc.entities = <<>> THEN "done" ELSE "entities"
  /\ scene' = IF update_settings /\ doc.layer_name # None
              THEN [scene EXCEPT !.layer_name = doc.layer_name] ELSE scene
  /\ UNCHANGED <<saved, entities, item, node, in_hook, hooks, from_python, update_settings, freed>>

\* Mutant: the components of an entity are loaded as soon as it exists.
PhaseAfterEntityAtOnce(k) == "components"

PhaseAfterEntity(k) == IF k < Len(doc.entities) THEN "entities" ELSE "components"

\* deserialize_hierarchy, for one entity: deserialize_base_trent, set_parent
LoadEntity ==
  LET k == Len(entities) + 1
      d == doc.entities[k]
      made == WithEntity(scene, d.uuid)
      i == Last(scene.free_stack)
  IN
  /\ phase = "entities"
  /\ ~from_python
  /\ scene.free_stack # <<>>
  /\ scene' = IF d.above > 0 THEN WithParent(made, i, entities[d.above].index) ELSE made
  /\ entities' = Append(entities, HandleTo(scene, i))
  /\ phase' = PhaseAfterEntity(k)
  /\ UNCHANGED <<saved, item, node, in_hook, hooks, from_python, update_settings, freed>>

\* Mutant: the placeholder forgets the type it stands for.
MadeForgetful(c) ==
  IF c.type \in Type \ Known
  THEN [type |-> Placeholder, original |-> [type |-> Placeholder, origin |-> c.origin]]
  ELSE c

\* A component of a type that is not registered is kept in a placeholder; one
\* that was written as a placeholder stays one, whatever is registered now.
Made(c) == Wrapped(c, Type \ Known)

\* Entity::deserialize_components_trent, for one component: it is made and
\* filled, and goes into the entity if that is still there; on_added follows,
\* which does nothing in a placeholder.
LoadComponent ==
  LET held == doc.entities[node].components
      h == entities[node]
  IN
  /\ phase = "components"
  /\ ~from_python
  /\ node <= Len(entities)
  /\ IF Valid(scene, h) /\ item <= Len(held)
       THEN /\ scene' = [scene EXCEPT !.components[h.index] = Append(@, Made(held[item]))]
            /\ item' = item + 1
            /\ in_hook' = (held[item].type \in Known)
            /\ UNCHANGED node
       ELSE /\ node' = node + 1
            /\ item' = 1
            /\ in_hook' = FALSE
            /\ UNCHANGED scene
  /\ UNCHANGED <<saved, phase, entities, hooks, from_python, update_settings, freed>>

Finish ==
  /\ phase = "components"
  /\ ~from_python
  /\ node > Len(entities)
  /\ phase' = "done"
  /\ in_hook' = FALSE
  /\ UNCHANGED <<saved, scene, entities, item, node, hooks, from_python, update_settings, freed>>

----------------------------------------------------------------------------
(* Loading from Python: each entity with its components, then what is      *)
(* below it; when that is done the entity gets its parent.                 *)

\* Entity.deserialize up to the components
DeserializeEntity ==
  /\ phase = "entities"
  /\ from_python
  /\ scene.free_stack # <<>>
  /\ scene' = WithEntity(scene, Fresh)
  /\ entities' = Append(entities, HandleTo(scene, Last(scene.free_stack)))
  /\ node' = Len(entities) + 1
  /\ item' = 1
  /\ phase' = "components"
  /\ UNCHANGED <<saved, in_hook, hooks, from_python, update_settings, freed>>

\* The components of Entity.deserialize: one is made, added, and filled when
\* its hook is over; a placeholder's hook does nothing.
DeserializeComponent ==
  LET c == doc.entities[node].components[item]
      h == entities[node]
      added == IF c.type \in Known THEN [c EXCEPT !.origin = None] ELSE Made(c)
  IN
  /\ phase = "components" /\ from_python /\ ~in_hook
  /\ item <= Len(doc.entities[node].components)
  /\ Valid(scene, h)
  /\ scene' = [scene EXCEPT !.components[h.index] = Append(@, added)]
  /\ in_hook' = (c.type \in Known)
  /\ item' = IF c.type \in Known THEN item ELSE item + 1
  /\ UNCHANGED <<saved, phase, entities, node, hooks, from_python, update_settings, freed>>

\* deserialize_data, after the hook
FillComponent ==
  /\ from_python /\ in_hook
  /\ scene' = [scene EXCEPT !.components[entities[node].index][item] =
                 doc.entities[node].components[item]]
  /\ in_hook' = FALSE
  /\ item' = item + 1
  /\ UNCHANGED <<saved, phase, entities, node, hooks, from_python, update_settings, freed>>

\* The calls that return when node k is done, of the entities that have it or
\* have it as the last one below them.
Returning(k) ==
  { j \in 1..k : /\ \A x \in j+1..k : doc.entities[x].above >= j
                 /\ k < Len(doc.entities) => doc.entities[k+1].above < j }

\* child.set_parent(ent), of what is still there.
Hung(s, j) ==
  LET up == doc.entities[j].above
  IN  IF up = 0 \/ ~Valid(s, entities[j]) \/ ~Valid(s, entities[up]) THEN s
      ELSE WithParent(s, entities[j].index, entities[up].index)

\* The scene after deserialize_with_children has returned for the entities in
\* Returning(k), the innermost first.
AfterReturns(k) ==
  LET after[m \in 0..k] ==
        IF m = 0 THEN scene
        ELSE IF k+1-m \in Returning(k) THEN Hung(after[m-1], k+1-m)
        ELSE after[m-1]
  IN  after[k]

DeserializeReturns ==
  /\ phase = "components" /\ from_python /\ ~in_hook
  /\ item > Len(doc.entities[node].components) \/ ~Valid(scene, entities[node])
  /\ scene' = AfterReturns(node)
  /\ phase' = IF node = Len(doc.entities) THEN "done" ELSE "entities"
  /\ UNCHANGED <<saved, entities, node, item, in_hook, hooks, from_python, update_settings, freed>>
----------------------------------------------------------------------------
(* What an on_added hook may do                                            *)

HookFrees(i) ==
  /\ in_hook /\ hooks < MaxHooks
  /\ i \in scene.alive
  /\ from_python => i # entities[node].index
  /\ scene' = WithoutEntity(scene, i)
  /\ freed' = freed \cup {HandleTo(scene, i)}
  /\ hooks' = hooks + 1
  /\ UNCHANGED <<saved, phase, entities, item, node, in_hook, from_python, update_settings>>

HookMakes ==
  /\ in_hook /\ hooks < MaxHooks
  /\ scene.free_stack # <<>>
  /\ scene' = WithEntity(scene, Fresh)
  /\ hooks' = hooks + 1
  /\ UNCHANGED <<saved, phase, entities, item, node, in_hook, from_python, update_settings, freed>>

FileNext ==
  \/ Settings
  \/ LoadEntity
  \/ LoadComponent
  \/ Finish
  \/ DeserializeEntity
  \/ DeserializeComponent
  \/ FillComponent
  \/ DeserializeReturns
  \/ \E i \in Slots : HookFrees(i)
  \/ HookMakes

FileSpec == FileInit /\ [][FileNext]_fileVars
----------------------------------------------------------------------------
\* The entity data that were written again, but for the uuid: what is loaded
\* from Python has new ones.
WrittenAgain(data, again, held) ==
  again = [uuid |-> IF from_python THEN again.uuid ELSE data.uuid,
           above |-> data.above, components |-> held]

\* Saving what was loaded gives the same document up to placeholders: no
\* entity, link, order, component or name is lost or made up on the way.
\* TcSceneRef::serialize writes a component of a type that is not registered as
\* a placeholder that holds it, and nothing else differently, so that a second
\* load and save change nothing; Entity.serialize writes every component as
\* itself, what was a placeholder in the document too.
ReloadIsFaithful ==
  phase = "done" /\ hooks = 0 =>
    LET order == SaveOrder(scene)
    IN  /\ update_settings => Save(scene).layer_name = doc.layer_name
        /\ Len(order) = Len(doc.entities)
        /\ \A k \in 1..Len(order) :
             LET data == doc.entities[k]
                 held == data.components
             IN  /\ WrittenAgain(data, Save(scene).entities[k],
                                 [j \in 1..Len(held) |-> Wrapped(held[j], Type \ Known)])
                 /\ WrittenAgain(data, PythonData(scene, order, order[k]),
                                 [j \in 1..Len(held) |-> Unwrapped(held[j])])

\* A hook sees the whole document: while load_from_data loads components,
\* every entity of it is there, under its uuid and its parent, unless a hook
\* freed the one or the other.  (This is what it has two phases for.)
HooksSeeWholeScene ==
  in_hook /\ ~from_python =>
    /\ Len(entities) = Len(doc.entities)
    /\ \A k \in 1..Len(entities) :
         LET h == entities[k]
             up == doc.entities[k].above
         IN  h \notin freed =>
               /\ Valid(scene, h)
               /\ scene.uuid[h.index] = doc.entities[k].uuid
               /\ up > 0 /\ entities[up] \notin freed =>
                    scene.parent[h.index] = entities[up].index

\* A component goes into the entity it was saved in or into none: never into
\* one that a hook made in the slot of an entity it freed.  (Only the one
\* whose hook runs in a load from Python has no data yet.)
NoStrayComponent ==
  \A i \in scene.alive :
    \A c \in ToSet(scene.components[i]) :
      \E k \in 1..Len(entities) :
        /\ entities[k] = HandleTo(scene, i)
        /\ \/ Unwrapped(c).origin = doc.entities[k].uuid
           \/ Unwrapped(c).origin = None /\ from_python /\ in_hook /\ k = node
============================================================================
