------------------------- MODULE ComponentLifetime -------------------------
(***************************************************************************)
(* Who keeps a component alive: the entity it is in, Python objects, the   *)
(* factory that made it; and the walk of a type's list with callbacks that *)
(* change the scene under it (tc_scene_foreach_component_of_type and its   *)
(* kin in src/tc_scene.c).  Extends the scene of SceneComponents.          *)
(*                                                                         *)
(* A C++ component counts its references itself and starts with none; a    *)
(* Python one lives by the reference count of its Python object.  What     *)
(* Python gets of a C++ component is a wrapper that owns nothing: it stays *)
(* when the component is deleted.                                          *)
(* What callers keep to: a callback of a walk does not remove the          *)
(* component it is called for; a scene is destroyed outside walks and when *)
(* no Python reference to its components is left (the pool does not unlink *)
(* what survives it).                                                      *)
(***************************************************************************)
EXTENDS SceneComponents

CONSTANTS
  Python,    \* the components whose life is that of a Python object
  Bindable,  \* the C++ components whose type has Python bindings
  Disabled,  \* the components a filtered walk leaves out
  MaxHost    \* bound: Python references to one component

ASSUME LifetimeAssumption ==
  /\ Python \subseteq Component
  /\ Bindable \subseteq Component \ Python
  /\ Disabled \subseteq Component
  /\ MaxHost \in Nat

VARIABLES
  exists,            \* the components that were made and not deleted
  refs,              \* _ref_count, or the Python object's reference count
  factory_retained,
  host,              \* host[c]: the references that Python code holds
  wrapped,           \* the C++ components that Python has a wrapper of
  outlived,          \* history: those that left an entity after they were wrapped
  walk               \* the walk in progress

wrapperVars == <<wrapped, outlived>>
lifeVars == <<exists, refs, factory_retained, host, wrapperVars>>

\* `unvisited` is history: the walk still owes these a call.
NoWalk == [cursor |-> NoComponent, running |-> FALSE, met |-> <<>>, unvisited |-> {}]
----------------------------------------------------------------------------
LifetimeInit ==
  /\ RegistryInit
  /\ exists = {}
  /\ refs = [c \in Component |-> 0]
  /\ factory_retained = [c \in Component |-> FALSE]
  /\ host = [c \in Component |-> 0]
  /\ wrapped = {} /\ outlived = {}
  /\ walk = NoWalk

\* What the walk in progress allows, and how it takes it.
WalkTakes(removed) ==
  /\ walk.cursor \notin removed
  /\ walk' = [walk EXCEPT !.unvisited = @ \ removed]

Make(c, count, by_factory, by_host) ==
  /\ c \notin exists
  /\ exists' = exists \cup {c}
  /\ refs' = [refs EXCEPT ![c] = count]
  /\ factory_retained' = [factory_retained EXCEPT ![c] = by_factory]
  /\ host' = [host EXCEPT ![c] = by_host]
  /\ owner' = [owner EXCEPT ![c] = NoOwner]
  /\ UNCHANGED <<alive, components, listVars, type_links, started, walk, wrapperVars>>

\* CxxComponent::CxxComponent, by a factory or by hand
MakeCxx(c) == c \notin Python /\ Make(c, 0, FALSE, 0)

\* python_component_factory: a reference that the first add takes over
MakeByPythonFactory(c) == c \in Python /\ Make(c, 1, TRUE, 0)

\* TcComponent::TcComponent, cxx_component_init: the object of the caller
MakeInPython(c) == MaxHost > 0 /\ c \in Python /\ Make(c, 1, FALSE, 1)

\* Giving up one reference to each component of D deletes those that have
\* no other (CxxComponent::release, tc_component_free_python).
Drop(D) ==
  /\ refs' = [c \in Component |-> IF c \in D THEN refs[c] - 1 ELSE refs[c]]
  /\ exists' = exists \ { c \in D : refs[c] <= 1 }

\* tc_component_to_python of a Python component, and the reference's last use
HostTakes(c) ==
  /\ c \in exists \cap Python
  /\ host[c] < MaxHost
  /\ host' = [host EXCEPT ![c] = @ + 1]
  /\ refs' = [refs EXCEPT ![c] = @ + 1]
  /\ UNCHANGED <<registryVars, started, exists, factory_retained, walk, wrapperVars>>

HostDrops(c) ==
  /\ host[c] > 0
  /\ host' = [host EXCEPT ![c] = @ - 1]
  /\ Drop({c})
  /\ UNCHANGED <<registryVars, started, factory_retained, walk, wrapperVars>>

\* component_to_python of a C++ component: a wrapper by rv_policy::reference,
\* which no count knows of, and its end.
HostWraps(c) ==
  /\ c \in (exists \cap Bindable) \ wrapped
  /\ wrapped' = wrapped \cup {c}
  /\ UNCHANGED <<registryVars, started, exists, refs, factory_retained, host, outlived, walk>>

HostUnwraps(c) ==
  /\ c \in wrapped
  /\ wrapped' = wrapped \ {c}
  /\ outlived' = outlived \ {c}
  /\ UNCHANGED <<registryVars, started, exists, refs, factory_retained, host, walk>>

\* Mutant: an add takes a reference of its own always.
RefsAfterAddAlways(c) == [refs EXCEPT ![c] = @ + 1]

RefsAfterAdd(c) == IF factory_retained[c] THEN refs ELSE [refs EXCEPT ![c] = @ + 1]

\* Mutant: the factory's reference is handed over at every add.
FactoryRetainedKept(c) == factory_retained

FactoryRetainedAfterAdd(c) == [factory_retained EXCEPT ![c] = FALSE]

\* tc_entity_pool_add_component
Add(e, c) ==
  /\ c \in exists
  /\ AddComponent(e, c)
  /\ refs' = RefsAfterAdd(c)
  /\ factory_retained' = FactoryRetainedAfterAdd(c)
  /\ UNCHANGED <<exists, host, wrapperVars, walk>>

\* The components of D leave their entities, which give up their references;
\* a wrapper is not told.
Leave(D) ==
  /\ Drop(D)
  /\ outlived' = outlived \cup (wrapped \cap D)
  /\ UNCHANGED <<factory_retained, host, wrapped>>

\* tc_entity_pool_remove_component
Detach(e, c) ==
  /\ RemoveComponent(e, c)
  /\ Leave({c})
  /\ WalkTakes({c})

\* tc_entity_pool_free
Discard(e) ==
  /\ FreeEntity(e)
  /\ Leave(ToSet(components[e]))
  /\ WalkTakes(ToSet(components[e]))

\* tc_scene_free with tc_entity_pool_destroy; the next scene starts empty.
DestroyScene ==
  /\ ~walk.running
  /\ \A c \in Attached : host[c] = 0
  /\ alive' = {}
  /\ components' = [e \in Entity |-> <<>>]
  /\ pending_start' = <<>> /\ update_list' = <<>>
  /\ fixed_update_list' = <<>> /\ before_render_list' = <<>>
  /\ type_links' = [head |-> [t \in Type |-> NoComponent],
                    prev |-> [c \in Component |-> NoComponent],
                    next |-> [c \in Component |-> NoComponent]]
  /\ owner' = [c \in Component |-> IF c \in Attached THEN DeadOwner ELSE owner[c]]
  /\ Leave(Attached)
  /\ UNCHANGED <<started, walk>>
----------------------------------------------------------------------------
(* tc_scene_foreach_component_of_type, foreach_drawable and                *)
(* foreach_input_handler for one type: the callback, then c->type_next.    *)

StartWalk(t) ==
  /\ ~walk.running
  /\ walk' = [cursor |-> type_links.head[t], running |-> TRUE, met |-> <<>>,
              unvisited |-> OfType(t) \ Disabled]
  /\ UNCHANGED <<registryVars, started, lifeVars>>

\* Mutant: the walk returns where it should go on.
AfterFilteredStops(c) == NoComponent

\* `continue` at a component the filter leaves out.
AfterFiltered(c) == type_links.next[c]

\* The callback of the cursor is over: on to the next.
StepWalk ==
  LET c == walk.cursor
  IN
  /\ c # NoComponent
  /\ walk' = IF c \in Disabled THEN [walk EXCEPT !.cursor = AfterFiltered(c)]
             ELSE [walk EXCEPT !.cursor = type_links.next[c],
                               !.met = Append(@, c), !.unvisited = @ \ {c}]
  /\ UNCHANGED <<registryVars, started, lifeVars>>

EndWalk ==
  /\ walk.running
  /\ walk.cursor = NoComponent
  /\ walk' = NoWalk
  /\ UNCHANGED <<registryVars, started, lifeVars>>

LifetimeNext ==
  \/ \E c \in Component :
       \/ MakeCxx(c) \/ MakeByPythonFactory(c) \/ MakeInPython(c)
       \/ HostTakes(c) \/ HostDrops(c)
       \/ HostWraps(c) \/ HostUnwraps(c)
  \/ \E e \in Entity :
       \/ AllocEntity(e) /\ UNCHANGED <<lifeVars, walk>>
       \/ Discard(e)
       \/ \E c \in Component : Add(e, c) \/ Detach(e, c)
  \/ DestroyScene
  \/ \E t \in Type : StartWalk(t)
  \/ StepWalk
  \/ EndWalk

LifetimeSpec == LifetimeInit /\ [][LifetimeNext]_<<registryVars, started, lifeVars, walk>>
----------------------------------------------------------------------------
Holds(condition) == IF condition THEN 1 ELSE 0

\* The count of a component that exists is the number of those that hold it:
\* Python references, its entity, and a factory whose reference no entity has
\* taken over.  One too many is a leak, one too few a premature delete.
RefsExact ==
  \A c \in exists :
    refs[c] = host[c] + Holds(c \in Attached) + Holds(factory_retained[c])

\* Whatever still leads to a component leads to one that exists: an entity's
\* array, a list of the scene, a link of a type list, a Python reference, the
\* cursor of a walk.  Not so Python's wrapper of a C++ component: it is good
\* until the component leaves its entity, and dangles after that.
NoDangling ==
  /\ Attached \subseteq exists
  /\ \A list \in {pending_start, update_list, fixed_update_list, before_render_list} :
       ToSet(list) \subseteq exists
  /\ \A t \in Type : type_links.head[t] \in exists \cup {NoComponent}
  /\ \A c \in exists : {type_links.next[c], type_links.prev[c]} \subseteq exists \cup {NoComponent}
  /\ \A c \in Component : host[c] > 0 => c \in exists
  /\ walk.cursor \in exists \cup {NoComponent}
  /\ wrapped \ outlived \subseteq exists

\* A walk calls no component twice, and when it ends it has called every
\* component of the type that was there from its start to its end, whatever
\* the callbacks added, removed or deleted meanwhile.
WalkMeetsAll ==
  /\ IsInjective(walk.met)
  /\ walk.cursor = NoComponent => walk.unvisited = {}
============================================================================
