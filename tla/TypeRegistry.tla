---------------------------- MODULE TypeRegistry ----------------------------
(***************************************************************************)
(* The registry of component types (src/tc_type_registry.c, and its use by *)
(* src/tc_component.c): entries that outlive their registration, the tree  *)
(* of types a polymorphic query walks, and for each type the list of the   *)
(* components its factory made.                                            *)
(*                                                                         *)
(* Callers never make a type its own ancestor (the walks up the tree would *)
(* not end), and clean the registry up after the last component is gone.   *)
(***************************************************************************)
EXTENDS Integers, SequencesExt, FiniteSets

CONSTANTS
  Type,        \* type names
  NoType,      \* NULL
  Component,
  MaxVersion   \* bound: registrations of one type

ASSUME TypeAssumption ==
  /\ NoType \notin Type
  /\ IsFiniteSet(Type)
  /\ MaxVersion \in Nat

VARIABLES
  version,           \* entry->version, 0 where there is no entry
  registered,        \* the types whose entry is marked registered
  kind,              \* entry->kind
  has_factory,       \* the types whose entry has a factory
  parent,            \* entry->parent
  children,          \* entry->children
  registered_count,
  instance_list,     \* instance_list[t]: the intrusive list of entry t
  instance_count,
  type_entry,        \* type_entry[c]: the entry component c points at
  factory_made       \* the components that tc_component_registry_create made

entryVars == <<version, registered, kind, has_factory, parent, children, registered_count>>
instanceVars == <<instance_list, instance_count, type_entry, factory_made>>
registryVars == <<entryVars, instanceVars>>

Kind == {"native", "python"}

Entries == { t \in Type : version[t] > 0 }

\* tc_type_registry_get
Get(t) == IF t \in Entries THEN t ELSE NoType

\* The walk along entry->parent from t on: the least set that holds t and the
\* parents of its members.
Chain(t) ==
  { u \in Type :
      \A S \in SUBSET Type :
        t \in S /\ (\A v \in S : parent[v] # NoType => parent[v] \in S) => u \in S }
----------------------------------------------------------------------------
RegistryInit ==
  /\ version = [t \in Type |-> 0]
  /\ registered = {}
  /\ kind = [t \in Type |-> "native"]
  /\ has_factory = {}
  /\ parent = [t \in Type |-> NoType]
  /\ children = [t \in Type |-> <<>>]
  /\ registered_count = 0
  /\ instance_list = [t \in Type |-> <<>>]
  /\ instance_count = [t \in Type |-> 0]
  /\ type_entry = [c \in Component |-> NoType]
  /\ factory_made = {}

\* type_entry_add_child of t to each type in ps.
AddChild(ps, t) ==
  [u \in Type |-> IF u \in ps THEN Append(children[u], t) ELSE children[u]]

\* A new entry is added to its parent and to every ancestor of it.
ChildrenOfNew(t, p) == AddChild(Chain(p), t)

\* Mutant: a type that changed its parent is no child of the new one.
ChildrenKept(t, p) == children

\* An entry that changed its parent is added to the new one only, and stays
\* among the children of the old one and of its ancestors.
ChildrenOfMoved(t, p) ==
  IF parent[t] = p \/ p = NoType THEN children ELSE AddChild({p}, t)

CountAfterRegister(t) ==
  IF t \in registered THEN registered_count ELSE registered_count + 1

\* tc_type_registry_register_with_parent; an abstract type has no factory.
RegisterEntry(t, k, factory, wanted) ==
  LET p == Get(wanted)
  IN
  /\ version[t] < MaxVersion
  /\ p # NoType => t \notin Chain(p)
  /\ version' = [version EXCEPT ![t] = @ + 1]
  /\ registered' = registered \cup {t}
  /\ registered_count' = CountAfterRegister(t)
  /\ kind' = [kind EXCEPT ![t] = k]
  /\ has_factory' = IF factory THEN has_factory \cup {t} ELSE has_factory \ {t}
  /\ parent' = [parent EXCEPT ![t] = p]
  /\ children' = IF t \in Entries THEN ChildrenOfMoved(t, p)
                 ELSE IF p = NoType THEN children ELSE ChildrenOfNew(t, p)
  /\ UNCHANGED instanceVars

\* ComponentRegistry::register_native and register_abstract
RegisterNative(t, factory, wanted) == RegisterEntry(t, "native", factory, wanted)

\* ComponentRegistryPython::register_python does not replace a native type.
RegisterPython(t, wanted) ==
  /\ ~(t \in registered /\ kind[t] = "native")
  /\ RegisterEntry(t, "python", TRUE, wanted)

\* tc_type_registry_unregister: the entry stays, with its place in the tree.
Unregister(t) ==
  /\ t \in registered
  /\ registered' = registered \ {t}
  /\ registered_count' = registered_count - 1
  /\ UNCHANGED <<version, kind, has_factory, parent, children, instanceVars>>

\* tc_component_registry_create
Create(c, t) ==
  /\ type_entry[c] = NoType
  /\ t \in registered /\ t \in has_factory
  /\ type_entry' = [type_entry EXCEPT ![c] = t]
  /\ instance_list' = [instance_list EXCEPT ![t] = Append(@, c)]
  /\ instance_count' = [instance_count EXCEPT ![t] = @ + 1]
  /\ factory_made' = factory_made \cup {c}
  /\ UNCHANGED entryVars

\* tc_component_new_python, CxxComponent::link_type_entry: the entry is found
\* by name, registered or not, and the component is not put on its list.
CreateDirectly(c, t) ==
  /\ type_entry[c] = NoType
  /\ t \in Entries
  /\ type_entry' = [type_entry EXCEPT ![c] = t]
  /\ UNCHANGED <<entryVars, instance_list, instance_count, factory_made>>

\* Mutant: the count goes down for a component that was on no list.
CountAfterUnlinkAlways(c, t) == instance_count[t] - 1

\* tc_type_entry_unlink_instance
CountAfterUnlink(c, t) ==
  IF Contains(instance_list[t], c) THEN instance_count[t] - 1 ELSE instance_count[t]

\* tc_component_unlink_from_registry, when the component is destroyed.
Destroy(c) ==
  LET t == type_entry[c]
  IN
  /\ t # NoType
  /\ instance_list' = [instance_list EXCEPT ![t] = RemoveFirst(@, c)]
  /\ instance_count' = [instance_count EXCEPT ![t] = CountAfterUnlink(c, t)]
  /\ type_entry' = [type_entry EXCEPT ![c] = NoType]
  /\ factory_made' = factory_made \ {c}
  /\ UNCHANGED entryVars

\* tc_component_registry_cleanup
Cleanup ==
  /\ Entries # {}
  /\ \A c \in Component : type_entry[c] = NoType
  /\ version' = [t \in Type |-> 0]
  /\ registered' = {}
  /\ kind' = [t \in Type |-> "native"]
  /\ has_factory' = {}
  /\ parent' = [t \in Type |-> NoType]
  /\ children' = [t \in Type |-> <<>>]
  /\ registered_count' = 0
  /\ UNCHANGED instanceVars

RegistryNext ==
  \/ \E t \in Type, wanted \in Type \cup {NoType} :
       \/ \E factory \in BOOLEAN : RegisterNative(t, factory, wanted)
       \/ RegisterPython(t, wanted)
  \/ \E t \in Type : Unregister(t) \/ \E c \in Component : Create(c, t) \/ CreateDirectly(c, t)
  \/ \E c \in Component : Destroy(c)
  \/ Cleanup

RegistrySpec == RegistryInit /\ [][RegistryNext]_registryVars
----------------------------------------------------------------------------
\* tc_type_entry_get_descendants: t, and what the same call finds below those
\* of its children that still have it as their parent.
Descendants(t) ==
  LET below[u \in Type] ==
        {u} \cup UNION { below[v] : v \in { w \in ToSet(children[u]) : parent[w] = u } }
  IN  below[t]

(* The types a polymorphic query of t walks (foreach_component_of_type)    *)
(* are exactly those whose chain of parents leads to t, however types were *)
(* registered again under other parents, and although children arrays are  *)
(* only ever added to and hold grandchildren too.                          *)
DescendantsExact ==
  \A t \in Entries : Descendants(t) = { u \in Entries : t \in Chain(u) }

(* The list and count of a type are exactly the living components its      *)
(* factory made, although the type was unregistered or registered again    *)
(* since, and components made without the factory point at it too; and the *)
(* count that the enumeration of types runs to (type_count, type_at) is    *)
(* the number of registered types.                                         *)
ListsAndCountsExact ==
  /\ \A t \in Type :
       /\ IsInjective(instance_list[t])
       /\ ToSet(instance_list[t]) = { c \in factory_made : type_entry[c] = t }
       /\ instance_count[t] = Len(instance_list[t])
  /\ \A c \in Component : type_entry[c] # NoType => type_entry[c] \in Entries
  /\ registered_count = Cardinality(registered)
  /\ registered \subseteq Entries
=============================================================================
