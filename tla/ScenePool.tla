----------------------------- MODULE ScenePool -----------------------------
(***************************************************************************)
(* The pool of scenes (src/tc_scene.c) and the registry of entity pools    *)
(* (src/tc_entity_pool_registry.c) it registers the entity pool of every   *)
(* scene in.  Both hand out generational handles; an entity pool itself is *)
(* an address, which the allocator may hand out again once it was freed.   *)
(*                                                                         *)
(* The host keeps to two rules the code relies on and does not check: it   *)
(* destroys by handle no pool that belongs to a scene, and it shuts the    *)
(* registry down after the scenes.                                         *)
(***************************************************************************)
EXTENDS SlotTable

CONSTANTS
  InitialScenes,  \* INITIAL_POOL_CAPACITY
  MaxScenes,      \* MAX_SCENES
  InitialPools,   \* INITIAL_REGISTRY_CAPACITY
  MaxPools,       \* MAX_ENTITY_POOLS
  Pool,           \* addresses of entity pools
  NoPool,         \* NULL
  Uuid,
  NoUuid,         \* NULL
  NoHandle,       \* the invalid handles
  MaxGeneration   \* bound: generations stay far from wrapping

Handle == [index : Nat, generation : Nat]

ASSUME ScenePoolAssumption ==
  /\ InitialScenes \in 1..MaxScenes
  /\ InitialPools \in 1..MaxPools
  /\ MaxScenes \in Nat /\ MaxPools \in Nat /\ MaxGeneration \in Nat
  /\ NoPool \notin Pool
  /\ NoUuid \notin Uuid
  /\ NoHandle \notin Handle

VARIABLES
  scenes,          \* g_pool: its slots
  pools,           \* pools[i]: the entity pool of scene slot i
  uuids,           \* uuids[i]
  registry,        \* g_registry: its slots
  registered,      \* registered[i]: the entity pool of registry slot i
  standalone,      \* g_standalone_handle
  scene_of,        \* scene_of[p]: the scene an entity pool was told it is of
  existing,        \* the entity pools that are allocated
  spent_scenes,    \* scene handles that have died      (since the last shutdown)
  spent_pools,     \* pool handles that have died       (since the last shutdown)
  written,         \* the uuid last written through each living scene handle
  freed_twice      \* tc_entity_pool_destroy was called on a pool that was gone

sceneVars == <<scenes, pools, uuids>>
registryVars == <<registry, registered, standalone>>
poolVars == <<scene_of, existing, freed_twice>>
historyVars == <<spent_scenes, spent_pools, written>>
vars == <<sceneVars, registryVars, poolVars, historyVars>>

SlotsForScenes == 0..MaxScenes-1
SlotsForPools == 0..MaxPools-1
----------------------------------------------------------------------------
(* The registry of entity pools                                            *)

\* Mutant: the search stops one slot short.
FindPoolShort(p) ==
  LET found == { i \in registry.alive : registered[i] = p /\ i < registry.capacity - 1 }
  IN  IF found = {} THEN NoHandle ELSE HandleAt(registry, Min(found))

\* tc_entity_pool_registry_find
FindPool(p) ==
  LET found == { i \in registry.alive : registered[i] = p }
  IN  IF found = {} THEN NoHandle ELSE HandleAt(registry, Min(found))

\* tc_entity_pool_registry_get
GetPool(h) ==
  IF h # NoHandle /\ HandleAlive(registry, h) THEN registered[h.index] ELSE NoPool

\* Pool p goes into the slot on top of the free stack, if there is one.
PutInRegistry(p) ==
  LET t == ForAlloc(registry, InitialPools, MaxPools)
  IN  IF Full(t) THEN registry' = t /\ UNCHANGED registered
      ELSE /\ registry' = Taken(t)
           /\ registered' = [registered EXCEPT ![NextSlot(t)] = p]

\* tc_entity_pool_registry_register
RegisterPool(p) ==
  IF FindPool(p) # NoHandle THEN UNCHANGED <<registry, registered>> ELSE PutInRegistry(p)

\* tc_entity_pool_registry_destroy of the pool in slot i.
UnregisterPool(i) ==
  /\ registry' = Released(registry, i)
  /\ registered' = [registered EXCEPT ![i] = NoPool]
  /\ spent_pools' = spent_pools \cup {HandleAt(registry, i)}

\* tc_entity_pool_create answers an address nothing lives at.
CreatePool(p, scene) ==
  /\ p \notin existing
  /\ existing' = existing \cup {p}
  /\ scene_of' = [scene_of EXCEPT ![p] = scene]
  /\ UNCHANGED freed_twice

\* tc_entity_pool_destroy of each pool in ps.
DestroyPools(ps) ==
  /\ existing' = existing \ ps
  /\ freed_twice' = (freed_twice \/ ~ ps \subseteq existing)
  /\ scene_of' = [p \in Pool |-> IF p \in ps THEN NoHandle ELSE scene_of[p]]
----------------------------------------------------------------------------
Init ==
  /\ scenes = NoTable
  /\ pools = [i \in SlotsForScenes |-> NoPool]
  /\ uuids = [i \in SlotsForScenes |-> NoUuid]
  /\ registry = NoTable
  /\ registered = [i \in SlotsForPools |-> NoPool]
  /\ standalone = NoHandle
  /\ scene_of = [p \in Pool |-> NoHandle]
  /\ existing = {}
  /\ spent_scenes = {}
  /\ spent_pools = {}
  /\ written = <<>>
  /\ freed_twice = FALSE

\* tc_scene_pool_alloc: the uuid of the slot stays what its last scene left.
NewScene(p) ==
  LET t == ForAlloc(scenes, InitialScenes, MaxScenes)
      i == NextSlot(t)
  IN
  /\ ~Full(t)
  /\ scenes' = Taken(t)
  /\ CreatePool(p, HandleAt(t, i))
  /\ RegisterPool(p)
  /\ pools' = [pools EXCEPT ![i] = p]
  /\ UNCHANGED <<uuids, standalone, historyVars>>

\* tc_scene_free
FreeScene(h) ==
  LET found == FindPool(pools[h.index])
  IN
  /\ HandleAlive(scenes, h)
  /\ h.generation < MaxGeneration
  /\ found # NoHandle => found.generation < MaxGeneration
  /\ IF found # NoHandle THEN UnregisterPool(found.index)
     ELSE UNCHANGED <<registry, registered, spent_pools>>
  /\ DestroyPools({pools[h.index]})
  /\ pools' = [pools EXCEPT ![h.index] = NoPool]
  /\ scenes' = Released(scenes, h.index)
  /\ spent_scenes' = spent_scenes \cup {h}
  /\ written' = Restrict(written, DOMAIN written \ {h})
  /\ UNCHANGED <<uuids, standalone>>

\* tc_scene_set_uuid, through a handle that may be dead.
SetUuid(h, u) ==
  /\ HandleAlive(scenes, h)
  /\ uuids' = [uuids EXCEPT ![h.index] = u]
  /\ written' = [g \in DOMAIN written \cup {h} |-> IF g = h THEN u ELSE written[g]]
  /\ UNCHANGED <<scenes, pools, registryVars, poolVars, spent_scenes, spent_pools>>

\* tc_entity_pool_registry_create with room in the registry.
CreateInRegistry(p) ==
  /\ ~Full(ForAlloc(registry, InitialPools, MaxPools))
  /\ CreatePool(p, NoHandle)
  /\ PutInRegistry(p)

CreateByHandle(p) ==
  /\ CreateInRegistry(p)
  /\ UNCHANGED <<sceneVars, standalone, historyVars>>

\* tc_entity_pool_standalone_handle: the pool is made once, on first use; a
\* handle that only its generation tells to be dead is not replaced.
UseStandalone(p) ==
  LET t == ForAlloc(registry, InitialPools, MaxPools)
  IN
  /\ standalone = NoHandle
  /\ CreateInRegistry(p)
  /\ standalone' = HandleAt(t, NextSlot(t))
  /\ UNCHANGED <<sceneVars, historyVars>>

\* tc_entity_pool_registry_destroy by the host, of a pool that is no scene's.
DestroyByHandle(h) ==
  /\ HandleAlive(registry, h)
  /\ h.generation < MaxGeneration
  /\ \A i \in scenes.alive : pools[i] # registered[h.index]
  /\ UnregisterPool(h.index)
  /\ DestroyPools({registered[h.index]})
  /\ UNCHANGED <<sceneVars, standalone, spent_scenes, written>>

\* Registry slots that hold pools of scenes, in the order of those scenes.
InSceneOrder(slots) ==
  LET Scene(r) == CHOOSE i \in scenes.alive : pools[i] = registered[r]
      Earlier(r) == { q \in slots : Scene(q) < Scene(r) }
  IN  [k \in 1..Cardinality(slots) |->
         CHOOSE r \in slots : Cardinality(Earlier(r)) = k - 1]

\* tc_scene_pool_shutdown: tc_scene_free of every scene alive, in slot order.
SceneShutdown ==
  LET gone == { pools[i] : i \in scenes.alive }
      slots == { i \in registry.alive : registered[i] \in gone }
  IN
  /\ scenes.capacity > 0
  /\ \A i \in slots : registry.generations[i] < MaxGeneration
  /\ DestroyPools(gone)
  /\ registry' = ReleasedInTurn(registry, InSceneOrder(slots))
  /\ registered' = [i \in SlotsForPools |-> IF i \in slots THEN NoPool ELSE registered[i]]
  /\ spent_pools' = spent_pools \cup { HandleAt(registry, i) : i \in slots }
  /\ scenes' = NoTable
  /\ pools' = [i \in SlotsForScenes |-> NoPool]
  /\ uuids' = [i \in SlotsForScenes |-> NoUuid]
  /\ spent_scenes' = {}
  /\ written' = <<>>
  /\ UNCHANGED standalone

StandaloneAfterShutdown == NoHandle

\* tc_entity_pool_registry_shutdown
RegistryShutdown ==
  /\ registry.capacity > 0
  /\ scenes.alive = {}
  /\ DestroyPools({ registered[i] : i \in registry.alive })
  /\ registry' = NoTable
  /\ registered' = [i \in SlotsForPools |-> NoPool]
  /\ standalone' = StandaloneAfterShutdown
  /\ spent_pools' = {}
  /\ UNCHANGED <<sceneVars, spent_scenes, written>>

Next ==
  \/ \E p \in Pool : NewScene(p) \/ UseStandalone(p) \/ CreateByHandle(p)
  \/ \E h \in LiveHandles(scenes) \cup spent_scenes :
       FreeScene(h) \/ \E u \in Uuid \cup {NoUuid} : SetUuid(h, u)
  \/ \E h \in LiveHandles(registry) \cup spent_pools : DestroyByHandle(h)
  \/ SceneShutdown
  \/ RegistryShutdown

Spec == Init /\ [][Next]_vars
----------------------------------------------------------------------------
(* Every living scene has an entity pool of its own that exists and knows  *)
(* its scene (tc_entity_pool_get_scene); every registry slot leads to a    *)
(* pool that exists; no pool is leaked, and none is freed twice, although  *)
(* a scene may have missed the registry and addresses are reused.          *)
PoolsAgree ==
  LET ofScenes == { pools[i] : i \in scenes.alive }
      inRegistry == { registered[i] : i \in registry.alive }
  IN
  /\ ~freed_twice
  /\ \A i \in scenes.alive : scene_of[pools[i]] = HandleAt(scenes, i)
  /\ \A i, j \in registry.alive : registered[i] = registered[j] => i = j
  /\ existing = ofScenes \cup inRegistry
  /\ Cardinality(ofScenes) = Cardinality(scenes.alive)

(* Handles can be trusted.  No slot of the two tables is handed out twice  *)
(* or lost (pool_grow, registry_grow, the free stacks); a handle to a      *)
(* scene or to an entity pool that died denotes nothing, in whatever order *)
(* slots are reused, until the tables are shut down; so a scene reads back *)
(* the uuid written through its own handle, and the standalone handle      *)
(* never leads to the pool of a scene.                                     *)
HandlesSound ==
  /\ Accounted(scenes)
  /\ Accounted(registry)
  /\ \A h \in spent_scenes : ~HandleAlive(scenes, h)
  /\ \A h \in spent_pools : ~HandleAlive(registry, h)
  /\ \A h \in DOMAIN written : uuids[h.index] = written[h]
  /\ \A i \in scenes.alive : GetPool(standalone) # pools[i]

(* A scene whose pool has no handle was made while the registry was full,  *)
(* and a scene whose pool has one keeps that handle for life: this is what *)
(* entity handles of its entities are made of.                             *)
RegistrationIsStable ==
  [][\A h \in LiveHandles(scenes)' :
       LET handle == FindPool(pools[h.index]) IN
       IF HandleAlive(scenes, h) THEN handle' = handle
       ELSE handle' # NoHandle \/ Cardinality(registry.alive) = MaxPools]_vars
============================================================================
