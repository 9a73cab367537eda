-------------------------- MODULE SceneExtensions --------------------------
(***************************************************************************)
(* Scene extensions (src/tc_scene_extension.c): one array of instances for *)
(* all scenes, from which removal moves the last entry, and three walks of *)
(* it or of the types - update, before_render, deserialize - whose hooks   *)
(* attach and detach extensions, free scenes and start walks of their own. *)
(* The calls in progress are a stack, the innermost last.                  *)
(*                                                                         *)
(* Rules the code relies on: types are registered, and the registry is     *)
(* shut down, outside every hook; a create hook attaches only extensions   *)
(* its own depends on, and frees no scene; destroy and serialize hooks     *)
(* change no extension.  Growth of the arrays and exhausted memory are     *)
(* left out.                                                               *)
(***************************************************************************)
EXTENDS SwapArrays, FiniteSets

CONSTANTS
  Scene,        \* scene handles; a handle dies once
  ExtType,      \* type_id
  Key,          \* persistence keys
  NoKey,        \* no persistence key
  KeyOf,        \* persistence_key of each type
  Hooks,        \* Hooks[op]: the types whose vtable has the hook of walk op
  Dependency,   \* <<t, u>>: the create hook of t may attach u
  MaxWalks,     \* bound: walks in progress
  MaxUsers      \* bound: termin_scene_runtime_init calls not yet undone

Ops == {"update", "render", "deserialize"}

ASSUME ExtensionAssumption ==
  /\ KeyOf \in [ExtType -> Key \cup {NoKey}]
  /\ NoKey \notin Key
  /\ Hooks \in [Ops -> SUBSET ExtType]
  /\ Dependency \subseteq ExtType \X ExtType
  /\ MaxWalks \in Nat /\ MaxUsers \in Nat

\* tc_scene_ext_attach looks for the extension before the create hook and not
\* after it, so that hooks that attach each other in a circle would not end.
ASSUME DependencyAssumption ==
  \A S \in SUBSET ExtType : S # {} => \E t \in S : \A u \in S : <<t, u>> \notin Dependency

VARIABLES
  alive,          \* scenes that are alive
  freed,          \* scenes that were
  types,          \* the registered types, in order
  instances,      \* the array of attached extensions
  living,         \* extensions created and not destroyed
  destroyed_twice,
  stack,          \* calls in progress
  users           \* g_termin_scene_runtime_refcount

sceneVars == <<alive, freed>>
extVars == <<instances, living, destroyed_twice>>
vars == <<sceneVars, types, extVars, stack, users>>

Extension == [scene : Scene, type : ExtType]

Ext(s, t) == [scene |-> s, type |-> t]

\* tc_scene_ext_has, find_instance
Attached(s, t) == Contains(instances, Ext(s, t))

Registered(t) == Contains(types, t)
----------------------------------------------------------------------------
(* Calls in progress                                                       *)

\* One call: a walk, or an attach that is in the create hook of `type`.
\* `at` is the position of the walk, `in_hook` whether a hook of the walk is
\* running, `tried` whether a deserialize attached the type it is at; payload
\* is the keys of its dictionary.  The other fields are history: the extensions
\* that could be called when the call began and are still there, those it
\* called, whether it called one twice, and those it is excused from: moved by
\* a removal to a place the walk had passed, or, for a deserialize, detached
\* meanwhile or not created.
Call(op, s, t, payload) ==
  [op |-> op, scene |-> s, type |-> t, payload |-> payload,
   at |-> 1, in_hook |-> FALSE, tried |-> FALSE,
   since |-> { x \in ToSet(instances) : x.scene = s /\ op \in Ops /\ x.type \in Hooks[op] },
   called |-> {}, again |-> FALSE, excused |-> {}]

Top == Last(stack)

InCreateHook == stack # <<>> /\ Top.op = "create"

\* Code of the host runs: no call is in progress, or a hook of the innermost is.
HostRuns == stack # <<>> => Top.op = "create" \/ Top.in_hook

HostRunsFreely == HostRuns /\ ~InCreateHook

\* What the call c is excused from when the array becomes arr.
Excused(c, arr) ==
  CASE c.op = "deserialize" -> c.excused \cup (ToSet(instances) \ ToSet(arr))
    [] c.op \in {"update", "render"} ->
         { x \in ToSet(arr) : \/ x \in c.excused
                              \/ /\ FirstIndex(instances, x) > c.at
                                 /\ FirstIndex(arr, x) <= c.at }
    [] OTHER -> {}

\* The history of every call when the array becomes arr.
Noted(arr) ==
  [k \in 1..Len(stack) |->
    [stack[k] EXCEPT !.since = @ \cap ToSet(arr), !.called = @ \cap ToSet(arr),
                     !.excused = Excused(stack[k], arr)]]

\* The destroy hooks of xs have run and the array is arr.
Dispose(xs, arr) ==
  /\ instances' = arr
  /\ living' = living \ xs
  /\ destroyed_twice' = (destroyed_twice \/ ~ xs \subseteq living)
  /\ stack' = Noted(arr)
----------------------------------------------------------------------------
Init ==
  /\ alive = {}
  /\ freed = {}
  /\ types = <<>>
  /\ instances = <<>>
  /\ living = {}
  /\ destroyed_twice = FALSE
  /\ stack = <<>>
  /\ users = 0

NewScene(s) ==
  /\ HostRunsFreely
  /\ s \notin alive \cup freed
  /\ alive' = alive \cup {s}
  /\ UNCHANGED <<freed, types, extVars, stack, users>>

\* Mutant: the loop goes on past the entry that was moved in.
DetachAllAdvancing(s) ==
  LET Step(loop, k) ==
        IF loop.at > Len(loop.arr) THEN loop
        ELSE [at |-> loop.at + 1,
              arr |-> IF loop.arr[loop.at].scene = s THEN SwapRemoveAt(loop.arr, loop.at)
                      ELSE loop.arr]
  IN  FoldLeft(Step, [at |-> 1, arr |-> instances], instances).arr

\* The loop of tc_scene_ext_detach_all comes to the next entry of s, if there
\* is one; the entry moved in is looked at too.
OfScene(arr, s) == { j \in 1..Len(arr) : arr[j].scene = s }

DetachNext(arr, s) ==
  IF OfScene(arr, s) = {} THEN arr ELSE SwapRemoveAt(arr, Min(OfScene(arr, s)))

\* The array after tc_scene_ext_detach_all.
DetachAll(s) ==
  LET after[k \in 0..Len(instances)] ==
        IF k = 0 THEN instances ELSE DetachNext(after[k-1], s)
  IN  after[Len(instances)]

\* tc_scene_free, as far as extensions go.
FreeScene(s) ==
  /\ HostRunsFreely
  /\ s \in alive
  /\ Dispose(ToSet(instances) \ ToSet(DetachAll(s)), DetachAll(s))
  /\ alive' = alive \ {s}
  /\ freed' = freed \cup {s}
  /\ UNCHANGED <<types, users>>

\* tc_scene_ext_register
Register(t) ==
  /\ stack = <<>>
  /\ ~Registered(t)
  /\ types' = Append(types, t)
  /\ UNCHANGED <<sceneVars, extVars, stack, users>>

\* tc_scene_ext_attach up to the create hook.
BeginAttach(s, t) ==
  /\ s \in alive
  /\ Registered(t)
  /\ ~Attached(s, t)

Attach(s, t) ==
  /\ HostRuns
  /\ InCreateHook => <<Top.type, t>> \in Dependency
  /\ BeginAttach(s, t)
  /\ stack' = Append(stack, Call("create", s, t, {}))
  /\ UNCHANGED <<sceneVars, types, extVars, users>>

\* The create hook returns an instance, which is appended, or NULL.
CreateReturns ==
  /\ InCreateHook
  /\ \/ /\ instances' = Append(instances, Ext(Top.scene, Top.type))
        /\ living' = living \cup {Ext(Top.scene, Top.type)}
        /\ stack' = Front(stack)
        /\ UNCHANGED destroyed_twice
     \/ /\ stack' = [k \in 1..Len(stack)-1 |->
                      IF stack[k].op # "deserialize" THEN stack[k]
                      ELSE [stack[k] EXCEPT !.excused = @ \cup {Ext(Top.scene, Top.type)}]]
        /\ UNCHANGED extVars
  /\ UNCHANGED <<sceneVars, types, users>>

\* tc_scene_ext_detach
Detach(s, t) ==
  /\ HostRuns
  /\ Attached(s, t)
  /\ Dispose({Ext(s, t)}, SwapRemove(instances, Ext(s, t)))
  /\ UNCHANGED <<sceneVars, types, users>>

\* tc_scene_ext_detach_all called by the host.
DetachAllOf(s) ==
  /\ HostRunsFreely
  /\ DetachAll(s) # instances
  /\ Dispose(ToSet(instances) \ ToSet(DetachAll(s)), DetachAll(s))
  /\ UNCHANGED <<sceneVars, types, users>>

\* tc_scene_ext_on_scene_update, _before_render and _deserialize_scene begin.
BeginWalk(op, s, payload) ==
  /\ HostRunsFreely
  /\ s \in alive
  /\ Len(stack) < MaxWalks
  /\ stack' = Append(stack, Call(op, s, "none", payload))
  /\ UNCHANGED <<sceneVars, types, extVars, users>>

WalkAdvances == stack # <<>> /\ Top.op \in Ops /\ ~Top.in_hook

\* The places a walk c has yet to stop at: entries of its scene with a hook
\* for it, or the types whose key is in the dictionary.
Ahead(c) ==
  IF c.op = "deserialize"
  THEN { k \in c.at..Len(types) : KeyOf[types[k]] \in c.payload }
  ELSE { k \in c.at..Len(instances) :
           instances[k].scene = c.scene /\ instances[k].type \in Hooks[c.op] }

Calling(c, k, x) ==
  [c EXCEPT !.at = k, !.in_hook = TRUE, !.called = @ \cup {x}, !.again = x \in c.called]

\* Mutant: every other place is passed over.
NextPlaceSkipping(k) == k + 2

NextPlace(k) == k + 1

\* The loop of an update or before_render walk comes to its next hook.
WalkCalls ==
  /\ WalkAdvances /\ Top.op # "deserialize" /\ Ahead(Top) # {}
  /\ LET k == Min(Ahead(Top))
     IN  stack' = Append(Front(stack), Calling(Top, k, instances[k]))
  /\ UNCHANGED <<sceneVars, types, extVars, users>>

\* Mutant: deserialize gives data only to what is attached.
NeedsAttachNever(c, t) == FALSE

NeedsAttach(c, t) == ~Attached(c.scene, t) /\ ~c.tried /\ c.scene \in alive

\* The loop of a deserialize comes to its next type: it attaches the type if
\* it is not, then calls its hook if the extension is there and has one.
DeserializeStep ==
  /\ WalkAdvances /\ Top.op = "deserialize" /\ Ahead(Top) # {}
  /\ LET k == Min(Ahead(Top))
         t == types[k]
     IN  stack' = Front(stack) \o
           IF NeedsAttach(Top, t)
           THEN <<[Top EXCEPT !.at = k, !.tried = TRUE], Call("create", Top.scene, t, {})>>
           ELSE IF Attached(Top.scene, t) /\ t \in Hooks["deserialize"]
           THEN <<Calling(Top, k, Ext(Top.scene, t))>>
           ELSE <<[Top EXCEPT !.at = NextPlace(k), !.tried = FALSE]>>
  /\ UNCHANGED <<sceneVars, types, extVars, users>>

HookReturns ==
  /\ stack # <<>> /\ Top.in_hook
  /\ stack' = Append(Front(stack),
                [Top EXCEPT !.at = NextPlace(@), !.in_hook = FALSE, !.tried = FALSE])
  /\ UNCHANGED <<sceneVars, types, extVars, users>>

EndWalk ==
  /\ WalkAdvances /\ Ahead(Top) = {}
  /\ stack' = Front(stack)
  /\ UNCHANGED <<sceneVars, types, extVars, users>>

\* termin_scene_runtime_init
RuntimeInit ==
  /\ users < MaxUsers
  /\ users' = users + 1
  /\ UNCHANGED <<sceneVars, types, extVars, stack>>

\* termin_scene_runtime_shutdown; the last user's destroys every extension
\* and forgets the types.
RuntimeShutdown ==
  /\ stack = <<>>
  /\ users > 0
  /\ users' = users - 1
  /\ IF users > 1 THEN UNCHANGED <<types, extVars, stack>>
     ELSE types' = <<>> /\ Dispose(ToSet(instances), <<>>)
  /\ UNCHANGED sceneVars

Next ==
  \/ \E s \in Scene :
       \/ NewScene(s) \/ FreeScene(s) \/ DetachAllOf(s)
       \/ \E t \in ExtType : Attach(s, t) \/ Detach(s, t)
       \/ BeginWalk("update", s, {}) \/ BeginWalk("render", s, {})
       \/ \E payload \in SUBSET Key : BeginWalk("deserialize", s, payload)
  \/ \E t \in ExtType : Register(t)
  \/ CreateReturns \/ WalkCalls \/ DeserializeStep \/ HookReturns \/ EndWalk
  \/ RuntimeInit \/ RuntimeShutdown

Spec == Init /\ [][Next]_vars
----------------------------------------------------------------------------
(* The array holds every extension that was created and not destroyed,     *)
(* once; none is destroyed twice, a scene has at most one of a type, and   *)
(* none outlives its scene (detach, detach_all, tc_scene_free), although   *)
(* hooks remove entries the loops around them are at.                      *)
InstancesAgree ==
  /\ IsInjective(instances)
  /\ ToSet(instances) = living
  /\ ~destroyed_twice
  /\ \A x \in living : x.scene \in alive

\* The walk c is over.
Over(c) == c = Top /\ WalkAdvances /\ Ahead(c) = {}

(* An update or before_render walk calls no extension twice, and when it   *)
(* ends every extension that was there from its beginning was called,      *)
(* except those a removal moved to a place the walk had passed.            *)
WalksCallEachOnce ==
  \A c \in ToSet(stack) :
    /\ ~c.again
    /\ c.op # "deserialize" /\ Over(c) => c.since \subseteq c.called \cup c.excused

(* When deserializing ends in a living scene, every registered type whose  *)
(* key was in the dictionary is attached and was given its data, unless    *)
(* its create hook failed or someone detached it meanwhile.                *)
DeserializeRestores ==
  \A c \in ToSet(stack) :
    c.op = "deserialize" /\ Over(c) /\ c.scene \in alive =>
      \A t \in ToSet(types) :
        KeyOf[t] \in c.payload =>
          \/ Ext(c.scene, t) \in c.excused
          \/ /\ Attached(c.scene, t)
             /\ t \in Hooks["deserialize"] => Ext(c.scene, t) \in c.called
============================================================================
