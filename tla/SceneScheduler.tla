--------------------------- MODULE SceneScheduler ---------------------------
(***************************************************************************)
(* The update loop of a scene (src/tc_scene.c): tc_scene_update,           *)
(* tc_scene_editor_update and tc_scene_before_render walk the scene's      *)
(* lists and call the components, and a component that is being called may *)
(* add, remove and disable components while the walk is in progress.  So   *)
(* may one that is told of a change of the scene: tc_scene_set_mode and    *)
(* the tc_scene_notify functions walk the components entity by entity.     *)
(*                                                                         *)
(* A walk over one list, or one notification, is a pass.  Time is counted  *)
(* in units of which a fixed step takes FixedStep.  A callback starts no   *)
(* frame and no notification, and the extension hooks that end a frame     *)
(* touch no component.  Every component has the hook it is notified by.    *)
(***************************************************************************)
EXTENDS SceneComponents

CONSTANTS
  ActiveInEditor,  \* components with active_in_editor set
  FixedStep,       \* the fixed timestep
  FrameTimes       \* the dt arguments

ASSUME TimeAssumption == FixedStep \in Nat \ {0} /\ FrameTimes \subseteq Nat
ASSUME EditorAssumption == ActiveInEditor \subseteq Component
ASSUME SlotAssumption == IsFiniteSet(Entity)

VARIABLES
  enabled,         \* of each component
  entity_enabled,
  phase,           \* the pass in progress, or "idle"
  editor,          \* the frame is a tc_scene_editor_update
  snapshot,        \* the copy of pending_start that process_pending_start makes
  visit,           \* the entity a notification is at, and how many
                   \* components it had when the notification got there
  cursor,          \* position in the list of the pass
  running,         \* the component whose callback is running
  accumulated,     \* accumulated_times
  met              \* history: what became of each component in this pass:
                   \* "nothing", "called", or "excused" from being called

flagVars == <<enabled, entity_enabled>>
passVars == <<phase, editor, snapshot, visit, cursor, running>>
vars == <<registryVars, started, flagVars, passVars, accumulated, met>>
-----------------------------------------------------------------------------
\* component_entity_enabled: a component without an owner counts as enabled,
\* the owner of one in a freed entity does not.
OwnerEnabled(c) ==
  \/ owner[c] = NoOwner
  \/ owner[c] \in alive /\ entity_enabled[owner[c]]

ShownInMode(c) == editor => c \in ActiveInEditor

\* The tests each loop makes before it calls c.
Eligible(c) ==
  phase # "notify" =>
    /\ enabled[c]
    /\ phase # "before_render" => ShownInMode(c)
    /\ phase # "start" => OwnerEnabled(c)

\* The entities in the order of their slots, as tc_entity_pool_foreach goes.
SlotOrder == SetToSeq(Entity)

NoVisit == [slot |-> 0, count |-> 0]

NobodyMet == [c \in Component |-> "nothing"]

\* The components a notification has yet to look at or has looked at in the
\* entity it is at: component_at answers none past the end of the array.
Visited ==
  LET list == components[SlotOrder[visit.slot]]
  IN  SubSeq(list, 1, Min({visit.count, Len(list)}))

PassList ==
  CASE phase = "start" -> snapshot
    [] phase = "fixed" -> fixed_update_list
    [] phase = "update" -> update_list
    [] phase = "before_render" -> before_render_list
    [] phase = "notify" -> IF visit.slot = 0 THEN <<>> ELSE Visited
    [] phase = "idle" -> <<>>

\* Mutant: the walk starts at the second item.
BeginPassLate(p) ==
  /\ phase' = p
  /\ cursor' = 2
  /\ met' = NobodyMet
  /\ visit' = NoVisit

BeginPass(p) ==
  /\ phase' = p
  /\ cursor' = 1
  /\ met' = NobodyMet
  /\ visit' = NoVisit

\* Mutant: a callback that removes its own component starts the list over.
NextPositionAgain == IF running \in Component \ Attached THEN 1 ELSE cursor + 1

NextPosition == cursor + 1

\* Mutant: the last item is not copied.
PendingCopyShort == Front(pending_start)

PendingCopy == pending_start

\* Mutant: what is removed is the item at the position in the copy.
PendingAfterStartAtCursor == SwapRemoveAt(pending_start, cursor)

PendingAfterStart == SwapRemove(pending_start, running)

\* Mutant: the fixed step is not subtracted.
TimeAfterStepSame(t) == t

TimeAfterStep(t) == t - FixedStep

\* What the `while` of the fixed updates finds.
AfterTime(t) == IF t >= FixedStep THEN "fixed" ELSE "update"
-----------------------------------------------------------------------------
Init ==
  /\ RegistryInit
  /\ enabled = [c \in Component |-> TRUE]
  /\ entity_enabled = [e \in Entity |-> TRUE]
  /\ phase = "idle"
  /\ editor = FALSE
  /\ snapshot = <<>>
  /\ visit = NoVisit
  /\ cursor = 1
  /\ running = NoComponent
  /\ accumulated = 0
  /\ met = NobodyMet

\* The entry of tc_scene_update and tc_scene_editor_update.
BeginUpdate(editor_mode) ==
  /\ phase = "idle"
  /\ editor' = editor_mode
  /\ snapshot' = PendingCopy
  /\ BeginPass("start")
  /\ UNCHANGED <<registryVars, started, flagVars, running, accumulated>>

\* The entry of tc_scene_before_render.
BeginBeforeRender ==
  /\ phase = "idle"
  /\ BeginPass("before_render")
  /\ UNCHANGED <<registryVars, started, flagVars, editor, snapshot, running, accumulated>>

\* The entry of tc_scene_notify_editor_start, _scene_active and _inactive (of
\* tc_scene_set_mode), _render_attach and _detach.
BeginNotify ==
  /\ phase = "idle"
  /\ BeginPass("notify")
  /\ UNCHANGED <<registryVars, started, flagVars, editor, snapshot, running, accumulated>>

InPass == phase # "idle" /\ running = NoComponent

\* The loop passes over a component that is not to be called.
Skip ==
  /\ InPass
  /\ cursor <= Len(PassList)
  /\ ~Eligible(PassList[cursor])
  /\ cursor' = NextPosition
  /\ UNCHANGED <<registryVars, started, flagVars, phase, editor, snapshot, visit, running,
                 accumulated, met>>

\* The loop calls a component.
Call(c) ==
  /\ InPass
  /\ cursor <= Len(PassList)
  /\ c = PassList[cursor]
  /\ Eligible(c)
  /\ running' = c
  /\ met' = [met EXCEPT ![c] = "called"]
  /\ UNCHANGED <<registryVars, started, flagVars, phase, editor, snapshot, visit,
                 cursor, accumulated>>

\* The callback returns.  After `start` the component counts as started and
\* leaves pending_start.
Return ==
  /\ running # NoComponent
  /\ running' = NoComponent
  /\ cursor' = NextPosition
  /\ IF phase = "start"
       THEN /\ started' = [started EXCEPT ![running] = TRUE]
            /\ pending_start' = PendingAfterStart
       ELSE UNCHANGED <<started, pending_start>>
  /\ UNCHANGED <<alive, components, owner, update_list, fixed_update_list,
                 before_render_list, type_links, flagVars, phase, editor,
                 snapshot, visit, accumulated, met>>

\* A notification comes to the entity of the next slot.
NextEntity ==
  /\ InPass
  /\ phase = "notify"
  /\ cursor > Len(PassList)
  /\ visit.slot < Len(SlotOrder)
  /\ visit' = [slot |-> visit.slot + 1, count |-> Len(components[SlotOrder[visit.slot + 1]])]
  /\ cursor' = 1
  /\ UNCHANGED <<registryVars, started, flagVars, phase, editor, snapshot, running,
                 accumulated, met>>

\* The end of a list: the next pass, or the end of the call.
EndPass ==
  /\ InPass
  /\ cursor > Len(PassList)
  /\ \/ \E dt \in FrameTimes :
          /\ phase = "start"
          /\ accumulated' = accumulated + dt
          /\ BeginPass(AfterTime(accumulated'))
     \/ /\ phase = "fixed"
        /\ accumulated' = TimeAfterStep(accumulated)
        /\ BeginPass(AfterTime(accumulated'))
     \/ /\ phase \in {"update", "before_render", "notify"}
        /\ phase = "notify" => visit.slot = Len(SlotOrder)
        /\ BeginPass("idle")
        /\ UNCHANGED accumulated
  /\ snapshot' = <<>>
  /\ editor' = (editor /\ phase' # "idle")
  /\ UNCHANGED <<registryVars, started, flagVars, running>>

FrameStep == Skip \/ (\E c \in Component : Call(c)) \/ Return \/ NextEntity \/ EndPass
-----------------------------------------------------------------------------
(* What the application does between frames and inside callbacks.          *)

Application == phase = "idle" \/ running # NoComponent

Runnable == { c \in Attached : enabled[c] /\ OwnerEnabled(c) }

\* A removal moves c from ahead of the loop to a place it has visited.
MovedOver(c) ==
  /\ Contains(PassList, c) /\ FirstIndex(PassList, c) > cursor
  /\ Contains(PassList', c) /\ FirstIndex(PassList', c) <= cursor

\* Book-keeping of the history: who is added or removed is excused; so is,
\* before it is called, who is enabled or disabled or moved over.
Record ==
  IF phase = "idle" THEN UNCHANGED met
  ELSE met' = [c \in Component |->
         IF \/ (c \in Attached) # (c \in Attached')
            \/ /\ met[c] = "nothing"
               /\ \/ MovedOver(c)
                  \/ phase # "notify" /\ (c \in Runnable) # (c \in Runnable')
         THEN "excused" ELSE met[c]]

\* tc_component_set_enabled, or a write to the field.
SetEnabled(c, value) ==
  /\ Application
  /\ enabled[c] # value
  /\ enabled' = [enabled EXCEPT ![c] = value]
  /\ UNCHANGED <<registryVars, started, entity_enabled, passVars, accumulated>>
  /\ Record

\* tc_entity_pool_set_enabled
SetEntityEnabled(e, value) ==
  /\ Application
  /\ e \in alive
  /\ entity_enabled[e] # value
  /\ entity_enabled' = [entity_enabled EXCEPT ![e] = value]
  /\ UNCHANGED <<registryVars, started, enabled, passVars, accumulated>>
  /\ Record

\* The operations of SceneComponents; a new entity is enabled, and the id a
\* notification has of a freed one does not lead to the next in its slot.
ChangeRegistry ==
  /\ Application
  /\ RegistryNext
  /\ entity_enabled' = [e \in Entity |-> IF e \in alive' \ alive THEN TRUE ELSE entity_enabled[e]]
  /\ visit' = IF visit.slot > 0 /\ SlotOrder[visit.slot] \in alive \ alive'
              THEN [visit EXCEPT !.count = 0] ELSE visit
  /\ UNCHANGED <<enabled, phase, editor, snapshot, cursor, running, accumulated>>
  /\ Record

\* tc_scene_reset_accumulated_time
ResetAccumulatedTime ==
  /\ Application
  /\ accumulated # 0
  /\ accumulated' = 0
  /\ UNCHANGED <<registryVars, started, flagVars, passVars, met>>

Next ==
  \/ \E editor_mode \in BOOLEAN : BeginUpdate(editor_mode)
  \/ BeginBeforeRender
  \/ BeginNotify
  \/ FrameStep
  \/ ChangeRegistry
  \/ \E c \in Component, value \in BOOLEAN : SetEnabled(c, value)
  \/ \E e \in Entity, value \in BOOLEAN : SetEntityEnabled(e, value)
  \/ ResetAccumulatedTime

Spec == Init /\ [][Next]_vars

\* Callbacks return, loops go on, and the host keeps running frames in game
\* mode, whatever else it does between them.
Fairness == WF_vars(FrameStep) /\ WF_vars(Return) /\ SF_vars(BeginUpdate(FALSE))

FairSpec == Spec /\ Fairness
-----------------------------------------------------------------------------
\* No pass calls a component twice, however the lists are reordered under
\* it, unless the component was taken off and added again in between.
NobodyTwice ==
  [][\A c \in Component : Call(c) => met[c] # "called"]_vars

\* A pass over a scene list calls every component that is due when it ends,
\* and a notification every component of the scene, except those that were
\* added, enabled or disabled during the pass and those that a removal moved
\* over the place of another the loop had already left behind.
NobodyMissed ==
  [][\A c \in Component :
       /\ EndPass /\ phase # "start" /\ Eligible(c)
       /\ IF phase = "notify" THEN c \in Attached ELSE Contains(PassList, c)
       => met[c] # "nothing"]_vars

\* A component waits in pending_start only as long as it, or its attachment,
\* stands in the way: once enabled it is started, disabled or removed.
PendingIsStarted ==
  \A c \in Component :
    (Contains(pending_start, c) /\ enabled[c]) ~> (~Contains(pending_start, c) \/ ~enabled[c])

\* Every frame ends.
FrameEnds == phase # "idle" ~> phase = "idle"
=============================================================================
