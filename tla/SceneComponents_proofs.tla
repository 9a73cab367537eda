------------------------ MODULE SceneComponents_proofs ------------------------
(***************************************************************************)
(* The properties of the components of a scene, for any number of          *)
(* entities, components and types.  The first part is about what           *)
(* ComponentLifetime and SceneScheduler share; the second proves the       *)
(* properties of ComponentLifetime, the third those of SceneScheduler.     *)
(***************************************************************************)
EXTENDS ComponentLifetime, SceneScheduler, SwapArrays_proofs, FiniteSetTheorems

\* What the constants are, for the leaves that need nothing else of them.
LEMMA Constants ==
  /\ IsFiniteSet(Component)
  /\ TypeOf \in [Component -> Type]
  /\ HasUpdate \subseteq Component /\ HasFixedUpdate \subseteq Component
  /\ HasBeforeRender \subseteq Component
  /\ NoComponent \notin Component
  /\ NoOwner \notin Entity /\ DeadOwner \notin Entity
  BY ComponentAssumption

TypeInv ==
  /\ alive \subseteq Entity
  /\ components \in [Entity -> Seq(Component)]
  /\ owner \in [Component -> Entity \cup {NoOwner, DeadOwner}]
  /\ started \in [Component -> BOOLEAN]
  /\ pending_start \in Seq(Component)
  /\ update_list \in Seq(Component)
  /\ fixed_update_list \in Seq(Component)
  /\ before_render_list \in Seq(Component)

\* OwnersAgree, and that a slot without an entity has no components: the
\* next entity in it would have them.
OwnersInv ==
  /\ OwnersAgree
  /\ \A e \in Entity \ alive : components[e] = <<>>
-----------------------------------------------------------------------------
(* The components of entities                                               *)

\* Attached, said of owner handles.
LEMMA AttachedIsOwned ==
  TypeInv /\ OwnersInv => Attached = { c \in Component : owner[c] \in alive }
<1> SUFFICES ASSUME TypeInv, OwnersInv
             PROVE  \A c \in Component :
                      (\E e \in alive : Contains(components[e], c)) <=> owner[c] \in alive
  BY DEF Attached
<1> QED
  BY DEF TypeInv, OwnersInv, OwnersAgree

\* The components of one entity are attached.
LEMMA ItemsAreAttached ==
  ASSUME TypeInv, OwnersInv, NEW e \in alive
  PROVE  /\ components[e] \in Seq(Component)
         /\ ToSet(components[e]) \subseteq Attached
         /\ \A c \in Component : c \in ToSet(components[e]) <=> owner[c] = e
<1>1. components[e] \in Seq(Component) /\ e \in Entity
  BY DEF TypeInv
<1>2. ToSet(components[e]) \subseteq Component
  BY <1>1 DEF ToSet
<1>3. \A c : Contains(components[e], c) <=> c \in ToSet(components[e])
  BY <1>1, ContainsIsMembership
<1> QED
  BY <1>1, <1>2, <1>3 DEF Attached, OwnersInv, OwnersAgree

LEMMA RegistryInitOwners == RegistryInit => TypeInv /\ OwnersInv /\ Attached = {}
<1> SUFFICES ASSUME RegistryInit PROVE TypeInv /\ OwnersInv /\ Attached = {}
  OBVIOUS
<1>1. \A e \in Entity : \A c : ~Contains(components[e], c)
  BY DEF RegistryInit, Contains
<1>2. TypeInv
  BY DEF RegistryInit, TypeInv
<1>3. OwnersInv
  BY <1>1, Constants DEF RegistryInit, OwnersInv, OwnersAgree
<1> QED
  BY <1>2, <1>3 DEF RegistryInit, Attached

\* tc_entity_pool_alloc
LEMMA AllocOwners ==
  ASSUME TypeInv, OwnersInv, NEW e \in Entity, AllocEntity(e)
  PROVE  TypeInv' /\ OwnersInv' /\ Attached' = Attached
<1>1. /\ e \notin alive /\ alive' = alive \cup {e}
      /\ components' = components /\ owner' = owner /\ started' = started
      /\ pending_start' = pending_start /\ update_list' = update_list
      /\ fixed_update_list' = fixed_update_list /\ before_render_list' = before_render_list
  BY DEF AllocEntity, listVars
<1>2. components[e] = <<>>
  BY <1>1 DEF OwnersInv
<1>3. \A c : ~Contains(components[e], c)
  BY <1>2 DEF Contains
<1>4. TypeInv'
  BY <1>1 DEF TypeInv
<1>5. OwnersInv'
  <2>1. IsInjective(components[e])
    BY <1>2 DEF IsInjective
  <2> QED
    BY <1>1, <1>3, <2>1 DEF OwnersInv, OwnersAgree
<1>6. Attached' = Attached
  BY <1>1, <1>3 DEF Attached
<1> QED
  BY <1>4, <1>5, <1>6

\* tc_entity_pool_add_component, as far as entities go.
LEMMA AddOwners ==
  ASSUME TypeInv, OwnersInv, NEW e \in Entity, NEW c \in Component, AddComponent(e, c)
  PROVE  /\ OwnersInv' /\ Attached' = Attached \cup {c} /\ c \notin Attached
         /\ alive' = alive /\ owner'[c] = e
         /\ components' \in [Entity -> Seq(Component)]
         /\ owner' \in [Component -> Entity \cup {NoOwner, DeadOwner}]
<1>1. /\ e \in alive /\ c \notin Attached
      /\ owner' = [owner EXCEPT ![c] = e]
      /\ components' = [components EXCEPT ![e] = Append(components[e], c)]
      /\ alive' = alive
  BY DEF AddComponent
<1>2. components[e] \in Seq(Component) /\ components \in [Entity -> Seq(Component)]
      /\ owner \in [Component -> Entity \cup {NoOwner, DeadOwner}] /\ alive \subseteq Entity
  BY DEF TypeInv
<1>3. /\ Append(components[e], c) \in Seq(Component)
      /\ ToSet(Append(components[e], c)) = ToSet(components[e]) \cup {c}
      /\ (IsInjective(components[e]) /\ c \notin ToSet(components[e])
            => IsInjective(Append(components[e], c)))
  BY <1>2, AppendItems
<1>4. c \notin ToSet(components[e])
  BY <1>1, ItemsAreAttached
<1>5. /\ components' \in [Entity -> Seq(Component)]
      /\ owner' \in [Component -> Entity \cup {NoOwner, DeadOwner}]
  BY <1>1, <1>2, <1>3
<1>6. /\ components'[e] = Append(components[e], c)
      /\ \A f \in Entity : f # e => components'[f] = components[f]
      /\ owner'[c] = e /\ \A d \in Component : d # c => owner'[d] = owner[d]
  BY <1>1, <1>2
<1>7. \A f \in Entity : \A d : Contains(components'[f], d)
                                 <=> Contains(components[f], d) \/ (f = e /\ d = c)
  <2>1. \A d : /\ Contains(components'[e], d) <=> d \in ToSet(components'[e])
               /\ Contains(components[e], d) <=> d \in ToSet(components[e])
    BY <1>2, <1>5, ContainsIsMembership
  <2>2. ToSet(components'[e]) = ToSet(components[e]) \cup {c}
    BY <1>3, <1>6
  <2> QED
    BY <1>6, <2>1, <2>2
<1>8. owner[c] \notin alive
  BY <1>1, AttachedIsOwned
<1>9. OwnersInv'
  <2>1. \A f \in alive' : IsInjective(components'[f])
    BY <1>1, <1>2, <1>3, <1>4, <1>6 DEF OwnersInv, OwnersAgree
  <2>2. \A f \in Entity, d \in Component :
          owner'[d] = f <=> f \in alive' /\ Contains(components'[f], d)
    <3> TAKE f \in Entity, d \in Component
    <3>1. owner[d] = f <=> f \in alive /\ Contains(components[f], d)
      BY DEF OwnersInv, OwnersAgree
    <3>2. CASE d = c
      BY <1>1, <1>6, <1>7, <1>8, <3>1, <3>2
    <3>3. CASE d # c
      BY <1>1, <1>6, <1>7, <3>1, <3>3
    <3> QED
      BY <3>2, <3>3
  <2>3. \A f \in Entity \ alive' : components'[f] = <<>>
    BY <1>1, <1>6 DEF OwnersInv
  <2> QED
    BY <2>1, <2>2, <2>3 DEF OwnersInv, OwnersAgree
<1>10. Attached' = Attached \cup {c}
  BY <1>1, <1>2, <1>7 DEF Attached
<1> QED
  BY <1>1, <1>5, <1>6, <1>9, <1>10

\* tc_entity_pool_remove_component, as far as entities go.
LEMMA RemoveOwners ==
  ASSUME TypeInv, OwnersInv, NEW e \in Entity, NEW c \in Component, RemoveComponent(e, c)
  PROVE  /\ OwnersInv' /\ Attached' = Attached \ {c} /\ c \in Attached
         /\ alive' = alive
         /\ components' \in [Entity -> Seq(Component)]
         /\ owner' \in [Component -> Entity \cup {NoOwner, DeadOwner}]
<1>1. /\ e \in alive /\ Contains(components[e], c)
      /\ owner' = [owner EXCEPT ![c] = NoOwner]
      /\ components' = [components EXCEPT ![e] = SwapRemove(components[e], c)]
      /\ alive' = alive
  BY DEF RemoveComponent
<1>2. components[e] \in Seq(Component) /\ components \in [Entity -> Seq(Component)]
      /\ owner \in [Component -> Entity \cup {NoOwner, DeadOwner}] /\ alive \subseteq Entity
  BY DEF TypeInv
<1>3. IsInjective(components[e])
  BY <1>1 DEF OwnersInv, OwnersAgree
<1>4. /\ SwapRemove(components[e], c) \in Seq(Component)
      /\ ToSet(SwapRemove(components[e], c)) = ToSet(components[e]) \ {c}
      /\ IsInjective(SwapRemove(components[e], c))
  BY <1>2, <1>3, SwapRemoveType, SwapRemoveItems
<1>5. /\ components' \in [Entity -> Seq(Component)]
      /\ owner' \in [Component -> Entity \cup {NoOwner, DeadOwner}]
  BY <1>1, <1>2, <1>4
<1>6. /\ components'[e] = SwapRemove(components[e], c)
      /\ \A f \in Entity : f # e => components'[f] = components[f]
      /\ owner'[c] = NoOwner /\ \A d \in Component : d # c => owner'[d] = owner[d]
  BY <1>1, <1>2
<1>7. owner[c] = e
  BY <1>1, <1>2 DEF OwnersInv, OwnersAgree
<1>8. \A f \in Entity : \A d \in Component :
        f \in alive => (Contains(components'[f], d) <=> Contains(components[f], d) /\ d # c)
  <2> TAKE f \in Entity
  <2> TAKE d \in Component
  <2> HAVE f \in alive
  <2>1. CASE f = e
    <3>1. /\ Contains(components'[e], d) <=> d \in ToSet(components'[e])
          /\ Contains(components[e], d) <=> d \in ToSet(components[e])
      BY <1>2, <1>5, ContainsIsMembership
    <3>2. ToSet(components'[e]) = ToSet(components[e]) \ {c}
      BY <1>4, <1>6
    <3> QED
      BY <2>1, <3>1, <3>2
  <2>2. CASE f # e
    <3>1. d = c => ~Contains(components[f], d)
      BY <1>7, <2>2 DEF OwnersInv, OwnersAgree
    <3> QED
      BY <1>6, <2>2, <3>1
  <2> QED
    BY <2>1, <2>2
<1>9. OwnersInv'
  <2>1. \A f \in alive' : IsInjective(components'[f])
    BY <1>1, <1>2, <1>4, <1>6 DEF OwnersInv, OwnersAgree
  <2>2. \A f \in Entity, d \in Component :
          owner'[d] = f <=> f \in alive' /\ Contains(components'[f], d)
    <3> TAKE f \in Entity, d \in Component
    <3>1. owner[d] = f <=> f \in alive /\ Contains(components[f], d)
      BY DEF OwnersInv, OwnersAgree
    <3>2. CASE d = c
      BY <1>1, <1>6, <1>8, <3>2, Constants
    <3>3. CASE d # c
      BY <1>1, <1>6, <1>8, <3>1, <3>3
    <3> QED
      BY <3>2, <3>3
  <2>3. \A f \in Entity \ alive' : components'[f] = <<>>
    BY <1>1, <1>6 DEF OwnersInv
  <2> QED
    BY <2>1, <2>2, <2>3 DEF OwnersInv, OwnersAgree
<1>10. Attached' = Attached \ {c}
  <2>1. Attached' = { d \in Component : \E f \in alive : Contains(components'[f], d) }
    BY <1>1 DEF Attached
  <2> QED
    BY <1>2, <1>8, <2>1 DEF Attached
<1>11. c \in Attached
  BY <1>1 DEF Attached
<1> QED
  BY <1>1, <1>5, <1>9, <1>10, <1>11

\* tc_entity_pool_free, as far as entities go.
LEMMA FreeOwners ==
  ASSUME TypeInv, OwnersInv, NEW e \in Entity, FreeEntity(e)
  PROVE  /\ OwnersInv' /\ Attached' = Attached \ ToSet(components[e])
         /\ alive' = alive \ {e}
         /\ components' \in [Entity -> Seq(Component)]
         /\ owner' \in [Component -> Entity \cup {NoOwner, DeadOwner}]
         /\ \A c \in Component : owner'[c] = IF owner[c] = e THEN DeadOwner ELSE owner[c]
<1>1. /\ e \in alive
      /\ owner' = [c \in Component |-> IF owner[c] = e THEN DeadOwner ELSE owner[c]]
      /\ components' = [components EXCEPT ![e] = <<>>]
      /\ alive' = alive \ {e}
  BY DEF FreeEntity, OwnersAfterFree
<1>2. components \in [Entity -> Seq(Component)]
      /\ owner \in [Component -> Entity \cup {NoOwner, DeadOwner}] /\ alive \subseteq Entity
  BY DEF TypeInv
<1>3. /\ components' \in [Entity -> Seq(Component)]
      /\ owner' \in [Component -> Entity \cup {NoOwner, DeadOwner}]
  BY <1>1, <1>2
<1>4. /\ components'[e] = <<>>
      /\ \A f \in Entity : f # e => components'[f] = components[f]
      /\ \A c \in Component : owner'[c] = IF owner[c] = e THEN DeadOwner ELSE owner[c]
  BY <1>1, <1>2
<1>5. OwnersInv'
  <2>1. \A f \in alive' : IsInjective(components'[f])
    BY <1>1, <1>2, <1>4 DEF OwnersInv, OwnersAgree
  <2>2. \A f \in Entity, c \in Component :
          owner'[c] = f <=> f \in alive' /\ Contains(components'[f], c)
    <3> TAKE f \in Entity, c \in Component
    <3>1. owner[c] = f <=> f \in alive /\ Contains(components[f], c)
      BY DEF OwnersInv, OwnersAgree
    <3>2. CASE f = e
      BY <1>1, <1>4, <3>2, Constants
    <3>3. CASE f # e
      BY <1>1, <1>4, <3>1, <3>3, Constants
    <3> QED
      BY <3>2, <3>3
  <2>3. \A f \in Entity \ alive' : components'[f] = <<>>
    BY <1>1, <1>4 DEF OwnersInv
  <2> QED
    BY <2>1, <2>2, <2>3 DEF OwnersInv, OwnersAgree
<1>6. Attached' = Attached \ ToSet(components[e])
  <2>1. Attached' = { c \in Component : \E f \in alive \ {e} : Contains(components'[f], c) }
    BY <1>1 DEF Attached
  <2>2. \A c \in Component : (\E f \in alive \ {e} : Contains(components'[f], c))
                               <=> owner[c] \in alive \ {e}
    BY <1>2, <1>4 DEF OwnersInv, OwnersAgree
  <2>3. \A c \in Component : c \in ToSet(components[e]) <=> owner[c] = e
    BY <1>1, ItemsAreAttached
  <2> QED
    BY <2>1, <2>2, <2>3, AttachedIsOwned
<1> QED
  BY <1>1, <1>3, <1>4, <1>5, <1>6

-----------------------------------------------------------------------------
(* The lists of the scene                                                   *)

\* list_push behind its list_contains test.
LEMMA PushedList ==
  ASSUME NEW list \in Seq(Component), NEW S, Lists(list, S), NEW c \in Component
  PROVE  PushNew(list, c) \in Seq(Component) /\ Lists(PushNew(list, c), S \cup {c})
<1>1. Contains(list, c) <=> c \in S
  BY ContainsIsMembership DEF Lists
<1>2. /\ Append(list, c) \in Seq(Component)
      /\ ToSet(Append(list, c)) = ToSet(list) \cup {c}
      /\ IsInjective(list) /\ c \notin ToSet(list) => IsInjective(Append(list, c))
  BY AppendItems
<1>3. CASE c \in S
  <2>1. PushNew(list, c) = list /\ S \cup {c} = S
    BY <1>1, <1>3 DEF PushNew
  <2> QED
    BY <2>1
<1>4. CASE c \notin S
  BY <1>1, <1>2, <1>4 DEF PushNew, Lists
<1> QED
  BY <1>3, <1>4

\* tc_scene_register_component
LEMMA RegisterLists ==
  ASSUME TypeInv, ListsExact, NEW c \in Component, Register(c),
         Attached' = Attached \cup {c}, started' = started
  PROVE  /\ ListsExact'
         /\ pending_start' \in Seq(Component) /\ update_list' \in Seq(Component)
         /\ fixed_update_list' \in Seq(Component) /\ before_render_list' \in Seq(Component)
<1>1. /\ pending_start \in Seq(Component)
      /\ Lists(pending_start, { d \in Attached : ~started[d] })
      /\ update_list \in Seq(Component)
      /\ Lists(update_list, Attached \cap HasUpdate)
      /\ fixed_update_list \in Seq(Component)
      /\ Lists(fixed_update_list, Attached \cap HasFixedUpdate)
      /\ before_render_list \in Seq(Component)
      /\ Lists(before_render_list, Attached \cap HasBeforeRender)
  BY DEF TypeInv, ListsExact
<1>2. pending_start' \in Seq(Component) /\ Lists(pending_start', { d \in Attached' : ~started'[d] })
  <2>1. CASE ~started[c]
    <3>1. pending_start' = PushNew(pending_start, c)
      BY <2>1 DEF Register, PushIf
    <3>2. { d \in Attached' : ~started'[d] } = { d \in Attached : ~started[d] } \cup {c}
      BY <2>1
    <3> QED
      BY <1>1, <3>1, <3>2, PushedList
  <2>2. CASE started[c]
    <3>1. pending_start' = pending_start
      BY <2>2 DEF Register, PushIf
    <3>2. { d \in Attached' : ~started'[d] } = { d \in Attached : ~started[d] }
      BY <2>2
    <3> QED
      BY <1>1, <3>1, <3>2
  <2> QED
    BY <2>1, <2>2
<1>3. update_list' \in Seq(Component) /\ Lists(update_list', Attached' \cap HasUpdate)
  <2>1. CASE c \in HasUpdate
    <3>1. /\ update_list' = PushNew(update_list, c)
          /\ Attached' \cap HasUpdate = (Attached \cap HasUpdate) \cup {c}
      BY <2>1 DEF Register, PushIf
    <3> QED
      BY <1>1, <3>1, PushedList
  <2>2. CASE c \notin HasUpdate
    <3>1. update_list' = update_list /\ Attached' \cap HasUpdate = Attached \cap HasUpdate
      BY <2>2 DEF Register, PushIf
    <3> QED
      BY <1>1, <3>1
  <2> QED
    BY <2>1, <2>2
<1>4. /\ fixed_update_list' \in Seq(Component)
      /\ Lists(fixed_update_list', Attached' \cap HasFixedUpdate)
  <2>1. CASE c \in HasFixedUpdate
    <3>1. /\ fixed_update_list' = PushNew(fixed_update_list, c)
          /\ Attached' \cap HasFixedUpdate = (Attached \cap HasFixedUpdate) \cup {c}
      BY <2>1 DEF Register, PushIf
    <3> QED
      BY <1>1, <3>1, PushedList
  <2>2. CASE c \notin HasFixedUpdate
    <3>1. /\ fixed_update_list' = fixed_update_list
          /\ Attached' \cap HasFixedUpdate = Attached \cap HasFixedUpdate
      BY <2>2 DEF Register, PushIf
    <3> QED
      BY <1>1, <3>1
  <2> QED
    BY <2>1, <2>2
<1>5. /\ before_render_list' \in Seq(Component)
      /\ Lists(before_render_list', Attached' \cap HasBeforeRender)
  <2>1. CASE c \in HasBeforeRender
    <3>1. /\ before_render_list' = PushNew(before_render_list, c)
          /\ Attached' \cap HasBeforeRender = (Attached \cap HasBeforeRender) \cup {c}
      BY <2>1 DEF Register, PushIf
    <3> QED
      BY <1>1, <3>1, PushedList
  <2>2. CASE c \notin HasBeforeRender
    <3>1. /\ before_render_list' = before_render_list
          /\ Attached' \cap HasBeforeRender = Attached \cap HasBeforeRender
      BY <2>2 DEF Register, PushIf
    <3> QED
      BY <1>1, <3>1
  <2> QED
    BY <2>1, <2>2
<1> QED
  BY <1>2, <1>3, <1>4, <1>5 DEF ListsExact

LEMMA RemovedList ==
  ASSUME NEW list \in Seq(Component), NEW S, Lists(list, S), NEW arr \in Seq(Component)
  PROVE  /\ RemovedInTurn(list, arr) \in Seq(Component)
         /\ Lists(RemovedInTurn(list, arr), S \ ToSet(arr))
  BY RemovedInTurnItems DEF Lists

\* tc_scene_unregister_component, of one component or of several in turn.
LEMMA UnregisterLists ==
  ASSUME TypeInv, ListsExact, NEW arr \in Seq(Component), UnregisterAll(arr),
         Attached' = Attached \ ToSet(arr), started' = started
  PROVE  /\ ListsExact'
         /\ pending_start' \in Seq(Component) /\ update_list' \in Seq(Component)
         /\ fixed_update_list' \in Seq(Component) /\ before_render_list' \in Seq(Component)
<1>1. /\ pending_start \in Seq(Component) /\ update_list \in Seq(Component)
      /\ fixed_update_list \in Seq(Component) /\ before_render_list \in Seq(Component)
  BY DEF TypeInv
<1>2. /\ pending_start' = RemovedInTurn(pending_start, arr)
      /\ update_list' = RemovedInTurn(update_list, arr)
      /\ fixed_update_list' = RemovedInTurn(fixed_update_list, arr)
      /\ before_render_list' = RemovedInTurn(before_render_list, arr)
  BY DEF UnregisterAll
<1>3. /\ { d \in Attached' : ~started'[d] } = { d \in Attached : ~started[d] } \ ToSet(arr)
      /\ Attached' \cap HasUpdate = (Attached \cap HasUpdate) \ ToSet(arr)
      /\ Attached' \cap HasFixedUpdate = (Attached \cap HasFixedUpdate) \ ToSet(arr)
      /\ Attached' \cap HasBeforeRender = (Attached \cap HasBeforeRender) \ ToSet(arr)
  OBVIOUS
<1>4. /\ Lists(pending_start, { d \in Attached : ~started[d] })
      /\ Lists(update_list, Attached \cap HasUpdate)
      /\ Lists(fixed_update_list, Attached \cap HasFixedUpdate)
      /\ Lists(before_render_list, Attached \cap HasBeforeRender)
  BY DEF ListsExact
<1>5. /\ Lists(pending_start', { d \in Attached' : ~started'[d] })
      /\ pending_start' \in Seq(Component)
  BY <1>1, <1>2, <1>3, <1>4, RemovedList
<1>6. Lists(update_list', Attached' \cap HasUpdate) /\ update_list' \in Seq(Component)
  BY <1>1, <1>2, <1>3, <1>4, RemovedList
<1>7. /\ Lists(fixed_update_list', Attached' \cap HasFixedUpdate)
      /\ fixed_update_list' \in Seq(Component)
  BY <1>1, <1>2, <1>3, <1>4, RemovedList
<1>8. /\ Lists(before_render_list', Attached' \cap HasBeforeRender)
      /\ before_render_list' \in Seq(Component)
  BY <1>1, <1>2, <1>3, <1>4, RemovedList
<1> QED
  BY <1>5, <1>6, <1>7, <1>8 DEF ListsExact

\* tc_entity_pool_free removes every component of the array once.
LEMMA RemovalOrderItems ==
  ASSUME NEW arr \in Seq(Component)
  PROVE  RemovalOrder(arr) \in Seq(Component) /\ ToSet(RemovalOrder(arr)) = ToSet(arr)
<1> DEFINE order == RemovalOrder(arr)
           At(k) == IF k = 1 THEN 1 ELSE Len(arr) - k + 2
<1>1. Len(arr) \in Nat
  OBVIOUS
<1>2. \A k \in 1..Len(arr) : At(k) \in 1..Len(arr) /\ At(At(k)) = k
  BY <1>1
<1>3. order = [k \in 1..Len(arr) |-> arr[At(k)]]
  BY DEF RemovalOrder
<1> HIDE DEF At, order
<1>4. order \in [1..Len(arr) -> Component]
  BY <1>2, <1>3
<1>5. order \in Seq(Component) /\ DOMAIN order = 1..Len(arr)
  BY <1>1, <1>4
<1>6. \A k \in 1..Len(arr) : order[k] = arr[At(k)] /\ order[At(k)] = arr[k]
  BY <1>2, <1>3
<1>7. ToSet(order) = ToSet(arr)
  BY <1>2, <1>5, <1>6 DEF ToSet
<1> QED
  BY <1>5, <1>7 DEF order

-----------------------------------------------------------------------------
(* The intrusive lists of components of one type                            *)

MaybeComponent == Component \cup {NoComponent}

IsTypeLinks(links) ==
  /\ links.head \in [Type -> MaybeComponent]
  /\ links.prev \in [Component -> MaybeComponent]
  /\ links.next \in [Component -> MaybeComponent]

NextIn(s, k) == IF k = Len(s) THEN NoComponent ELSE s[k+1]
PrevIn(s, k) == IF k = 1 THEN NoComponent ELSE s[k-1]

\* The list of type t is s, from its head along the links and back.
Chained(links, t, s) ==
  /\ s \in Seq(Component) /\ IsInjective(s)
  /\ \A k \in 1..Len(s) : TypeOf[s[k]] = t
  /\ links.head[t] = IF s = <<>> THEN NoComponent ELSE s[1]
  /\ \A k \in 1..Len(s) : links.next[s[k]] = NextIn(s, k) /\ links.prev[s[k]] = PrevIn(s, k)

\* The components A are linked, each in the list of its type, and no other is.
LinkedExactly(links, A) ==
  /\ IsTypeLinks(links)
  /\ \A t \in Type : \E s \in Seq(Component) :
       Chained(links, t, s) /\ ToSet(s) = { c \in A : TypeOf[c] = t }
  /\ \A c \in Component \ A : links.prev[c] = NoComponent /\ links.next[c] = NoComponent

LEMMA LinkFields ==
  ASSUME NEW links, IsTypeLinks(links), NEW c \in Component,
         links.prev[c] = NoComponent, links.next[c] = NoComponent,
         links.head[TypeOf[c]] # c
  PROVE  /\ IsTypeLinks(Link(links, c))
         /\ \A t \in Type :
              Link(links, c).head[t] = IF t = TypeOf[c] THEN c ELSE links.head[t]
         /\ \A d \in Component :
              /\ Link(links, c).prev[d] = IF d = links.head[TypeOf[c]] THEN c ELSE links.prev[d]
              /\ Link(links, c).next[d] = IF d = c THEN links.head[TypeOf[c]] ELSE links.next[d]
<1> DEFINE first == links.head[TypeOf[c]]
<1>1. /\ links.head \in [Type -> MaybeComponent]
      /\ links.prev \in [Component -> MaybeComponent]
      /\ links.next \in [Component -> MaybeComponent]
      /\ TypeOf[c] \in Type /\ NoComponent \notin Component
      /\ first \in MaybeComponent /\ c \in MaybeComponent
  BY Constants DEF IsTypeLinks, MaybeComponent
<1> HIDE DEF first
<1>2. Link(links, c) = [head |-> [links.head EXCEPT ![TypeOf[c]] = c],
                        prev |-> Relinked(links.prev, first, c),
                        next |-> [links.next EXCEPT ![c] = first]]
  BY DEF Link, first
<1>3. /\ Link(links, c).head = [links.head EXCEPT ![TypeOf[c]] = c]
      /\ Link(links, c).prev = Relinked(links.prev, first, c)
      /\ Link(links, c).next = [links.next EXCEPT ![c] = first]
  BY <1>2
<1>4. /\ Relinked(links.prev, first, c) \in [Component -> MaybeComponent]
      /\ \A d \in Component : Relinked(links.prev, first, c)[d]
                                = IF d = first THEN c ELSE links.prev[d]
  BY <1>1 DEF Relinked, MaybeComponent
<1> QED
  BY <1>1, <1>3, <1>4 DEF IsTypeLinks, first

\* A component that is linked comes first in the list of its type, and the
\* lists of other types stay as they are.
LEMMA LinkChained ==
  ASSUME NEW links, IsTypeLinks(links), NEW c \in Component,
         links.prev[c] = NoComponent, links.next[c] = NoComponent,
         NEW s, Chained(links, TypeOf[c], s), c \notin ToSet(s)
  PROVE  /\ IsTypeLinks(Link(links, c))
         /\ Chained(Link(links, c), TypeOf[c], <<c>> \o s)
         /\ ToSet(<<c>> \o s) = ToSet(s) \cup {c}
         /\ \A t \in Type, r \in Seq(Component) :
              t # TypeOf[c] /\ Chained(links, t, r) /\ c \notin ToSet(r)
                => Chained(Link(links, c), t, r)
         /\ \A d \in Component \ (ToSet(s) \cup {c}) :
              /\ Link(links, c).prev[d] = links.prev[d]
              /\ Link(links, c).next[d] = links.next[d]
<1> DEFINE t == TypeOf[c]
           new == <<c>> \o s
           after == Link(links, c)
<1>1. /\ s \in Seq(Component) /\ IsInjective(s) /\ t \in Type /\ Len(s) \in Nat
      /\ \A k \in 1..Len(s) : s[k] \in Component /\ s[k] # c /\ TypeOf[s[k]] = t
      /\ links.head[t] = IF s = <<>> THEN NoComponent ELSE s[1]
      /\ \A k \in 1..Len(s) : /\ links.next[s[k]] = NextIn(s, k)
                              /\ links.prev[s[k]] = PrevIn(s, k)
      /\ NoComponent \notin Component
  BY Constants DEF Chained, ToSet
<1>2. links.head[t] # c
  BY <1>1
<1>3. /\ IsTypeLinks(after)
      /\ \A u \in Type : after.head[u] = IF u = t THEN c ELSE links.head[u]
      /\ \A d \in Component : /\ after.prev[d] = IF d = links.head[t] THEN c ELSE links.prev[d]
                              /\ after.next[d] = IF d = c THEN links.head[t] ELSE links.next[d]
  BY <1>2, LinkFields
<1>4. /\ new \in Seq(Component) /\ Len(new) = Len(s) + 1 /\ new[1] = c
      /\ \A k \in 1..Len(s) : new[k+1] = s[k]
  BY <1>1
<1> HIDE DEF new, after
<1>5. \A k \in 2..Len(new) : k-1 \in 1..Len(s) /\ new[k] = s[k-1]
  <2> TAKE k \in 2..Len(new)
  <2>1. k-1 \in 1..Len(s) /\ (k-1)+1 = k
    BY <1>1, <1>4
  <2> QED
    BY <1>4, <2>1
<1>6. IsInjective(new)
  <2> SUFFICES ASSUME NEW j \in 1..Len(new), NEW k \in 1..Len(new), new[j] = new[k]
               PROVE  j = k
    BY <1>4 DEF IsInjective
  <2>1. \A m, n \in 1..Len(s) : s[m] = s[n] => m = n
    BY <1>1 DEF IsInjective
  <2>2. CASE j = 1 \/ k = 1
    BY <1>1, <1>4, <1>5, <2>2
  <2>3. CASE j # 1 /\ k # 1
    <3>1. j \in 2..Len(new) /\ k \in 2..Len(new) /\ Len(new) \in Nat
      BY <1>1, <1>4, <2>3
    <3>2. j-1 = k-1
      BY <1>5, <2>1, <3>1
    <3> QED
      BY <3>1, <3>2
  <2> QED
    BY <2>2, <2>3
<1>7. ToSet(new) = ToSet(s) \cup {c}
  <2>1. \A x \in ToSet(new) : x \in ToSet(s) \cup {c}
    <3> TAKE x \in ToSet(new)
    <3>1. PICK k \in 1..Len(new) : x = new[k]
      BY <1>4 DEF ToSet
    <3>2. k = 1 \/ k \in 2..Len(new)
      BY <1>1, <1>4
    <3> QED
      BY <1>1, <1>4, <1>5, <3>1, <3>2 DEF ToSet
  <2>2. \A x \in ToSet(s) : x \in ToSet(new)
    <3> TAKE x \in ToSet(s)
    <3>1. PICK k \in 1..Len(s) : x = s[k]
      BY <1>1 DEF ToSet
    <3>2. k+1 \in 1..Len(new) /\ new[k+1] = x
      BY <1>1, <1>4, <3>1
    <3> QED
      BY <1>4, <3>2 DEF ToSet
  <2>3. c \in ToSet(new)
    <3>1. 1 \in 1..Len(new)
      BY <1>1, <1>4
    <3> QED
      BY <1>4, <3>1 DEF ToSet
  <2> QED
    BY <2>1, <2>2, <2>3
<1>8. Chained(after, t, new)
  <2>1. \A k \in 1..Len(new) : TypeOf[new[k]] = t
    <3> TAKE k \in 1..Len(new)
    <3>1. k = 1 \/ k \in 2..Len(new)
      BY <1>1, <1>4
    <3> QED
      BY <1>1, <1>4, <1>5, <3>1
  <2>2. after.head[t] = new[1] /\ new # <<>>
    BY <1>1, <1>3, <1>4
  <2>3. ASSUME NEW k \in 1..Len(new)
        PROVE  after.next[new[k]] = NextIn(new, k) /\ after.prev[new[k]] = PrevIn(new, k)
    <3>1. CASE k = 1
      <4>1. after.next[c] = links.head[t] /\ after.prev[c] = links.prev[c]
        BY <1>2, <1>3
      <4>2. NextIn(new, 1) = links.head[t]
        <5>1. CASE s = <<>>
          BY <1>1, <1>4, <5>1 DEF NextIn
        <5>2. CASE s # <<>>
          <6>1. Len(s) \in Nat \ {0} /\ 1 \in 1..Len(s)
            BY <1>1, <5>2
          <6>2. new[1+1] = s[1] /\ Len(new) # 1
            BY <1>4, <6>1
          <6> QED
            BY <1>1, <5>2, <6>2 DEF NextIn
        <5> QED
          BY <5>1, <5>2
      <4> QED
        BY <1>4, <3>1, <4>1, <4>2 DEF PrevIn
    <3>2. CASE k \in 2..Len(new)
      <4>1. k-1 \in 1..Len(s) /\ new[k] = s[k-1] /\ s[k-1] \in Component /\ s[k-1] # c
        BY <1>1, <1>5, <3>2
      <4>2. after.next[new[k]] = NextIn(s, k-1)
        BY <1>1, <1>3, <4>1
      <4>3. NextIn(s, k-1) = NextIn(new, k)
        <5>1. CASE k = Len(new)
          BY <1>1, <1>4, <5>1 DEF NextIn
        <5>2. CASE k # Len(new)
          <6>1. k \in 1..Len(s) /\ new[k+1] = s[k] /\ (k-1)+1 = k /\ k-1 # Len(s)
            BY <1>1, <1>4, <3>2, <5>2
          <6> QED
            BY <5>2, <6>1 DEF NextIn
        <5> QED
          BY <5>1, <5>2
      <4>4. after.prev[new[k]] = PrevIn(new, k)
        <5>1. CASE k = 2
          <6>1. k-1 = 1 /\ s # <<>> /\ s[1] = links.head[t]
            BY <1>1, <4>1, <5>1
          <6> QED
            BY <1>3, <1>4, <4>1, <5>1, <6>1 DEF PrevIn
        <5>2. CASE k # 2
          <6>1. k-1 # 1 /\ k-1 \in 2..Len(new) /\ k # 1 /\ (k-1)-1 \in 1..Len(s)
                /\ 1 \in 1..Len(s)
            BY <1>1, <1>4, <3>2, <5>2
          <6>2. s[k-1] # s[1]
            BY <1>1, <4>1, <6>1 DEF IsInjective
          <6>3. after.prev[new[k]] = PrevIn(s, k-1)
            BY <1>1, <1>3, <4>1, <6>1, <6>2
          <6>4. new[k-1] = s[(k-1)-1]
            BY <1>5, <6>1
          <6> QED
            BY <6>1, <6>3, <6>4 DEF PrevIn
        <5> QED
          BY <5>1, <5>2
      <4> QED
        BY <4>2, <4>3, <4>4
    <3>3. k = 1 \/ k \in 2..Len(new)
      BY <1>1, <1>4
    <3> QED
      BY <3>1, <3>2, <3>3
  <2> QED
    BY <1>4, <1>6, <2>1, <2>2, <2>3 DEF Chained
<1>9. ASSUME NEW u \in Type, NEW r \in Seq(Component), u # t, Chained(links, u, r),
             c \notin ToSet(r)
      PROVE  Chained(after, u, r)
  <2>1. \A k \in 1..Len(r) : /\ r[k] \in Component /\ r[k] # c /\ TypeOf[r[k]] = u
                             /\ links.next[r[k]] = NextIn(r, k)
                             /\ links.prev[r[k]] = PrevIn(r, k)
    BY <1>9 DEF Chained, ToSet
  <2>2. links.head[t] \in Component => TypeOf[links.head[t]] = t
    BY <1>1
  <2>3. \A k \in 1..Len(r) : r[k] # links.head[t]
    BY <1>9, <2>1, <2>2
  <2> QED
    BY <1>3, <1>9, <2>1, <2>3 DEF Chained
<1>10. ASSUME NEW d \in Component \ (ToSet(s) \cup {c})
       PROVE  after.prev[d] = links.prev[d] /\ after.next[d] = links.next[d]
  <2>1. links.head[t] \in ToSet(s) \/ links.head[t] = NoComponent
    <3>1. s # <<>> => 1 \in 1..Len(s)
      BY <1>1
    <3> QED
      BY <1>1, <3>1 DEF ToSet
  <2> QED
    BY <1>1, <1>3, <2>1
<1> QED
  BY <1>3, <1>7, <1>8, <1>9, <1>10 DEF new, after

LEMMA UnlinkFields ==
  ASSUME NEW links, IsTypeLinks(links), NEW c \in Component
  PROVE  LET after == Unlink(links, c)
             first == links.head[TypeOf[c]] = c
         IN  /\ IsTypeLinks(after)
             /\ \A t \in Type : after.head[t] = IF t = TypeOf[c] /\ first THEN links.next[c]
                                                ELSE links.head[t]
             /\ \A d \in Component :
                  /\ after.prev[d] = IF d = c THEN NoComponent
                                     ELSE IF d # links.next[c] THEN links.prev[d]
                                     ELSE IF first THEN NoComponent ELSE links.prev[c]
                  /\ after.next[d] = IF d = c THEN NoComponent
                                     ELSE IF d = links.prev[c] /\ ~first THEN links.next[c]
                                     ELSE links.next[d]
<1> DEFINE after == Unlink(links, c)
           first == links.head[TypeOf[c]] = c
           p == links.prev[c]
           n == links.next[c]
           prev == Relinked(links.prev, n, IF first THEN NoComponent ELSE p)
           next == IF first THEN links.next ELSE Relinked(links.next, p, n)
<1>1. /\ links.head \in [Type -> MaybeComponent]
      /\ links.prev \in [Component -> MaybeComponent]
      /\ links.next \in [Component -> MaybeComponent]
      /\ TypeOf[c] \in Type /\ NoComponent \notin Component
      /\ p \in MaybeComponent /\ n \in MaybeComponent /\ NoComponent \in MaybeComponent
  BY Constants DEF IsTypeLinks, MaybeComponent
<1>2. after = [head |-> IF first THEN [links.head EXCEPT ![TypeOf[c]] = n] ELSE links.head,
               prev |-> [prev EXCEPT ![c] = NoComponent],
               next |-> [next EXCEPT ![c] = NoComponent]]
  BY DEF Unlink
<1>3. /\ prev \in [Component -> MaybeComponent]
      /\ \A d \in Component : prev[d] = IF d # n THEN links.prev[d]
                                        ELSE IF first THEN NoComponent ELSE p
  BY <1>1 DEF Relinked, MaybeComponent
<1>4. /\ next \in [Component -> MaybeComponent]
      /\ \A d \in Component : next[d] = IF d = p /\ ~first THEN n ELSE links.next[d]
  BY <1>1 DEF Relinked, MaybeComponent
<1> HIDE DEF after, first, p, n, prev, next
<1>5. /\ after.head = IF first THEN [links.head EXCEPT ![TypeOf[c]] = n] ELSE links.head
      /\ after.prev = [prev EXCEPT ![c] = NoComponent]
      /\ after.next = [next EXCEPT ![c] = NoComponent]
  BY <1>2
<1>6. /\ after.head \in [Type -> MaybeComponent]
      /\ \A t \in Type : after.head[t] = IF t = TypeOf[c] /\ first THEN n ELSE links.head[t]
  BY <1>1, <1>5
<1>7. /\ after.prev \in [Component -> MaybeComponent]
      /\ \A d \in Component : after.prev[d] = IF d = c THEN NoComponent ELSE prev[d]
  BY <1>1, <1>3, <1>5
<1>8. /\ after.next \in [Component -> MaybeComponent]
      /\ \A d \in Component : after.next[d] = IF d = c THEN NoComponent ELSE next[d]
  BY <1>1, <1>4, <1>5
<1>9. IsTypeLinks(after)
  BY <1>6, <1>7, <1>8 DEF IsTypeLinks
<1> QED
  BY <1>3, <1>4, <1>6, <1>7, <1>8, <1>9 DEF after, first, p, n

\* s without its item at position k.
Without(s, k) == [j \in 1..Len(s)-1 |-> IF j < k THEN s[j] ELSE s[j+1]]

LEMMA WithoutItems ==
  ASSUME NEW s \in Seq(Component), IsInjective(s), NEW k \in 1..Len(s)
  PROVE  /\ Without(s, k) \in Seq(Component) /\ IsInjective(Without(s, k))
         /\ Len(Without(s, k)) = Len(s) - 1
         /\ ToSet(Without(s, k)) = ToSet(s) \ {s[k]}
         /\ \A j \in 1..Len(s)-1 : Without(s, k)[j] = IF j < k THEN s[j] ELSE s[j+1]
<1> DEFINE w == Without(s, k)
<1>1. /\ Len(s) \in Nat /\ DOMAIN w = 1..Len(s)-1
      /\ \A j \in 1..Len(s)-1 : w[j] = IF j < k THEN s[j] ELSE s[j+1]
      /\ \A i, j \in 1..Len(s) : s[i] = s[j] => i = j
  BY DEF Without, IsInjective
<1>2. w \in Seq(Component) /\ Len(w) = Len(s) - 1
  <2>1. \A j \in 1..Len(s)-1 : j \in 1..Len(s) /\ j+1 \in 1..Len(s)
    BY <1>1
  <2> QED
    BY <1>1, <2>1 DEF Without
<1> HIDE DEF w
<1>3. IsInjective(w)
  <2> SUFFICES ASSUME NEW i \in 1..Len(s)-1, NEW j \in 1..Len(s)-1, w[i] = w[j] PROVE i = j
    BY <1>1 DEF IsInjective
  <2>1. \A m \in 1..Len(s)-1 : m \in 1..Len(s) /\ m+1 \in 1..Len(s)
    BY <1>1
  <2>2. CASE i < k /\ j < k
    BY <1>1, <2>1, <2>2
  <2>3. CASE i >= k /\ j >= k
    <3>1. w[i] = s[i+1] /\ w[j] = s[j+1]
      BY <1>1, <2>3
    <3>2. i+1 = j+1
      BY <1>1, <2>1, <3>1
    <3> QED
      BY <3>2
  <2>4. CASE i < k /\ j >= k
    <3>1. w[i] = s[i] /\ w[j] = s[j+1]
      BY <1>1, <2>4
    <3>2. i = j+1
      BY <1>1, <2>1, <3>1
    <3> QED
      BY <2>4, <3>2
  <2>5. CASE i >= k /\ j < k
    <3>1. w[i] = s[i+1] /\ w[j] = s[j]
      BY <1>1, <2>5
    <3>2. i+1 = j
      BY <1>1, <2>1, <3>1
    <3> QED
      BY <2>5, <3>2
  <2> QED
    BY <1>1, <2>2, <2>3, <2>4, <2>5
<1>4. \A x \in ToSet(w) : x \in ToSet(s) /\ x # s[k]
  <2> TAKE x \in ToSet(w)
  <2>1. PICK j \in 1..Len(s)-1 : x = w[j]
    BY <1>1 DEF ToSet
  <2>2. PICK i \in 1..Len(s) : x = s[i] /\ i # k
    <3>1. CASE j < k
      BY <1>1, <2>1, <3>1
    <3>2. CASE j >= k
      <4>1. j+1 \in 1..Len(s) /\ j+1 # k /\ x = s[j+1]
        BY <1>1, <2>1, <3>2
      <4> QED
        BY <4>1
    <3> QED
      BY <1>1, <3>1, <3>2
  <2> QED
    BY <1>1, <2>2 DEF ToSet
<1>5. \A x \in ToSet(s) : x # s[k] => x \in ToSet(w)
  <2> TAKE x \in ToSet(s)
  <2> HAVE x # s[k]
  <2>1. PICK i \in 1..Len(s) : x = s[i]
    BY DEF ToSet
  <2>2. CASE i < k
    <3>1. i \in 1..Len(s)-1 /\ w[i] = x
      BY <1>1, <2>1, <2>2
    <3> QED
      BY <1>1, <3>1 DEF ToSet
  <2>3. CASE i > k
    <3>1. i-1 \in 1..Len(s)-1 /\ ~(i-1 < k) /\ (i-1)+1 = i
      BY <1>1, <2>3
    <3>2. w[i-1] = x
      BY <1>1, <2>1, <3>1
    <3> QED
      BY <1>1, <3>1, <3>2 DEF ToSet
  <2> QED
    BY <1>1, <2>1, <2>2, <2>3
<1> QED
  BY <1>1, <1>2, <1>3, <1>4, <1>5 DEF w

\* A component that is unlinked leaves the list of its type, which closes
\* around it; the lists of other types stay as they are.
LEMMA UnlinkChained ==
  ASSUME NEW links, IsTypeLinks(links), NEW s, NEW k \in 1..Len(s),
         NEW c \in Component, c = s[k], Chained(links, TypeOf[c], s)
  PROVE  /\ IsTypeLinks(Unlink(links, c))
         /\ Chained(Unlink(links, c), TypeOf[c], Without(s, k))
         /\ \A t \in Type, r \in Seq(Component) :
              t # TypeOf[c] /\ Chained(links, t, r) => Chained(Unlink(links, c), t, r)
         /\ \A d \in Component \ ToSet(s) :
              /\ Unlink(links, c).prev[d] = links.prev[d]
              /\ Unlink(links, c).next[d] = links.next[d]
         /\ Unlink(links, c).prev[c] = NoComponent
         /\ Unlink(links, c).next[c] = NoComponent
<1> DEFINE t == TypeOf[c]
           w == Without(s, k)
           after == Unlink(links, c)
<1>1. /\ s \in Seq(Component) /\ IsInjective(s) /\ t \in Type /\ Len(s) \in Nat
      /\ \A j \in 1..Len(s) : s[j] \in Component /\ TypeOf[s[j]] = t
      /\ links.head[t] = s[1]
      /\ \A j \in 1..Len(s) : /\ links.next[s[j]] = NextIn(s, j)
                              /\ links.prev[s[j]] = PrevIn(s, j)
      /\ NoComponent \notin Component
      /\ \A i, j \in 1..Len(s) : s[i] = s[j] => i = j
  <2>1. s # <<>> /\ s \in Seq(Component)
    BY DEF Chained
  <2> QED
    BY <2>1, Constants DEF Chained, IsInjective
<1>2. links.head[t] = c <=> k = 1
  BY <1>1
<1>3. /\ IsTypeLinks(after)
      /\ \A u \in Type : after.head[u] = IF u = t /\ k = 1 THEN NextIn(s, k) ELSE links.head[u]
      /\ \A d \in Component :
           /\ after.prev[d] = IF d = c THEN NoComponent
                              ELSE IF d # NextIn(s, k) THEN links.prev[d]
                              ELSE PrevIn(s, k)
           /\ after.next[d] = IF d = c THEN NoComponent
                              ELSE IF d = PrevIn(s, k) /\ k # 1 THEN NextIn(s, k)
                              ELSE links.next[d]
  <2>1. /\ IsTypeLinks(after)
        /\ \A u \in Type : after.head[u] = IF u = TypeOf[c] /\ links.head[TypeOf[c]] = c
                                           THEN links.next[c] ELSE links.head[u]
        /\ \A d \in Component :
             /\ after.prev[d] = IF d = c THEN NoComponent
                                ELSE IF d # links.next[c] THEN links.prev[d]
                                ELSE IF links.head[TypeOf[c]] = c THEN NoComponent
                                ELSE links.prev[c]
             /\ after.next[d] = IF d = c THEN NoComponent
                                ELSE IF d = links.prev[c] /\ links.head[TypeOf[c]] # c
                                THEN links.next[c]
                                ELSE links.next[d]
    BY UnlinkFields
  <2>2. /\ links.next[c] = NextIn(s, k) /\ links.prev[c] = PrevIn(s, k)
        /\ k = 1 => PrevIn(s, k) = NoComponent
    BY <1>1 DEF PrevIn
  <2> QED
    BY <1>2, <2>1, <2>2
<1>4. /\ w \in Seq(Component) /\ IsInjective(w) /\ Len(w) = Len(s) - 1
      /\ ToSet(w) = ToSet(s) \ {c}
      /\ \A j \in 1..Len(s)-1 : w[j] = IF j < k THEN s[j] ELSE s[j+1]
  BY <1>1, WithoutItems
<1> HIDE DEF t, w, after
<1>5. \A m \in 1..Len(s) : m # k =>
        /\ s[m] # c /\ s[m] # NoComponent
        /\ s[m] = NextIn(s, k) <=> m = k+1
        /\ s[m] = PrevIn(s, k) <=> m = k-1
  <2> TAKE m \in 1..Len(s)
  <2> HAVE m # k
  <2>1. s[m] # c /\ s[m] # NoComponent
    BY <1>1
  <2>2. s[m] = NextIn(s, k) <=> m = k+1
    <3>1. CASE k = Len(s)
      BY <1>1, <2>1, <3>1 DEF NextIn
    <3>2. CASE k # Len(s)
      <4>1. k+1 \in 1..Len(s) /\ NextIn(s, k) = s[k+1]
        BY <1>1, <3>2 DEF NextIn
      <4> QED
        BY <1>1, <4>1
    <3> QED
      BY <3>1, <3>2
  <2>3. s[m] = PrevIn(s, k) <=> m = k-1
    <3>1. CASE k = 1
      BY <1>1, <2>1, <3>1 DEF PrevIn
    <3>2. CASE k # 1
      <4>1. k-1 \in 1..Len(s) /\ PrevIn(s, k) = s[k-1]
        BY <1>1, <3>2 DEF PrevIn
      <4> QED
        BY <1>1, <4>1
    <3> QED
      BY <3>1, <3>2
  <2> QED
    BY <2>1, <2>2, <2>3
<1>6. \A m \in 1..Len(s) : m # k =>
        /\ after.prev[s[m]] = IF m = k+1 THEN PrevIn(s, k) ELSE PrevIn(s, m)
        /\ after.next[s[m]] = IF m = k-1 THEN NextIn(s, k) ELSE NextIn(s, m)
  <2> TAKE m \in 1..Len(s)
  <2> HAVE m # k
  <2>1. s[m] \in Component /\ links.prev[s[m]] = PrevIn(s, m) /\ links.next[s[m]] = NextIn(s, m)
    BY <1>1
  <2>2. m = k-1 => k # 1
    BY <1>1
  <2> QED
    BY <1>3, <1>5, <2>1, <2>2
<1>7. after.head[t] = IF w = <<>> THEN NoComponent ELSE w[1]
  <2>1. CASE k # 1
    <3>1. 1 \in 1..Len(s)-1 /\ w[1] = s[1] /\ w # <<>>
      BY <1>1, <1>4, <2>1
    <3> QED
      BY <1>1, <1>3, <2>1, <3>1
  <2>2. CASE k = 1 /\ Len(s) = 1
    <3>1. w = <<>>
      BY <1>4, <2>2
    <3> QED
      BY <1>1, <1>3, <2>2, <3>1 DEF NextIn
  <2>3. CASE k = 1 /\ Len(s) # 1
    <3>1. 1 \in 1..Len(s)-1 /\ w[1] = s[1+1] /\ w # <<>>
      BY <1>1, <1>4, <2>3
    <3> QED
      BY <1>1, <1>3, <2>3, <3>1 DEF NextIn
  <2> QED
    BY <2>1, <2>2, <2>3
<1>8. ASSUME NEW j \in 1..Len(w)
      PROVE  /\ TypeOf[w[j]] = t
             /\ after.next[w[j]] = NextIn(w, j) /\ after.prev[w[j]] = PrevIn(w, j)
  <2>1. CASE j < k
    <3>1. j \in 1..Len(s) /\ j # k /\ j # k+1 /\ w[j] = s[j] /\ j # Len(s)
      BY <1>1, <1>4, <2>1
    <3>2. after.prev[w[j]] = PrevIn(w, j)
      <4>1. after.prev[w[j]] = PrevIn(s, j)
        BY <1>6, <3>1
      <4>2. j # 1 => j-1 \in 1..Len(s)-1 /\ j-1 < k
        BY <1>1, <1>4, <2>1
      <4>3. j # 1 => w[j-1] = s[j-1]
        BY <1>4, <4>2
      <4> QED
        BY <4>1, <4>3 DEF PrevIn
    <3>3. CASE j = k-1
      <4>1. after.next[w[j]] = NextIn(s, k)
        BY <1>6, <3>1, <3>3
      <4>2. (j = Len(w) <=> k = Len(s)) /\ j+1 = k
        BY <1>1, <1>4, <3>3
      <4>3. j # Len(w) => k \in 1..Len(s)-1 /\ w[k] = s[k+1]
        BY <1>1, <1>4, <4>2
      <4>4. NextIn(s, k) = NextIn(w, j)
        BY <4>2, <4>3 DEF NextIn
      <4> QED
        BY <1>1, <3>1, <3>2, <4>1, <4>4
    <3>4. CASE j # k-1
      <4>1. after.next[w[j]] = NextIn(s, j)
        BY <1>6, <3>1, <3>4
      <4>2. j+1 \in 1..Len(s)-1 /\ j+1 < k /\ j # Len(w)
        BY <1>1, <1>4, <2>1, <3>4
      <4>3. w[j+1] = s[j+1]
        BY <1>4, <4>2
      <4> QED
        BY <1>1, <3>1, <3>2, <4>1, <4>2, <4>3 DEF NextIn
    <3> QED
      BY <3>3, <3>4
  <2>2. CASE j >= k
    <3>1. /\ j+1 \in 1..Len(s) /\ j+1 # k /\ j+1 # k-1 /\ w[j] = s[j+1]
          /\ (j+1 = k+1 <=> j = k) /\ j \in 1..Len(s) /\ (j+1)-1 = j
      BY <1>1, <1>4, <2>2
    <3>2. after.prev[w[j]] = IF j = k THEN PrevIn(s, k) ELSE PrevIn(s, j+1)
      BY <1>6, <3>1
    <3>3. after.prev[w[j]] = PrevIn(w, j)
      <4>1. CASE j = 1
        BY <1>1, <2>2, <3>2, <4>1 DEF PrevIn
      <4>2. CASE j # 1 /\ j = k
        <5>1. j-1 \in 1..Len(s)-1 /\ j-1 < k
          BY <1>1, <1>4, <4>2
        <5>2. w[j-1] = s[j-1]
          BY <1>4, <5>1
        <5> QED
          BY <3>2, <4>2, <5>2 DEF PrevIn
      <4>3. CASE j # 1 /\ j # k
        <5>1. j-1 \in 1..Len(s)-1 /\ ~(j-1 < k) /\ (j-1)+1 = j /\ j+1 # 1
          BY <1>1, <1>4, <2>2, <4>3
        <5>2. w[j-1] = s[j]
          BY <1>4, <5>1
        <5> QED
          BY <3>1, <3>2, <4>3, <5>1, <5>2 DEF PrevIn
      <4> QED
        BY <4>1, <4>2, <4>3
    <3>4. after.next[w[j]] = NextIn(s, j+1)
      BY <1>6, <3>1
    <3>5. NextIn(s, j+1) = NextIn(w, j)
      <4>1. CASE j = Len(w)
        BY <1>1, <1>4, <4>1 DEF NextIn
      <4>2. CASE j # Len(w)
        <5>1. j+1 \in 1..Len(s)-1 /\ ~(j+1 < k) /\ j+1 # Len(s)
          BY <1>1, <1>4, <2>2, <4>2
        <5>2. w[j+1] = s[(j+1)+1]
          BY <1>4, <5>1
        <5> QED
          BY <4>2, <5>1, <5>2 DEF NextIn
      <4> QED
        BY <4>1, <4>2
    <3> QED
      BY <1>1, <3>1, <3>3, <3>4, <3>5
  <2> QED
    BY <1>1, <1>4, <2>1, <2>2
<1>9. Chained(after, t, w)
  BY <1>4, <1>7, <1>8 DEF Chained
<1>10. ASSUME NEW u \in Type, NEW r \in Seq(Component), u # t, Chained(links, u, r)
       PROVE  Chained(after, u, r)
  <2>1. \A j \in 1..Len(r) : /\ r[j] \in Component /\ TypeOf[r[j]] = u
                             /\ links.next[r[j]] = NextIn(r, j)
                             /\ links.prev[r[j]] = PrevIn(r, j)
    BY <1>10 DEF Chained
  <2>2. NextIn(s, k) # NoComponent => NextIn(s, k) \in Component /\ TypeOf[NextIn(s, k)] = t
    <3>1. k # Len(s) => k+1 \in 1..Len(s)
      BY <1>1
    <3> QED
      BY <1>1, <3>1 DEF NextIn
  <2>3. k # 1 => PrevIn(s, k) \in Component /\ TypeOf[PrevIn(s, k)] = t
    <3>1. k # 1 => k-1 \in 1..Len(s)
      BY <1>1
    <3> QED
      BY <1>1, <3>1 DEF PrevIn
  <2>4. \A j \in 1..Len(r) : after.next[r[j]] = links.next[r[j]]
    BY <1>1, <1>3, <1>10, <2>1, <2>3 DEF t
  <2>5. \A j \in 1..Len(r) : after.prev[r[j]] = links.prev[r[j]]
    BY <1>1, <1>3, <1>10, <2>1, <2>2 DEF t
  <2>6. after.head[u] = links.head[u]
    BY <1>3, <1>10
  <2> QED
    BY <1>10, <2>1, <2>4, <2>5, <2>6 DEF Chained
<1>11. ASSUME NEW d \in Component \ ToSet(s)
       PROVE  after.prev[d] = links.prev[d] /\ after.next[d] = links.next[d]
  <2>1. c \in ToSet(s)
    BY <1>1 DEF ToSet
  <2>2. NextIn(s, k) \in ToSet(s) \/ NextIn(s, k) = NoComponent
    <3>1. k # Len(s) => k+1 \in 1..Len(s)
      BY <1>1
    <3> QED
      BY <1>1, <3>1 DEF NextIn, ToSet
  <2>3. k # 1 => PrevIn(s, k) \in ToSet(s)
    <3>1. k # 1 => k-1 \in 1..Len(s)
      BY <1>1
    <3> QED
      BY <1>1, <3>1 DEF PrevIn, ToSet
  <2> QED
    BY <1>1, <1>3, <2>1, <2>2, <2>3
<1> QED
  BY <1>3, <1>9, <1>10, <1>11 DEF t, w, after

\* s is the list of type t, and what it lists are the members of A of type t.
ListOf(links, A, t, s) == Chained(links, t, s) /\ ToSet(s) = { c \in A : TypeOf[c] = t }

\* What a walk of s that has come to x still has before it.
Ahead(s, x) == { s[j] : j \in { i \in 1..Len(s) : \E k \in 1..i : s[k] = x } }

LEMMA LinkedExactlyLists ==
  ASSUME NEW links, NEW A, LinkedExactly(links, A), NEW t \in Type
  PROVE  IsTypeLinks(links) /\ \E s \in Seq(Component) : ListOf(links, A, t, s)
  BY DEF LinkedExactly, ListOf

\* Without the components D, which were unlinked, the lists are shorter and
\* in the same order.
Shrunk(links, A, after, D) ==
  /\ IsTypeLinks(after)
  /\ \A c \in Component \ (A \ D) : after.prev[c] = NoComponent /\ after.next[c] = NoComponent
  /\ \A t \in Type, s \in Seq(Component) : ListOf(links, A, t, s) =>
       \E r \in Seq(Component) : /\ ListOf(after, A \ D, t, r)
                                 /\ \A x \in ToSet(s) \ D : Ahead(r, x) = Ahead(s, x) \ D

LEMMA ShrunkLinks ==
  ASSUME NEW links, NEW A, LinkedExactly(links, A), NEW after, NEW D,
         Shrunk(links, A, after, D)
  PROVE  LinkedExactly(after, A \ D)
<1>1. \A t \in Type : \E s \in Seq(Component) : ListOf(links, A, t, s)
  BY LinkedExactlyLists
<1>2. \A t \in Type : \E r \in Seq(Component) : ListOf(after, A \ D, t, r)
  BY <1>1 DEF Shrunk
<1> QED
  BY <1>2 DEF Shrunk, LinkedExactly, ListOf

LEMMA ShrunkNot ==
  ASSUME NEW links, NEW A, LinkedExactly(links, A)
  PROVE  Shrunk(links, A, links, {})
<1>1. A \ {} = A
  OBVIOUS
<1>2. \A t \in Type, s \in Seq(Component) : ListOf(links, A, t, s) =>
        \A x \in ToSet(s) \ {} : Ahead(s, x) = Ahead(s, x) \ {}
  OBVIOUS
<1> QED
  BY <1>1, <1>2 DEF Shrunk, LinkedExactly

LEMMA ShrunkTwice ==
  ASSUME NEW links, NEW A, NEW D, NEW E, NEW mid, NEW after,
         Shrunk(links, A, mid, D), Shrunk(mid, A \ D, after, E)
  PROVE  Shrunk(links, A, after, D \cup E)
<1>1. (A \ D) \ E = A \ (D \cup E)
  OBVIOUS
<1>2. ASSUME NEW t \in Type, NEW s \in Seq(Component), ListOf(links, A, t, s)
      PROVE  \E r \in Seq(Component) :
               /\ ListOf(after, A \ (D \cup E), t, r)
               /\ \A x \in ToSet(s) \ (D \cup E) : Ahead(r, x) = Ahead(s, x) \ (D \cup E)
  <2>1. PICK q \in Seq(Component) :
          ListOf(mid, A \ D, t, q) /\ \A x \in ToSet(s) \ D : Ahead(q, x) = Ahead(s, x) \ D
    BY <1>2 DEF Shrunk
  <2>2. PICK r \in Seq(Component) :
          /\ ListOf(after, (A \ D) \ E, t, r)
          /\ \A x \in ToSet(q) \ E : Ahead(r, x) = Ahead(q, x) \ E
    BY <2>1 DEF Shrunk
  <2>3. ASSUME NEW x \in ToSet(s) \ (D \cup E)
        PROVE  Ahead(r, x) = Ahead(s, x) \ (D \cup E)
    <3>1. x \in ToSet(q)
      BY <1>2, <2>1 DEF ListOf
    <3>2. Ahead(r, x) = Ahead(q, x) \ E /\ Ahead(q, x) = Ahead(s, x) \ D
      BY <2>1, <2>2, <2>3, <3>1
    <3> QED
      BY <3>2
  <2> QED
    BY <1>1, <2>2, <2>3
<1> QED
  BY <1>1, <1>2 DEF Shrunk

\* The order of a list without the item at position k.
LEMMA WithoutAhead ==
  ASSUME NEW s \in Seq(Component), IsInjective(s), NEW k \in 1..Len(s),
         NEW x \in ToSet(s), x # s[k]
  PROVE  Ahead(Without(s, k), x) = Ahead(s, x) \ {s[k]}
<1> DEFINE w == Without(s, k)
           Up(j) == IF j < k THEN j ELSE j+1
<1>1. /\ Len(s) \in Nat /\ Len(w) = Len(s) - 1
      /\ \A j \in 1..Len(s)-1 : w[j] = IF j < k THEN s[j] ELSE s[j+1]
      /\ \A i, j \in 1..Len(s) : s[i] = s[j] => i = j
  BY WithoutItems DEF IsInjective
<1> HIDE DEF w
<1>2. PICK m \in 1..Len(s) : s[m] = x /\ m # k
  BY DEF ToSet
<1>3. Ahead(s, x) = { s[j] : j \in m..Len(s) }
  <2>1. { i \in 1..Len(s) : \E h \in 1..i : s[h] = x } = m..Len(s)
    <3>1. \A i \in 1..Len(s) : \A h \in 1..i : h \in 1..Len(s) /\ (s[h] = x <=> h = m)
      BY <1>1, <1>2
    <3>2. \A i \in 1..Len(s) : (\E h \in 1..i : s[h] = x) <=> m <= i
      BY <1>1, <1>2, <3>1
    <3> QED
      BY <1>1, <1>2, <3>2
  <2> QED
    BY <2>1 DEF Ahead
<1>4. \A j \in 1..Len(s)-1 : Up(j) \in 1..Len(s) /\ Up(j) # k /\ w[j] = s[Up(j)]
  BY <1>1
<1>5. \A j \in 1..Len(s) : j # k => \E i \in 1..Len(s)-1 : Up(i) = j
  <2> TAKE j \in 1..Len(s)
  <2> HAVE j # k
  <2>1. CASE j < k
    <3>1. j \in 1..Len(s)-1 /\ Up(j) = j
      BY <1>1, <2>1
    <3> QED
      BY <3>1
  <2>2. CASE j > k
    <3>1. j-1 \in 1..Len(s)-1 /\ Up(j-1) = j
      BY <1>1, <2>2
    <3> QED
      BY <3>1
  <2> QED
    BY <2>1, <2>2
<1>6. \A i, j \in 1..Len(s)-1 : i <= j <=> Up(i) <= Up(j)
  BY <1>1
<1> HIDE DEF Up
<1>7. PICK n \in 1..Len(s)-1 : Up(n) = m
  BY <1>2, <1>5
<1>8. \A i \in 1..Len(s)-1 : (\E h \in 1..i : w[h] = x) <=> m <= Up(i)
  <2> TAKE i \in 1..Len(s)-1
  <2>1. \A h \in 1..i : h \in 1..Len(s)-1 /\ (w[h] = x <=> Up(h) = m)
    BY <1>1, <1>2, <1>4
  <2>2. \A h \in 1..i : Up(h) = m => m <= Up(i)
    BY <1>6, <2>1
  <2>3. m <= Up(i) => n \in 1..i /\ Up(n) = m
    BY <1>6, <1>7
  <2> QED
    BY <2>1, <2>2, <2>3
<1>9. Ahead(w, x) = { w[i] : i \in { i \in 1..Len(s)-1 : m <= Up(i) } }
  BY <1>1, <1>8 DEF Ahead
<1>10. \A y \in Ahead(w, x) : y \in Ahead(s, x) \ {s[k]}
  <2> TAKE y \in Ahead(w, x)
  <2>1. PICK i \in 1..Len(s)-1 : y = w[i] /\ m <= Up(i)
    BY <1>9
  <2>2. Up(i) \in m..Len(s) /\ y = s[Up(i)] /\ Up(i) # k /\ Up(i) \in 1..Len(s)
    BY <1>4, <2>1
  <2> QED
    BY <1>1, <1>3, <2>2
<1>11. \A y \in Ahead(s, x) \ {s[k]} : y \in Ahead(w, x)
  <2> TAKE y \in Ahead(s, x) \ {s[k]}
  <2>1. PICK j \in m..Len(s) : y = s[j]
    BY <1>3
  <2>2. j \in 1..Len(s) /\ j # k
    BY <1>1, <1>2, <2>1
  <2>3. PICK i \in 1..Len(s)-1 : Up(i) = j
    BY <1>5, <2>2
  <2>4. w[i] = y /\ m <= Up(i)
    BY <1>4, <2>1, <2>3
  <2> QED
    BY <1>9, <2>4
<1> QED
  BY <1>10, <1>11 DEF w

\* tc_scene_unregister_component takes a component out of its type's list,
\* and does nothing to one that is in none.
LEMMA UnlinkShrinks ==
  ASSUME NEW links, NEW A, A \subseteq Component, LinkedExactly(links, A), NEW c \in Component
  PROVE  Shrunk(links, A, Unlink(links, c), {c})
<1> DEFINE after == Unlink(links, c)
<1>1. IsTypeLinks(links) /\ TypeOf[c] \in Type /\ NoComponent \notin Component
  BY Constants DEF LinkedExactly
<1>2. PICK q \in Seq(Component) : ListOf(links, A, TypeOf[c], q)
  BY <1>1, LinkedExactlyLists
<1>3. \A d \in Component \ A : links.prev[d] = NoComponent /\ links.next[d] = NoComponent
  BY DEF LinkedExactly
<1>4. CASE c \in A
  <2>1. c \in ToSet(q)
    BY <1>2, <1>4 DEF ListOf
  <2>2. PICK k \in 1..Len(q) : c = q[k]
    BY <2>1 DEF ToSet
  <2>3. Chained(links, TypeOf[c], q)
    BY <1>2 DEF ListOf
  <2> HIDE DEF after
  <2>4. /\ IsTypeLinks(after)
        /\ Chained(after, TypeOf[c], Without(q, k))
        /\ \A t \in Type, r \in Seq(Component) :
             t # TypeOf[c] /\ Chained(links, t, r) => Chained(after, t, r)
        /\ \A d \in Component \ ToSet(q) :
             after.prev[d] = links.prev[d] /\ after.next[d] = links.next[d]
        /\ after.prev[c] = NoComponent /\ after.next[c] = NoComponent
    BY <1>1, <2>2, <2>3, UnlinkChained DEF after
  <2>5. \A d \in Component \ (A \ {c}) : after.prev[d] = NoComponent /\ after.next[d] = NoComponent
    BY <1>2, <1>3, <2>4 DEF ListOf
  <2>6. ASSUME NEW t \in Type, NEW s \in Seq(Component), ListOf(links, A, t, s)
        PROVE  \E r \in Seq(Component) :
                 /\ ListOf(after, A \ {c}, t, r)
                 /\ \A x \in ToSet(s) \ {c} : Ahead(r, x) = Ahead(s, x) \ {c}
    <3>1. CASE t = TypeOf[c]
      <4>1. c \in ToSet(s) /\ IsInjective(s) /\ Chained(links, TypeOf[c], s)
        BY <1>4, <2>6, <3>1 DEF ListOf, Chained
      <4>2. PICK m \in 1..Len(s) : c = s[m]
        BY <4>1 DEF ToSet
      <4>3. Chained(after, TypeOf[c], Without(s, m))
        BY <1>1, <4>1, <4>2, UnlinkChained DEF after
      <4>4. Without(s, m) \in Seq(Component) /\ ToSet(Without(s, m)) = ToSet(s) \ {c}
        BY <4>1, <4>2, WithoutItems
      <4>5. ListOf(after, A \ {c}, t, Without(s, m))
        BY <2>6, <3>1, <4>3, <4>4 DEF ListOf
      <4>6. \A x \in ToSet(s) \ {c} : Ahead(Without(s, m), x) = Ahead(s, x) \ {c}
        BY <4>1, <4>2, WithoutAhead
      <4> QED
        BY <4>4, <4>5, <4>6
    <3>2. CASE t # TypeOf[c]
      <4>1. c \notin ToSet(s)
        BY <2>6, <3>2 DEF ListOf
      <4>2. ListOf(after, A \ {c}, t, s)
        BY <2>4, <2>6, <3>2 DEF ListOf
      <4>3. \A x : Ahead(s, x) = Ahead(s, x) \ {c}
        BY <4>1 DEF Ahead, ToSet
      <4> QED
        BY <4>2, <4>3
    <3> QED
      BY <3>1, <3>2
  <2> QED
    BY <2>4, <2>5, <2>6 DEF Shrunk, after
<1>5. CASE c \notin A
  <2>1. links.prev[c] = NoComponent /\ links.next[c] = NoComponent
    BY <1>3, <1>5
  <2>2. links.head[TypeOf[c]] # c
    <3>1. links.head[TypeOf[c]] = IF q = <<>> THEN NoComponent ELSE q[1]
      BY <1>2 DEF ListOf, Chained
    <3>2. q # <<>> => q[1] \in ToSet(q)
      <4>1. q # <<>> => 1 \in 1..Len(q)
        OBVIOUS
      <4> QED
        BY <4>1 DEF ToSet
    <3>3. c \notin ToSet(q)
      BY <1>2, <1>5 DEF ListOf
    <3> QED
      BY <1>1, <3>1, <3>2, <3>3
  <2> HIDE DEF after
  <2>3. /\ IsTypeLinks(after)
        /\ \A u \in Type : after.head[u] = IF u = TypeOf[c] /\ links.head[TypeOf[c]] = c
                                           THEN links.next[c] ELSE links.head[u]
        /\ \A d \in Component :
             /\ after.prev[d] = IF d = c THEN NoComponent
                                ELSE IF d # links.next[c] THEN links.prev[d]
                                ELSE IF links.head[TypeOf[c]] = c THEN NoComponent
                                ELSE links.prev[c]
             /\ after.next[d] = IF d = c THEN NoComponent
                                ELSE IF d = links.prev[c] /\ links.head[TypeOf[c]] # c
                                THEN links.next[c]
                                ELSE links.next[d]
    BY <1>1, UnlinkFields DEF after
  <2>4. /\ \A u \in Type : after.head[u] = links.head[u]
        /\ \A d \in Component : after.prev[d] = links.prev[d] /\ after.next[d] = links.next[d]
    BY <1>1, <2>1, <2>2, <2>3
  <2>5. \A t \in Type, s \in Seq(Component) : Chained(links, t, s) => Chained(after, t, s)
    <3> TAKE t \in Type, s \in Seq(Component)
    <3>1. \A k \in 1..Len(s) : s[k] \in Component
      OBVIOUS
    <3> QED
      BY <2>4, <3>1 DEF Chained
  <2>6. A \ {c} = A
    BY <1>5
  <2>7. ASSUME NEW t \in Type, NEW s \in Seq(Component), ListOf(links, A, t, s)
        PROVE  /\ ListOf(after, A \ {c}, t, s)
               /\ \A x \in ToSet(s) \ {c} : Ahead(s, x) = Ahead(s, x) \ {c}
    <3>1. c \notin ToSet(s)
      BY <1>5, <2>7 DEF ListOf
    <3>2. \A x : Ahead(s, x) = Ahead(s, x) \ {c}
      BY <3>1 DEF Ahead, ToSet
    <3> QED
      BY <2>5, <2>6, <2>7, <3>2 DEF ListOf
  <2> QED
    BY <1>3, <2>3, <2>4, <2>6, <2>7 DEF Shrunk, after
<1> QED
  BY <1>4, <1>5

\* f[k] is what becomes of the links when the first k items are taken out.
UnlinkSteps(links, items, f) ==
  f = [k \in 0..Len(items) |-> IF k = 0 THEN links ELSE Unlink(f[k-1], items[k])]

LEMMA UnlinksDefined ==
  ASSUME NEW links, NEW items \in Seq(Component)
  PROVE  \E f : UnlinkSteps(links, items, f)
<1> DEFINE N == Len(items)
           Steps(n, f) == f = [k \in 0..n |-> IF k = 0 THEN links ELSE Unlink(f[k-1], items[k])]
           Reached == { n \in 0..N : \E f : Steps(n, f) }
<1>1. N \in Nat
  OBVIOUS
<1>2. 0 \in Reached
  <2>1. Steps(0, [k \in 0..0 |-> links])
    OBVIOUS
  <2>2. 0 \in 0..N
    BY <1>1
  <2> HIDE DEF Steps
  <2> QED
    BY <2>1, <2>2
<1>3. ASSUME NEW n \in 0..N-1, n \in Reached PROVE n+1 \in Reached
  <2>1. PICK f : Steps(n, f)
    BY <1>3
  <2> DEFINE x == Unlink(f[n], items[n+1])
             g == [k \in 0..n+1 |-> IF k = n+1 THEN x ELSE f[k]]
  <2>2. ASSUME NEW k \in 0..n+1
        PROVE  g[k] = IF k = 0 THEN links ELSE Unlink(g[k-1], items[k])
    <3>1. CASE k = n+1
      BY <1>1, <3>1
    <3>2. CASE k # n+1
      <4>1. k \in 0..n /\ (k # 0 => k-1 \in 0..n+1 /\ k-1 # n+1)
        BY <1>1, <3>2
      <4>2. f[k] = IF k = 0 THEN links ELSE Unlink(f[k-1], items[k])
        BY <2>1, <4>1
      <4> QED
        BY <3>2, <4>1, <4>2
    <3> QED
      BY <3>1, <3>2
  <2>3. g = [k \in 0..n+1 |-> g[k]]
    OBVIOUS
  <2> HIDE DEF g
  <2>4. Steps(n+1, g)
    BY <2>2, <2>3
  <2>5. n+1 \in 0..N
    BY <1>1
  <2> HIDE DEF Steps
  <2> QED
    BY <2>4, <2>5
<1>4. N \in Reached
  <2> HIDE DEF Reached
  <2>1. 0..N \subseteq Reached
    BY <1>1, <1>2, <1>3, CountingUp
  <2> QED
    BY <1>1, <2>1
<1> QED
  BY <1>4 DEF UnlinkSteps

\* Taking components out in turn takes out exactly those components.
LEMMA UnlinkedInTurnShrinks ==
  ASSUME NEW links, NEW A, A \subseteq Component, LinkedExactly(links, A),
         NEW items \in Seq(Component)
  PROVE  Shrunk(links, A, UnlinkedInTurn(links, items), ToSet(items))
<1> DEFINE N == Len(items)
           after == CHOOSE f : UnlinkSteps(links, items, f)
           First(n) == { items[k] : k \in 1..n }
           Right == { n \in 0..N : Shrunk(links, A, after[n], First(n)) }
<1>1. UnlinkedInTurn(links, items) = after[N]
  BY Zenon DEF UnlinkedInTurn, UnlinkSteps
<1>2. UnlinkSteps(links, items, after)
  BY UnlinksDefined
<1>3. N \in Nat
  OBVIOUS
<1>4. after[0] = links /\ \A k \in 0..N-1 : after[k+1] = Unlink(after[k], items[k+1])
  <2> HIDE DEF after
  <2>1. after[0] = links
    BY <1>2, <1>3 DEF UnlinkSteps
  <2>2. ASSUME NEW k \in 0..N-1 PROVE after[k+1] = Unlink(after[k], items[k+1])
    <3>1. k+1 \in 0..N /\ k+1 # 0 /\ (k+1)-1 = k
      BY <1>3
    <3> QED
      BY <1>2, <3>1 DEF UnlinkSteps
  <2> QED
    BY <2>1, <2>2
<1> HIDE DEF after
<1>5. 0..N \subseteq Right
  <2>1. 0 \in Right
    <3>1. First(0) = {}
      OBVIOUS
    <3>2. Shrunk(links, A, after[0], First(0))
      BY <1>4, <3>1, ShrunkNot
    <3> HIDE DEF First
    <3> QED
      BY <1>3, <3>2
  <2>2. ASSUME NEW k \in 0..N-1, k \in Right PROVE k+1 \in Right
    <3>1. First(k+1) = First(k) \cup {items[k+1]}
      BY <1>3
    <3>2. items[k+1] \in Component /\ k+1 \in 0..N
      BY <1>3
    <3> HIDE DEF First
    <3>3. Shrunk(links, A, after[k], First(k))
      BY <2>2
    <3>4. LinkedExactly(after[k], A \ First(k))
      BY <3>3, ShrunkLinks
    <3>5. Shrunk(after[k], A \ First(k), after[k+1], {items[k+1]})
      BY <1>4, <3>2, <3>4, UnlinkShrinks
    <3>6. Shrunk(links, A, after[k+1], First(k) \cup {items[k+1]})
      BY <3>3, <3>5, ShrunkTwice
    <3> QED
      BY <3>1, <3>2, <3>6
  <2> HIDE DEF Right
  <2> QED
    BY <1>3, <2>1, <2>2, CountingUp
<1>6. First(N) = ToSet(items) /\ N \in 0..N
  BY <1>3 DEF ToSet
<1> HIDE DEF First
<1>7. Shrunk(links, A, after[N], First(N))
  BY <1>5, <1>6
<1> QED
  BY <1>1, <1>6, <1>7

\* With the components B linked, the lists go on as they did from every
\* component that was in one.
Grown(links, A, after, B) ==
  \A t \in Type, s \in Seq(Component) : ListOf(links, A, t, s) =>
    \E r \in Seq(Component) : /\ ListOf(after, B, t, r)
                              /\ \A x \in ToSet(s) : Ahead(r, x) = Ahead(s, x)

\* tc_scene_register_component puts a component into its type's list, ahead
\* of the others.
LEMMA LinkGrows ==
  ASSUME NEW links, NEW A, A \subseteq Component, LinkedExactly(links, A),
         NEW c \in Component, c \notin A
  PROVE  /\ LinkedExactly(Link(links, c), A \cup {c})
         /\ Grown(links, A, Link(links, c), A \cup {c})
<1> DEFINE after == Link(links, c)
<1>1. IsTypeLinks(links) /\ TypeOf[c] \in Type
  BY Constants DEF LinkedExactly
<1>2. \A d \in Component \ A : links.prev[d] = NoComponent /\ links.next[d] = NoComponent
  BY DEF LinkedExactly
<1>3. PICK q \in Seq(Component) : ListOf(links, A, TypeOf[c], q)
  BY <1>1, LinkedExactlyLists
<1>4. ASSUME NEW s, Chained(links, TypeOf[c], s), c \notin ToSet(s)
      PROVE  /\ IsTypeLinks(after)
             /\ Chained(after, TypeOf[c], <<c>> \o s)
             /\ ToSet(<<c>> \o s) = ToSet(s) \cup {c}
             /\ \A t \in Type, r \in Seq(Component) :
                  t # TypeOf[c] /\ Chained(links, t, r) /\ c \notin ToSet(r) => Chained(after, t, r)
             /\ \A d \in Component \ (ToSet(s) \cup {c}) :
                  after.prev[d] = links.prev[d] /\ after.next[d] = links.next[d]
  BY <1>1, <1>2, <1>4, LinkChained
<1> HIDE DEF after
<1>5. Chained(links, TypeOf[c], q) /\ c \notin ToSet(q) /\ ToSet(q) \subseteq A
  BY <1>3 DEF ListOf
<1>6. /\ IsTypeLinks(after)
      /\ \A t \in Type, r \in Seq(Component) :
           t # TypeOf[c] /\ Chained(links, t, r) /\ c \notin ToSet(r) => Chained(after, t, r)
      /\ \A d \in Component \ (ToSet(q) \cup {c}) :
           after.prev[d] = links.prev[d] /\ after.next[d] = links.next[d]
  BY <1>4, <1>5
<1>7. \A d \in Component \ (A \cup {c}) : after.prev[d] = NoComponent /\ after.next[d] = NoComponent
  BY <1>2, <1>5, <1>6
<1>8. ASSUME NEW t \in Type, NEW s \in Seq(Component), ListOf(links, A, t, s)
      PROVE  \E r \in Seq(Component) : /\ ListOf(after, A \cup {c}, t, r)
                                       /\ \A x \in ToSet(s) : Ahead(r, x) = Ahead(s, x)
  <2>1. Chained(links, t, s) /\ ToSet(s) = { d \in A : TypeOf[d] = t } /\ c \notin ToSet(s)
    BY <1>8 DEF ListOf
  <2>2. CASE t = TypeOf[c]
    <3> DEFINE r == <<c>> \o s
    <3>1. Chained(after, t, r) /\ ToSet(r) = ToSet(s) \cup {c}
      BY <1>4, <2>1, <2>2
    <3>2. ListOf(after, A \cup {c}, t, r)
      BY <2>1, <2>2, <3>1 DEF ListOf
    <3>3. r \in Seq(Component) /\ Len(r) = Len(s)+1 /\ r[1] = c
          /\ \A k \in 1..Len(s) : r[k+1] = s[k]
      OBVIOUS
    <3> HIDE DEF r
    <3>4. ASSUME NEW x \in ToSet(s) PROVE Ahead(r, x) = Ahead(s, x)
      <4>1. x # c /\ Len(s) \in Nat
        BY <2>1
      <4>2. \A i \in 1..Len(s) : (\E k \in 1..i+1 : r[k] = x) <=> (\E k \in 1..i : s[k] = x)
        <5> TAKE i \in 1..Len(s)
        <5>1. ASSUME NEW k \in 1..i+1, r[k] = x PROVE \E m \in 1..i : s[m] = x
          <6>1. k # 1
            BY <3>3, <4>1, <5>1
          <6>2. k-1 \in 1..i /\ k-1 \in 1..Len(s) /\ (k-1)+1 = k
            BY <4>1, <6>1
          <6>3. s[k-1] = x
            BY <3>3, <5>1, <6>2
          <6> QED
            BY <6>2, <6>3
        <5>2. ASSUME NEW k \in 1..i, s[k] = x PROVE \E m \in 1..i+1 : r[m] = x
          <6>1. k \in 1..Len(s) /\ k+1 \in 1..i+1
            BY <4>1
          <6>2. r[k+1] = x
            BY <3>3, <5>2, <6>1
          <6> QED
            BY <6>1, <6>2
        <5> QED
          BY <5>1, <5>2
      <4>3. \A y \in Ahead(r, x) : y \in Ahead(s, x)
        <5> TAKE y \in Ahead(r, x)
        <5>1. PICK j \in 1..Len(r) : y = r[j] /\ \E k \in 1..j : r[k] = x
          BY DEF Ahead
        <5>2. j # 1
          BY <3>3, <4>1, <5>1
        <5>3. j-1 \in 1..Len(s) /\ (j-1)+1 = j
          BY <3>3, <4>1, <5>2
        <5>4. y = s[j-1] /\ \E k \in 1..j-1 : s[k] = x
          BY <3>3, <4>2, <5>1, <5>3
        <5> QED
          BY <5>3, <5>4 DEF Ahead
      <4>4. \A y \in Ahead(s, x) : y \in Ahead(r, x)
        <5> TAKE y \in Ahead(s, x)
        <5>1. PICK j \in 1..Len(s) : y = s[j] /\ \E k \in 1..j : s[k] = x
          BY DEF Ahead
        <5>2. j+1 \in 1..Len(r) /\ y = r[j+1]
          BY <3>3, <4>1, <5>1
        <5>3. \E k \in 1..j+1 : r[k] = x
          BY <4>2, <5>1
        <5> QED
          BY <5>2, <5>3 DEF Ahead
      <4> QED
        BY <4>3, <4>4
    <3> QED
      BY <3>2, <3>3, <3>4
  <2>3. CASE t # TypeOf[c]
    <3>1. ListOf(after, A \cup {c}, t, s)
      BY <1>6, <2>1, <2>3 DEF ListOf
    <3> QED
      BY <3>1
  <2> QED
    BY <2>2, <2>3
<1>9. LinkedExactly(after, A \cup {c})
  <2>1. \A t \in Type : \E s \in Seq(Component) : ListOf(links, A, t, s)
    BY LinkedExactlyLists
  <2>2. \A t \in Type : \E r \in Seq(Component) : ListOf(after, A \cup {c}, t, r)
    BY <1>8, <2>1
  <2> QED
    BY <1>6, <1>7, <2>2 DEF LinkedExactly, ListOf
<1> QED
  BY <1>8, <1>9 DEF Grown, after

\* f[n] is the component n links after the head of the list of type t.
NthSteps(links, t, f) ==
  f = [n \in 0..Cardinality(Component) |->
         IF n = 0 THEN links.head[t]
         ELSE IF f[n-1] = NoComponent THEN NoComponent
         ELSE links.next[f[n-1]]]

\* Following the links of a list meets its components in turn, and nothing
\* after the last.
LEMMA NthOfList ==
  ASSUME NEW t \in Type, NEW s, Chained(type_links, t, s)
  PROVE  /\ Len(s) \in 0..Cardinality(Component)
         /\ Cardinality(ToSet(s)) = Len(s)
         /\ \A n \in 0..Len(s)-1 : Nth(t)[n] = s[n+1]
         /\ Nth(t)[Len(s)] = NoComponent
<1> DEFINE N == Cardinality(Component)
           nth == CHOOSE f : NthSteps(type_links, t, f)
           Met(n) == IF n < Len(s) THEN s[n+1] ELSE NoComponent
<1>1. /\ s \in Seq(Component) /\ IsInjective(s) /\ Len(s) \in Nat
      /\ type_links.head[t] = IF s = <<>> THEN NoComponent ELSE s[1]
      /\ \A k \in 1..Len(s) : s[k] \in Component /\ type_links.next[s[k]] = NextIn(s, k)
      /\ NoComponent \notin Component
  BY Constants DEF Chained
<1>2. Cardinality(ToSet(s)) = Len(s) /\ IsFiniteSet(ToSet(s))
  <2>1. s \in Bijection(1..Len(s), ToSet(s))
    BY <1>1 DEF Bijection, Injection, Surjection, IsInjective, ToSet
  <2>2. IsFiniteSet(1..Len(s)) /\ Cardinality(1..Len(s)) = Len(s)
    <3>1. 1 \in Int /\ Len(s) \in Int
      BY <1>1
    <3> QED
      BY <1>1, <3>1, FS_Interval
  <2> QED
    BY <2>1, <2>2, FS_Bijection DEF ExistsBijection
<1>3. Len(s) \in 0..N
  <2>1. ToSet(s) \subseteq Component
    BY <1>1 DEF ToSet
  <2>2. Cardinality(ToSet(s)) <= N /\ N \in Nat
    BY <2>1, Constants, FS_Subset, FS_CardinalityType
  <2> QED
    BY <1>1, <1>2, <2>2
<1>4. Nth(t) = nth
  BY Zenon DEF Nth, NthSteps
<1>5. N \in Nat
  BY Constants, FS_CardinalityType
<1> HIDE DEF N
<1>6. /\ Met(0) = type_links.head[t]
      /\ \A n \in 0..N-1 : Met(n+1) = IF Met(n) = NoComponent THEN NoComponent
                                      ELSE type_links.next[Met(n)]
  <2>1. Met(0) = type_links.head[t]
    <3>1. s # <<>> => Len(s) # 0
      BY <1>1
    <3> QED
      BY <1>1, <3>1
  <2>2. ASSUME NEW n \in 0..N-1
        PROVE  Met(n+1) = IF Met(n) = NoComponent THEN NoComponent ELSE type_links.next[Met(n)]
    <3>1. CASE n < Len(s)
      <4>1. n+1 \in 1..Len(s) /\ Met(n) = s[n+1]
        BY <1>1, <1>5, <3>1
      <4>2. Met(n) # NoComponent /\ type_links.next[Met(n)] = NextIn(s, n+1)
        BY <1>1, <4>1
      <4>3. NextIn(s, n+1) = Met(n+1)
        BY <1>1, <3>1 DEF NextIn
      <4> QED
        BY <4>2, <4>3
    <3>2. CASE ~(n < Len(s))
      BY <1>1, <1>5, <3>2
    <3> QED
      BY <3>1, <3>2
  <2> QED
    BY <2>1, <2>2
<1> HIDE DEF Met
<1>7. NthSteps(type_links, t, nth)
  <2> DEFINE f == [n \in 0..N |-> Met(n)]
  <2>1. ASSUME NEW n \in 0..N
        PROVE  f[n] = IF n = 0 THEN type_links.head[t]
                      ELSE IF f[n-1] = NoComponent THEN NoComponent
                      ELSE type_links.next[f[n-1]]
    <3>1. CASE n = 0
      BY <1>6, <3>1
    <3>2. CASE n # 0
      <4>1. n-1 \in 0..N-1 /\ n-1 \in 0..N /\ (n-1)+1 = n
        BY <1>5, <3>2
      <4>2. f[n] = Met((n-1)+1) /\ f[n-1] = Met(n-1)
        BY <4>1
      <4> QED
        BY <1>6, <3>2, <4>1, <4>2
    <3> QED
      BY <3>1, <3>2
  <2>2. f = [n \in 0..N |-> f[n]]
    OBVIOUS
  <2> HIDE DEF f
  <2>3. NthSteps(type_links, t, f)
    BY <2>1, <2>2 DEF NthSteps, N
  <2> QED
    BY <2>3
<1> HIDE DEF nth
<1>8. /\ nth[0] = type_links.head[t]
      /\ \A n \in 0..N-1 : nth[n+1] = IF nth[n] = NoComponent THEN NoComponent
                                      ELSE type_links.next[nth[n]]
  <2>1. nth[0] = type_links.head[t]
    BY <1>5, <1>7 DEF NthSteps, N
  <2>2. ASSUME NEW n \in 0..N-1
        PROVE  nth[n+1] = IF nth[n] = NoComponent THEN NoComponent ELSE type_links.next[nth[n]]
    <3>1. n+1 \in 0..N /\ n+1 # 0 /\ (n+1)-1 = n
      BY <1>5
    <3> QED
      BY <1>7, <3>1 DEF NthSteps, N
  <2> QED
    BY <2>1, <2>2
<1>9. \A n \in 0..N : nth[n] = Met(n)
  <2> DEFINE Right == { n \in 0..N : nth[n] = Met(n) }
  <2>1. 0 \in Right
    BY <1>5, <1>6, <1>8
  <2>2. ASSUME NEW k \in 0..N-1, k \in Right PROVE k+1 \in Right
    BY <1>5, <1>6, <1>8, <2>2
  <2>3. 0..N \subseteq Right
    <3> HIDE DEF Right
    <3> QED
      BY <1>5, <2>1, <2>2, CountingUp
  <2> QED
    BY <2>3
<1>10. \A n \in 0..Len(s)-1 : n \in 0..N /\ Met(n) = s[n+1]
  BY <1>1, <1>3, <1>5 DEF Met
<1>11. Met(Len(s)) = NoComponent
  BY <1>1 DEF Met
<1> QED
  BY <1>2, <1>3, <1>4, <1>9, <1>10, <1>11 DEF N

\* Lists that are linked exactly are what TypeListsExact says of them.
LEMMA LinkedExactlySuffices ==
  LinkedExactly(type_links, Attached) => TypeListsExact
<1> SUFFICES ASSUME LinkedExactly(type_links, Attached) PROVE TypeListsExact
  OBVIOUS
<1>1. ASSUME NEW t \in Type
      PROVE  LET size == Cardinality(OfType(t))
             IN  /\ { Nth(t)[n] : n \in 0..size-1 } = OfType(t)
                 /\ Nth(t)[size] = NoComponent
  <2>1. PICK s \in Seq(Component) : ListOf(type_links, Attached, t, s)
    BY LinkedExactlyLists
  <2>2. Chained(type_links, t, s) /\ OfType(t) = ToSet(s)
    BY <2>1 DEF ListOf, OfType
  <2>3. /\ Cardinality(OfType(t)) = Len(s) /\ Len(s) \in Nat
        /\ \A n \in 0..Len(s)-1 : Nth(t)[n] = s[n+1]
        /\ Nth(t)[Len(s)] = NoComponent
    BY <2>2, NthOfList
  <2>4. \A x : x \in { Nth(t)[n] : n \in 0..Len(s)-1 } <=> x \in ToSet(s)
    <3> TAKE x
    <3>1. ASSUME NEW n \in 0..Len(s)-1, x = Nth(t)[n] PROVE x \in ToSet(s)
      <4>1. n+1 \in 1..Len(s) /\ x = s[n+1]
        BY <2>3, <3>1
      <4> QED
        BY <4>1 DEF ToSet
    <3>2. ASSUME NEW k \in 1..Len(s), x = s[k] PROVE \E n \in 0..Len(s)-1 : x = Nth(t)[n]
      <4>1. k-1 \in 0..Len(s)-1 /\ (k-1)+1 = k
        BY <2>3
      <4>2. Nth(t)[k-1] = s[k]
        BY <2>3, <4>1
      <4> QED
        BY <3>2, <4>1, <4>2
    <3> QED
      BY <3>1, <3>2 DEF ToSet
  <2> QED
    BY <2>2, <2>3, <2>4
<1>2. ASSUME NEW c \in Component, NEW d \in Component
      PROVE  type_links.next[c] = d <=> type_links.prev[d] = c
  <2>1. NoComponent \notin Component /\ TypeOf[c] \in Type /\ TypeOf[d] \in Type
    BY Constants
  <2>2. \A x \in Component \ Attached :
          type_links.prev[x] = NoComponent /\ type_links.next[x] = NoComponent
    BY DEF LinkedExactly
  <2>3. ASSUME NEW x \in Attached, x \in Component
        PROVE  \E s \in Seq(Component) : \E k \in 1..Len(s) :
                 Chained(type_links, TypeOf[x], s) /\ s[k] = x
    <3>1. TypeOf[x] \in Type
      BY <2>3, Constants
    <3>2. PICK s \in Seq(Component) : ListOf(type_links, Attached, TypeOf[x], s)
      BY <3>1, LinkedExactlyLists
    <3>3. x \in ToSet(s)
      BY <3>2 DEF ListOf
    <3> QED
      BY <3>2, <3>3 DEF ListOf, ToSet
  <2>4. ASSUME type_links.next[c] = d PROVE type_links.prev[d] = c
    <3>1. c \in Attached
      BY <2>1, <2>2, <2>4
    <3>2. PICK s \in Seq(Component) : \E k \in 1..Len(s) :
            Chained(type_links, TypeOf[c], s) /\ s[k] = c
      BY <2>3, <3>1
    <3>3. PICK k \in 1..Len(s) : Chained(type_links, TypeOf[c], s) /\ s[k] = c
      BY <3>2
    <3>4. NextIn(s, k) = d
      BY <2>4, <3>3 DEF Chained
    <3>5. k+1 \in 1..Len(s) /\ s[k+1] = d /\ (k+1)-1 = k /\ k+1 # 1
      BY <2>1, <3>4 DEF NextIn
    <3> QED
      BY <3>3, <3>5 DEF Chained, PrevIn
  <2>5. ASSUME type_links.prev[d] = c PROVE type_links.next[c] = d
    <3>1. d \in Attached
      BY <2>1, <2>2, <2>5
    <3>2. PICK s \in Seq(Component) : \E k \in 1..Len(s) :
            Chained(type_links, TypeOf[d], s) /\ s[k] = d
      BY <2>3, <3>1
    <3>3. PICK k \in 1..Len(s) : Chained(type_links, TypeOf[d], s) /\ s[k] = d
      BY <3>2
    <3>4. PrevIn(s, k) = c
      BY <2>5, <3>3 DEF Chained
    <3>5. k-1 \in 1..Len(s) /\ s[k-1] = c /\ (k-1)+1 = k /\ k-1 # Len(s)
      BY <2>1, <3>4 DEF PrevIn
    <3> QED
      BY <3>3, <3>5 DEF Chained, NextIn
  <2> QED
    BY <2>4, <2>5
<1>3. \A c \in Component \ Attached :
        type_links.prev[c] = NoComponent /\ type_links.next[c] = NoComponent
  BY DEF LinkedExactly
<1> QED
  BY <1>1, <1>2, <1>3 DEF TypeListsExact
-----------------------------------------------------------------------------
(* The operations on a scene                                                *)

LinksInv == LinkedExactly(type_links, Attached)

\* What holds of the entities' components and of the scene's lists together.
RegistryInv == TypeInv /\ OwnersInv /\ ListsExact /\ LinksInv

LEMMA EmptyListsExact ==
  /\ Lists(<<>>, {})
  /\ LinkedExactly([head |-> [t \in Type |-> NoComponent],
                    prev |-> [c \in Component |-> NoComponent],
                    next |-> [c \in Component |-> NoComponent]], {})
<1> DEFINE links == [head |-> [t \in Type |-> NoComponent],
                     prev |-> [c \in Component |-> NoComponent],
                     next |-> [c \in Component |-> NoComponent]]
<1>1. Lists(<<>>, {})
  BY DEF Lists, IsInjective, ToSet
<1>2. IsTypeLinks(links)
  BY DEF IsTypeLinks, MaybeComponent
<1>3. ASSUME NEW t \in Type
      PROVE  Chained(links, t, <<>>) /\ ToSet(<<>>) = { c \in {} : TypeOf[c] = t }
  BY DEF Chained, IsInjective, ToSet
<1>4. <<>> \in Seq(Component)
  OBVIOUS
<1>5. \A c \in Component \ {} : links.prev[c] = NoComponent /\ links.next[c] = NoComponent
  OBVIOUS
<1> HIDE DEF links
<1>6. LinkedExactly(links, {})
  BY <1>2, <1>3, <1>4, <1>5 DEF LinkedExactly
<1> QED
  BY <1>1, <1>6 DEF links

LEMMA RegistryInitInv == RegistryInit => RegistryInv
<1> SUFFICES ASSUME RegistryInit PROVE RegistryInv
  OBVIOUS
<1>1. TypeInv /\ OwnersInv /\ Attached = {}
  BY RegistryInitOwners
<1>2. ListsExact
  <2>1. /\ pending_start = <<>> /\ update_list = <<>> /\ fixed_update_list = <<>>
        /\ before_render_list = <<>>
    BY DEF RegistryInit
  <2>2. { c \in Attached : ~started[c] } = {} /\ Attached \cap HasUpdate = {}
        /\ Attached \cap HasFixedUpdate = {} /\ Attached \cap HasBeforeRender = {}
    BY <1>1
  <2> QED
    BY <2>1, <2>2, EmptyListsExact DEF ListsExact
<1>3. LinksInv
  BY <1>1, EmptyListsExact DEF RegistryInit, LinksInv
<1> QED
  BY <1>1, <1>2, <1>3 DEF RegistryInv

LEMMA AllocInv ==
  ASSUME RegistryInv, NEW e \in Entity, AllocEntity(e)
  PROVE  RegistryInv' /\ Attached' = Attached
<1>1. TypeInv' /\ OwnersInv' /\ Attached' = Attached
  BY AllocOwners DEF RegistryInv
<1>2. /\ pending_start' = pending_start /\ update_list' = update_list
      /\ fixed_update_list' = fixed_update_list /\ before_render_list' = before_render_list
      /\ type_links' = type_links /\ started' = started
  BY DEF AllocEntity, listVars
<1>3. ListsExact'
  BY <1>1, <1>2 DEF RegistryInv, ListsExact
<1>4. LinksInv'
  BY <1>1, <1>2 DEF RegistryInv, LinksInv
<1> QED
  BY <1>1, <1>3, <1>4 DEF RegistryInv

\* tc_entity_pool_add_component
LEMMA AddInv ==
  ASSUME RegistryInv, NEW e \in Entity, NEW c \in Component, AddComponent(e, c)
  PROVE  /\ RegistryInv' /\ Attached' = Attached \cup {c} /\ c \notin Attached
         /\ Grown(type_links, Attached, type_links', Attached')
<1>1. /\ TypeInv /\ OwnersInv /\ ListsExact /\ LinkedExactly(type_links, Attached)
      /\ Attached \subseteq Component
  BY DEF RegistryInv, LinksInv, Attached
<1>2. /\ OwnersInv' /\ Attached' = Attached \cup {c} /\ c \notin Attached
      /\ alive' = alive
      /\ components' \in [Entity -> Seq(Component)]
      /\ owner' \in [Component -> Entity \cup {NoOwner, DeadOwner}]
  BY <1>1, AddOwners
<1>3. Register(c) /\ started' = started
  BY DEF AddComponent
<1>4. /\ ListsExact'
      /\ pending_start' \in Seq(Component) /\ update_list' \in Seq(Component)
      /\ fixed_update_list' \in Seq(Component) /\ before_render_list' \in Seq(Component)
  BY <1>1, <1>2, <1>3, RegisterLists
<1>5. TypeInv'
  BY <1>1, <1>2, <1>3, <1>4 DEF TypeInv
<1>6. type_links' = Link(type_links, c)
  BY <1>3 DEF Register
<1>7. /\ LinkedExactly(type_links', Attached')
      /\ Grown(type_links, Attached, type_links', Attached')
  BY <1>1, <1>2, <1>6, LinkGrows
<1>8. LinksInv'
  BY <1>7 DEF LinksInv
<1> QED
  BY <1>2, <1>4, <1>5, <1>7, <1>8 DEF RegistryInv

\* The lists after components were unregistered that are attached no more.
LEMMA UnregisterInv ==
  ASSUME TypeInv, ListsExact, LinksInv, NEW arr \in Seq(Component), UnregisterAll(arr),
         Attached' = Attached \ ToSet(arr), started' = started, alive' \subseteq Entity,
         components' \in [Entity -> Seq(Component)],
         owner' \in [Component -> Entity \cup {NoOwner, DeadOwner}]
  PROVE  /\ TypeInv' /\ ListsExact' /\ LinksInv'
         /\ Shrunk(type_links, Attached, type_links', ToSet(arr))
<1>1. LinkedExactly(type_links, Attached) /\ Attached \subseteq Component
  BY DEF LinksInv, Attached
<1>2. /\ ListsExact'
      /\ pending_start' \in Seq(Component) /\ update_list' \in Seq(Component)
      /\ fixed_update_list' \in Seq(Component) /\ before_render_list' \in Seq(Component)
  BY UnregisterLists
<1>3. TypeInv'
  BY <1>2 DEF TypeInv
<1>4. type_links' = UnlinkedInTurn(type_links, arr)
  BY DEF UnregisterAll
<1>5. Shrunk(type_links, Attached, type_links', ToSet(arr))
  BY <1>1, <1>4, UnlinkedInTurnShrinks
<1>6. LinkedExactly(type_links', Attached')
  BY <1>1, <1>5, ShrunkLinks
<1>7. LinksInv'
  BY <1>6 DEF LinksInv
<1> QED
  BY <1>2, <1>3, <1>5, <1>7

\* tc_entity_pool_remove_component
LEMMA RemoveInv ==
  ASSUME RegistryInv, NEW e \in Entity, NEW c \in Component, RemoveComponent(e, c)
  PROVE  /\ RegistryInv' /\ Attached' = Attached \ {c} /\ c \in Attached
         /\ Shrunk(type_links, Attached, type_links', {c})
<1>1. TypeInv /\ OwnersInv /\ ListsExact /\ LinksInv
  BY DEF RegistryInv
<1>2. /\ OwnersInv' /\ Attached' = Attached \ {c} /\ c \in Attached
      /\ alive' = alive
      /\ components' \in [Entity -> Seq(Component)]
      /\ owner' \in [Component -> Entity \cup {NoOwner, DeadOwner}]
  BY <1>1, RemoveOwners
<1>3. <<c>> \in Seq(Component) /\ ToSet(<<c>>) = {c}
  BY DEF ToSet
<1>4. UnregisterAll(<<c>>) /\ started' = started /\ alive' \subseteq Entity
  BY <1>1, <1>2 DEF RemoveComponent, TypeInv
<1> DEFINE arr == <<c>>
<1>5. /\ arr \in Seq(Component) /\ UnregisterAll(arr) /\ Attached' = Attached \ ToSet(arr)
  BY <1>2, <1>3, <1>4
<1> HIDE DEF arr
<1>6. /\ TypeInv' /\ ListsExact' /\ LinksInv'
      /\ Shrunk(type_links, Attached, type_links', ToSet(arr))
  BY <1>1, <1>2, <1>4, <1>5, UnregisterInv
<1> QED
  BY <1>2, <1>3, <1>6 DEF RegistryInv, arr

\* tc_entity_pool_free
LEMMA FreeInv ==
  ASSUME RegistryInv, NEW e \in Entity, FreeEntity(e)
  PROVE  /\ RegistryInv' /\ Attached' = Attached \ ToSet(components[e])
         /\ Shrunk(type_links, Attached, type_links', ToSet(components[e]))
         /\ ToSet(components[e]) \subseteq Attached
<1>1. TypeInv /\ OwnersInv /\ ListsExact /\ LinksInv /\ e \in alive
  BY DEF RegistryInv, FreeEntity
<1>2. /\ OwnersInv' /\ Attached' = Attached \ ToSet(components[e])
      /\ alive' = alive \ {e}
      /\ components' \in [Entity -> Seq(Component)]
      /\ owner' \in [Component -> Entity \cup {NoOwner, DeadOwner}]
  BY <1>1, FreeOwners
<1>3. components[e] \in Seq(Component) /\ ToSet(components[e]) \subseteq Attached
  BY <1>1, ItemsAreAttached
<1> DEFINE arr == RemovalOrder(components[e])
<1>4. /\ arr \in Seq(Component) /\ ToSet(arr) = ToSet(components[e])
      /\ UnregisterAll(arr) /\ Attached' = Attached \ ToSet(arr)
      /\ started' = started /\ alive' \subseteq Entity
  BY <1>1, <1>2, <1>3, RemovalOrderItems DEF FreeEntity, TypeInv
<1> HIDE DEF arr
<1>5. /\ TypeInv' /\ ListsExact' /\ LinksInv'
      /\ Shrunk(type_links, Attached, type_links', ToSet(arr))
  BY <1>1, <1>2, <1>4, UnregisterInv
<1> QED
  BY <1>2, <1>3, <1>4, <1>5 DEF RegistryInv
------------------------------------------------------------------------------
(* The life of components and the walks of type lists: ComponentLifetime   *)

lifetimeVars == <<registryVars, started, lifeVars, walk>>

LifeTypeInv ==
  /\ exists \subseteq Component
  /\ refs \in [Component -> Int]
  /\ factory_retained \in [Component -> BOOLEAN]
  /\ host \in [Component -> Nat]
  /\ walk \in [cursor : MaybeComponent, running : BOOLEAN,
               met : Seq(Component), unvisited : SUBSET Component]

\* RefsExact, and what it takes: only an existing component is held, and the
\* factory's reference is gone when an entity has the component.
HoldInv ==
  /\ Attached \subseteq exists
  /\ \A c \in Component \ exists : host[c] = 0
  /\ \A c \in Attached : factory_retained[c] = FALSE
  /\ RefsExact

\* A walk at c owes calls only to components after c in its list, and has
\* called none of these.
OnTheWay(links, A, c, seen, unvisited) ==
  \E s \in Seq(Component) : /\ ListOf(links, A, TypeOf[c], s) /\ c \in ToSet(s)
                            /\ unvisited \subseteq Ahead(s, c)
                            /\ Ahead(s, c) \cap ToSet(seen) = {}

WalkInv ==
  /\ IsInjective(walk.met)
  /\ walk.unvisited \cap Disabled = {}
  /\ walk.running = FALSE => walk.cursor = NoComponent
  /\ walk.cursor = NoComponent => walk.unvisited = {}
  /\ walk.cursor # NoComponent =>
       OnTheWay(type_links, Attached, walk.cursor, walk.met, walk.unvisited)

LifetimeInv == RegistryInv /\ LifeTypeInv /\ HoldInv /\ WalkInv
-----------------------------------------------------------------------------
(* The references                                                           *)

\* RefsExact of one component.
LEMMA RefsOf ==
  ASSUME RefsExact, NEW c \in exists
  PROVE  refs[c] = host[c] + (IF c \in Attached THEN 1 ELSE 0)
                           + (IF factory_retained[c] THEN 1 ELSE 0)
  BY DEF RefsExact, Holds

LEMMA MakeRegistry ==
  ASSUME LifetimeInv, NEW c \in Component, c \notin exists,
         owner' = [owner EXCEPT ![c] = NoOwner],
         UNCHANGED <<alive, components, listVars, type_links, started, walk>>
  PROVE  RegistryInv' /\ Attached' = Attached /\ WalkInv' /\ c \notin Attached
<1>1. TypeInv /\ OwnersInv /\ ListsExact /\ LinksInv /\ WalkInv
  BY DEF LifetimeInv, RegistryInv
<1>2. /\ alive' = alive /\ components' = components /\ started' = started
      /\ pending_start' = pending_start /\ update_list' = update_list
      /\ fixed_update_list' = fixed_update_list /\ before_render_list' = before_render_list
      /\ type_links' = type_links /\ walk' = walk
  BY DEF listVars
<1>3. Attached' = Attached /\ c \notin Attached
  BY <1>2 DEF Attached, LifetimeInv, HoldInv
<1>4. /\ owner' \in [Component -> Entity \cup {NoOwner, DeadOwner}]
      /\ owner'[c] = NoOwner /\ \A d \in Component : d # c => owner'[d] = owner[d]
  BY <1>1 DEF TypeInv
<1>5. TypeInv'
  BY <1>1, <1>2, <1>4 DEF TypeInv
<1>6. OwnersInv'
  <2>1. \A e \in alive : ~Contains(components[e], c)
    BY <1>3 DEF Attached
  <2>2. \A e \in Entity, d \in Component :
          owner'[d] = e <=> e \in alive /\ Contains(components[e], d)
    <3> TAKE e \in Entity, d \in Component
    <3>1. owner[d] = e <=> e \in alive /\ Contains(components[e], d)
      BY <1>1 DEF OwnersInv, OwnersAgree
    <3> QED
      BY <1>4, <2>1, <3>1, Constants
  <2> QED
    BY <1>1, <1>2, <2>2 DEF OwnersInv, OwnersAgree
<1>7. ListsExact'
  BY <1>1, <1>2, <1>3 DEF ListsExact
<1>8. LinksInv'
  BY <1>1, <1>2, <1>3 DEF LinksInv
<1>9. WalkInv'
  BY <1>1, <1>2, <1>3 DEF WalkInv
<1> QED
  BY <1>3, <1>5, <1>6, <1>7, <1>8, <1>9 DEF RegistryInv

\* Steps that leave the scene and the walk alone.
LEMMA SceneKept ==
  ASSUME LifetimeInv, UNCHANGED <<registryVars, started>>
  PROVE  RegistryInv' /\ Attached' = Attached /\ (walk' = walk => WalkInv')
<1>1. /\ alive' = alive /\ components' = components /\ owner' = owner /\ started' = started
      /\ pending_start' = pending_start /\ update_list' = update_list
      /\ fixed_update_list' = fixed_update_list /\ before_render_list' = before_render_list
      /\ type_links' = type_links
  BY DEF registryVars, listVars
<1>2. Attached' = Attached
  BY <1>1 DEF Attached
<1>3. TypeInv' /\ OwnersInv' /\ ListsExact'
  BY <1>1, <1>2 DEF LifetimeInv, RegistryInv, TypeInv, OwnersInv, OwnersAgree, ListsExact
<1>4. LinksInv'
  BY <1>1, <1>2 DEF LifetimeInv, RegistryInv, LinksInv
<1>5. walk' = walk => WalkInv'
  BY <1>1, <1>2 DEF LifetimeInv, WalkInv
<1> QED
  BY <1>2, <1>3, <1>4, <1>5 DEF RegistryInv

LEMMA LifetimeInitInv == LifetimeInit => LifetimeInv
<1> SUFFICES ASSUME LifetimeInit PROVE LifetimeInv
  OBVIOUS
<1>1. RegistryInv /\ Attached = {}
  BY RegistryInitInv, RegistryInitOwners DEF LifetimeInit
<1>2. /\ exists = {} /\ refs = [c \in Component |-> 0]
      /\ factory_retained = [c \in Component |-> FALSE] /\ host = [c \in Component |-> 0]
      /\ walk = [cursor |-> NoComponent, running |-> FALSE, met |-> <<>>, unvisited |-> {}]
  BY DEF LifetimeInit, NoWalk
<1>3. LifeTypeInv
  BY <1>2 DEF LifeTypeInv, MaybeComponent
<1>4. HoldInv
  BY <1>1, <1>2 DEF HoldInv, RefsExact
<1>5. WalkInv
  BY <1>2 DEF WalkInv, IsInjective
<1> QED
  BY <1>1, <1>3, <1>4, <1>5 DEF LifetimeInv

\* CxxComponent::CxxComponent, python_component_factory, TcComponent::TcComponent
LEMMA MakeKeeps ==
  ASSUME LifetimeInv, NEW c \in Component,
         MakeCxx(c) \/ MakeByPythonFactory(c) \/ MakeInPython(c)
  PROVE  LifetimeInv'
<1>1. PICK n \in {0, 1} : \E h \in {0, 1} :
        \/ Make(c, n, FALSE, h) /\ n = h
        \/ Make(c, n, TRUE, h) /\ n = h + 1
  <2>1. \/ Make(c, 0, FALSE, 0) /\ 0 = 0
        \/ Make(c, 1, TRUE, 0) /\ 1 = 0 + 1
        \/ Make(c, 1, FALSE, 1) /\ 1 = 1
    <3>1. 0 + 1 = 1
      OBVIOUS
    <3> QED
      BY <3>1, Zenon DEF MakeCxx, MakeByPythonFactory, MakeInPython
  <2>2. 0 \in {0, 1} /\ 1 \in {0, 1}
    OBVIOUS
  <2> QED
    BY <2>1, <2>2, Zenon
<1>2. PICK h \in {0, 1} :
        \/ Make(c, n, FALSE, h) /\ n = h
        \/ Make(c, n, TRUE, h) /\ n = h + 1
  BY <1>1
<1>3. /\ c \notin exists /\ exists' = exists \cup {c}
      /\ refs' = [refs EXCEPT ![c] = n] /\ host' = [host EXCEPT ![c] = h]
      /\ owner' = [owner EXCEPT ![c] = NoOwner]
      /\ UNCHANGED <<alive, components, listVars, type_links, started, walk>>
  BY <1>2 DEF Make
<1>4. \/ factory_retained' = [factory_retained EXCEPT ![c] = FALSE] /\ n = h
      \/ factory_retained' = [factory_retained EXCEPT ![c] = TRUE] /\ n = h + 1
  BY <1>2 DEF Make
<1>5. RegistryInv' /\ Attached' = Attached /\ WalkInv' /\ c \notin Attached
  BY <1>3, MakeRegistry
<1>6. LifeTypeInv /\ HoldInv
  BY DEF LifetimeInv
<1>7. /\ exists' \subseteq Component /\ refs' \in [Component -> Int]
      /\ host' \in [Component -> Nat] /\ walk' = walk
      /\ refs'[c] = n /\ host'[c] = h
      /\ \A d \in Component : d # c => refs'[d] = refs[d] /\ host'[d] = host[d]
  BY <1>3, <1>6 DEF LifeTypeInv
<1>8. /\ factory_retained' \in [Component -> BOOLEAN]
      /\ n = h + (IF factory_retained'[c] THEN 1 ELSE 0)
      /\ \A d \in Component : d # c => factory_retained'[d] = factory_retained[d]
  <2>1. factory_retained \in [Component -> BOOLEAN]
    BY <1>6 DEF LifeTypeInv
  <2>2. CASE factory_retained' = [factory_retained EXCEPT ![c] = FALSE] /\ n = h
    <3>1. factory_retained'[c] = FALSE /\ factory_retained' \in [Component -> BOOLEAN]
      BY <2>1, <2>2
    <3> QED
      BY <2>1, <2>2, <3>1
  <2>3. CASE factory_retained' = [factory_retained EXCEPT ![c] = TRUE] /\ n = h + 1
    <3>1. factory_retained'[c] = TRUE /\ factory_retained' \in [Component -> BOOLEAN]
      BY <2>1, <2>3
    <3> QED
      BY <2>1, <2>3, <3>1
  <2> QED
    BY <1>4, <2>2, <2>3
<1>9. LifeTypeInv'
  BY <1>6, <1>7, <1>8 DEF LifeTypeInv
<1>10. RefsExact'
  <2> SUFFICES ASSUME NEW d \in exists'
               PROVE  refs'[d] = host'[d] + (IF d \in Attached' THEN 1 ELSE 0)
                                          + (IF factory_retained'[d] THEN 1 ELSE 0)
    BY DEF RefsExact, Holds
  <2>1. CASE d = c
    BY <1>5, <1>7, <1>8, <2>1
  <2>2. CASE d # c
    <3>1. d \in exists /\ d \in Component
      BY <1>3, <1>7, <2>2
    <3>2. refs[d] = host[d] + (IF d \in Attached THEN 1 ELSE 0)
                            + (IF factory_retained[d] THEN 1 ELSE 0)
      BY <1>6, <3>1, RefsOf DEF HoldInv
    <3> QED
      BY <1>5, <1>7, <1>8, <2>2, <3>1, <3>2
  <2> QED
    BY <2>1, <2>2
<1>11. HoldInv'
  <2>1. Attached' \subseteq exists'
    BY <1>3, <1>5, <1>6 DEF HoldInv
  <2>2. \A d \in Component \ exists' : host'[d] = 0
    BY <1>3, <1>6, <1>7 DEF HoldInv
  <2>3. \A d \in Attached' : factory_retained'[d] = FALSE
    BY <1>5, <1>6, <1>8 DEF HoldInv, Attached
  <2> QED
    BY <1>10, <2>1, <2>2, <2>3 DEF HoldInv
<1> QED
  BY <1>5, <1>9, <1>11 DEF LifetimeInv

\* tc_component_to_python
LEMMA HostTakesKeeps ==
  ASSUME LifetimeInv, NEW c \in Component, HostTakes(c) PROVE LifetimeInv'
<1>1. /\ c \in exists
      /\ host' = [host EXCEPT ![c] = host[c] + 1] /\ refs' = [refs EXCEPT ![c] = refs[c] + 1]
      /\ UNCHANGED <<registryVars, started>>
      /\ exists' = exists /\ factory_retained' = factory_retained /\ walk' = walk
  BY DEF HostTakes
<1>2. RegistryInv' /\ Attached' = Attached /\ WalkInv'
  BY <1>1, SceneKept
<1>3. LifeTypeInv /\ HoldInv
  BY DEF LifetimeInv
<1>4. /\ refs' \in [Component -> Int] /\ host' \in [Component -> Nat]
      /\ \A d \in Component : /\ host'[d] = IF d = c THEN host[d] + 1 ELSE host[d]
                              /\ refs'[d] = IF d = c THEN refs[d] + 1 ELSE refs[d]
  BY <1>1, <1>3 DEF LifeTypeInv
<1>5. LifeTypeInv'
  BY <1>1, <1>3, <1>4 DEF LifeTypeInv
<1>6. RefsExact'
  <2> SUFFICES ASSUME NEW d \in exists
               PROVE  refs'[d] = host'[d] + (IF d \in Attached' THEN 1 ELSE 0)
                                          + (IF factory_retained'[d] THEN 1 ELSE 0)
    BY <1>1 DEF RefsExact, Holds
  <2>1. refs[d] = host[d] + (IF d \in Attached THEN 1 ELSE 0)
                          + (IF factory_retained[d] THEN 1 ELSE 0)
    BY <1>3, RefsOf DEF HoldInv
  <2>2. d \in Component /\ host[d] \in Nat /\ refs[d] \in Int
    BY <1>3 DEF LifeTypeInv
  <2> QED
    BY <1>1, <1>2, <1>4, <2>1, <2>2
<1>7. HoldInv'
  BY <1>1, <1>2, <1>3, <1>4, <1>6 DEF HoldInv
<1> QED
  BY <1>2, <1>5, <1>7 DEF LifetimeInv

\* What giving up references does to the counts, and whom it deletes.
LEMMA DropCounts ==
  ASSUME LifeTypeInv, NEW D, Drop(D)
  PROVE  /\ refs' \in [Component -> Int] /\ exists' \subseteq Component
         /\ \A c \in Component : refs'[c] = IF c \in D THEN refs[c] - 1 ELSE refs[c]
         /\ \A c \in Component : c \in exists' <=> c \in exists /\ ~(c \in D /\ refs[c] <= 1)
  BY DEF LifeTypeInv, Drop

LEMMA HostDropsKeeps ==
  ASSUME LifetimeInv, NEW c \in Component, HostDrops(c) PROVE LifetimeInv'
<1>1. /\ host[c] > 0 /\ host' = [host EXCEPT ![c] = host[c] - 1] /\ Drop({c})
      /\ UNCHANGED <<registryVars, started>>
      /\ factory_retained' = factory_retained /\ walk' = walk
  BY DEF HostDrops
<1>2. RegistryInv' /\ Attached' = Attached /\ WalkInv'
  BY <1>1, SceneKept
<1>3. LifeTypeInv /\ HoldInv
  BY DEF LifetimeInv
<1>4. /\ refs' \in [Component -> Int] /\ exists' \subseteq Component
      /\ \A d \in Component : refs'[d] = IF d = c THEN refs[d] - 1 ELSE refs[d]
      /\ \A d \in Component : d \in exists' <=> d \in exists /\ ~(d = c /\ refs[d] <= 1)
  BY <1>1, <1>3, DropCounts
<1>5. /\ host' \in [Component -> Nat]
      /\ \A d \in Component : host'[d] = IF d = c THEN host[d] - 1 ELSE host[d]
  <2>1. host[c] - 1 \in Nat
    BY <1>1, <1>3 DEF LifeTypeInv
  <2> QED
    BY <1>1, <1>3, <2>1 DEF LifeTypeInv
<1>6. LifeTypeInv'
  BY <1>1, <1>3, <1>4, <1>5 DEF LifeTypeInv
<1>7. c \in exists
  BY <1>1, <1>3 DEF HoldInv
<1>8. \A d \in exists : /\ d \in Component /\ host[d] \in Nat /\ refs[d] \in Int
                        /\ refs[d] = host[d] + (IF d \in Attached THEN 1 ELSE 0)
                                             + (IF factory_retained[d] THEN 1 ELSE 0)
  BY <1>3, RefsOf DEF HoldInv, LifeTypeInv
<1>9. RefsExact'
  <2> SUFFICES ASSUME NEW d \in exists'
               PROVE  refs'[d] = host'[d] + (IF d \in Attached' THEN 1 ELSE 0)
                                          + (IF factory_retained'[d] THEN 1 ELSE 0)
    BY DEF RefsExact, Holds
  <2>1. d \in exists /\ d \in Component
    BY <1>4
  <2> QED
    BY <1>1, <1>2, <1>4, <1>5, <1>8, <2>1
<1>10. refs[c] <= 1 => c \notin Attached /\ host'[c] = 0
  BY <1>1, <1>5, <1>7, <1>8
<1>11. HoldInv'
  <2>1. Attached' \subseteq exists'
    BY <1>2, <1>3, <1>4, <1>10 DEF HoldInv, Attached
  <2>2. \A d \in Component \ exists' : host'[d] = 0
    BY <1>3, <1>4, <1>5, <1>7, <1>10 DEF HoldInv
  <2>3. \A d \in Attached' : factory_retained'[d] = FALSE
    BY <1>1, <1>2, <1>3 DEF HoldInv
  <2> QED
    BY <1>9, <2>1, <2>2, <2>3 DEF HoldInv
<1> QED
  BY <1>2, <1>6, <1>11 DEF LifetimeInv

\* Wrappers come and go unnoticed.
LEMMA WrappingKeeps ==
  ASSUME LifetimeInv, UNCHANGED <<registryVars, started, exists, refs, factory_retained, host, walk>>
  PROVE  LifetimeInv'
<1>1. /\ UNCHANGED <<registryVars, started>>
      /\ exists' = exists /\ refs' = refs /\ factory_retained' = factory_retained
      /\ host' = host /\ walk' = walk
  OBVIOUS
<1>2. RegistryInv' /\ Attached' = Attached /\ WalkInv'
  BY <1>1, SceneKept
<1>3. LifeTypeInv' /\ HoldInv'
  BY <1>1, <1>2 DEF LifetimeInv, LifeTypeInv, HoldInv, RefsExact
<1> QED
  BY <1>2, <1>3 DEF LifetimeInv
-----------------------------------------------------------------------------
(* The walk and the scene                                                   *)

LEMMA OnTheWayGrown ==
  ASSUME NEW links, NEW A, NEW after, NEW B, A \subseteq B, Grown(links, A, after, B),
         NEW c \in Component, NEW seen, NEW unvisited, OnTheWay(links, A, c, seen, unvisited)
  PROVE  OnTheWay(after, B, c, seen, unvisited)
<1>1. PICK s \in Seq(Component) : /\ ListOf(links, A, TypeOf[c], s) /\ c \in ToSet(s)
                                  /\ unvisited \subseteq Ahead(s, c)
                                  /\ Ahead(s, c) \cap ToSet(seen) = {}
  BY DEF OnTheWay
<1>2. PICK r \in Seq(Component) : /\ ListOf(after, B, TypeOf[c], r)
                                  /\ \A x \in ToSet(s) : Ahead(r, x) = Ahead(s, x)
  BY <1>1, Constants DEF Grown
<1>3. c \in ToSet(r)
  BY <1>1, <1>2 DEF ListOf
<1> QED
  BY <1>1, <1>2, <1>3 DEF OnTheWay

LEMMA OnTheWayShrunk ==
  ASSUME NEW links, NEW A, NEW after, NEW D, Shrunk(links, A, after, D),
         NEW c \in Component, c \notin D, NEW seen, NEW unvisited,
         OnTheWay(links, A, c, seen, unvisited)
  PROVE  OnTheWay(after, A \ D, c, seen, unvisited \ D)
<1>1. PICK s \in Seq(Component) : /\ ListOf(links, A, TypeOf[c], s) /\ c \in ToSet(s)
                                  /\ unvisited \subseteq Ahead(s, c)
                                  /\ Ahead(s, c) \cap ToSet(seen) = {}
  BY DEF OnTheWay
<1>2. PICK r \in Seq(Component) : /\ ListOf(after, A \ D, TypeOf[c], r)
                                  /\ \A x \in ToSet(s) \ D : Ahead(r, x) = Ahead(s, x) \ D
  BY <1>1, Constants DEF Shrunk
<1>3. c \in ToSet(r) /\ Ahead(r, c) = Ahead(s, c) \ D
  BY <1>1, <1>2 DEF ListOf
<1>4. unvisited \ D \subseteq Ahead(r, c) /\ Ahead(r, c) \cap ToSet(seen) = {}
  BY <1>1, <1>3
<1> QED
  BY <1>2, <1>3, <1>4 DEF OnTheWay

\* tc_entity_pool_add_component
LEMMA AddKeeps ==
  ASSUME LifetimeInv, NEW e \in Entity, NEW c \in Component, Add(e, c) PROVE LifetimeInv'
<1>1. /\ c \in exists /\ AddComponent(e, c)
      /\ refs' = IF factory_retained[c] THEN refs ELSE [refs EXCEPT ![c] = refs[c] + 1]
      /\ factory_retained' = [factory_retained EXCEPT ![c] = FALSE]
      /\ exists' = exists /\ host' = host /\ walk' = walk
  BY DEF Add, RefsAfterAdd, FactoryRetainedAfterAdd
<1>2. RegistryInv /\ LifeTypeInv /\ HoldInv /\ WalkInv
  BY DEF LifetimeInv
<1>3. /\ RegistryInv' /\ Attached' = Attached \cup {c} /\ c \notin Attached
      /\ Grown(type_links, Attached, type_links', Attached')
  BY <1>1, <1>2, AddInv
<1>4. /\ factory_retained' \in [Component -> BOOLEAN] /\ factory_retained'[c] = FALSE
      /\ \A d \in Component : d # c => factory_retained'[d] = factory_retained[d]
  BY <1>1, <1>2 DEF LifeTypeInv
<1>5. /\ refs' \in [Component -> Int]
      /\ refs'[c] = IF factory_retained[c] THEN refs[c] ELSE refs[c] + 1
      /\ \A d \in Component : d # c => refs'[d] = refs[d]
  BY <1>1, <1>2 DEF LifeTypeInv
<1>6. LifeTypeInv'
  BY <1>1, <1>2, <1>4, <1>5 DEF LifeTypeInv
<1>7. RefsExact'
  <2> SUFFICES ASSUME NEW d \in exists
               PROVE  refs'[d] = host'[d] + (IF d \in Attached' THEN 1 ELSE 0)
                                          + (IF factory_retained'[d] THEN 1 ELSE 0)
    BY <1>1 DEF RefsExact, Holds
  <2>1. refs[d] = host[d] + (IF d \in Attached THEN 1 ELSE 0)
                          + (IF factory_retained[d] THEN 1 ELSE 0)
    BY <1>2, RefsOf DEF HoldInv
  <2>2. d \in Component /\ host[d] \in Nat /\ refs[d] \in Int
    BY <1>2 DEF LifeTypeInv
  <2> QED
    BY <1>1, <1>3, <1>4, <1>5, <2>1, <2>2
<1>8. HoldInv'
  <2>1. \A d \in Attached' : factory_retained'[d] = FALSE
    BY <1>2, <1>3, <1>4 DEF HoldInv, Attached
  <2> QED
    BY <1>1, <1>2, <1>3, <1>7, <2>1 DEF HoldInv
<1>9. WalkInv'
  <2>1. ASSUME walk.cursor # NoComponent
        PROVE  OnTheWay(type_links', Attached', walk.cursor, walk.met, walk.unvisited)
    <3>1. walk.cursor \in Component /\ Attached \subseteq Attached'
      BY <1>2, <1>3, <2>1 DEF LifeTypeInv, MaybeComponent
    <3>2. OnTheWay(type_links, Attached, walk.cursor, walk.met, walk.unvisited)
      BY <1>2, <2>1 DEF WalkInv
    <3> QED
      BY <1>3, <3>1, <3>2, OnTheWayGrown
  <2> QED
    BY <1>1, <1>2, <2>1 DEF WalkInv
<1> QED
  BY <1>3, <1>6, <1>8, <1>9 DEF LifetimeInv

\* Components that leave the scene, each giving up its entity's reference,
\* under a walk that is at none of them.
LEMMA LeaveKeeps ==
  ASSUME LifetimeInv, RegistryInv', NEW D, D \subseteq Attached, Attached' = Attached \ D,
         Shrunk(type_links, Attached, type_links', D), Drop(D), WalkTakes(D),
         factory_retained' = factory_retained, host' = host
  PROVE  LifetimeInv'
<1>1. LifeTypeInv /\ HoldInv /\ WalkInv
  BY DEF LifetimeInv
<1>2. /\ refs' \in [Component -> Int] /\ exists' \subseteq Component
      /\ \A c \in Component : refs'[c] = IF c \in D THEN refs[c] - 1 ELSE refs[c]
      /\ \A c \in Component : c \in exists' <=> c \in exists /\ ~(c \in D /\ refs[c] <= 1)
  BY <1>1, DropCounts
<1>3. /\ walk.cursor \notin D
      /\ walk' = [walk EXCEPT !.unvisited = walk.unvisited \ D]
  BY DEF WalkTakes
<1>4. /\ walk' \in [cursor : MaybeComponent, running : BOOLEAN,
                    met : Seq(Component), unvisited : SUBSET Component]
      /\ walk'.cursor = walk.cursor /\ walk'.running = walk.running /\ walk'.met = walk.met
      /\ walk'.unvisited = walk.unvisited \ D
  BY <1>1, <1>3 DEF LifeTypeInv
<1>5. LifeTypeInv'
  BY <1>1, <1>2, <1>4 DEF LifeTypeInv
<1>6. \A c \in exists : /\ c \in Component /\ host[c] \in Nat /\ refs[c] \in Int
                        /\ refs[c] = host[c] + (IF c \in Attached THEN 1 ELSE 0)
                                             + (IF factory_retained[c] THEN 1 ELSE 0)
                        /\ c \in D => c \in Attached /\ factory_retained[c] = FALSE
  BY <1>1, RefsOf DEF HoldInv, LifeTypeInv
<1>7. RefsExact'
  <2> SUFFICES ASSUME NEW c \in exists'
               PROVE  refs'[c] = host'[c] + (IF c \in Attached' THEN 1 ELSE 0)
                                          + (IF factory_retained'[c] THEN 1 ELSE 0)
    BY DEF RefsExact, Holds
  <2>1. c \in exists /\ c \in Component
    BY <1>2
  <2> QED
    BY <1>2, <1>6, <2>1
<1>8. HoldInv'
  <2>1. Attached' \subseteq exists'
    BY <1>1, <1>2 DEF HoldInv, Attached
  <2>2. \A c \in Component \ exists' : host'[c] = 0
    BY <1>1, <1>2, <1>6 DEF HoldInv
  <2>3. \A c \in Attached' : factory_retained'[c] = FALSE
    BY <1>1 DEF HoldInv
  <2> QED
    BY <1>7, <2>1, <2>2, <2>3 DEF HoldInv
<1>9. WalkInv'
  <2>1. ASSUME walk'.cursor # NoComponent
        PROVE  OnTheWay(type_links', Attached', walk'.cursor, walk'.met, walk'.unvisited)
    <3>1. walk.cursor \in Component
      BY <1>1, <1>4, <2>1 DEF LifeTypeInv, MaybeComponent
    <3>2. OnTheWay(type_links, Attached, walk.cursor, walk.met, walk.unvisited)
      BY <1>1, <1>4, <2>1 DEF WalkInv
    <3>3. OnTheWay(type_links', Attached \ D, walk.cursor, walk.met, walk.unvisited \ D)
      BY <1>3, <3>1, <3>2, OnTheWayShrunk
    <3> QED
      BY <1>4, <3>3
  <2>2. IsInjective(walk'.met) /\ walk'.unvisited \cap Disabled = {}
    BY <1>1, <1>4 DEF WalkInv
  <2>3. walk'.running = FALSE => walk'.cursor = NoComponent
    BY <1>1, <1>4 DEF WalkInv
  <2>4. walk'.cursor = NoComponent => walk'.unvisited = {}
    BY <1>1, <1>4 DEF WalkInv
  <2> QED
    BY <2>1, <2>2, <2>3, <2>4 DEF WalkInv
<1> QED
  BY <1>5, <1>8, <1>9 DEF LifetimeInv

\* tc_entity_pool_remove_component
LEMMA DetachKeeps ==
  ASSUME LifetimeInv, NEW e \in Entity, NEW c \in Component, Detach(e, c) PROVE LifetimeInv'
<1> DEFINE D == {c}
<1>1. /\ RegistryInv' /\ Attached' = Attached \ D /\ D \subseteq Attached
      /\ Shrunk(type_links, Attached, type_links', D)
  BY RemoveInv DEF Detach, LifetimeInv
<1>2. Drop(D) /\ WalkTakes(D) /\ factory_retained' = factory_retained /\ host' = host
  BY DEF Detach, Leave
<1> HIDE DEF D
<1> QED
  BY <1>1, <1>2, LeaveKeeps

\* tc_entity_pool_free
LEMMA DiscardKeeps ==
  ASSUME LifetimeInv, NEW e \in Entity, Discard(e) PROVE LifetimeInv'
<1> DEFINE D == ToSet(components[e])
<1>1. /\ RegistryInv' /\ Attached' = Attached \ D /\ D \subseteq Attached
      /\ Shrunk(type_links, Attached, type_links', D)
  BY FreeInv DEF Discard, LifetimeInv
<1>2. Drop(D) /\ WalkTakes(D) /\ factory_retained' = factory_retained /\ host' = host
  BY DEF Discard, Leave
<1> HIDE DEF D
<1> QED
  BY <1>1, <1>2, LeaveKeeps

\* tc_scene_free
LEMMA DestroyKeeps ==
  ASSUME LifetimeInv, DestroyScene PROVE LifetimeInv'
<1>1. /\ walk.running = FALSE /\ \A c \in Attached : host[c] = 0
      /\ alive' = {} /\ components' = [e \in Entity |-> <<>>]
      /\ pending_start' = <<>> /\ update_list' = <<>>
      /\ fixed_update_list' = <<>> /\ before_render_list' = <<>>
      /\ type_links' = [head |-> [t \in Type |-> NoComponent],
                        prev |-> [c \in Component |-> NoComponent],
                        next |-> [c \in Component |-> NoComponent]]
      /\ owner' = [c \in Component |-> IF c \in Attached THEN DeadOwner ELSE owner[c]]
      /\ Drop(Attached)
      /\ started' = started /\ factory_retained' = factory_retained
      /\ host' = host /\ walk' = walk
  <2>1. walk.running \in BOOLEAN
    BY DEF LifetimeInv, LifeTypeInv
  <2> QED
    BY <2>1 DEF DestroyScene, Leave
<1>2. RegistryInv /\ TypeInv /\ OwnersInv /\ LifeTypeInv /\ HoldInv /\ WalkInv
  BY DEF LifetimeInv, RegistryInv
<1>3. Attached' = {}
  BY <1>1 DEF Attached
<1>4. /\ owner' \in [Component -> Entity \cup {NoOwner, DeadOwner}]
      /\ \A c \in Component : owner'[c] \notin Entity
  <2>1. \A c \in Component : c \in Attached <=> owner[c] \in alive
    BY <1>2, AttachedIsOwned
  <2>2. \A c \in Component : owner[c] \in Entity => owner[c] \in alive
    BY <1>2 DEF OwnersInv, OwnersAgree
  <2> QED
    BY <1>1, <1>2, <2>1, <2>2, Constants DEF TypeInv
<1>5. TypeInv'
  BY <1>1, <1>2, <1>4 DEF TypeInv
<1>6. OwnersInv'
  BY <1>1, <1>4 DEF OwnersInv, OwnersAgree
<1>7. ListsExact'
  <2>1. { c \in Attached' : ~started'[c] } = {} /\ Attached' \cap HasUpdate = {}
        /\ Attached' \cap HasFixedUpdate = {} /\ Attached' \cap HasBeforeRender = {}
    BY <1>3
  <2> QED
    BY <1>1, <2>1, EmptyListsExact DEF ListsExact
<1>8. LinksInv'
  BY <1>1, <1>3, EmptyListsExact DEF LinksInv
<1>9. /\ refs' \in [Component -> Int] /\ exists' \subseteq Component
      /\ \A c \in Component : refs'[c] = IF c \in Attached THEN refs[c] - 1 ELSE refs[c]
      /\ \A c \in Component : c \in exists' <=> c \in exists /\ ~(c \in Attached /\ refs[c] <= 1)
  BY <1>1, <1>2, DropCounts
<1>10. LifeTypeInv'
  BY <1>1, <1>2, <1>9 DEF LifeTypeInv
<1>11. \A c \in exists : /\ c \in Component /\ host[c] \in Nat /\ refs[c] \in Int
                         /\ refs[c] = host[c] + (IF c \in Attached THEN 1 ELSE 0)
                                              + (IF factory_retained[c] THEN 1 ELSE 0)
                         /\ c \in Attached => host[c] = 0 /\ factory_retained[c] = FALSE
  BY <1>1, <1>2, RefsOf DEF HoldInv, LifeTypeInv
<1>12. RefsExact'
  <2> SUFFICES ASSUME NEW c \in exists'
               PROVE  refs'[c] = host'[c] + (IF c \in Attached' THEN 1 ELSE 0)
                                          + (IF factory_retained'[c] THEN 1 ELSE 0)
    BY DEF RefsExact, Holds
  <2>1. c \in exists /\ c \in Component
    BY <1>9
  <2>2. c \notin Attached' /\ host'[c] = host[c] /\ factory_retained'[c] = factory_retained[c]
    BY <1>1, <1>3
  <2>3. refs'[c] = IF c \in Attached THEN refs[c] - 1 ELSE refs[c]
    BY <1>9, <2>1
  <2>4. /\ host[c] \in Nat /\ refs[c] \in Int
        /\ refs[c] = host[c] + (IF c \in Attached THEN 1 ELSE 0)
                              + (IF factory_retained[c] THEN 1 ELSE 0)
    BY <1>11, <2>1
  <2> QED
    BY <2>2, <2>3, <2>4
<1>13. HoldInv'
  <2>1. \A c \in Component \ exists' : host'[c] = 0
    BY <1>1, <1>2, <1>9, <1>11 DEF HoldInv
  <2> QED
    BY <1>3, <1>12, <2>1 DEF HoldInv
<1>14. WalkInv'
  BY <1>1, <1>2 DEF WalkInv
<1> QED
  BY <1>5, <1>6, <1>7, <1>8, <1>10, <1>13, <1>14 DEF LifetimeInv, RegistryInv

\* What is ahead of the item at position k: it and everything after it.
LEMMA AheadOfItem ==
  ASSUME NEW s \in Seq(Component), IsInjective(s), NEW k \in 1..Len(s)
  PROVE  Ahead(s, s[k]) = { s[j] : j \in k..Len(s) }
<1>1. \A i, j \in 1..Len(s) : s[i] = s[j] => i = j
  BY DEF IsInjective
<1>2. Len(s) \in Nat
  OBVIOUS
<1>3. { i \in 1..Len(s) : \E h \in 1..i : s[h] = s[k] } = k..Len(s)
  <2>1. \A i \in 1..Len(s) : \A h \in 1..i : h \in 1..Len(s) /\ (s[h] = s[k] <=> h = k)
    BY <1>1, <1>2
  <2>2. \A i \in 1..Len(s) : (\E h \in 1..i : s[h] = s[k]) <=> k <= i
    BY <1>2, <2>1
  <2> QED
    BY <1>2, <2>2
<1> QED
  BY <1>3 DEF Ahead

\* The walk's step from c to c->type_next leaves c behind and nothing else.
LEMMA AheadOfNext ==
  ASSUME NEW links, NEW t, NEW s, Chained(links, t, s), NEW c \in ToSet(s)
  PROVE  /\ c \in Ahead(s, c)
         /\ links.next[c] = NoComponent => Ahead(s, c) = {c}
         /\ links.next[c] # NoComponent =>
              links.next[c] \in ToSet(s) /\ Ahead(s, links.next[c]) = Ahead(s, c) \ {c}
<1>1. /\ s \in Seq(Component) /\ IsInjective(s) /\ Len(s) \in Nat
      /\ \A k \in 1..Len(s) : links.next[s[k]] = NextIn(s, k) /\ s[k] \in Component
      /\ \A i, j \in 1..Len(s) : s[i] = s[j] => i = j
      /\ NoComponent \notin Component
  BY Constants DEF Chained, IsInjective
<1>2. PICK k \in 1..Len(s) : c = s[k]
  BY DEF ToSet
<1>3. Ahead(s, c) = { s[j] : j \in k..Len(s) }
  BY <1>1, <1>2, AheadOfItem
<1>4. c \in Ahead(s, c)
  <2>1. k \in k..Len(s)
    BY <1>1
  <2> QED
    BY <1>2, <1>3, <2>1
<1>5. links.next[c] = IF k = Len(s) THEN NoComponent ELSE s[k+1]
  BY <1>1, <1>2 DEF NextIn
<1>6. CASE k = Len(s)
  <2>1. k..Len(s) = {k}
    BY <1>1, <1>6
  <2>2. Ahead(s, c) = {c}
    BY <1>2, <1>3, <2>1
  <2> QED
    BY <1>4, <1>5, <1>6, <2>2
<1>7. CASE k # Len(s)
  <2>1. k+1 \in 1..Len(s) /\ links.next[c] = s[k+1] /\ s[k+1] # NoComponent
    <3>1. k+1 \in 1..Len(s)
      BY <1>1, <1>7
    <3> QED
      BY <1>1, <1>5, <1>7, <3>1
  <2>2. Ahead(s, s[k+1]) = { s[j] : j \in (k+1)..Len(s) }
    BY <1>1, <2>1, AheadOfItem
  <2>3. k..Len(s) = {k} \cup ((k+1)..Len(s)) /\ k \notin (k+1)..Len(s)
    BY <1>1
  <2>4. \A j \in (k+1)..Len(s) : j \in 1..Len(s) /\ s[j] # c
    BY <1>1, <1>2
  <2>5. Ahead(s, s[k+1]) = Ahead(s, c) \ {c}
    BY <1>2, <1>3, <2>2, <2>3, <2>4
  <2>6. s[k+1] \in ToSet(s)
    BY <2>1 DEF ToSet
  <2> QED
    BY <1>4, <2>1, <2>5, <2>6
<1> QED
  BY <1>6, <1>7

\* Steps of the walk change nothing but the walk.
LEMMA WalkOnly ==
  ASSUME LifetimeInv, UNCHANGED <<registryVars, started, lifeVars>>, WalkInv',
         walk' \in [cursor : MaybeComponent, running : BOOLEAN,
                    met : Seq(Component), unvisited : SUBSET Component]
  PROVE  LifetimeInv'
<1>1. RegistryInv' /\ Attached' = Attached
  BY SceneKept
<1>2. exists' = exists /\ refs' = refs /\ factory_retained' = factory_retained /\ host' = host
  BY DEF lifeVars
<1>3. LifeTypeInv'
  BY <1>2 DEF LifetimeInv, LifeTypeInv
<1>4. HoldInv'
  BY <1>1, <1>2 DEF LifetimeInv, HoldInv, RefsExact
<1> QED
  BY <1>1, <1>3, <1>4 DEF LifetimeInv

\* tc_scene_foreach_component_of_type begins at the head of the list.
LEMMA StartKeeps ==
  ASSUME LifetimeInv, NEW t \in Type, StartWalk(t) PROVE LifetimeInv'
<1>1. /\ walk' = [cursor |-> type_links.head[t], running |-> TRUE, met |-> <<>>,
                  unvisited |-> OfType(t) \ Disabled]
      /\ UNCHANGED <<registryVars, started, lifeVars>>
  BY DEF StartWalk
<1>2. LinkedExactly(type_links, Attached)
  BY DEF LifetimeInv, RegistryInv, LinksInv
<1>3. PICK s \in Seq(Component) : ListOf(type_links, Attached, t, s)
  BY <1>2, LinkedExactlyLists
<1>4. /\ Chained(type_links, t, s) /\ IsInjective(s) /\ ToSet(s) = OfType(t)
      /\ type_links.head[t] = IF s = <<>> THEN NoComponent ELSE s[1]
  BY <1>3 DEF ListOf, Chained, OfType
<1>5. /\ walk'.cursor = type_links.head[t] /\ walk'.running = TRUE /\ walk'.met = <<>>
      /\ walk'.unvisited = OfType(t) \ Disabled
  BY <1>1
<1>6. walk' \in [cursor : MaybeComponent, running : BOOLEAN,
                 met : Seq(Component), unvisited : SUBSET Component]
  <2>1. type_links.head[t] \in MaybeComponent
    BY <1>2 DEF LinkedExactly, IsTypeLinks
  <2> QED
    BY <1>1, <2>1 DEF OfType, Attached
<1>7. Attached' = Attached /\ type_links' = type_links
  BY <1>1, SceneKept DEF registryVars
<1>8. CASE s = <<>>
  <2>1. OfType(t) = {}
    BY <1>4, <1>8 DEF ToSet
  <2>2. WalkInv'
    BY <1>4, <1>5, <1>8, <2>1 DEF WalkInv, IsInjective
  <2> QED
    BY <1>1, <1>6, <2>2, WalkOnly
<1>9. CASE s # <<>>
  <2>1. Len(s) \in Nat \ {0} /\ 1 \in 1..Len(s)
    BY <1>9
  <2>2. s[1] \in Component /\ s[1] # NoComponent /\ TypeOf[s[1]] = t /\ s[1] \in ToSet(s)
    BY <1>4, <2>1, Constants DEF Chained, ToSet
  <2>3. Ahead(s, s[1]) = ToSet(s)
    <3>1. Ahead(s, s[1]) = { s[j] : j \in 1..Len(s) }
      BY <1>4, <2>1, AheadOfItem
    <3> QED
      BY <3>1 DEF ToSet
  <2>4. ToSet(<<>>) = {}
    BY DEF ToSet
  <2>5. OnTheWay(type_links, Attached, s[1], <<>>, OfType(t) \ Disabled)
    BY <1>3, <1>4, <2>2, <2>3, <2>4 DEF OnTheWay
  <2>6. WalkInv'
    BY <1>4, <1>5, <1>7, <1>9, <2>2, <2>5 DEF WalkInv, IsInjective
  <2> QED
    BY <1>1, <1>6, <2>6, WalkOnly
<1> QED
  BY <1>8, <1>9

\* The callback returned, or was not called for a component left out.
LEMMA StepKeeps ==
  ASSUME LifetimeInv, StepWalk PROVE LifetimeInv'
<1> DEFINE c == walk.cursor
           n == type_links.next[c]
<1>1. /\ c # NoComponent
      /\ walk' = IF c \in Disabled THEN [walk EXCEPT !.cursor = n]
                 ELSE [walk EXCEPT !.cursor = n, !.met = Append(walk.met, c),
                                   !.unvisited = walk.unvisited \ {c}]
      /\ UNCHANGED <<registryVars, started, lifeVars>>
  BY DEF StepWalk, AfterFiltered
<1>2. /\ walk \in [cursor : MaybeComponent, running : BOOLEAN,
                   met : Seq(Component), unvisited : SUBSET Component]
      /\ WalkInv /\ LinkedExactly(type_links, Attached)
  BY DEF LifetimeInv, LifeTypeInv, RegistryInv, LinksInv
<1>3. /\ c \in Component /\ n \in MaybeComponent /\ NoComponent \notin Component
      /\ walk.met \in Seq(Component) /\ IsInjective(walk.met)
      /\ walk.unvisited \subseteq Component /\ walk.unvisited \cap Disabled = {}
      /\ walk.running = TRUE
  BY <1>1, <1>2, Constants DEF MaybeComponent, LinkedExactly, IsTypeLinks, WalkInv
<1>4. OnTheWay(type_links, Attached, c, walk.met, walk.unvisited)
  BY <1>1, <1>2 DEF WalkInv
<1> HIDE DEF c, n
<1>5. PICK s \in Seq(Component) :
        /\ ListOf(type_links, Attached, TypeOf[c], s) /\ c \in ToSet(s)
        /\ walk.unvisited \subseteq Ahead(s, c) /\ Ahead(s, c) \cap ToSet(walk.met) = {}
  BY <1>4 DEF OnTheWay
<1>6. /\ c \in Ahead(s, c)
      /\ n = NoComponent => Ahead(s, c) = {c}
      /\ n # NoComponent => n \in ToSet(s) /\ Ahead(s, n) = Ahead(s, c) \ {c}
  BY <1>5, AheadOfNext DEF ListOf, n
<1>7. n # NoComponent => TypeOf[n] = TypeOf[c]
  BY <1>5, <1>6 DEF ListOf
<1>8. /\ Append(walk.met, c) \in Seq(Component) /\ IsInjective(Append(walk.met, c))
      /\ ToSet(Append(walk.met, c)) = ToSet(walk.met) \cup {c}
  <2>1. c \notin ToSet(walk.met)
    BY <1>5, <1>6
  <2> QED
    BY <1>3, <2>1, AppendItems
<1>9. Attached' = Attached /\ type_links' = type_links
  BY <1>1, SceneKept DEF registryVars
<1>10. \E seen \in Seq(Component) : \E unvisited \in SUBSET Component :
         /\ walk'.cursor = n /\ walk'.running = TRUE /\ walk'.met = seen
         /\ walk'.unvisited = unvisited
         /\ walk' \in [cursor : MaybeComponent, running : BOOLEAN,
                       met : Seq(Component), unvisited : SUBSET Component]
         /\ IsInjective(seen) /\ unvisited \cap Disabled = {} /\ c \notin unvisited
         /\ unvisited \subseteq walk.unvisited
         /\ ToSet(seen) \subseteq ToSet(walk.met) \cup {c}
  <2>1. CASE c \in Disabled
    <3>1. walk' = [walk EXCEPT !.cursor = n]
      BY <1>1, <2>1
    <3>2. /\ walk'.cursor = n /\ walk'.running = walk.running /\ walk'.met = walk.met
          /\ walk'.unvisited = walk.unvisited
          /\ walk' \in [cursor : MaybeComponent, running : BOOLEAN,
                        met : Seq(Component), unvisited : SUBSET Component]
      BY <1>2, <1>3, <3>1
    <3>3. c \notin walk.unvisited
      BY <1>3, <2>1
    <3> QED
      BY <1>3, <3>2, <3>3
  <2>2. CASE c \notin Disabled
    <3> DEFINE seen == Append(walk.met, c)
               unvisited == walk.unvisited \ {c}
    <3>1. walk' = [walk EXCEPT !.cursor = n, !.met = seen, !.unvisited = unvisited]
      BY <1>1, <2>2
    <3>2. /\ seen \in Seq(Component) /\ unvisited \in SUBSET Component
          /\ IsInjective(seen) /\ unvisited \cap Disabled = {} /\ c \notin unvisited
          /\ unvisited \subseteq walk.unvisited /\ ToSet(seen) \subseteq ToSet(walk.met) \cup {c}
      BY <1>3, <1>8
    <3> HIDE DEF seen, unvisited
    <3>3. walk' = [cursor |-> n, running |-> walk.running, met |-> seen, unvisited |-> unvisited]
      BY <1>2, <3>1
    <3>4. /\ walk'.cursor = n /\ walk'.running = TRUE /\ walk'.met = seen
          /\ walk'.unvisited = unvisited
      BY <1>3, <3>3
    <3>5. walk' \in [cursor : MaybeComponent, running : BOOLEAN,
                     met : Seq(Component), unvisited : SUBSET Component]
      BY <1>2, <1>3, <3>2, <3>3
    <3> QED
      BY <3>2, <3>4, <3>5
  <2> QED
    BY <2>1, <2>2
<1>11. PICK seen \in Seq(Component), unvisited \in SUBSET Component :
         /\ walk'.cursor = n /\ walk'.running = TRUE /\ walk'.met = seen
         /\ walk'.unvisited = unvisited
         /\ walk' \in [cursor : MaybeComponent, running : BOOLEAN,
                       met : Seq(Component), unvisited : SUBSET Component]
         /\ IsInjective(seen) /\ unvisited \cap Disabled = {} /\ c \notin unvisited
         /\ unvisited \subseteq walk.unvisited
         /\ ToSet(seen) \subseteq ToSet(walk.met) \cup {c}
  BY <1>10
<1>12. n = NoComponent => unvisited = {}
  BY <1>5, <1>6, <1>11
<1>13. n # NoComponent => OnTheWay(type_links, Attached, n, seen, unvisited)
  <2> HAVE n # NoComponent
  <2>1. unvisited \subseteq Ahead(s, n) /\ Ahead(s, n) \cap ToSet(seen) = {}
    BY <1>5, <1>6, <1>11
  <2>2. ListOf(type_links, Attached, TypeOf[n], s) /\ n \in ToSet(s)
    BY <1>5, <1>6, <1>7
  <2> QED
    BY <2>1, <2>2 DEF OnTheWay
<1>14. WalkInv'
  BY <1>9, <1>11, <1>12, <1>13 DEF WalkInv
<1> QED
  BY <1>1, <1>11, <1>14, WalkOnly

LEMMA EndKeeps ==
  ASSUME LifetimeInv, EndWalk PROVE LifetimeInv'
<1>1. /\ walk' = [cursor |-> NoComponent, running |-> FALSE, met |-> <<>>, unvisited |-> {}]
      /\ UNCHANGED <<registryVars, started, lifeVars>>
  BY DEF EndWalk, NoWalk
<1>2. walk' \in [cursor : MaybeComponent, running : BOOLEAN,
                 met : Seq(Component), unvisited : SUBSET Component]
  BY <1>1 DEF MaybeComponent
<1>3. WalkInv'
  BY <1>1 DEF WalkInv, IsInjective
<1> QED
  BY <1>1, <1>2, <1>3, WalkOnly
-----------------------------------------------------------------------------
(* The theorems                                                             *)

LEMMA LifetimeNextKeeps == LifetimeInv /\ [LifetimeNext]_lifetimeVars => LifetimeInv'
<1> SUFFICES ASSUME LifetimeInv, [LifetimeNext]_lifetimeVars PROVE LifetimeInv'
  OBVIOUS
<1>1. ASSUME NEW c \in Component,
             MakeCxx(c) \/ MakeByPythonFactory(c) \/ MakeInPython(c)
      PROVE  LifetimeInv'
  BY <1>1, MakeKeeps
<1>2. ASSUME NEW c \in Component,
             HostTakes(c) \/ HostDrops(c) \/ HostWraps(c) \/ HostUnwraps(c)
      PROVE  LifetimeInv'
  <2>1. CASE HostTakes(c) \/ HostDrops(c)
    BY <2>1, HostTakesKeeps, HostDropsKeeps
  <2>2. CASE HostWraps(c) \/ HostUnwraps(c)
    BY <2>2, WrappingKeeps DEF HostWraps, HostUnwraps
  <2> QED
    BY <1>2, <2>1, <2>2
<1>3. ASSUME NEW e \in Entity, AllocEntity(e), UNCHANGED <<lifeVars, walk>> PROVE LifetimeInv'
  <2>1. RegistryInv' /\ Attached' = Attached
    BY <1>3, AllocInv DEF LifetimeInv
  <2>2. /\ exists' = exists /\ refs' = refs /\ factory_retained' = factory_retained
        /\ host' = host /\ walk' = walk /\ type_links' = type_links
    BY <1>3 DEF lifeVars, AllocEntity
  <2>3. LifeTypeInv' /\ HoldInv' /\ WalkInv'
    BY <2>1, <2>2 DEF LifetimeInv, LifeTypeInv, HoldInv, RefsExact, WalkInv
  <2> QED
    BY <2>1, <2>3 DEF LifetimeInv
<1>4. ASSUME NEW e \in Entity, Discard(e) PROVE LifetimeInv'
  BY <1>4, DiscardKeeps
<1>5. ASSUME NEW e \in Entity, NEW c \in Component, Add(e, c) \/ Detach(e, c)
      PROVE  LifetimeInv'
  BY <1>5, AddKeeps, DetachKeeps
<1>6. CASE DestroyScene
  BY <1>6, DestroyKeeps
<1>7. ASSUME NEW t \in Type, StartWalk(t) PROVE LifetimeInv'
  BY <1>7, StartKeeps
<1>8. CASE StepWalk
  BY <1>8, StepKeeps
<1>9. CASE EndWalk
  BY <1>9, EndKeeps
<1>10. CASE UNCHANGED lifetimeVars
  <2>1. UNCHANGED <<registryVars, started>> /\ walk' = walk
        /\ exists' = exists /\ refs' = refs /\ factory_retained' = factory_retained
        /\ host' = host
    BY <1>10 DEF lifetimeVars, lifeVars
  <2>2. RegistryInv' /\ Attached' = Attached /\ WalkInv'
    BY <2>1, SceneKept
  <2>3. LifeTypeInv' /\ HoldInv'
    BY <2>1, <2>2 DEF LifetimeInv, LifeTypeInv, HoldInv, RefsExact
  <2> QED
    BY <2>2, <2>3 DEF LifetimeInv
<1> QED
  BY <1>1, <1>2, <1>3, <1>4, <1>5, <1>6, <1>7, <1>8, <1>9, <1>10 DEF LifetimeNext

LEMMA LifetimeInvariant == LifetimeSpec => []LifetimeInv
<1>1. LifetimeInit => LifetimeInv
  BY LifetimeInitInv
<1>2. LifetimeInv /\ [LifetimeNext]_lifetimeVars => LifetimeInv'
  BY LifetimeNextKeeps
<1> QED
  BY <1>1, <1>2, PTL DEF LifetimeSpec, lifetimeVars

\* A wrapper is of a C++ component, which no Python reference keeps alive; it
\* exists until it leaves an entity.
WrapperInv ==
  /\ wrapped \subseteq Bindable
  /\ \A c \in Component \ Python : host[c] = 0
  /\ wrapped \ outlived \subseteq exists

LEMMA LeaveKeepsWrappers ==
  ASSUME WrapperInv, NEW D, Leave(D)
  PROVE  WrapperInv'
BY DEF WrapperInv, Leave, Drop

LEMMA WrapperInvKept ==
  LifetimeInv /\ WrapperInv /\ [LifetimeNext]_lifetimeVars => WrapperInv'
<1> SUFFICES ASSUME LifetimeInv, WrapperInv, [LifetimeNext]_lifetimeVars PROVE WrapperInv'
  OBVIOUS
<1>0. LifeTypeInv /\ Bindable \subseteq Component \ Python
  BY LifetimeAssumption DEF LifetimeInv
<1>1. ASSUME NEW c \in Component,
             MakeCxx(c) \/ MakeByPythonFactory(c) \/ MakeInPython(c)
      PROVE  WrapperInv'
  <2>1. /\ \/ host' = [host EXCEPT ![c] = 0]
           \/ c \in Python /\ host' = [host EXCEPT ![c] = 1]
        /\ exists' = exists \cup {c} /\ wrapped' = wrapped /\ outlived' = outlived
    BY <1>1 DEF MakeCxx, MakeByPythonFactory, MakeInPython, Make, wrapperVars
  <2>2. \A d \in Component \ Python : host'[d] = 0
    BY <1>0, <2>1 DEF WrapperInv, LifeTypeInv
  <2> QED
    BY <2>1, <2>2 DEF WrapperInv
<1>2. ASSUME NEW c \in Component, HostTakes(c) PROVE WrapperInv'
  BY <1>0, <1>2 DEF HostTakes, WrapperInv, LifeTypeInv, wrapperVars
<1>3. ASSUME NEW c \in Component, HostDrops(c) PROVE WrapperInv'
  <2>1. /\ host[c] > 0 /\ host' = [host EXCEPT ![c] = host[c] - 1] /\ Drop({c})
        /\ wrapped' = wrapped /\ outlived' = outlived
    BY <1>3 DEF HostDrops, wrapperVars
  <2>2. c \in Python
    BY <2>1 DEF WrapperInv
  <2>3. exists \ {c} \subseteq exists'
    BY <2>1 DEF Drop
  <2> QED
    BY <1>0, <2>1, <2>2, <2>3 DEF WrapperInv, LifeTypeInv
<1>4. ASSUME NEW c \in Component, HostWraps(c) \/ HostUnwraps(c) PROVE WrapperInv'
  BY <1>4 DEF HostWraps, HostUnwraps, WrapperInv
<1>5. ASSUME NEW e \in Entity, UNCHANGED <<lifeVars, walk>> PROVE WrapperInv'
  BY <1>5 DEF lifeVars, wrapperVars, WrapperInv
<1>6. ASSUME NEW e \in Entity, Discard(e) PROVE WrapperInv'
  BY <1>6, LeaveKeepsWrappers DEF Discard
<1>7. ASSUME NEW e \in Entity, NEW c \in Component, Add(e, c) PROVE WrapperInv'
  BY <1>7 DEF Add, wrapperVars, WrapperInv
<1>8. ASSUME NEW e \in Entity, NEW c \in Component, Detach(e, c) PROVE WrapperInv'
  BY <1>8, LeaveKeepsWrappers DEF Detach
<1>9. CASE DestroyScene
  BY <1>9, LeaveKeepsWrappers DEF DestroyScene
<1>10. CASE UNCHANGED lifeVars
  BY <1>10 DEF lifeVars, wrapperVars, WrapperInv
<1>11. (\E t \in Type : StartWalk(t)) \/ StepWalk \/ EndWalk \/ UNCHANGED lifetimeVars
         => UNCHANGED lifeVars
  BY DEF StartWalk, StepWalk, EndWalk, lifetimeVars
<1> QED
  BY <1>1, <1>2, <1>3, <1>4, <1>5, <1>6, <1>7, <1>8, <1>9, <1>10, <1>11 DEF LifetimeNext

LEMMA WrapperInvariant == LifetimeSpec => []WrapperInv
<1>1. LifetimeInit => WrapperInv
  BY DEF LifetimeInit, WrapperInv
<1>2. LifetimeInv /\ WrapperInv /\ [LifetimeNext]_lifetimeVars => WrapperInv'
  BY WrapperInvKept
<1> QED
  BY <1>1, <1>2, LifetimeInvariant, PTL DEF LifetimeSpec, lifetimeVars

\* A component's owner handle and the entities' component arrays never
\* disagree, through adding, removing, freeing and scene teardown.
THEOREM OwnersStayAgreed == LifetimeSpec => []OwnersAgree
<1>1. LifetimeInv => OwnersAgree
  BY DEF LifetimeInv, RegistryInv, OwnersInv
<1> QED
  BY <1>1, LifetimeInvariant, PTL

\* Each of the scene's lists holds exactly the attached components it is for,
\* whatever the order in which swap-removal leaves them.
THEOREM ListsStayExact == LifetimeSpec => []ListsExact
<1>1. LifetimeInv => ListsExact
  BY DEF LifetimeInv, RegistryInv
<1> QED
  BY <1>1, LifetimeInvariant, PTL

\* Following a type's links meets each attached component of the type once
\* and ends, for any sequence of registrations and removals.
THEOREM TypeListsStayExact == LifetimeSpec => []TypeListsExact
<1>1. LifetimeInv => TypeListsExact
  BY LinkedExactlySuffices DEF LifetimeInv, RegistryInv, LinksInv
<1> QED
  BY <1>1, LifetimeInvariant, PTL

\* A component's count is the number of its holders: no leak and no
\* premature delete, also of a component whose factory's reference an entity
\* takes over.
THEOREM ReferencesAreExact == LifetimeSpec => []RefsExact
<1>1. LifetimeInv => RefsExact
  BY DEF LifetimeInv, HoldInv
<1> QED
  BY <1>1, LifetimeInvariant, PTL

\* Nothing leads to a component that was deleted: no array, list, type link,
\* Python reference or walk, nor a wrapper whose component never left an
\* entity.
THEOREM NothingDangles == LifetimeSpec => []NoDangling
<1>1. LifetimeInv /\ WrapperInv => NoDangling
  <2> SUFFICES ASSUME LifetimeInv, WrapperInv PROVE NoDangling
    OBVIOUS
  <2>1. /\ LifeTypeInv /\ HoldInv /\ WalkInv /\ ListsExact
        /\ LinkedExactly(type_links, Attached) /\ Attached \subseteq exists
        /\ Attached \subseteq Component
    BY DEF LifetimeInv, HoldInv, RegistryInv, LinksInv, Attached
  <2>2. \A list \in {pending_start, update_list, fixed_update_list, before_render_list} :
          ToSet(list) \subseteq exists
    BY <2>1 DEF ListsExact, Lists
  <2>3. ASSUME NEW t \in Type PROVE type_links.head[t] \in exists \cup {NoComponent}
    <3>1. PICK s \in Seq(Component) : ListOf(type_links, Attached, t, s)
      BY <2>1, LinkedExactlyLists
    <3>2. s # <<>> => 1 \in 1..Len(s)
      OBVIOUS
    <3>3. s # <<>> => s[1] \in Attached
      BY <3>1, <3>2 DEF ListOf, ToSet
    <3> QED
      BY <2>1, <3>1, <3>3 DEF ListOf, Chained
  <2>4. ASSUME NEW c \in Component
        PROVE  {type_links.next[c], type_links.prev[c]} \subseteq exists \cup {NoComponent}
    <3>1. /\ type_links.next[c] \in MaybeComponent /\ type_links.prev[c] \in MaybeComponent
          /\ TypeListsExact /\ NoComponent \notin Component
      BY <2>1, LinkedExactlySuffices, Constants DEF LinkedExactly, IsTypeLinks
    <3>2. ASSUME NEW d \in Component, type_links.next[c] = d \/ type_links.prev[c] = d
          PROVE  d \in Attached
      <4>1. type_links.prev[d] = c \/ type_links.next[d] = c
        BY <3>1, <3>2 DEF TypeListsExact
      <4> QED
        BY <3>1, <4>1 DEF TypeListsExact
    <3> QED
      BY <2>1, <3>1, <3>2 DEF MaybeComponent
  <2>5. \A c \in Component : host[c] > 0 => c \in exists
    BY <2>1 DEF HoldInv
  <2>6. walk.cursor \in exists \cup {NoComponent}
    <3>1. walk.cursor # NoComponent =>
            OnTheWay(type_links, Attached, walk.cursor, walk.met, walk.unvisited)
      BY <2>1 DEF WalkInv
    <3>2. walk.cursor # NoComponent => walk.cursor \in Attached
      BY <3>1 DEF OnTheWay, ListOf
    <3> QED
      BY <2>1, <3>2
  <2>7. \A c \in exists : c \in Component
    BY <2>1 DEF LifeTypeInv
  <2>8. wrapped \ outlived \subseteq exists
    BY DEF WrapperInv
  <2> QED
    BY <2>1, <2>2, <2>3, <2>4, <2>5, <2>6, <2>7, <2>8 DEF NoDangling
<1> QED
  BY <1>1, LifetimeInvariant, WrapperInvariant, PTL

\* A walk whose callbacks add, remove and delete components calls none twice,
\* and none that is there from its start to its end goes uncalled.
THEOREM WalksMeetAll == LifetimeSpec => []WalkMeetsAll
<1>1. LifetimeInv => WalkMeetsAll
  BY DEF LifetimeInv, WalkInv, WalkMeetsAll
<1> QED
  BY <1>1, LifetimeInvariant, PTL
------------------------------------------------------------------------------
(* The update loop: SceneScheduler                                          *)

\* The entities of a scene can be walked in the order of their slots.
LEMMA SlotOrderIs ==
  /\ SlotOrder \in Seq(Entity)
  /\ \A i, j \in 1..Len(SlotOrder) : SlotOrder[i] = SlotOrder[j] => i = j
  /\ \A e \in Entity : \E k \in 1..Len(SlotOrder) : SlotOrder[k] = e
<1> DEFINE N == Cardinality(Entity)
           Orders == { f \in [1..N -> Entity] : IsInjective(f) }
<1>1. N \in Nat /\ IsFiniteSet(Entity)
  BY SlotAssumption, FS_CardinalityType
<1>2. PICK g \in Bijection(1..N, Entity) : TRUE
  BY <1>1, FS_CardinalityType DEF ExistsBijection
<1>3. g \in Orders
  BY <1>2 DEF Bijection, Injection, IsInjective
<1>4. SlotOrder \in Orders
  <2> DEFINE f == CHOOSE f \in [1..N -> Entity] : IsInjective(f)
  <2>1. f \in [1..N -> Entity] /\ IsInjective(f)
    BY <1>3
  <2>2. SlotOrder = f
    BY DEF SlotOrder, SetToSeq
  <2> QED
    BY <2>1, <2>2
<1>5. SlotOrder \in Seq(Entity) /\ Len(SlotOrder) = N
  BY <1>1, <1>4
<1>6. \A i, j \in 1..N : SlotOrder[i] = SlotOrder[j] => i = j
  BY <1>4 DEF IsInjective
<1>7. SlotOrder \in Surjection(1..N, Entity)
  <2>1. IsFiniteSet(1..N) /\ Cardinality(1..N) = N
    <3>1. 1 \in Int /\ N \in Int
      BY <1>1
    <3> QED
      BY <1>1, <3>1, FS_Interval
  <2>2. SlotOrder \in Injection(1..N, Entity)
    BY <1>4, <1>6 DEF Injection
  <2> QED
    BY <1>1, <2>1, <2>2, FS_Injection
<1> QED
  BY <1>5, <1>6, <1>7 DEF Surjection

-----------------------------------------------------------------------------
(* What an operation on the scene does to the lists                         *)

\* No list and no entity's array has an item further back than before, but
\* for a component that was added.
NothingMovesBack(list, list_after, new) ==
  \A n \in Nat : Rest(list_after, n) \subseteq Rest(list, n) \cup new

LEMMA PushMovesNothingBack ==
  ASSUME NEW list \in Seq(Component), NEW c \in Component
  PROVE  NothingMovesBack(list, PushNew(list, c), {c}) /\ NothingMovesBack(list, list, {c})
  BY AppendRest DEF NothingMovesBack, PushNew

LEMMA RemovalMovesNothingBack ==
  ASSUME NEW list \in Seq(Component), NEW items \in Seq(Component)
  PROVE  NothingMovesBack(list, RemovedInTurn(list, items), {})
  BY RemovedInTurnRest DEF NothingMovesBack

OrderKept ==
  LET new == Attached' \ Attached
  IN  /\ NothingMovesBack(update_list, update_list', new)
      /\ NothingMovesBack(fixed_update_list, fixed_update_list', new)
      /\ NothingMovesBack(before_render_list, before_render_list', new)
      /\ \A e \in Entity : NothingMovesBack(components[e], components'[e], new)

LEMMA NothingMovedBack ==
  ASSUME NEW list, NEW new PROVE NothingMovesBack(list, list, new)
  BY DEF NothingMovesBack

LEMMA AllocOrder ==
  ASSUME RegistryInv, NEW e \in Entity, AllocEntity(e)
  PROVE  RegistryInv' /\ started' = started /\ OrderKept /\ owner' = owner
<1>1. RegistryInv'
  BY AllocInv
<1>2. /\ components' = components /\ started' = started /\ owner' = owner
      /\ update_list' = update_list /\ fixed_update_list' = fixed_update_list
      /\ before_render_list' = before_render_list
  BY DEF AllocEntity, listVars
<1> QED
  BY <1>1, <1>2, NothingMovedBack DEF OrderKept

LEMMA AddOrder ==
  ASSUME RegistryInv, NEW e \in Entity, NEW c \in Component, AddComponent(e, c)
  PROVE  /\ RegistryInv' /\ started' = started /\ OrderKept
         /\ \A d \in Attached : owner'[d] = owner[d]
<1>1. RegistryInv' /\ Attached' = Attached \cup {c} /\ c \notin Attached
  BY AddInv
<1>2. /\ started' = started /\ owner' = [owner EXCEPT ![c] = e]
      /\ components' = [components EXCEPT ![e] = Append(components[e], c)]
      /\ Register(c)
  BY DEF AddComponent
<1>3. /\ components \in [Entity -> Seq(Component)]
      /\ owner \in [Component -> Entity \cup {NoOwner, DeadOwner}]
      /\ update_list \in Seq(Component) /\ fixed_update_list \in Seq(Component)
      /\ before_render_list \in Seq(Component)
  BY DEF RegistryInv, TypeInv
<1>4. Attached' \ Attached = {c}
  BY <1>1
<1>5. NothingMovesBack(update_list, update_list', {c})
  BY <1>2, <1>3, PushMovesNothingBack DEF Register, PushIf
<1>6. NothingMovesBack(fixed_update_list, fixed_update_list', {c})
  BY <1>2, <1>3, PushMovesNothingBack DEF Register, PushIf
<1>7. NothingMovesBack(before_render_list, before_render_list', {c})
  BY <1>2, <1>3, PushMovesNothingBack DEF Register, PushIf
<1>8. ASSUME NEW f \in Entity PROVE NothingMovesBack(components[f], components'[f], {c})
  <2>1. CASE f = e
    <3>1. components'[f] = Append(components[f], c) /\ components[f] \in Seq(Component)
      BY <1>2, <1>3, <2>1
    <3> QED
      BY <3>1, AppendRest DEF NothingMovesBack
  <2>2. CASE f # e
    <3>1. components'[f] = components[f]
      BY <1>2, <1>3, <2>2
    <3> QED
      BY <3>1, NothingMovedBack
  <2> QED
    BY <2>1, <2>2
<1>9. OrderKept
  BY <1>4, <1>5, <1>6, <1>7, <1>8 DEF OrderKept
<1>10. \A d \in Attached : owner'[d] = owner[d]
  BY <1>1, <1>2, <1>3 DEF Attached
<1> QED
  BY <1>1, <1>2, <1>9, <1>10

\* Of components that were unregistered, when the arrays of entities moved
\* nothing back either.
LEMMA UnregisterOrder ==
  ASSUME RegistryInv, NEW arr \in Seq(Component), UnregisterAll(arr), Attached' \subseteq Attached,
         \A e \in Entity : NothingMovesBack(components[e], components'[e], {})
  PROVE  OrderKept
<1>1. /\ update_list \in Seq(Component) /\ fixed_update_list \in Seq(Component)
      /\ before_render_list \in Seq(Component)
  BY DEF RegistryInv, TypeInv
<1>2. Attached' \ Attached = {}
  OBVIOUS
<1> QED
  BY <1>1, <1>2, RemovalMovesNothingBack DEF OrderKept, UnregisterAll

LEMMA RemoveOrder ==
  ASSUME RegistryInv, NEW e \in Entity, NEW c \in Component, RemoveComponent(e, c)
  PROVE  /\ RegistryInv' /\ started' = started /\ OrderKept
         /\ \A d \in Attached' : owner'[d] = owner[d]
<1>1. RegistryInv' /\ Attached' = Attached \ {c} /\ c \in Attached
  BY RemoveInv
<1>2. /\ started' = started /\ owner' = [owner EXCEPT ![c] = NoOwner]
      /\ components' = [components EXCEPT ![e] = SwapRemove(components[e], c)]
      /\ UnregisterAll(<<c>>)
  BY DEF RemoveComponent
<1>3. /\ components \in [Entity -> Seq(Component)]
      /\ owner \in [Component -> Entity \cup {NoOwner, DeadOwner}]
  BY DEF RegistryInv, TypeInv
<1>4. ASSUME NEW f \in Entity PROVE NothingMovesBack(components[f], components'[f], {})
  <2>1. CASE f = e
    <3>1. components'[f] = SwapRemove(components[f], c) /\ components[f] \in Seq(Component)
      BY <1>2, <1>3, <2>1
    <3> QED
      BY <3>1, SwapRemoveRest DEF NothingMovesBack
  <2>2. CASE f # e
    <3>1. components'[f] = components[f]
      BY <1>2, <1>3, <2>2
    <3> QED
      BY <3>1, NothingMovedBack
  <2> QED
    BY <2>1, <2>2
<1>5. <<c>> \in Seq(Component) /\ Attached' \subseteq Attached
  BY <1>1
<1> DEFINE arr == <<c>>
<1>6. arr \in Seq(Component) /\ UnregisterAll(arr)
  BY <1>2, <1>5
<1> HIDE DEF arr
<1>7. OrderKept
  BY <1>4, <1>5, <1>6, UnregisterOrder
<1>8. \A d \in Attached' : owner'[d] = owner[d]
  BY <1>1, <1>2, <1>3 DEF Attached
<1> QED
  BY <1>1, <1>2, <1>7, <1>8

LEMMA FreeOrder ==
  ASSUME RegistryInv, NEW e \in Entity, FreeEntity(e)
  PROVE  /\ RegistryInv' /\ started' = started /\ OrderKept
         /\ \A d \in Attached' : owner'[d] = owner[d]
<1>1. RegistryInv' /\ Attached' = Attached \ ToSet(components[e])
  BY FreeInv
<1>2. /\ started' = started /\ components' = [components EXCEPT ![e] = <<>>] /\ e \in alive
      /\ UnregisterAll(RemovalOrder(components[e]))
      /\ owner' = [c \in Component |-> IF owner[c] = e THEN DeadOwner ELSE owner[c]]
  BY DEF FreeEntity, OwnersAfterFree
<1>3. components \in [Entity -> Seq(Component)] /\ TypeInv /\ OwnersInv
  BY DEF RegistryInv, TypeInv
<1>4. ASSUME NEW f \in Entity PROVE NothingMovesBack(components[f], components'[f], {})
  <2>1. CASE f = e
    <3>1. components'[f] = <<>>
      BY <1>2, <1>3, <2>1
    <3> QED
      BY <3>1 DEF NothingMovesBack, Rest
  <2>2. CASE f # e
    <3>1. components'[f] = components[f]
      BY <1>2, <1>3, <2>2
    <3> QED
      BY <3>1, NothingMovedBack
  <2> QED
    BY <2>1, <2>2
<1> DEFINE arr == RemovalOrder(components[e])
<1>5. arr \in Seq(Component) /\ UnregisterAll(arr) /\ Attached' \subseteq Attached
  BY <1>1, <1>2, <1>3, RemovalOrderItems
<1> HIDE DEF arr
<1>6. OrderKept
  BY <1>4, <1>5, UnregisterOrder
<1>7. \A d \in Attached' : owner'[d] = owner[d]
  <2>1. \A d \in Component : d \in ToSet(components[e]) <=> owner[d] = e
    BY <1>2, <1>3, ItemsAreAttached
  <2> QED
    BY <1>1, <1>2, <2>1 DEF Attached
<1> QED
  BY <1>1, <1>2, <1>6, <1>7

\* Any operation on the scene.
LEMMA RegistryNextOrder ==
  ASSUME RegistryInv, RegistryNext
  PROVE  /\ RegistryInv' /\ started' = started /\ OrderKept
         /\ \A d \in Attached \cap Attached' : owner'[d] = owner[d]
<1>1. PICK e \in Entity : \/ AllocEntity(e) \/ FreeEntity(e)
                          \/ \E c \in Component : AddComponent(e, c) \/ RemoveComponent(e, c)
  BY DEF RegistryNext
<1> QED
  BY <1>1, AllocOrder, FreeOrder, AddOrder, RemoveOrder
-----------------------------------------------------------------------------
(* The inductive invariant                                                  *)

ScenePhases == {"fixed", "update", "before_render"}

FrameTypeInv ==
  /\ phase \in {"idle", "start", "notify"} \cup ScenePhases
  /\ snapshot \in Seq(Component)
  /\ visit \in [slot : 0..Len(SlotOrder), count : Nat]
  /\ cursor \in Nat \ {0}
  /\ running \in MaybeComponent
  /\ phase = "idle" => running = NoComponent
  /\ met \in [Component -> {"nothing", "called", "excused"}]
  /\ enabled \in [Component -> BOOLEAN]
  /\ entity_enabled \in [Entity -> BOOLEAN]

\* The position from which the loop has not looked at the list.
From == IF running = NoComponent THEN cursor ELSE cursor + 1

\* The array a notification is at.
Current == components[SlotOrder[visit.slot]]

NotCalled(S) == \A c \in S : met[c] # "called"

\* What the loop still comes to was not called in this pass.
TwiceInv ==
  /\ phase \in ScenePhases \cup {"start"} => NotCalled(Rest(PassList, From))
  /\ phase = "start" => IsInjective(snapshot)
  /\ phase = "notify" =>
       /\ visit.slot > 0 => NotCalled(Rest(Current, From))
       /\ \A k \in visit.slot+1..Len(SlotOrder) : NotCalled(ToSet(components[SlotOrder[k]]))

\* What the loop has passed was called, or excused, or is not to be called;
\* what a notification does not count at the end of an array was added since
\* and is excused.
MissedInv ==
  /\ phase \in ScenePhases =>
       \A j \in 1..Len(PassList) :
         j < From /\ Eligible(PassList[j]) => met[PassList[j]] # "nothing"
  /\ phase = "notify" =>
       /\ \A k \in 1..visit.slot-1 :
            \A c \in ToSet(components[SlotOrder[k]]) : met[c] # "nothing"
       /\ visit.slot > 0 =>
            \A j \in 1..Len(Current) :
              j < From \/ j > visit.count => met[Current[j]] # "nothing"

SchedulerInv == RegistryInv /\ FrameTypeInv /\ TwiceInv /\ MissedInv

\* The components a pass over one of the scene's lists is for.
PassOf(p) == CASE p = "fixed" -> HasFixedUpdate
               [] p = "update" -> HasUpdate
               [] p = "before_render" -> HasBeforeRender

ListOfPass ==
  phase \in ScenePhases => /\ PassList \in Seq(Component) /\ IsInjective(PassList)
                           /\ ToSet(PassList) = Attached \cap PassOf(phase)

LEMMA PassListIs == RegistryInv => ListOfPass
<1> SUFFICES ASSUME RegistryInv, phase \in ScenePhases
             PROVE  /\ PassList \in Seq(Component) /\ IsInjective(PassList)
                    /\ ToSet(PassList) = Attached \cap PassOf(phase)
  BY DEF ListOfPass
<1>1. ListsExact /\ TypeInv
  BY DEF RegistryInv
<1>2. CASE phase = "fixed"
  BY <1>1, <1>2 DEF PassList, PassOf, ListsExact, Lists, TypeInv
<1>3. CASE phase = "update"
  BY <1>1, <1>3 DEF PassList, PassOf, ListsExact, Lists, TypeInv
<1>4. CASE phase = "before_render"
  BY <1>1, <1>4 DEF PassList, PassOf, ListsExact, Lists, TypeInv
<1> QED
  BY <1>2, <1>3, <1>4 DEF ScenePhases

\* A notification goes through the part of the array it counted.
ListOfVisit ==
  phase = "notify" =>
    /\ visit.slot = 0 => PassList = <<>>
    /\ visit.slot > 0 =>
         /\ SlotOrder[visit.slot] \in Entity
         /\ Current \in Seq(Component) /\ IsInjective(Current)
         /\ Len(PassList) = IF visit.count <= Len(Current) THEN visit.count ELSE Len(Current)
         /\ \A j \in 1..Len(PassList) : PassList[j] = Current[j]

LEMMA VisitedIs == RegistryInv /\ FrameTypeInv => ListOfVisit
<1> SUFFICES ASSUME RegistryInv, FrameTypeInv, phase = "notify"
             PROVE  /\ visit.slot = 0 => PassList = <<>>
                    /\ visit.slot > 0 =>
                         /\ SlotOrder[visit.slot] \in Entity
                         /\ Current \in Seq(Component) /\ IsInjective(Current)
                         /\ Len(PassList) = IF visit.count <= Len(Current) THEN visit.count
                                            ELSE Len(Current)
                         /\ \A j \in 1..Len(PassList) : PassList[j] = Current[j]
  BY DEF ListOfVisit
<1>1. visit.slot \in 0..Len(SlotOrder) /\ visit.count \in Nat
  BY DEF FrameTypeInv
<1>2. visit.slot = 0 => PassList = <<>>
  BY DEF PassList
<1>3. ASSUME visit.slot > 0
      PROVE  /\ SlotOrder[visit.slot] \in Entity
             /\ Current \in Seq(Component) /\ IsInjective(Current)
             /\ Len(PassList) = IF visit.count <= Len(Current) THEN visit.count ELSE Len(Current)
             /\ \A j \in 1..Len(PassList) : PassList[j] = Current[j]
  <2> DEFINE e == SlotOrder[visit.slot]
             list == components[e]
             n == Min({visit.count, Len(list)})
  <2>1. visit.slot \in 1..Len(SlotOrder) /\ e \in Entity
    BY <1>1, <1>3, SlotOrderIs
  <2>2. list \in Seq(Component) /\ IsInjective(list)
    <3>1. components[e] \in Seq(Component)
      BY <2>1 DEF RegistryInv, TypeInv
    <3>2. CASE e \in alive
      BY <3>1, <3>2 DEF RegistryInv, OwnersInv, OwnersAgree
    <3>3. CASE e \notin alive
      <4>1. components[e] = <<>>
        BY <2>1, <3>3 DEF RegistryInv, OwnersInv
      <4>2. IsInjective(<<>>)
        BY DEF IsInjective
      <4> QED
        BY <3>1, <4>1, <4>2
    <3> QED
      BY <3>1, <3>2, <3>3
  <2>3. PassList = SubSeq(list, 1, n)
    <3>1. PassList = Visited
      BY <1>3 DEF PassList
    <3> QED
      BY <3>1 DEF Visited
  <2> HIDE DEF e, list
  <2>4. n = IF visit.count <= Len(list) THEN visit.count ELSE Len(list)
    <3>1. visit.count \in Nat /\ Len(list) \in Nat
      BY <1>1, <2>2
    <3> QED
      BY <3>1 DEF Min
  <2> HIDE DEF n
  <2>5. n \in Nat /\ n <= Len(list) /\ Len(list) \in Nat
    BY <1>1, <2>2, <2>4
  <2>6. \A j \in 1..n : list[j] \in Component
    BY <2>2, <2>5
  <2>7. Len(SubSeq(list, 1, n)) = n /\ \A j \in 1..n : SubSeq(list, 1, n)[j] = list[j]
    BY <2>2, <2>5, <2>6
  <2> QED
    BY <2>1, <2>2, <2>3, <2>4, <2>7 DEF Current, e, list
<1> QED
  BY <1>2, <1>3

\* Of the pass, an item, and what follows it.
LEMMA RestOfItem ==
  ASSUME NEW list \in Seq(Component), IsInjective(list), NEW k \in Nat \ {0}
  PROVE  /\ k <= Len(list) => /\ list[k] \in Rest(list, k) /\ list[k] \notin Rest(list, k+1)
                              /\ list[k] \in Component
         /\ Rest(list, k+1) \subseteq Rest(list, k)
<1>1. Len(list) \in Nat /\ \A i, j \in 1..Len(list) : list[i] = list[j] => i = j
  BY DEF IsInjective
<1>2. Rest(list, k+1) \subseteq Rest(list, k)
  BY <1>1 DEF Rest
<1>3. ASSUME k <= Len(list)
      PROVE  list[k] \in Rest(list, k) /\ list[k] \notin Rest(list, k+1) /\ list[k] \in Component
  <2>1. k \in 1..Len(list)
    BY <1>1, <1>3
  <2> QED
    BY <1>1, <2>1 DEF Rest
<1> QED
  BY <1>2, <1>3

\* Components of different entities are different.
LEMMA OneOwner ==
  ASSUME RegistryInv, NEW e \in Entity, NEW f \in Entity, NEW c,
         c \in ToSet(components[e]), c \in ToSet(components[f])
  PROVE  e = f /\ c \in Component /\ c \in Attached
<1>1. components[e] \in Seq(Component) /\ components[f] \in Seq(Component)
      /\ TypeInv /\ OwnersInv
  BY DEF RegistryInv, TypeInv
<1>2. c \in Component /\ Contains(components[e], c) /\ Contains(components[f], c)
  BY <1>1, ContainsIsMembership DEF ToSet
<1>3. \A g \in Entity : Contains(components[g], c) => g \in alive
  BY <1>1 DEF OwnersInv, Contains
<1> QED
  BY <1>1, <1>2, <1>3 DEF OwnersInv, OwnersAgree, Attached
-----------------------------------------------------------------------------
(* The loops                                                                *)

\* Steps that leave the scene and the flags alone.
LEMMA RegistryKept ==
  ASSUME RegistryInv, UNCHANGED <<registryVars, started>>
  PROVE  RegistryInv' /\ Attached' = Attached
<1>1. /\ alive' = alive /\ components' = components /\ owner' = owner /\ started' = started
      /\ pending_start' = pending_start /\ update_list' = update_list
      /\ fixed_update_list' = fixed_update_list /\ before_render_list' = before_render_list
      /\ type_links' = type_links
  BY DEF registryVars, listVars
<1>2. Attached' = Attached
  BY <1>1 DEF Attached
<1>3. TypeInv' /\ OwnersInv' /\ ListsExact'
  BY <1>1, <1>2 DEF RegistryInv, TypeInv, OwnersInv, OwnersAgree, ListsExact
<1>4. LinksInv'
  BY <1>1, <1>2 DEF RegistryInv, LinksInv
<1> QED
  BY <1>2, <1>3, <1>4 DEF RegistryInv

\* The start of a pass: nobody was called, nothing was passed.
LEMMA BeginKeeps ==
  ASSUME SchedulerInv, UNCHANGED <<registryVars, started, flagVars>>,
         phase' \in {"idle", "start", "notify"} \cup ScenePhases,
         cursor' = 1, met' = NobodyMet, visit' = NoVisit, running' = NoComponent,
         snapshot' \in Seq(Component), phase' = "start" => IsInjective(snapshot')
  PROVE  SchedulerInv'
<1>1. RegistryInv' /\ FrameTypeInv
  BY RegistryKept DEF SchedulerInv
<1>2. FrameTypeInv'
  <2>1. enabled' = enabled /\ entity_enabled' = entity_enabled
    BY DEF flagVars
  <2>2. visit' \in [slot : 0..Len(SlotOrder), count : Nat]
    <3>1. Len(SlotOrder) \in Nat
      BY SlotOrderIs
    <3> QED
      BY <3>1 DEF NoVisit
  <2>3. met' \in [Component -> {"nothing", "called", "excused"}]
    BY DEF NobodyMet
  <2> QED
    BY <1>1, <2>1, <2>2, <2>3 DEF FrameTypeInv, MaybeComponent
<1>3. ListOfPass'
  BY <1>1, PassListIs, PTL
<1>4. visit'.slot = 0 /\ From' = 1 /\ \A c \in Component : met'[c] = "nothing"
  BY DEF NoVisit, From, NobodyMet
<1>5. TwiceInv'
  <2>1. ASSUME phase' \in ScenePhases \cup {"start"} PROVE NotCalled(Rest(PassList, From))'
    <3>1. PassList' \in Seq(Component)
      <4>1. CASE phase' = "start"
        BY <4>1 DEF PassList
      <4>2. CASE phase' # "start"
        BY <1>3, <2>1, <4>2 DEF ListOfPass
      <4> QED
        BY <4>1, <4>2
    <3>2. \A j \in 1..Len(PassList') : PassList'[j] \in Component
      BY <3>1
    <3> QED
      BY <1>4, <3>2 DEF NotCalled, Rest
  <2>2. ASSUME NEW k \in 1..Len(SlotOrder)
        PROVE  \A c \in ToSet(components'[SlotOrder[k]]) : met'[c] # "called"
    <3>1. SlotOrder[k] \in Entity
      BY SlotOrderIs
    <3>2. components'[SlotOrder[k]] \in Seq(Component)
      BY <1>1, <3>1 DEF RegistryInv, TypeInv
    <3>3. ToSet(components'[SlotOrder[k]]) \subseteq Component
      BY <3>2 DEF ToSet
    <3> QED
      BY <1>4, <3>3
  <2> QED
    BY <1>4, <2>1, <2>2 DEF TwiceInv, NotCalled
<1>6. MissedInv'
  <2>1. \A j \in 1..Len(PassList') : ~(j < From')
    BY <1>4
  <2>2. 1..visit'.slot-1 = {} /\ ~(visit'.slot > 0)
    BY <1>4
  <2> QED
    BY <2>1, <2>2 DEF MissedInv
<1> QED
  BY <1>1, <1>2, <1>5, <1>6 DEF SchedulerInv

LEMMA BeginUpdateKeeps ==
  ASSUME SchedulerInv, NEW mode, BeginUpdate(mode) PROVE SchedulerInv'
<1>1. /\ phase = "idle" /\ snapshot' = pending_start /\ phase' = "start" /\ cursor' = 1
      /\ met' = NobodyMet /\ visit' = NoVisit /\ running' = running
      /\ UNCHANGED <<registryVars, started, flagVars>>
  BY DEF BeginUpdate, BeginPass, PendingCopy
<1>2. pending_start \in Seq(Component) /\ IsInjective(pending_start) /\ running = NoComponent
  BY <1>1 DEF SchedulerInv, RegistryInv, TypeInv, ListsExact, Lists, FrameTypeInv
<1> QED
  BY <1>1, <1>2, BeginKeeps

LEMMA BeginOthersKeep ==
  ASSUME SchedulerInv, BeginBeforeRender \/ BeginNotify PROVE SchedulerInv'
<1>1. /\ phase = "idle" /\ snapshot' = snapshot /\ phase' \in {"before_render", "notify"}
      /\ cursor' = 1
      /\ met' = NobodyMet /\ visit' = NoVisit /\ running' = running
      /\ UNCHANGED <<registryVars, started, flagVars>>
  BY DEF BeginBeforeRender, BeginNotify, BeginPass
<1>2. snapshot \in Seq(Component) /\ running = NoComponent
  BY <1>1 DEF SchedulerInv, FrameTypeInv
<1> QED
  BY <1>1, <1>2, BeginKeeps DEF ScenePhases

LEMMA EndPassKeeps ==
  ASSUME SchedulerInv, EndPass PROVE SchedulerInv'
<1>1. /\ phase' \in {"idle", "fixed", "update"} /\ cursor' = 1
      /\ met' = NobodyMet /\ visit' = NoVisit
  BY DEF EndPass, BeginPass, AfterTime
<1>2. /\ running = NoComponent /\ running' = running /\ snapshot' = <<>>
      /\ UNCHANGED <<registryVars, started, flagVars>>
  BY DEF EndPass, InPass
<1>3. snapshot' \in Seq(Component)
  BY <1>2
<1> QED
  BY <1>1, <1>2, <1>3, BeginKeeps DEF ScenePhases

\* A step of the loop that changes no list goes on in the same list.
LEMMA SameList ==
  ASSUME components' = components, update_list' = update_list,
         fixed_update_list' = fixed_update_list, before_render_list' = before_render_list,
         phase' = phase, snapshot' = snapshot, visit' = visit
  PROVE  PassList' = PassList /\ Current' = Current
<1>1. Visited' = Visited
  BY DEF Visited
<1> QED
  BY <1>1 DEF PassList, Current

\* The loop passes over a component: what comes next is less, and the one
\* passed over is not to be called.
LEMMA SkipKeeps ==
  ASSUME SchedulerInv, Skip PROVE SchedulerInv'
<1>1. /\ running = NoComponent /\ cursor <= Len(PassList) /\ ~Eligible(PassList[cursor])
      /\ cursor' = cursor + 1 /\ running' = running /\ met' = met /\ phase' = phase
      /\ snapshot' = snapshot /\ visit' = visit
      /\ UNCHANGED <<registryVars, started, flagVars, editor>>
  BY DEF Skip, InPass, NextPosition
<1>2. /\ RegistryInv /\ FrameTypeInv /\ TwiceInv /\ MissedInv /\ RegistryInv'
      /\ cursor \in Nat \ {0}
  BY <1>1, RegistryKept DEF SchedulerInv, FrameTypeInv
<1>3. /\ components' = components /\ owner' = owner /\ alive' = alive
      /\ update_list' = update_list /\ fixed_update_list' = fixed_update_list
      /\ before_render_list' = before_render_list
      /\ enabled' = enabled /\ entity_enabled' = entity_enabled
  BY <1>1 DEF registryVars, listVars, flagVars
<1>4. PassList' = PassList /\ Current' = Current
  BY <1>1, <1>3, SameList
<1>5. From = cursor /\ From' = cursor + 1
  BY <1>1 DEF From
<1>6. FrameTypeInv'
  BY <1>1, <1>2, <1>3 DEF FrameTypeInv
<1>7. \A list : Rest(list, cursor + 1) \subseteq Rest(list, cursor)
  BY <1>2 DEF Rest
<1>8. TwiceInv'
  BY <1>1, <1>2, <1>3, <1>4, <1>5, <1>7 DEF TwiceInv, NotCalled
<1>9. phase # "notify"
  BY <1>1 DEF Eligible
<1>10. MissedInv'
  <2> SUFFICES ASSUME phase \in ScenePhases, NEW j \in 1..Len(PassList), j < cursor + 1,
                      Eligible(PassList[j])'
               PROVE  met[PassList[j]] # "nothing"
    BY <1>1, <1>4, <1>5, <1>9 DEF MissedInv
  <2>1. Eligible(PassList[j])
    BY <1>1, <1>3, <1>4 DEF Eligible, ShownInMode, OwnerEnabled
  <2>2. j # cursor
    BY <1>1, <2>1
  <2> QED
    BY <1>2, <1>5, <2>1, <2>2 DEF MissedInv
<1> QED
  BY <1>2, <1>6, <1>8, <1>10 DEF SchedulerInv

\* The component called is not among those that come next.
LEMMA CallKeeps ==
  ASSUME SchedulerInv, NEW c \in Component, Call(c) PROVE SchedulerInv' /\ met[c] # "called"
<1>1. /\ running = NoComponent /\ phase # "idle" /\ cursor <= Len(PassList)
      /\ c = PassList[cursor] /\ running' = c
      /\ met' = [met EXCEPT ![c] = "called"]
      /\ cursor' = cursor /\ phase' = phase /\ snapshot' = snapshot /\ visit' = visit
      /\ UNCHANGED <<registryVars, started, flagVars, editor>>
  BY DEF Call, InPass
<1>2. /\ RegistryInv /\ FrameTypeInv /\ TwiceInv /\ MissedInv /\ RegistryInv'
      /\ cursor \in Nat \ {0} /\ NoComponent \notin Component
      /\ phase \in {"start", "notify"} \cup ScenePhases
  BY <1>1, RegistryKept, Constants DEF SchedulerInv, FrameTypeInv
<1>3. /\ components' = components /\ owner' = owner /\ alive' = alive
      /\ update_list' = update_list /\ fixed_update_list' = fixed_update_list
      /\ before_render_list' = before_render_list
      /\ enabled' = enabled /\ entity_enabled' = entity_enabled
  BY <1>1 DEF registryVars, listVars, flagVars
<1>4. PassList' = PassList /\ Current' = Current
  BY <1>1, <1>3, SameList
<1>5. From = cursor /\ From' = cursor + 1
  BY <1>1, <1>2 DEF From
<1>6. /\ met' \in [Component -> {"nothing", "called", "excused"}] /\ met'[c] = "called"
      /\ \A d : d # c => (met'[d] = "called" <=> met[d] = "called")
      /\ \A d \in Component : d # c => met'[d] = met[d]
      /\ \A d : met'[d] = "nothing" => d # c
  BY <1>1, <1>2 DEF FrameTypeInv
<1>7. FrameTypeInv'
  BY <1>1, <1>2, <1>3, <1>6 DEF FrameTypeInv, MaybeComponent
<1>8. ListOfPass /\ ListOfVisit
  BY <1>2, PassListIs, VisitedIs
<1>9. CASE phase # "notify"
  <2>1. PassList \in Seq(Component) /\ IsInjective(PassList)
    <3>1. CASE phase = "start"
      BY <1>2, <3>1 DEF PassList, FrameTypeInv, TwiceInv
    <3>2. CASE phase # "start"
      BY <1>2, <1>8, <1>9, <3>2 DEF ListOfPass
    <3> QED
      BY <3>1, <3>2
  <2>2. /\ c \in Rest(PassList, cursor) /\ c \notin Rest(PassList, cursor + 1)
        /\ Rest(PassList, cursor + 1) \subseteq Rest(PassList, cursor)
    BY <1>1, <1>2, <2>1, RestOfItem
  <2>3. NotCalled(Rest(PassList, cursor))
    BY <1>2, <1>5, <1>9 DEF TwiceInv
  <2>4. \A d \in Rest(PassList, cursor + 1) : met'[d] # "called"
    BY <1>6, <2>2, <2>3 DEF NotCalled
  <2>5. TwiceInv'
    BY <1>1, <1>2, <1>4, <1>5, <1>9, <2>4 DEF TwiceInv, NotCalled
  <2>6. MissedInv'
    <3> SUFFICES ASSUME phase \in ScenePhases, NEW j \in 1..Len(PassList), j < cursor + 1,
                        Eligible(PassList[j])'
                 PROVE  met'[PassList[j]] # "nothing"
      BY <1>1, <1>4, <1>5, <1>9 DEF MissedInv
    <3>1. Eligible(PassList[j])
      BY <1>1, <1>3, <1>4 DEF Eligible, ShownInMode, OwnerEnabled
    <3>2. CASE PassList[j] = c
      BY <1>6, <3>2
    <3>3. CASE PassList[j] # c
      <4>1. j < cursor
        BY <1>1, <1>2, <3>3
      <4>2. PassList[j] \in Component
        BY <2>1
      <4> QED
        BY <1>2, <1>5, <1>6, <3>1, <3>3, <4>1, <4>2 DEF MissedInv
    <3> QED
      BY <3>2, <3>3
  <2> QED
    BY <1>2, <1>7, <2>2, <2>3, <2>5, <2>6 DEF SchedulerInv, NotCalled
<1>10. CASE phase = "notify"
  <2> DEFINE list == Current
  <2>1. /\ visit.slot \in 1..Len(SlotOrder) /\ Len(SlotOrder) \in Nat
        /\ list \in Seq(Component) /\ IsInjective(list)
        /\ cursor <= Len(list) /\ c = list[cursor]
    <3>1. visit.slot \in 0..Len(SlotOrder) /\ Len(SlotOrder) \in Nat
      BY <1>2, SlotOrderIs DEF FrameTypeInv
    <3>2. visit.slot # 0
      <4>1. visit.slot = 0 => Len(PassList) = 0
        BY <1>8, <1>10 DEF ListOfVisit
      <4> QED
        BY <1>1, <1>2, <4>1
    <3>3. /\ Current \in Seq(Component) /\ IsInjective(Current)
          /\ Len(PassList) = IF visit.count <= Len(Current) THEN visit.count ELSE Len(Current)
          /\ \A j \in 1..Len(PassList) : PassList[j] = Current[j]
      BY <1>8, <1>10, <3>1, <3>2 DEF ListOfVisit
    <3>4. Len(PassList) <= Len(Current) /\ Len(PassList) \in Nat
      BY <1>2, <3>3 DEF FrameTypeInv
    <3>5. cursor \in 1..Len(PassList)
      BY <1>1, <1>2, <3>4
    <3> QED
      BY <1>1, <1>2, <3>1, <3>2, <3>3, <3>4, <3>5
  <2>2. Current' = list
    BY <1>4
  <2>3. /\ NotCalled(Rest(list, cursor))
        /\ \A k \in visit.slot+1..Len(SlotOrder) : NotCalled(ToSet(components[SlotOrder[k]]))
    BY <1>2, <1>5, <1>10, <2>1 DEF TwiceInv
  <2>4. /\ \A k \in 1..visit.slot-1 :
             \A d \in ToSet(components[SlotOrder[k]]) : met[d] # "nothing"
        /\ \A j \in 1..Len(list) : j < cursor \/ j > visit.count => met[list[j]] # "nothing"
    BY <1>2, <1>5, <1>10, <2>1 DEF MissedInv
  <2>5. /\ list = components[SlotOrder[visit.slot]]
        /\ SlotOrder[visit.slot] \in Entity
    BY <2>1, SlotOrderIs DEF Current
  <2> HIDE DEF list
  <2>6. /\ c \in Rest(list, cursor) /\ c \notin Rest(list, cursor + 1)
        /\ Rest(list, cursor + 1) \subseteq Rest(list, cursor)
    BY <1>2, <2>1, RestOfItem
  <2>7. c \in ToSet(list)
    <3>1. cursor \in 1..Len(list)
      BY <1>2, <2>1
    <3> QED
      BY <2>1, <3>1 DEF ToSet
  <2>8. \A d \in Rest(list, cursor + 1) : met'[d] # "called"
    BY <1>6, <2>3, <2>6 DEF NotCalled
  <2>9. ASSUME NEW k \in visit.slot+1..Len(SlotOrder)
        PROVE  \A d \in ToSet(components[SlotOrder[k]]) : met'[d] # "called"
    <3>1. k \in 1..Len(SlotOrder) /\ k # visit.slot
      BY <2>1
    <3>2. SlotOrder[k] \in Entity /\ SlotOrder[k] # SlotOrder[visit.slot]
      <4>1. SlotOrder \in Seq(Entity) /\ visit.slot \in 1..Len(SlotOrder)
        BY <2>1, SlotOrderIs
      <4>2. SlotOrder[k] \in Entity
        BY <3>1, <4>1
      <4>3. SlotOrder[k] # SlotOrder[visit.slot]
        BY <3>1, <4>1, SlotOrderIs
      <4> QED
        BY <4>2, <4>3
    <3>3. c \notin ToSet(components[SlotOrder[k]])
      BY <1>2, <2>5, <2>7, <3>2, OneOwner
    <3> QED
      BY <1>6, <2>3, <3>3 DEF NotCalled
  <2>10. TwiceInv'
    BY <1>1, <1>3, <1>5, <1>10, <2>2, <2>8, <2>9 DEF TwiceInv, NotCalled, ScenePhases
  <2>11. \A k \in 1..visit.slot-1 :
           \A d \in ToSet(components[SlotOrder[k]]) : met'[d] # "nothing"
    <3> TAKE k \in 1..visit.slot-1
    <3> TAKE d \in ToSet(components[SlotOrder[k]])
    <3>1. d \in Component
      <4>1. k \in 1..Len(SlotOrder)
        BY <2>1
      <4>2. SlotOrder[k] \in Entity
        BY <4>1, SlotOrderIs
      <4> QED
        BY <1>2, <4>2, OneOwner
    <3> QED
      BY <1>6, <2>4, <3>1
  <2>12. \A j \in 1..Len(list) : j < cursor + 1 \/ j > visit.count => met'[list[j]] # "nothing"
    <3> TAKE j \in 1..Len(list)
    <3> HAVE j < cursor + 1 \/ j > visit.count
    <3>1. list[j] \in Component
      BY <2>1
    <3>2. CASE list[j] = c
      BY <1>6, <3>2
    <3>3. CASE list[j] # c
      <4>1. j < cursor \/ j > visit.count
        BY <1>2, <2>1, <3>3
      <4> QED
        BY <1>6, <2>4, <3>1, <3>3, <4>1
    <3> QED
      BY <3>2, <3>3
  <2>13. MissedInv'
    BY <1>1, <1>3, <1>5, <1>10, <2>2, <2>11, <2>12 DEF MissedInv, ScenePhases
  <2> QED
    BY <1>2, <1>7, <2>3, <2>6, <2>10, <2>13 DEF SchedulerInv, NotCalled
<1> QED
  BY <1>9, <1>10

\* The callback returns: the loop goes on behind the component it called,
\* which after `start` is on none of the lists of those that wait.
LEMMA ReturnKeeps ==
  ASSUME SchedulerInv, Return PROVE SchedulerInv'
<1>1. /\ running # NoComponent /\ running' = NoComponent /\ cursor' = cursor + 1
      /\ phase' = phase /\ snapshot' = snapshot /\ visit' = visit /\ editor' = editor
      /\ met' = met /\ UNCHANGED flagVars
      /\ alive' = alive /\ components' = components /\ owner' = owner
      /\ update_list' = update_list /\ fixed_update_list' = fixed_update_list
      /\ before_render_list' = before_render_list /\ type_links' = type_links
      /\ IF phase = "start"
           THEN /\ started' = [started EXCEPT ![running] = TRUE]
                /\ pending_start' = SwapRemove(pending_start, running)
           ELSE UNCHANGED <<started, pending_start>>
  BY DEF Return, NextPosition, PendingAfterStart
<1>2. RegistryInv /\ FrameTypeInv /\ TwiceInv /\ MissedInv /\ running \in Component
      /\ cursor \in Nat \ {0}
  BY <1>1 DEF SchedulerInv, FrameTypeInv, MaybeComponent
<1>3. enabled' = enabled /\ entity_enabled' = entity_enabled
  BY <1>1 DEF flagVars
<1>4. Attached' = Attached
  BY <1>1 DEF Attached
<1>5. RegistryInv'
  <2>1. TypeInv /\ OwnersInv /\ ListsExact /\ LinksInv
    BY <1>2 DEF RegistryInv
  <2>2. pending_start \in Seq(Component) /\ started \in [Component -> BOOLEAN]
        /\ IsInjective(pending_start)
        /\ ToSet(pending_start) = { c \in Attached : ~started[c] }
    BY <2>1 DEF TypeInv, ListsExact, Lists
  <2>3. /\ pending_start' \in Seq(Component) /\ started' \in [Component -> BOOLEAN]
        /\ Lists(pending_start', { c \in Attached : ~started'[c] })
    <3>1. CASE phase = "start"
      <4>1. started' = [started EXCEPT ![running] = TRUE]
            /\ pending_start' = SwapRemove(pending_start, running)
        BY <1>1, <3>1
      <4>2. /\ SwapRemove(pending_start, running) \in Seq(Component)
            /\ ToSet(SwapRemove(pending_start, running)) = ToSet(pending_start) \ {running}
            /\ IsInjective(SwapRemove(pending_start, running))
        BY <2>2, SwapRemoveType, SwapRemoveItems
      <4>3. started' \in [Component -> BOOLEAN]
            /\ \A c \in Component : started'[c] <=> started[c] \/ c = running
        BY <1>2, <2>2, <4>1
      <4>4. { c \in Attached : ~started'[c] } = { c \in Attached : ~started[c] } \ {running}
        BY <4>3 DEF Attached
      <4> QED
        BY <2>2, <4>1, <4>2, <4>3, <4>4 DEF Lists
    <3>2. CASE phase # "start"
      <4>1. started' = started /\ pending_start' = pending_start
        BY <1>1, <3>2
      <4> QED
        BY <2>2, <4>1 DEF Lists
    <3> QED
      BY <3>1, <3>2
  <2>4. TypeInv' /\ OwnersInv'
    BY <1>1, <2>1, <2>3 DEF TypeInv, OwnersInv, OwnersAgree
  <2>5. ListsExact'
    BY <1>1, <1>4, <2>1, <2>3 DEF ListsExact
  <2>6. LinksInv'
    BY <1>1, <1>4, <2>1 DEF LinksInv
  <2> QED
    BY <2>4, <2>5, <2>6 DEF RegistryInv
<1>6. PassList' = PassList /\ Current' = Current
  BY <1>1, SameList
<1>7. From' = From
  BY <1>1 DEF From
<1>8. FrameTypeInv'
  BY <1>1, <1>2, <1>3 DEF FrameTypeInv, MaybeComponent
<1>9. TwiceInv'
  BY <1>1, <1>2, <1>6, <1>7 DEF TwiceInv, NotCalled
<1>10. \A c : Eligible(c)' <=> Eligible(c)
  BY <1>1, <1>3 DEF Eligible, ShownInMode, OwnerEnabled
<1>11. MissedInv'
  BY <1>1, <1>2, <1>6, <1>7, <1>10 DEF MissedInv
<1> QED
  BY <1>5, <1>8, <1>9, <1>11 DEF SchedulerInv

\* A notification leaves an entity when it was at all it counted there.
LEMMA NextEntityKeeps ==
  ASSUME SchedulerInv, NextEntity PROVE SchedulerInv'
<1>1. /\ running = NoComponent /\ running' = running /\ phase = "notify" /\ phase' = phase
      /\ cursor > Len(PassList) /\ cursor' = 1 /\ visit.slot < Len(SlotOrder)
      /\ visit' = [slot |-> visit.slot + 1,
                   count |-> Len(components[SlotOrder[visit.slot + 1]])]
      /\ snapshot' = snapshot /\ met' = met
      /\ UNCHANGED <<registryVars, started, flagVars, editor>>
  BY DEF NextEntity, InPass
<1>2. /\ RegistryInv /\ FrameTypeInv /\ TwiceInv /\ MissedInv /\ RegistryInv'
      /\ cursor \in Nat \ {0} /\ visit.slot \in 0..Len(SlotOrder) /\ visit.count \in Nat
      /\ Len(SlotOrder) \in Nat
  BY <1>1, RegistryKept, SlotOrderIs DEF SchedulerInv, FrameTypeInv
<1>3. components' = components /\ enabled' = enabled /\ entity_enabled' = entity_enabled
  BY <1>1 DEF registryVars, listVars, flagVars
<1> DEFINE next == visit.slot + 1
           list == components[SlotOrder[next]]
<1>4. next \in 1..Len(SlotOrder) /\ SlotOrder[next] \in Entity /\ list \in Seq(Component)
  <2>1. next \in 1..Len(SlotOrder)
    BY <1>1, <1>2
  <2>2. SlotOrder[next] \in Entity
    BY <2>1, SlotOrderIs
  <2> QED
    BY <1>2, <2>1, <2>2 DEF RegistryInv, TypeInv
<1>5. visit'.slot = next /\ visit'.count = Len(list) /\ Current' = list
  BY <1>1, <1>3 DEF Current
<1>6. From' = 1 /\ From = cursor
  BY <1>1 DEF From
<1>7. FrameTypeInv'
  <2>1. visit' \in [slot : 0..Len(SlotOrder), count : Nat]
    BY <1>1, <1>2, <1>4
  <2> QED
    BY <1>1, <1>2, <1>3, <2>1 DEF FrameTypeInv
<1>8. TwiceInv'
  <2>1. NotCalled(ToSet(list))
    BY <1>1, <1>2, <1>4 DEF TwiceInv
  <2>2. Rest(list, 1) \subseteq ToSet(list)
    BY <1>4 DEF Rest, ToSet
  <2>3. \A c \in Rest(list, 1) : met'[c] # "called"
    BY <1>1, <2>1, <2>2 DEF NotCalled
  <2>4. \A k \in next+1..Len(SlotOrder) :
          \A c \in ToSet(components'[SlotOrder[k]]) : met'[c] # "called"
    BY <1>1, <1>2, <1>3 DEF TwiceInv, NotCalled
  <2> QED
    BY <1>1, <1>5, <1>6, <2>3, <2>4 DEF TwiceInv, NotCalled, ScenePhases
<1>9. MissedInv'
  <2>1. ASSUME NEW k \in 1..next-1
        PROVE  \A c \in ToSet(components[SlotOrder[k]]) : met[c] # "nothing"
    <3>1. CASE k < visit.slot
      BY <1>1, <1>2, <2>1, <3>1 DEF MissedInv
    <3>2. CASE k = visit.slot
      <4> DEFINE here == Current
      <4>1. visit.slot > 0
        BY <1>2, <2>1, <3>2
      <4>2. ListOfVisit
        BY <1>2, VisitedIs
      <4>3. /\ here \in Seq(Component)
            /\ Len(PassList) = IF visit.count <= Len(here) THEN visit.count ELSE Len(here)
        BY <1>1, <4>1, <4>2 DEF ListOfVisit
      <4>4. \A j \in 1..Len(here) : j < cursor \/ j > visit.count => met[here[j]] # "nothing"
        BY <1>1, <1>2, <1>6, <4>1 DEF MissedInv
      <4>5. here = components[SlotOrder[k]]
        BY <3>2 DEF Current
      <4> HIDE DEF here
      <4>6. \A j \in 1..Len(here) : j < cursor \/ j > visit.count
        <5>1. Len(here) \in Nat
          BY <4>3
        <5> QED
          BY <1>1, <1>2, <4>3, <5>1
      <4>7. \A c \in ToSet(here) : \E j \in 1..Len(here) : c = here[j]
        BY <4>3 DEF ToSet
      <4> QED
        BY <4>4, <4>5, <4>6, <4>7
    <3> QED
      BY <1>2, <2>1, <3>1, <3>2
  <2>2. \A j \in 1..Len(list) : ~(j < 1 \/ j > Len(list))
    OBVIOUS
  <2> QED
    BY <1>1, <1>3, <1>5, <1>6, <2>1, <2>2 DEF MissedInv, ScenePhases
<1> QED
  BY <1>2, <1>7, <1>8, <1>9 DEF SchedulerInv
-----------------------------------------------------------------------------
(* What the application does during a callback                              *)

\* The history after it: who was called stays called while it stays attached,
\* and of whom nothing became nothing was changed.
LEMMA RecordFacts ==
  ASSUME FrameTypeInv, phase # "idle", Record
  PROVE  /\ met' \in [Component -> {"nothing", "called", "excused"}]
         /\ \A c \in Component :
              /\ met'[c] = "called" => met[c] = "called" /\ (c \in Attached <=> c \in Attached')
              /\ met'[c] = "nothing" =>
                   /\ met[c] = "nothing" /\ (c \in Attached <=> c \in Attached')
                   /\ ~MovedOver(c)
                   /\ phase # "notify" => (c \in Runnable <=> c \in Runnable')
<1> DEFINE Changed(c) ==
             \/ (c \in Attached) # (c \in Attached')
             \/ /\ met[c] = "nothing"
                /\ \/ MovedOver(c)
                   \/ phase # "notify" /\ (c \in Runnable) # (c \in Runnable')
<1>1. met' = [c \in Component |-> IF Changed(c) THEN "excused" ELSE met[c]]
  BY DEF Record
<1>2. met \in [Component -> {"nothing", "called", "excused"}]
  BY DEF FrameTypeInv
<1>3. ASSUME NEW c \in Component, ~Changed(c)
      PROVE  /\ c \in Attached <=> c \in Attached'
             /\ met[c] = "nothing" =>
                  /\ ~MovedOver(c)
                  /\ phase # "notify" => (c \in Runnable <=> c \in Runnable')
  BY <1>3, Zenon
<1> HIDE DEF Changed
<1>4. \A c \in Component : met'[c] = IF Changed(c) THEN "excused" ELSE met[c]
  BY <1>1
<1>5. met' \in [Component -> {"nothing", "called", "excused"}]
  BY <1>1, <1>2
<1>6. ASSUME NEW c \in Component, met'[c] # "excused" PROVE ~Changed(c) /\ met'[c] = met[c]
  BY <1>4, <1>6
<1> QED
  BY <1>3, <1>5, <1>6

\* The position of an item.
LEMMA IndexOf ==
  ASSUME NEW list, NEW j \in 1..Len(list),
         \A i, k \in 1..Len(list) : list[i] = list[k] => i = k
  PROVE  Contains(list, list[j]) /\ FirstIndex(list, list[j]) = j
<1>1. \A i \in 1..j-1 : Len(list) \in Int => i \in 1..Len(list) /\ i # j
  OBVIOUS
<1> QED
  BY DEF Contains, FirstIndex

\* Where a component now stands that was left as it is: not before the place
\* it had, and not on the other side of the loop.
LEMMA StillAhead ==
  ASSUME NEW S, NEW list, NEW after, NEW j \in 1..Len(after),
         Len(list) \in Nat, Len(after) \in Nat,
         \A i, k \in 1..Len(list) : list[i] = list[k] => i = k,
         \A i, k \in 1..Len(after) : after[i] = after[k] => i = k,
         NothingMovesBack(list, after, S), after[j] \notin S
  PROVE  \E i \in 1..Len(list) :
           /\ list[i] = after[j] /\ i >= j
           /\ Contains(list, after[j]) /\ FirstIndex(list, after[j]) = i
           /\ Contains(after, after[j]) /\ FirstIndex(after, after[j]) = j
<1>1. after[j] \in Rest(after, j)
  BY DEF Rest
<1>2. after[j] \in Rest(list, j)
  <2>1. j \in Nat
    OBVIOUS
  <2> QED
    BY <1>1, <2>1 DEF NothingMovesBack
<1>3. PICK i \in 1..Len(list) : list[i] = after[j] /\ i >= j
  BY <1>2 DEF Rest
<1>4. Contains(list, after[j]) /\ FirstIndex(list, after[j]) = i
  BY <1>3, IndexOf
<1>5. Contains(after, after[j]) /\ FirstIndex(after, after[j]) = j
  BY IndexOf
<1> QED
  BY <1>3, <1>4, <1>5

\* The lists of a pass, after an operation that moves nothing back.
LEMMA PassKept ==
  ASSUME OrderKept, phase \in ScenePhases, phase' = phase
  PROVE  NothingMovesBack(PassList, PassList', Attached' \ Attached)
<1>1. CASE phase = "fixed"
  BY <1>1 DEF PassList, OrderKept
<1>2. CASE phase = "update"
  BY <1>2 DEF PassList, OrderKept
<1>3. CASE phase = "before_render"
  BY <1>3 DEF PassList, OrderKept
<1> QED
  BY <1>1, <1>2, <1>3 DEF ScenePhases

\* Whatever the application does, no component that was called comes up again
\* and none that is due is behind the loop.
LEMMA ApplicationKeeps ==
  ASSUME SchedulerInv, Application, Record, RegistryInv', OrderKept,
         UNCHANGED <<phase, editor, snapshot, cursor, running>>,
         enabled' \in [Component -> BOOLEAN], entity_enabled' \in [Entity -> BOOLEAN],
         visit' \in [slot : 0..Len(SlotOrder), count : Nat], visit'.slot = visit.slot,
         visit'.count = visit.count \/ Current' = <<>>
  PROVE  SchedulerInv'
<1>1. RegistryInv /\ FrameTypeInv /\ TwiceInv /\ MissedInv /\ From' = From
  BY DEF SchedulerInv, From
<1>2. CASE phase = "idle"
  <2>1. met' = met
    BY <1>2 DEF Record
  <2>2. FrameTypeInv' /\ TwiceInv' /\ MissedInv'
    BY <1>1, <1>2, <2>1 DEF FrameTypeInv, TwiceInv, MissedInv, ScenePhases
  <2> QED
    BY <2>2 DEF SchedulerInv
<1>3. CASE phase # "idle"
  <2> DEFINE new == Attached' \ Attached
             was == met
             is == met'
             at == cursor
  <2>1. FrameTypeInv'
    BY <1>1, <1>3, RecordFacts DEF FrameTypeInv
  <2>2. From = at + 1 /\ at \in Nat \ {0}
    BY <1>1, <1>3 DEF Application, From, FrameTypeInv
  <2>3. ListOfPass /\ ListOfVisit
    BY <1>1, PassListIs, VisitedIs
  <2>4. ListOfPass' /\ ListOfVisit'
    BY <2>1, PassListIs, VisitedIs, PTL
  <2>5. \A c \in Component : is[c] = "called" => was[c] = "called" /\ c \notin new
    BY <1>1, <1>3, RecordFacts
  <2>6. \A c \in Component :
          is[c] = "nothing" =>
            /\ was[c] = "nothing" /\ c \notin new /\ (c \in Attached <=> c \in Attached')
            /\ ~MovedOver(c)
            /\ phase # "notify" => (c \in Runnable <=> c \in Runnable')
    BY <1>1, <1>3, RecordFacts, Zenon
  <2>7. \A c \in Component : MovedOver(c) <=>
          /\ Contains(PassList, c) /\ FirstIndex(PassList, c) > at
          /\ Contains(PassList', c) /\ FirstIndex(PassList', c) <= at
    BY DEF MovedOver
  <2>8. Attached \subseteq Component /\ Attached' \subseteq Component
    BY DEF Attached
  <2>9. CASE phase \in ScenePhases
    <3> DEFINE list == PassList
               after == PassList'
    <3>1. /\ list \in Seq(Component) /\ after \in Seq(Component)
          /\ \A i, k \in 1..Len(list) : list[i] = list[k] => i = k
          /\ \A i, k \in 1..Len(after) : after[i] = after[k] => i = k
      BY <2>3, <2>4, <2>9 DEF ListOfPass, IsInjective
    <3>2. NothingMovesBack(list, after, new)
      BY <2>9, PassKept
    <3>3. NotCalled(Rest(list, From))
      BY <1>1, <2>9 DEF TwiceInv
    <3>4. TwiceInv'
      <4>1. \A c \in Rest(list, From) : was[c] # "called"
        BY <3>3 DEF NotCalled
      <4>2. Rest(after, From) \subseteq Rest(list, From) \cup new
        BY <2>2, <3>2 DEF NothingMovesBack
      <4>3. Rest(after, From) \subseteq Component
        BY <3>1 DEF Rest
      <4>4. \A c \in Rest(after, From) : is[c] # "called"
        BY <2>5, <4>1, <4>2, <4>3
      <4> QED
        BY <1>1, <2>9, <4>4 DEF TwiceInv, NotCalled, ScenePhases
    <3>5. ASSUME NEW j \in 1..Len(after), j < From, Eligible(PassList[j])'
          PROVE  is[after[j]] # "nothing"
      <4> SUFFICES ASSUME NEW d, d = after[j], is[d] = "nothing" PROVE FALSE
        OBVIOUS
      <4>1. d \in Component /\ d \in Attached'
        BY <2>4, <2>9, <3>1 DEF ListOfPass, ToSet
      <4>2. was[d] = "nothing" /\ d \notin new /\ d \in Attached /\ ~MovedOver(d)
            /\ (d \in Runnable <=> d \in Runnable')
        BY <2>6, <2>9, <4>1 DEF ScenePhases
      <4>3. PICK i \in 1..Len(list) :
              /\ list[i] = d /\ i >= j
              /\ Contains(list, d) /\ FirstIndex(list, d) = i
              /\ Contains(after, d) /\ FirstIndex(after, d) = j
        <5>1. Len(list) \in Nat /\ Len(after) \in Nat
          BY <3>1
        <5> HIDE DEF list, after, new
        <5> QED
          BY <3>1, <3>2, <4>2, <5>1, StillAhead
      <4>4. i < From
        BY <2>2, <2>7, <3>5, <4>1, <4>2, <4>3
      <4>5. Eligible(d)
        <5>1. enabled'[d] /\ OwnerEnabled(d)'
          BY <2>9, <3>5 DEF Eligible, OwnerEnabled, ScenePhases
        <5>2. phase # "before_render" => ShownInMode(d)
          BY <2>9, <3>5 DEF Eligible, ScenePhases, ShownInMode
        <5>3. d \in Runnable'
          BY <4>1, <5>1 DEF Runnable
        <5>4. d \in Runnable
          BY <4>2, <5>3
        <5> QED
          BY <5>2, <5>4 DEF Eligible, Runnable
      <4> QED
        BY <1>1, <2>9, <4>2, <4>3, <4>4, <4>5 DEF MissedInv
    <3>6. MissedInv'
      BY <1>1, <2>9, <3>5 DEF MissedInv, ScenePhases
    <3> QED
      BY <2>1, <3>4, <3>6 DEF SchedulerInv
  <2>10. CASE phase = "start"
    <3>1. PassList' = PassList /\ PassList \in Seq(Component)
      BY <1>1, <2>10 DEF PassList, FrameTypeInv
    <3>2. \A c \in Rest(PassList, From) : was[c] # "called"
      BY <1>1, <2>10 DEF TwiceInv, NotCalled
    <3>3. Rest(PassList, From) \subseteq Component
      BY <3>1 DEF Rest
    <3>4. \A c \in Rest(PassList, From) : is[c] # "called"
      BY <2>5, <3>2, <3>3
    <3>5. TwiceInv' /\ MissedInv'
      BY <1>1, <2>10, <3>1, <3>4 DEF TwiceInv, MissedInv, NotCalled, ScenePhases
    <3> QED
      BY <2>1, <3>5 DEF SchedulerInv
  <2>11. CASE phase = "notify"
    <3>1. ASSUME NEW e \in Entity
          PROVE  /\ components[e] \in Seq(Component) /\ components'[e] \in Seq(Component)
                 /\ NothingMovesBack(components[e], components'[e], new)
                 /\ ToSet(components'[e]) \subseteq ToSet(components[e]) \cup new
                 /\ ToSet(components'[e]) \subseteq Component
      <4>1. /\ components[e] \in Seq(Component) /\ components'[e] \in Seq(Component)
            /\ NothingMovesBack(components[e], components'[e], new)
        BY <1>1 DEF RegistryInv, TypeInv, OrderKept
      <4>2. ToSet(components'[e]) = Rest(components'[e], 0) /\ ToSet(components[e]) = Rest(components[e], 0)
        BY <4>1 DEF ToSet, Rest
      <4>3. Rest(components'[e], 0) \subseteq Rest(components[e], 0) \cup new
        BY <4>1 DEF NothingMovesBack
      <4>4. ToSet(components'[e]) \subseteq Component
        BY <4>1 DEF ToSet
      <4> QED
        BY <4>1, <4>2, <4>3, <4>4
    <3>2. \A k \in visit.slot+1..Len(SlotOrder) :
            \A c \in ToSet(components'[SlotOrder[k]]) : is[c] # "called"
      <4> TAKE k \in visit.slot+1..Len(SlotOrder)
      <4>1. k \in 1..Len(SlotOrder) /\ SlotOrder[k] \in Entity
        <5>1. k \in 1..Len(SlotOrder)
          BY <1>1 DEF FrameTypeInv
        <5> QED
          BY <5>1, SlotOrderIs
      <4>2. \A c \in ToSet(components[SlotOrder[k]]) : was[c] # "called"
        BY <1>1, <2>11 DEF TwiceInv, NotCalled
      <4> QED
        BY <2>5, <3>1, <4>1, <4>2
    <3>3. \A k \in 1..visit.slot-1 :
            \A c \in ToSet(components'[SlotOrder[k]]) : is[c] # "nothing"
      <4> TAKE k \in 1..visit.slot-1
      <4>1. k \in 1..Len(SlotOrder) /\ SlotOrder[k] \in Entity
        <5>1. k \in 1..Len(SlotOrder)
          <6>1. visit.slot \in 0..Len(SlotOrder) /\ Len(SlotOrder) \in Nat
            BY <1>1, SlotOrderIs DEF FrameTypeInv
          <6> QED
            BY <6>1
        <5> QED
          BY <5>1, SlotOrderIs
      <4>2. \A c \in ToSet(components[SlotOrder[k]]) : was[c] # "nothing"
        BY <1>1, <2>11 DEF MissedInv
      <4> QED
        BY <2>6, <3>1, <4>1, <4>2
    <3>4. ASSUME visit.slot > 0
          PROVE  /\ \A c \in Rest(Current', From) : is[c] # "called"
                 /\ \A j \in 1..Len(Current') :
                      j < From \/ j > visit'.count => is[Current'[j]] # "nothing"
      <4> DEFINE e == SlotOrder[visit.slot]
                 list == components[e]
                 after == components'[e]
      <4>1. e \in Entity /\ list = Current /\ after = Current'
        BY <2>3, <2>11, <3>4 DEF ListOfVisit, Current
      <4>2. /\ list \in Seq(Component) /\ after \in Seq(Component)
            /\ NothingMovesBack(list, after, new)
        BY <3>1, <4>1
      <4>3. /\ \A i, k \in 1..Len(list) : list[i] = list[k] => i = k
            /\ \A i, k \in 1..Len(after) : after[i] = after[k] => i = k
        BY <2>3, <2>4, <2>11, <3>4, <4>1 DEF ListOfVisit, IsInjective
      <4>4. \A c \in Rest(after, From) : is[c] # "called"
        <5>1. \A c \in Rest(list, From) : was[c] # "called"
          BY <1>1, <2>11, <3>4, <4>1 DEF TwiceInv, NotCalled
        <5>2. Rest(after, From) \subseteq Rest(list, From) \cup new
          BY <2>2, <4>2 DEF NothingMovesBack
        <5>3. Rest(after, From) \subseteq Component
          BY <4>2 DEF Rest
        <5> QED
          BY <2>5, <5>1, <5>2, <5>3
      <4>5. ASSUME NEW j \in 1..Len(after), j < From \/ j > visit'.count,
                   NEW d, d = after[j], is[d] = "nothing"
            PROVE  FALSE
        <5>1. d \in Component /\ after # <<>>
          BY <4>2, <4>5
        <5>2. was[d] = "nothing" /\ d \notin new /\ ~MovedOver(d)
          BY <2>6, <4>5, <5>1, Zenon
        <5>3. visit'.count = visit.count /\ visit.count \in Nat
          BY <1>1, <4>1, <5>1 DEF FrameTypeInv
        <5>4. PICK i \in 1..Len(list) :
                /\ list[i] = d /\ i >= j
                /\ Contains(list, d) /\ FirstIndex(list, d) = i
                /\ Contains(after, d) /\ FirstIndex(after, d) = j
          <6>1. Len(list) \in Nat /\ Len(after) \in Nat
            BY <4>2
          <6> HIDE DEF list, after, new
          <6> QED
            BY <4>2, <4>3, <4>5, <5>2, <6>1, StillAhead
        <5>5. ~(i < From) /\ ~(i > visit.count)
          <6>1. \A p \in 1..Len(list) : p < From \/ p > visit.count => was[list[p]] # "nothing"
            BY <1>1, <2>11, <3>4, <4>1 DEF MissedInv
          <6> QED
            BY <5>2, <5>4, <6>1
        <5>6. i > at /\ j <= at /\ i <= visit.count /\ j <= visit.count
          BY <2>2, <4>5, <5>3, <5>4, <5>5
        <5> DEFINE seen == PassList
                   seen_after == PassList'
        <5>7. /\ Len(seen) = IF visit.count <= Len(list) THEN visit.count ELSE Len(list)
              /\ \A p \in 1..Len(seen) : seen[p] = list[p]
          BY <2>3, <2>11, <3>4, <4>1 DEF ListOfVisit
        <5>8. /\ Len(seen_after) = IF visit.count <= Len(after) THEN visit.count ELSE Len(after)
              /\ \A p \in 1..Len(seen_after) : seen_after[p] = after[p]
          BY <2>4, <2>11, <3>4, <4>1, <5>3 DEF ListOfVisit
        <5>9. Len(list) \in Nat /\ Len(after) \in Nat
          BY <4>2
        <5>10. i \in 1..Len(seen) /\ j \in 1..Len(seen_after)
          BY <5>3, <5>6, <5>7, <5>8, <5>9
        <5> HIDE DEF list, after, seen, seen_after, new
        <5>11. /\ \A p, k \in 1..Len(seen) : seen[p] = seen[k] => p = k
               /\ \A p, k \in 1..Len(seen_after) : seen_after[p] = seen_after[k] => p = k
          <6>1. \A p \in 1..Len(seen) : p \in 1..Len(list)
            BY <5>3, <5>7, <5>9
          <6>2. \A p \in 1..Len(seen_after) : p \in 1..Len(after)
            BY <5>3, <5>8, <5>9
          <6> QED
            BY <4>3, <5>7, <5>8, <6>1, <6>2
        <5>12. Contains(seen, d) /\ FirstIndex(seen, d) = i
          <6>1. seen[i] = d
            BY <5>4, <5>7, <5>10
          <6> QED
            BY <5>10, <5>11, <6>1, IndexOf
        <5>13. Contains(seen_after, d) /\ FirstIndex(seen_after, d) = j
          <6>1. seen_after[j] = d
            BY <4>5, <5>8, <5>10
          <6> QED
            BY <5>10, <5>11, <6>1, IndexOf
        <5>14. MovedOver(d)
          BY <2>7, <5>1, <5>6, <5>12, <5>13 DEF seen, seen_after
        <5> QED
          BY <5>2, <5>14
      <4> QED
        BY <4>1, <4>4, <4>5
    <3>5. TwiceInv'
      BY <1>1, <2>11, <3>2, <3>4 DEF TwiceInv, NotCalled, ScenePhases
    <3>6. MissedInv'
      BY <1>1, <2>11, <3>3, <3>4 DEF MissedInv, ScenePhases
    <3> QED
      BY <2>1, <3>5, <3>6 DEF SchedulerInv
  <2> QED
    BY <1>1, <1>3, <2>9, <2>10, <2>11 DEF FrameTypeInv
<1> QED
  BY <1>2, <1>3

LEMMA ChangeRegistryKeeps ==
  ASSUME SchedulerInv, ChangeRegistry PROVE SchedulerInv'
<1>1. RegistryInv /\ FrameTypeInv
  BY DEF SchedulerInv
<1>2. /\ Application /\ RegistryNext /\ Record
      /\ entity_enabled' =
           [e \in Entity |-> IF e \in alive' \ alive THEN TRUE ELSE entity_enabled[e]]
      /\ visit' = IF visit.slot > 0 /\ SlotOrder[visit.slot] \in alive \ alive'
                  THEN [visit EXCEPT !.count = 0] ELSE visit
      /\ UNCHANGED <<enabled, phase, editor, snapshot, cursor, running>>
  BY DEF ChangeRegistry
<1>3. RegistryInv' /\ OrderKept
  BY <1>1, <1>2, RegistryNextOrder
<1>4. enabled' \in [Component -> BOOLEAN] /\ entity_enabled' \in [Entity -> BOOLEAN]
  BY <1>1, <1>2 DEF FrameTypeInv
<1>5. /\ visit' \in [slot : 0..Len(SlotOrder), count : Nat] /\ visit'.slot = visit.slot
      /\ visit'.count = visit.count \/ Current' = <<>>
  <2>1. visit \in [slot : 0..Len(SlotOrder), count : Nat]
    BY <1>1 DEF FrameTypeInv
  <2>2. CASE visit.slot > 0 /\ SlotOrder[visit.slot] \in alive \ alive'
    <3>1. visit' = [visit EXCEPT !.count = 0]
      BY <1>2, <2>2
    <3>2. visit' \in [slot : 0..Len(SlotOrder), count : Nat] /\ visit'.slot = visit.slot
      BY <2>1, <3>1
    <3>3. SlotOrder[visit.slot] \in Entity
      BY <1>1, <2>2 DEF RegistryInv, TypeInv
    <3>4. components'[SlotOrder[visit.slot]] = <<>>
      BY <1>3, <2>2, <3>3 DEF RegistryInv, OwnersInv
    <3>5. Current' = <<>>
      BY <3>2, <3>4 DEF Current
    <3> QED
      BY <3>2, <3>5
  <2>3. CASE ~(visit.slot > 0 /\ SlotOrder[visit.slot] \in alive \ alive')
    <3>1. visit' = visit
      BY <1>2, <2>3
    <3> QED
      BY <2>1, <3>1
  <2> QED
    BY <2>2, <2>3
<1> QED
  BY <1>2, <1>3, <1>4, <1>5, ApplicationKeeps

\* A change of a flag.
LEMMA FlagChangeKeeps ==
  ASSUME SchedulerInv, Application, Record, UNCHANGED <<registryVars, started, passVars>>,
         enabled' \in [Component -> BOOLEAN], entity_enabled' \in [Entity -> BOOLEAN]
  PROVE  SchedulerInv'
<1>1. RegistryInv' /\ FrameTypeInv
  BY RegistryKept DEF SchedulerInv
<1>2. UNCHANGED <<phase, editor, snapshot, visit, cursor, running>>
  BY DEF passVars
<1>3. /\ components' = components /\ update_list' = update_list
      /\ fixed_update_list' = fixed_update_list /\ before_render_list' = before_render_list
  BY DEF registryVars, listVars
<1>4. OrderKept
  BY <1>3, NothingMovedBack DEF OrderKept
<1>5. visit' \in [slot : 0..Len(SlotOrder), count : Nat] /\ visit'.slot = visit.slot
      /\ visit'.count = visit.count
  BY <1>1, <1>2 DEF FrameTypeInv
<1> QED
  BY <1>1, <1>2, <1>4, <1>5, ApplicationKeeps

LEMMA SetEnabledKeeps ==
  ASSUME SchedulerInv, NEW c \in Component, NEW value \in BOOLEAN, SetEnabled(c, value)
  PROVE  SchedulerInv'
<1>1. /\ Application /\ Record /\ enabled' = [enabled EXCEPT ![c] = value]
      /\ UNCHANGED <<registryVars, started, entity_enabled, passVars>>
  BY DEF SetEnabled
<1>2. enabled' \in [Component -> BOOLEAN] /\ entity_enabled' \in [Entity -> BOOLEAN]
  BY <1>1, Zenon DEF SchedulerInv, FrameTypeInv
<1> QED
  BY <1>1, <1>2, FlagChangeKeeps

LEMMA SetEntityEnabledKeeps ==
  ASSUME SchedulerInv, NEW e \in Entity, NEW value \in BOOLEAN, SetEntityEnabled(e, value)
  PROVE  SchedulerInv'
<1>1. /\ Application /\ Record /\ entity_enabled' = [entity_enabled EXCEPT ![e] = value]
      /\ UNCHANGED <<registryVars, started, enabled, passVars>>
  BY DEF SetEntityEnabled
<1>2. enabled' \in [Component -> BOOLEAN] /\ entity_enabled' \in [Entity -> BOOLEAN]
  BY <1>1, Zenon DEF SchedulerInv, FrameTypeInv
<1> QED
  BY <1>1, <1>2, FlagChangeKeeps

\* A step of which the lists, the flags and the history know nothing.
LEMMA IdleKeeps ==
  ASSUME SchedulerInv, UNCHANGED <<registryVars, started, flagVars, passVars, met>>
  PROVE  SchedulerInv'
<1>1. RegistryInv' /\ FrameTypeInv /\ TwiceInv /\ MissedInv
  BY RegistryKept DEF SchedulerInv
<1>2. /\ UNCHANGED <<phase, editor, snapshot, visit, cursor, running, met>>
      /\ UNCHANGED <<enabled, entity_enabled, alive, components, owner, update_list,
                     fixed_update_list, before_render_list>>
  BY DEF passVars, flagVars, registryVars, listVars
<1>3. PassList' = PassList /\ Current' = Current /\ From' = From
  BY <1>2, SameList DEF From
<1>4. \A c : Eligible(c)' <=> Eligible(c)
  BY <1>2 DEF Eligible, ShownInMode, OwnerEnabled
<1>5. FrameTypeInv' /\ TwiceInv'
  BY <1>1, <1>2, <1>3 DEF FrameTypeInv, TwiceInv, NotCalled
<1>6. MissedInv'
  BY <1>1, <1>2, <1>3, <1>4 DEF MissedInv
<1> QED
  BY <1>1, <1>5, <1>6 DEF SchedulerInv
-----------------------------------------------------------------------------
(* The specification                                                        *)

LEMMA SchedulerInit == Init => SchedulerInv
<1> SUFFICES ASSUME Init PROVE SchedulerInv
  OBVIOUS
<1>1. RegistryInv
  BY RegistryInitInv DEF Init
<1>2. FrameTypeInv
  <2>1. Len(SlotOrder) \in Nat
    BY SlotOrderIs
  <2>2. NoVisit \in [slot : 0..Len(SlotOrder), count : Nat] /\ <<>> \in Seq(Component)
    BY <2>1 DEF NoVisit
  <2> QED
    BY <2>2 DEF Init, FrameTypeInv, NobodyMet, MaybeComponent
<1>3. TwiceInv /\ MissedInv
  BY DEF Init, TwiceInv, MissedInv, ScenePhases
<1> QED
  BY <1>1, <1>2, <1>3 DEF SchedulerInv

LEMMA SchedulerNext ==
  ASSUME SchedulerInv, [Next]_vars PROVE SchedulerInv'
<1>1. ASSUME NEW mode \in BOOLEAN, BeginUpdate(mode) PROVE SchedulerInv'
  BY <1>1, BeginUpdateKeeps
<1>2. CASE BeginBeforeRender \/ BeginNotify
  BY <1>2, BeginOthersKeep
<1>3. CASE FrameStep
  BY <1>3, SkipKeeps, CallKeeps, ReturnKeeps, NextEntityKeeps, EndPassKeeps DEF FrameStep
<1>4. CASE ChangeRegistry
  BY <1>4, ChangeRegistryKeeps
<1>5. ASSUME NEW c \in Component, NEW value \in BOOLEAN, SetEnabled(c, value)
      PROVE  SchedulerInv'
  BY <1>5, SetEnabledKeeps
<1>6. ASSUME NEW e \in Entity, NEW value \in BOOLEAN, SetEntityEnabled(e, value)
      PROVE  SchedulerInv'
  BY <1>6, SetEntityEnabledKeeps
<1>7. CASE ResetAccumulatedTime
  BY <1>7, IdleKeeps DEF ResetAccumulatedTime
<1>8. CASE UNCHANGED vars
  BY <1>8, IdleKeeps DEF vars
<1> QED
  BY <1>1, <1>2, <1>3, <1>4, <1>5, <1>6, <1>7, <1>8 DEF Next

\* A pass ends when the loop is behind all its list, and a notification when
\* it is behind the last slot.
LEMMA EndMissesNobody ==
  ASSUME SchedulerInv, NEW c \in Component, EndPass, phase # "start", Eligible(c),
         IF phase = "notify" THEN c \in Attached ELSE Contains(PassList, c)
  PROVE  met[c] # "nothing"
<1>1. /\ phase # "idle" /\ running = NoComponent /\ cursor > Len(PassList)
      /\ phase = "notify" => visit.slot = Len(SlotOrder)
  BY DEF EndPass, InPass
<1>2. RegistryInv /\ FrameTypeInv /\ MissedInv /\ From = cursor /\ cursor \in Nat \ {0}
  BY <1>1 DEF SchedulerInv, From, FrameTypeInv
<1>3. CASE phase \in ScenePhases
  <2>1. PassList \in Seq(Component)
    BY <1>2, <1>3, PassListIs DEF ListOfPass
  <2>2. PICK j \in 1..Len(PassList) : PassList[j] = c
    BY <1>3 DEF Contains, ScenePhases
  <2>3. j < From
    BY <1>1, <1>2, <2>1
  <2> QED
    BY <1>2, <1>3, <2>2, <2>3 DEF MissedInv
<1>4. CASE phase = "notify"
  <2>1. PICK e \in Entity : c \in ToSet(components[e])
    <3>1. PICK e \in alive : Contains(components[e], c)
      BY <1>4 DEF Attached
    <3>2. e \in Entity /\ components[e] \in Seq(Component)
      BY <1>2, <3>1 DEF RegistryInv, TypeInv
    <3> QED
      BY <3>1, <3>2, ContainsIsMembership
  <2>2. PICK k \in 1..Len(SlotOrder) : SlotOrder[k] = e
    BY SlotOrderIs
  <2>3. Len(SlotOrder) \in Nat /\ visit.slot = Len(SlotOrder) /\ visit.slot > 0
    BY <1>1, <1>4, <2>2, SlotOrderIs
  <2>4. CASE k < visit.slot
    BY <1>2, <1>4, <2>1, <2>2, <2>3, <2>4 DEF MissedInv
  <2>5. CASE k = visit.slot
    <3> DEFINE here == Current
    <3>1. /\ here \in Seq(Component)
          /\ Len(PassList) = IF visit.count <= Len(here) THEN visit.count ELSE Len(here)
      BY <1>2, <1>4, <2>3, VisitedIs DEF ListOfVisit
    <3>2. \A j \in 1..Len(here) : j < From \/ j > visit.count => met[here[j]] # "nothing"
      BY <1>2, <1>4, <2>3 DEF MissedInv
    <3>3. c \in ToSet(here)
      BY <2>1, <2>2, <2>5 DEF Current
    <3> HIDE DEF here
    <3>4. PICK j \in 1..Len(here) : here[j] = c
      BY <3>1, <3>3 DEF ToSet
    <3>5. Len(here) \in Nat /\ visit.count \in Nat
      BY <1>2, <3>1 DEF FrameTypeInv
    <3>6. j < From \/ j > visit.count
      BY <1>1, <1>2, <3>1, <3>5
    <3> QED
      BY <3>2, <3>4, <3>6
  <2> QED
    BY <2>2, <2>3, <2>4, <2>5
<1> QED
  BY <1>1, <1>2, <1>3, <1>4 DEF FrameTypeInv

THEOREM SchedulerInvariant == Spec => []SchedulerInv
<1>1. Init => SchedulerInv
  BY SchedulerInit
<1>2. SchedulerInv /\ [Next]_vars => SchedulerInv'
  BY SchedulerNext
<1> QED
  BY <1>1, <1>2, PTL DEF Spec

\* ListsExact: while callbacks add, remove, enable and free what they like in
\* the middle of a pass, and `start` takes what it called off pending_start,
\* every list of the scene stays exact.
THEOREM ListsExactInFrames == Spec => []ListsExact
<1>1. SchedulerInv => ListsExact
  BY DEF SchedulerInv, RegistryInv
<1> QED
  BY <1>1, SchedulerInvariant, PTL

\* NobodyTwice: no pass of tc_scene_update, tc_scene_editor_update or
\* tc_scene_before_render and no notification calls a component twice unless
\* it was taken off and added again.
THEOREM NobodyIsCalledTwice == Spec => NobodyTwice
<1>1. SchedulerInv /\ [Next]_vars =>
        [\A c \in Component : Call(c) => met[c] # "called"]_vars
  BY CallKeeps
<1> QED
  BY <1>1, SchedulerInvariant, PTL DEF Spec, NobodyTwice

\* NobodyMissed: whoever is due when a pass ends was called in it, but for
\* those added, enabled or disabled in it and those a removal moved over the
\* place of another the loop had left behind.
THEOREM NobodyIsMissed == Spec => NobodyMissed
<1>1. SchedulerInv /\ [Next]_vars =>
        [\A c \in Component :
           /\ EndPass /\ phase # "start" /\ Eligible(c)
           /\ IF phase = "notify" THEN c \in Attached ELSE Contains(PassList, c)
           => met[c] # "nothing"]_vars
  BY EndMissesNobody
<1> QED
  BY <1>1, SchedulerInvariant, PTL DEF Spec, NobodyMissed
==============================================================================
