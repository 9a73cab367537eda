SPECIFICATION LifetimeSpec
CONSTANTS
  c1 = c1
  c2 = c2
  c3 = c3
  c4 = c4
  shared = shared
  single = single
  Entity = {e1, e2}
  Component = {c1, c2, c3, c4}
  Type = {shared, single}
  TypeOf <- Types
  HasUpdate = {c1, c2}
  HasFixedUpdate = {c2, c3}
  HasBeforeRender = {c3, c4}
  NoComponent = NoComponent
  NoOwner = NoOwner
  DeadOwner = DeadOwner
  Python = {c3}
  Bindable = {c1}
  Disabled = {c2}
  MaxHost = 1
SYMMETRY Interchangeable
INVARIANTS OwnersAgree ListsExact TypeListsExact RefsExact NoDangling WalkMeetsAll
