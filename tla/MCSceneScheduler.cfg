SPECIFICATION FairSpec
CONSTANTS
  c1 = c1
  c2 = c2
  Entity = {e1, e2}
  Component = {c1, c2}
  Type = {c1, c2}
  TypeOf <- Types
  HasUpdate = {c1, c2}
  HasFixedUpdate = {c1}
  HasBeforeRender = {c2}
  NoComponent = NoComponent
  NoOwner = NoOwner
  DeadOwner = DeadOwner
  ActiveInEditor = {c1}
  FixedStep = 1
  FrameTimes = {0, 2}
INVARIANT ListsExact
PROPERTIES NobodyTwice NobodyMissed PendingIsStarted FrameEnds
CHECK_DEADLOCK FALSE
