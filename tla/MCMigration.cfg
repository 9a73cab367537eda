SPECIFICATION Spec
CONSTANTS
  p1 = p1
  p2 = p2
  Pool = {p1, p2}
  Room <- Rooms
  Capacity = 3
  MaxGeneration = 1
  Thing = {a, b, c}
  Component = {k}
  None = None
  DeadOwner = DeadOwner
SYMMETRY Interchangeable
INVARIANTS ComponentsFollow ChildrenAgree
PROPERTY ImplementsForest
CHECK_DEADLOCK FALSE
