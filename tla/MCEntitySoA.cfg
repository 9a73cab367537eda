SPECIFICATION Spec
CONSTANTS
  Slots = {s1, s2, s3}
  MaxGeneration = 1
  Types = {plain, owning}
  InitTypes = {owning}
  DestroyTypes = {owning}
  MaxBirths = 5
  NoArchetype = NoArchetype
SYMMETRY Symmetry
INVARIANTS RowsAgree NoDoubleDestroy QueryIsExact
PROPERTY ImplementsComponentTable
CHECK_DEADLOCK FALSE
