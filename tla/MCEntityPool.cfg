SPECIFICATION Spec
CONSTANTS
  InitialCapacity = 1
  MaxCapacity = 4
  GenerationMod = 2
  MaxPickId = 6
  Uuid = {u1, u2, u3, u4}
  NoUuid = NoUuid
  NoId = NoId
  DistinctUuids = TRUE
SYMMETRY Symmetry
INVARIANTS TypeOK SlotAccounting StaleIdsStayDead HierarchyAgrees LookupsAgree
PROPERTY ImplementsHandleStore
CHECK_DEADLOCK FALSE
