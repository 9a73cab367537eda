SPECIFICATION FileSpec
CONSTANTS
  known = known
  unknown = unknown
  Nodes = {0, 1, 2}
  Capacity = 5
  Type = {known, unknown}
  Contents <- Lists
  Known = {known}
  Placeholder = UnknownComponent
  None = None
  Name = name
  Fresh = fresh
  MaxHooks = 2
INVARIANTS ReloadIsFaithful HooksSeeWholeScene NoStrayComponent
CHECK_DEADLOCK FALSE
