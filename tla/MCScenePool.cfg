SPECIFICATION Spec
CONSTANTS
  InitialScenes = 1
  MaxScenes = 3
  InitialPools = 1
  MaxPools = 2
  p1 = p1
  p2 = p2
  p3 = p3
  p4 = p4
  Pool = {p1, p2, p3, p4}
  NoPool = NoPool
  Uuid = {u1}
  NoUuid = NoUuid
  NoHandle = NoHandle
  MaxGeneration = 1
SYMMETRY Addresses
INVARIANTS PoolsAgree HandlesSound
PROPERTY RegistrationIsStable
