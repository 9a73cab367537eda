SPECIFICATION Spec
CONSTANTS
  s1 = s1
  s2 = s2
  t1 = t1
  t2 = t2
  k1 = k1
  k2 = k2
  Scene = {s1, s2}
  ExtType = {t1, t2}
  Key = {k1, k2}
  NoKey = NoKey
  KeyOf <- Keys
  Hooks <- HooksOf
  Dependency <- FirstBySecond
  MaxWalks = 1
  MaxUsers = 1
SYMMETRY SceneSymmetry
INVARIANTS InstancesAgree WalksCallEachOnce DeserializeRestores
