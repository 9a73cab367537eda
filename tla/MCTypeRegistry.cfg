SPECIFICATION RegistrySpec
CONSTANTS
  Type = {t1, t2, t3}
  NoType = NoType
  Component = {c1, c2}
  MaxVersion = 2
SYMMETRY Interchangeable
INVARIANTS DescendantsExact ListsAndCountsExact
