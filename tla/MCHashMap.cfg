SPECIFICATION MapSpec
CONSTANTS
  k1 = k1
  k2 = k2
  k3 = k3
  k4 = k4
  k5 = k5
  k6 = k6
  k7 = k7
  k8 = k8
  reserved = reserved
  Key = {k1, k2, k3, k4, k5, k6, k7, k8, reserved}
  ReservedKey = {reserved}
  Value = {v1, v2}
  Hash <- Hashes
  InitialCapacity = 8
  MaxCapacity = 16
  Empty = Empty
  Deleted = Deleted
SYMMETRY Symmetry
INVARIANTS CountsExact SearchesEnd GetsWhatWasSet
