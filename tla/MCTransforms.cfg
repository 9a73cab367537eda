SPECIFICATION Spec
CONSTANTS
  Slots = {s1, s2, s3}
  Local = {identity, moved}
  Identity = identity
  NoParent = NoParent
CONSTRAINT NoLongPath
VIEW Readable
INVARIANTS CleanAbove CacheIsTrue
CHECK_DEADLOCK FALSE
