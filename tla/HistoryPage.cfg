SPECIFICATION FairSpec
CONSTANTS
  s1 = s1
  Service <- MCService
  Tag <- MCTag
  Empty = Empty
  NoVersion = NoVersion
  None = None
  Release = {r1, r2}
  Slot = {q1, q2}
  MaxFailures = 1
  MaxReloads = 1
INVARIANTS
  QuietPageIsRight
PROPERTIES
  CatchesUp
CHECK_DEADLOCK FALSE
