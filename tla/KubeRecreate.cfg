SPECIFICATION Spec
CONSTANTS
  Caller = {c1}
  Service <- MCService
  Task <- RecreateTask
  InitObject <- RollingOnly
  Faults = FALSE
  MaxMeddling = 0
  s1 = s1
  s2 = s2
  Nothing = Nothing
  Foreign = Foreign
INVARIANTS
  RecreateWorks
CHECK_DEADLOCK FALSE
