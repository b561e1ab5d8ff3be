SPECIFICATION Spec
CONSTANTS
  Caller = {c1, c2}
  Service <- MCTwoServices
  Task <- AnyTask
  InitObject <- AnyInitObject
  Faults = TRUE
  MaxMeddling = 1
  s1 = s1
  s2 = s2
  Nothing = Nothing
  Foreign = Foreign
SYMMETRY Symmetry
INVARIANTS
  SomeoneSucceeds
PROPERTIES
  ImplementsRollout
  UpdatesWhatItRead
CHECK_DEADLOCK FALSE
