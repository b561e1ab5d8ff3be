SPECIFICATION Spec
CONSTANTS
  info = info
  error = error
  a = a
  b = b
  MaxEntries = 4
  Level <- MCLevel
  Text <- MCText
  Second <- MCSecond
  Everything = Everything
  Filter <- MCFilter
  Limit = 2
  Cap = 3
  BufferSize = 1
  MaxRuns = 2
INVARIANTS
  TypeOK
  ShownMatchesFilter
  MissingExplained
CHECK_DEADLOCK FALSE
