SPECIFICATION FairSpec
CONSTANTS
  Handler = {h1, h2}
  Nobody = nobody
  Conn = {c1, c2}
  Stalled = {c2}
  BatchSize = 2
  BufferSize = 1
  MaxLines = 3
  MaxCrashes = 1
INVARIANTS
  TypeOK
  LinesInOrder
PROPERTIES
  ImplementsLogBook
  NobodyHeldUp
  AcknowledgedArrives
CHECK_DEADLOCK FALSE
