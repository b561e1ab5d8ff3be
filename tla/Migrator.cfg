SPECIFICATION FairSpec
CONSTANTS
  old = old
  new = new
  twin = twin
  Server <- MCServer
  Build <- MCBuild
  SeedRows <- MCSeedRows
  MaxFaults = 2
INVARIANTS
  TypeOK
  AppliedOnce
  OrderKept
  UpMeansReady
  SeededPerServer
PROPERTY ComesUp
CHECK_DEADLOCK FALSE
