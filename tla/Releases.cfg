SPECIFICATION Spec
CONSTANTS
  Service <- MCService
  Env <- MCEnv
  Tag <- MCTag
  Branch <- MCBranch
  s1 = s1
  v1 = v1
  v2 = v2
  main = main
  DefaultBranch = main
  Empty = Empty
  NoImage = NoImage
  NoRun = NoRun
  NoVersion = NoVersion
  Request = {r1, r2}
  CallSlot = {h1, h2}
  Input <- MixedInput
  Reports = {"rollback"}
  MayConflict = FALSE
  Faulty = {"db", "github", "kube"}
  MaxCrashes = 1
SYMMETRY Symmetry
INVARIANTS
  TypeOK
  SuccessMeansApplied
  VersionIsReleased
  ImageIsExplained
PROPERTIES
  RolledOutOnce
  ImplementsLedger
