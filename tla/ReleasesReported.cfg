SPECIFICATION FairSpec
CONSTANTS
  Service <- MCService
  Env <- MCEnv
  Tag <- MCTag
  Branch <- MCBranch
  s1 = s1
  v1 = v1
  v2 = v2
  main = main
  DefaultBranch = main
  Empty = Empty
  NoImage = NoImage
  NoRun = NoRun
  NoVersion = NoVersion
  Request = {r1}
  CallSlot = {h1, h2}
  Input <- MixedInput
  Reports = {"deploy", "rollback"}
  MayConflict = TRUE
  Faulty = {"github", "kube"}
  MaxCrashes = 2
INVARIANTS
  VersionFromFinished
  AbandonedByFault
PROPERTIES
  NoReopening
  DeploysSettle
