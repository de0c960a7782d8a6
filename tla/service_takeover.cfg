SPECIFICATION Spec
CONSTANTS
  Instance = {a, b}
  Path = {p, q}
  NoPath = noPath
  NoFile = noFile
  Stale = stale
  CreateFails = TRUE
INVARIANT ExitRequestReachesOwnServer
