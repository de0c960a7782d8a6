SPECIFICATION FairSpec
CONSTANTS
  Instance = {a, b}
  Path = {p, q}
  NoPath = noPath
  NoFile = noFile
  Stale = stale
  CreateFails = TRUE
INVARIANTS
  OwnFileStands
  FlagsAgree
PROPERTY StopReturns
