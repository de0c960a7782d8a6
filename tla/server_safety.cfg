SPECIFICATION Spec
CONSTANTS
  Client = {c1, c2, c3}
  Dummy = dummy
  NoConn = noConn
  Backlog = 2
  StartMayFail = TRUE
SYMMETRY ClientSymmetry
INVARIANTS
  TypeOK
  RenderLifetime
  NoOrphan
  DecodingSerialised
  StopIsClean
