SPECIFICATION FairSpec
CONSTANTS
  Client = {c1, c2}
  Dummy = dummy
  NoConn = noConn
  Backlog = 1
  StartMayFail = FALSE
PROPERTIES
  StopReturns
  EveryCallEnds
  GivenUpIsClosed
  ImplementsServerLife
