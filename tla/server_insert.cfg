SPECIFICATION Spec
CONSTANTS
  Client = {c1, c2}
  Dummy = dummy
  NoConn = noConn
  Backlog = 2
  StartMayFail = TRUE
INVARIANT EntryWasStarted
