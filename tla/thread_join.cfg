SPECIFICATION ThreadSpec
CONSTANTS
  Caller = {c1, c2}
  NoCaller = noCaller
  Uses <- MCWaiters
INVARIANT JoinedOnce
CHECK_DEADLOCK FALSE
