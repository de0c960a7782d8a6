SPECIFICATION PartsSpec
CONSTANTS
  Caller = {c1, c2}
  NoCaller = noCaller
  Uses <- MCUses
  LazyThread = {t1, t2, t3}
  StoreOrder = FALSE
  RenderThread = {r1, r2}
  MainThread = main
  Callback = {"width", "fps", "sharing"}
  Registered <- MCRegistered
  NoThread = noThread
  Pointer = {p1, p2, p3}
  Object = {o1, o2}
  NoObject = noObject
  NoPointer = noPointer
  PtrThread = {u1, u2}
  MinCapacity = 1
  Slack = 1
  Zero = zero
  Key = {1, 3, 4, 7}
  ValueWord = 8
  Id = {0, 2, 4, 8, 10, 12, 20}
  Thing = {old, new}
  Null = null
  MinShift = 3
  MaxShift = 5
  Behind = {0}
  MaxFailures = 3
INVARIANTS
  JoinedOnce
  OneConstructor
  RegisteredAnswersStick
  DeletedWhenUnheld
  ValuesDistinct
  PairsAgree
  FindsEveryObject
  OneFailurePerLoss
PROPERTY EveryCallerServed
CHECK_DEADLOCK FALSE
