SPECIFICATION BuffersSpec
CONSTANTS
  BufSize = 2
  MaxAlloc = 11
  Word = 23
  IntMax = 3
  MaxSent = 10
  NoByte = noByte
  StreamSize = 2
  MaxLen = 4
  MaxWritten = 9
  Sender = {s1, s2}
  Receiver = {r1, r2}
  Msg = {m1, m2}
  Nothing = nothing
  NoThread = noThread
  Capacity = 3
INVARIANTS
  RBTypeOK
  WindowIsStream
  RoomToRead
  DoublingNeverWraps
  SBTypeOK
  BufferFits
  WireInOrder
  NothingLost
  TypeOK
  OneInside
  NoLostWakeup
PROPERTIES
  ImplementsBoundedFifo
  ReceiverServed
CHECK_DEADLOCK FALSE
