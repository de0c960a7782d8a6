SPECIFICATION CSFairSpec
CONSTANTS
  StreamSize = 4
  MaxLen = 5
  MaxWritten = 20
  Kind = {"layer", "longLayer", "query"}
  Result = {"query"}
  PacketSize <- MCPacketSize
  Header = 2
  MaxCalls = 4
  Undefined = undefined
  BufSize = 2
  MaxAlloc = 16
  Word = 40
  IntMax = 3
  NoByte = noByte
INVARIANTS
  CSTypeOK
  OneReplyOutstanding
  BufferBounded
PROPERTIES
  ImplementsRemoteCalls
  EveryResultReturns
CHECK_DEADLOCK FALSE
