----------------------------- MODULE ReadBuffer -----------------------------
(* kmre::DisplayControl::ReadBuffer, the buffer in which a render thread    *)
(* collects its guest's bytes until the decoder can take a whole packet.    *)
(*                                                                          *)
(* The bytes of a connection are numbered in the order they were sent, and  *)
(* a cell of the buffer holds the number of its byte.  The socket gives     *)
(* recv() any non-empty part of what has been sent and not yet read.        *)
EXTENDS Naturals

CONSTANTS
  BufSize,   \* the initial size, STREAM_BUFFER_SIZE
  MaxAlloc,  \* the most bytes realloc() can ever return, PTRDIFF_MAX
  Word,      \* 2^w, where size_t has w bits
  IntMax,    \* INT_MAX, the size asked for when doubling overflows
  MaxSent,   \* bound of the model: the bytes a guest sends
  NoByte     \* what fresh memory holds

ASSUME SizeAssumption ==
  /\ BufSize \in Nat \ {0} /\ MaxAlloc \in Nat /\ BufSize <= MaxAlloc
  /\ Word \in Nat /\ 2 * MaxAlloc < Word
  /\ IntMax \in Nat /\ MaxSent \in Nat
ASSUME NoByteAssumption == NoByte \notin Nat

VARIABLES
  sent,       \* bytes the peer has put on the connection
  peerOpen,   \* whether it may send more
  mem,        \* the cells of m_buf
  size,       \* m_size
  readPtr,    \* m_readPtr - m_buf
  validData,  \* m_validData
  arrived,    \* bytes recv() has delivered
  consumed,   \* history: bytes given to consume()
  reading     \* whether the thread still uses the buffer

peerVars == <<sent, peerOpen>>
bufVars == <<mem, size, readPtr, validData, arrived, consumed, reading>>
rbVars == <<peerVars, bufVars>>

RBInit ==
  /\ sent = 0 /\ peerOpen = TRUE
  /\ mem = [i \in 0..(BufSize - 1) |-> NoByte]
  /\ size = BufSize
  /\ readPtr = 0 /\ validData = 0
  /\ arrived = 0 /\ consumed = 0
  /\ reading = TRUE

\* The peer sends n bytes, or closes its end.
Send(n) ==
  /\ peerOpen /\ sent + n <= MaxSent
  /\ sent' = sent + n
  /\ UNCHANGED <<peerOpen, bufVars>>

Close ==
  /\ peerOpen
  /\ peerOpen' = FALSE
  /\ UNCHANGED <<sent, bufVars>>

\* Faulty variant: the valid bytes are not moved.
CompactedNever == mem

\* The buffer after the valid bytes were moved to its start.
Compacted ==
  IF validData > 0 /\ readPtr > 0
  THEN [i \in DOMAIN mem |-> IF i < validData THEN mem[readPtr + i] ELSE mem[i]]
  ELSE mem

\* Faulty variant: the overflow check is inverted.
DoubledInverted ==
  LET d == (2 * size) % Word IN IF d > size THEN IntMax ELSE d

\* Twice the size, modulo the width of size_t, with the overflow check.
Doubled ==
  LET d == (2 * size) % Word IN IF d < size THEN IntMax ELSE d

\* Faulty variant: the test for a full buffer is off by one.
TargetLate == IF size + 1 = validData THEN Doubled ELSE size

\* The size of the buffer that recv() fills.
Target == IF size = validData THEN Doubled ELSE size

\* getData() with n bytes received.
GetData(n) ==
  /\ reading
  /\ Target <= MaxAlloc
  /\ n \in 1..(sent - arrived) /\ n <= Target - validData
  /\ mem' = [i \in 0..(Target - 1) |->
               CASE i \in validData..(validData + n - 1) -> arrived + (i - validData)
                 [] i < size /\ i \notin validData..(validData + n - 1) -> Compacted[i]
                 [] OTHER -> NoByte]
  /\ size' = Target
  /\ readPtr' = 0
  /\ validData' = validData + n
  /\ arrived' = arrived + n
  /\ UNCHANGED <<peerVars, consumed, reading>>

\* getData() returns -1: realloc() failed, which it may at any size, or
\* recv() met the end of the stream.  The thread gives the buffer up.
GetDataFails ==
  /\ reading
  /\ size = validData \/ (~peerOpen /\ sent = arrived)
  /\ reading' = FALSE
  /\ UNCHANGED <<peerVars, mem, size, readPtr, validData, arrived, consumed>>

\* Faulty variant: more is consumed than is valid.
ConsumeUnchecked(amount) ==
  /\ reading
  /\ validData' = validData - amount
  /\ readPtr' = readPtr + amount
  /\ consumed' = consumed + amount
  /\ UNCHANGED <<peerVars, mem, size, arrived, reading>>

\* consume(): the decoder never reports more than it was shown.
Consume(amount) ==
  /\ reading /\ amount \in 1..validData
  /\ validData' = validData - amount
  /\ readPtr' = readPtr + amount
  /\ consumed' = consumed + amount
  /\ UNCHANGED <<peerVars, mem, size, arrived, reading>>

RBNext ==
  \/ \E n \in 1..MaxSent : Send(n)
  \/ Close
  \/ \E n \in 1..MaxSent : GetData(n) \/ Consume(n)
  \/ GetDataFails

RBSpec == RBInit /\ [][RBNext]_rbVars

----------------------------------------------------------------------------
RBTypeOK ==
  /\ sent \in Nat /\ peerOpen \in BOOLEAN
  /\ size \in Nat \ {0} /\ size <= MaxAlloc
  /\ mem \in [0..(size - 1) -> Nat \cup {NoByte}]
  /\ readPtr \in Nat /\ validData \in Nat
  /\ arrived \in Nat /\ consumed \in Nat
  /\ reading \in BOOLEAN

\* What buf() and validData() show the decoder is exactly the part of the
\* guest's stream that has arrived and was not consumed, in order and without
\* a gap, whatever getData() moved or reallocated; and it lies in the buffer.
WindowIsStream ==
  /\ readPtr + validData <= size
  /\ arrived = consumed + validData /\ arrived <= sent
  /\ \A i \in 0..(validData - 1) : mem[readPtr + i] = consumed + i

\* recv() is never asked for zero bytes: it would return 0, which read() and
\* getData() take for the end of the stream, and the connection would be lost
\* with a packet half read.
RoomToRead == Target > validData

\* Doubling m_size never wraps: realloc() refuses sizes long before, so that
\* the fallback to INT_MAX, which could shrink the buffer, is never taken.
DoublingNeverWraps == Doubled = 2 * size
=============================================================================
