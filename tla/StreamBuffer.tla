---------------------------- MODULE StreamBuffer ----------------------------
(* The output side of a stream: IOStream::alloc and flush over              *)
(* SocketStream::allocBuffer, commitBuffer and writeFully.                  *)
(*                                                                          *)
(* Two classes keep a buffer size each: IOStream believes in ioSize bytes   *)
(* of which ioFree are free, SocketStream in sockSize bytes; the memory has *)
(* sockCap of them.  A caller of alloc(len) fills the len bytes at once;    *)
(* the bytes are numbered in the order in which they were written.          *)
EXTENDS Naturals, Sequences

CONSTANTS
  StreamSize,  \* the size given to the constructor
  MaxLen,      \* bound of the model: the longest packet; below 2^31 in the
               \* program, so that alloc()'s int allocLen loses nothing
  MaxWritten   \* bound of the model: the bytes written in all

ASSUME StreamAssumption ==
  StreamSize \in Nat \ {0} /\ MaxLen \in Nat /\ MaxWritten \in Nat

VARIABLES
  ioBuf,     \* whether IOStream's m_buf is set
  ioSize,    \* IOStream's m_bufsize
  ioFree,    \* IOStream's m_free
  sockSize,  \* SocketStream's m_bufsize
  sockCap,   \* bytes allocated at SocketStream's m_buf, 0 when it is NULL
  cells,     \* what these bytes hold: a byte's number, or none yet
  written,   \* bytes the callers have written
  wire,      \* the bytes send() has taken, in order
  broken     \* whether send() fails: the peer is gone

sbVars == <<ioBuf, ioSize, ioFree, sockSize, sockCap, cells, written, wire, broken>>

\* What fresh memory holds.
Fresh == MaxWritten

SBInit ==
  /\ ioBuf = FALSE /\ ioSize = StreamSize /\ ioFree = 0
  /\ sockSize = StreamSize /\ sockCap = 0 /\ cells = <<>>
  /\ written = 0 /\ wire = <<>> /\ broken = FALSE

Larger(a, b) == IF a < b THEN b ELSE a

\* The bytes alloc() has handed out since the last flush.
Staged == IF ioBuf THEN ioSize - ioFree ELSE 0

----------------------------------------------------------------------------
(* flush(), alone or from alloc().                                          *)

\* Faulty variant: the whole buffer is committed, not only its used part.
CommitAll ==
  IF broken THEN UNCHANGED <<wire, broken>>
  ELSE wire' = wire \o SubSeq(cells, 1, sockCap) /\ UNCHANGED broken

\* commitBuffer(): writeFully() sends everything, or a part until the peer is
\* found to be gone.
Commit ==
  IF broken THEN UNCHANGED <<wire, broken>>
  ELSE \E n \in 0..Staged :
         /\ wire' = wire \o SubSeq(cells, 1, n)
         /\ broken' = (n < Staged)

\* flush() has nothing to do; IOStream keeps its buffer.
NothingToFlush == ~ioBuf \/ ioFree = ioSize

\* After any commit IOStream lets go of the buffer.
Flush ==
  /\ IF NothingToFlush
     THEN UNCHANGED <<ioBuf, ioFree, wire, broken>>
     ELSE Commit /\ ioBuf' = FALSE /\ ioFree' = 0
  /\ UNCHANGED <<ioSize, sockSize, sockCap, cells, written>>

----------------------------------------------------------------------------
(* alloc().                                                                 *)

\* Faulty variant: the room left is not looked at.
FlushesWhenTooSmall(len) == ioBuf /\ len > ioSize /\ ~NothingToFlush

\* Whether alloc(len) flushes first, and whether it then asks allocBuffer()
\* for memory.
FlushesFirst(len) == ioBuf /\ len > ioFree /\ ~NothingToFlush
AsksForBuffer(len) == ~ioBuf \/ FlushesFirst(len) \/ len > ioSize

\* Memory of n bytes that keeps what the old one held.
Grown(n) == [i \in 1..n |-> IF i <= sockCap THEN cells[i] ELSE Fresh]

\* Faulty variant: memory once allocated is never enlarged.
AllocBufferKeeps(min) ==
  LET allocSize == Larger(sockSize, min)
  IN /\ sockCap' = IF sockCap = 0 THEN allocSize ELSE sockCap
     /\ UNCHANGED sockSize

\* allocBuffer(min) succeeds.  A first malloc() does not touch m_bufsize.
AllocBuffer(min) ==
  LET allocSize == Larger(sockSize, min)
  IN IF sockCap = 0 THEN sockCap' = allocSize /\ UNCHANGED sockSize
     ELSE IF sockSize < allocSize
          THEN sockCap' = allocSize /\ sockSize' = allocSize
          ELSE UNCHANGED <<sockCap, sockSize>>

\* The caller's bytes, written at m_buf + (m_bufsize - m_free).
Filled(mem, at, len) ==
  [i \in DOMAIN mem |->
     IF i \in (at + 1)..(at + len) THEN written + (i - at - 1) ELSE mem[i]]

\* Faulty variant: the bytes go to the end of the free part.
AllocFromEnd(len) ==
  /\ ~AsksForBuffer(len)
  /\ cells' = Filled(cells, ioSize - len, len)
  /\ ioFree' = ioFree - len
  /\ written' = written + len
  /\ UNCHANGED <<ioBuf, ioSize, sockSize, sockCap, wire, broken>>

\* alloc(len) within the buffer IOStream has.
AllocFromFree(len) ==
  /\ ~AsksForBuffer(len)
  /\ cells' = Filled(cells, ioSize - ioFree, len)
  /\ ioFree' = ioFree - len
  /\ written' = written + len
  /\ UNCHANGED <<ioBuf, ioSize, sockSize, sockCap, wire, broken>>

\* alloc(len) in memory newly asked for, after a flush when bytes were staged.
AllocFresh(len) ==
  /\ AsksForBuffer(len)
  /\ IF FlushesFirst(len) THEN Commit /\ ~broken' ELSE UNCHANGED <<wire, broken>>
  /\ LET allocLen == Larger(ioSize, len)
     IN /\ AllocBuffer(allocLen)
        /\ cells' = Filled(Grown(sockCap'), 0, len)
        /\ ioBuf' = TRUE
        /\ ioSize' = allocLen
        /\ ioFree' = allocLen - len
  /\ written' = written + len

\* alloc(len) returns NULL because the flush failed: the staged bytes are lost.
AllocFlushFails(len) ==
  /\ FlushesFirst(len)
  /\ Commit /\ broken'
  /\ ioBuf' = FALSE /\ ioFree' = 0
  /\ UNCHANGED <<ioSize, sockSize, sockCap, cells, written>>

\* alloc(len) returns NULL because memory ran out: a failed malloc() changes
\* nothing more, a failed realloc() also gives the old memory up.
AllocNoMemory(len) ==
  /\ AsksForBuffer(len)
  /\ sockCap = 0 \/ sockSize < Larger(ioSize, len)
  /\ IF FlushesFirst(len)
     THEN Commit /\ ~broken' /\ ioFree' = 0
     ELSE UNCHANGED <<wire, broken, ioFree>>
  /\ ioBuf' = FALSE
  /\ sockCap' = 0 /\ cells' = <<>>
  /\ sockSize' = IF sockCap = 0 THEN sockSize ELSE 0
  /\ UNCHANGED <<ioSize, written>>

SBNext ==
  \/ Flush
  \/ \E len \in 1..MaxLen :
       /\ written + len <= MaxWritten
       /\ \/ AllocFromFree(len) \/ AllocFresh(len)
          \/ AllocFlushFails(len) \/ AllocNoMemory(len)

SBSpec == SBInit /\ [][SBNext]_sbVars

----------------------------------------------------------------------------
SBTypeOK ==
  /\ ioBuf \in BOOLEAN /\ broken \in BOOLEAN
  /\ ioSize \in Nat \ {0} /\ ioFree \in 0..ioSize
  /\ sockSize \in Nat /\ sockCap \in Nat
  /\ cells \in Seq(Nat) /\ Len(cells) = sockCap
  /\ written \in Nat
  /\ wire \in Seq(Nat)

\* The size IOStream hands out bytes from never exceeds the memory there is,
\* although SocketStream's own idea of it lags behind after a first malloc()
\* and is zero after a failed realloc().
BufferFits == ioBuf => ioSize <= sockCap

\* What reaches the socket is the callers' bytes in the order written, without
\* a gap, up to the point where the peer was found gone, whatever flushes and
\* reallocations lie between.
WireInOrder ==
  \A i \in 1..Len(wire) : wire[i] = i - 1

\* As long as the peer is there nothing written is lost, not even by an alloc()
\* that runs out of memory: it is on the wire or staged, and what is staged
\* continues the wire.
NothingLost ==
  ~broken =>
    /\ written = Len(wire) + Staged
    /\ \A i \in 1..Staged : cells[i] = Len(wire) + i - 1
=============================================================================
