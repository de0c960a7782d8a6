------------------------- MODULE StreamBufferProofs -------------------------
(* Proofs about StreamBuffer, for every buffer size and packet length: the   *)
(* two classes' ideas of the buffer's size never let a caller write beyond   *)
(* the memory there is, and what is sent is what was written.                *)
EXTENDS StreamBuffer, SequenceTheorems, TLAPS

\* What the sizes satisfy: SocketStream's m_bufsize may be less than the memory
\* there is, never more, and IOStream has a buffer only while there is memory.
Sizes ==
  /\ ioSize \in Nat \ {0} /\ ioFree \in 0..ioSize
  /\ sockSize \in Nat /\ sockCap \in Nat
  /\ sockCap = 0 \/ sockSize <= sockCap

SizesAgree == Sizes /\ ioBuf \in BOOLEAN /\ BufferFits

\* What callers and memory can do to a stream, without the model's bound on the
\* bytes written.
SBStep ==
  \/ Flush
  \/ \E len \in 1..MaxLen : \/ AllocFromFree(len) \/ AllocFresh(len)
                            \/ AllocFlushFails(len) \/ AllocNoMemory(len)

LEMMA BoundedIsStep == SBNext => SBStep
BY DEF SBNext, SBStep

LEMMA LargerIsMax ==
  ASSUME NEW a \in Nat, NEW b \in Nat
  PROVE  Larger(a, b) \in Nat /\ Larger(a, b) >= a /\ Larger(a, b) >= b
BY DEF Larger

\* A successful allocBuffer(min) leaves memory for min bytes, and SocketStream's
\* idea of its size no larger than it is.
LEMMA AllocBufferSuffices ==
  ASSUME NEW min \in Nat \ {0}, Sizes, AllocBuffer(min)
  PROVE  /\ sockCap' \in Nat /\ sockSize' \in Nat
         /\ min <= sockCap' /\ sockSize' <= sockCap'
<1>1. Larger(sockSize, min) \in Nat /\ Larger(sockSize, min) >= sockSize
      /\ Larger(sockSize, min) >= min
  BY LargerIsMax DEF Sizes
<1>2. sockSize >= Larger(sockSize, min) => sockSize >= min
  BY <1>1 DEF Sizes
<1>3. QED
  BY <1>1, <1>2 DEF AllocBuffer, Sizes

LEMMA SizesInit == SBInit => SizesAgree
<1> SUFFICES ASSUME SBInit PROVE SizesAgree
  OBVIOUS
<1>1. Sizes
  BY StreamAssumption DEF SBInit, Sizes
<1>2. ioBuf \in BOOLEAN /\ BufferFits
  BY DEF SBInit, BufferFits
<1>3. QED
  BY <1>1, <1>2 DEF SizesAgree

\* Every step keeps the sizes in agreement.
LEMMA SizesNext == SizesAgree /\ [SBStep]_sbVars => SizesAgree'
<1> SUFFICES ASSUME SizesAgree, [SBStep]_sbVars PROVE SizesAgree'
  OBVIOUS
<1> USE StreamAssumption
\* A step that lets go of IOStream's buffer, or changes nothing of it.
<1>1. ASSUME Sizes', ioBuf' = FALSE
      PROVE  SizesAgree'
  BY <1>1 DEF SizesAgree, BufferFits
<1>2. ASSUME UNCHANGED <<ioBuf, ioSize, ioFree, sockSize, sockCap>>
      PROVE  SizesAgree'
  <2>1. Sizes'
    BY <1>2 DEF SizesAgree, Sizes
  <2>2. ioBuf' \in BOOLEAN /\ BufferFits'
    BY <1>2 DEF SizesAgree, BufferFits
  <2>3. QED
    BY <2>1, <2>2 DEF SizesAgree
<1>3. CASE Flush
  <2>1. UNCHANGED <<ioSize, sockSize, sockCap>>
    BY <1>3 DEF Flush
  <2>2. CASE NothingToFlush
    BY <1>2, <1>3, <2>1, <2>2 DEF Flush
  <2>3. CASE ~NothingToFlush
    <3>1. ioBuf' = FALSE /\ ioFree' = 0
      BY <1>3, <2>3 DEF Flush
    <3>2. Sizes'
      BY <2>1, <3>1 DEF SizesAgree, Sizes
    <3>3. QED
      BY <1>1, <3>1, <3>2
  <2>4. QED
    BY <2>2, <2>3
<1>4. ASSUME NEW len \in 1..MaxLen, AllocFromFree(len)
      PROVE  SizesAgree'
  <2>1. ioBuf /\ len <= ioFree /\ ioSize <= sockCap
    BY <1>4
    DEF AllocFromFree, AsksForBuffer, FlushesFirst, NothingToFlush, SizesAgree,
        Sizes, BufferFits
  <2>2. /\ UNCHANGED <<ioSize, sockSize, sockCap>>
        /\ ioBuf' = ioBuf /\ ioFree' = ioFree - len
    BY <1>4 DEF AllocFromFree
  <2>3. Sizes' /\ ioSize' <= sockCap'
    BY <2>1, <2>2 DEF SizesAgree, Sizes
  <2>4. QED
    BY <2>2, <2>3 DEF SizesAgree, BufferFits
<1>5. ASSUME NEW len \in 1..MaxLen, AllocFresh(len)
      PROVE  SizesAgree'
  <2> DEFINE allocLen == Larger(ioSize, len)
  <2>1. allocLen \in Nat \ {0} /\ allocLen >= len
    BY LargerIsMax DEF SizesAgree, Sizes
  <2>2. /\ AllocBuffer(allocLen)
        /\ ioBuf' = TRUE /\ ioSize' = allocLen /\ ioFree' = allocLen - len
    BY <1>5 DEF AllocFresh
  <2>3. /\ sockCap' \in Nat /\ sockSize' \in Nat
        /\ allocLen <= sockCap' /\ sockSize' <= sockCap'
    BY <2>1, <2>2, AllocBufferSuffices DEF SizesAgree
  <2>4. Sizes' /\ ioSize' <= sockCap'
    BY <2>1, <2>2, <2>3 DEF Sizes
  <2>5. QED
    BY <2>2, <2>4 DEF SizesAgree, BufferFits
<1>6. ASSUME NEW len \in 1..MaxLen, AllocFlushFails(len)
      PROVE  SizesAgree'
  <2>1. ioBuf' = FALSE /\ ioFree' = 0 /\ UNCHANGED <<ioSize, sockSize, sockCap>>
    BY <1>6 DEF AllocFlushFails
  <2>2. Sizes'
    BY <2>1 DEF SizesAgree, Sizes
  <2>3. QED
    BY <1>1, <2>1, <2>2
<1>7. ASSUME NEW len \in 1..MaxLen, AllocNoMemory(len)
      PROVE  SizesAgree'
  <2>1. /\ ioBuf' = FALSE /\ ioSize' = ioSize
        /\ sockCap' = 0 /\ sockSize' \in {sockSize, 0}
        /\ ioFree' \in {ioFree, 0}
    BY <1>7 DEF AllocNoMemory
  <2>2. Sizes'
    BY <2>1 DEF SizesAgree, Sizes
  <2>3. QED
    BY <1>1, <2>1, <2>2
<1>8. CASE UNCHANGED sbVars
  BY <1>2, <1>8 DEF sbVars
<1>9. QED
  BY <1>3, <1>4, <1>5, <1>6, <1>7, <1>8 DEF SBStep

\* Whatever sequence of allocations, flushes and failures came before, the
\* buffer bytes are handed out from lies within the memory there is.
THEOREM WritersStayInBuffer == SBSpec => []BufferFits
<1>1. SizesAgree => BufferFits
  BY DEF SizesAgree
<1>2. QED
  BY SizesInit, SizesNext, BoundedIsStep, <1>1, PTL DEF SBSpec

----------------------------------------------------------------------------
(* The order on the wire.                                                   *)

\* The memory and the wire are sequences of byte numbers.
Memory ==
  /\ cells \in [1..sockCap -> Nat]
  /\ written \in Nat /\ wire \in Seq(Nat) /\ broken \in BOOLEAN

\* Nothing is sent that was not written, also after the peer has gone.
SentWasWritten == Len(wire) <= written

StreamInv == SizesAgree /\ Memory /\ NothingLost /\ WireInOrder /\ SentWasWritten

LEMMA StagedRange ==
  ASSUME SizesAgree
  PROVE  Staged \in Nat /\ Staged <= sockCap
BY DEF SizesAgree, Sizes, BufferFits, Staged

\* A commit takes the staged bytes in order, and all of them if the peer is
\* still there.
LEMMA CommitInOrder ==
  ASSUME StreamInv, Commit
  PROVE  /\ wire' \in Seq(Nat) /\ broken' \in BOOLEAN
         /\ WireInOrder' /\ Len(wire) <= Len(wire') /\ Len(wire') <= written
         /\ ~broken' => written = Len(wire')
<1>1. CASE broken
  <2>1. wire \in Seq(Nat) /\ Len(wire) \in Nat
    BY LenProperties DEF StreamInv, Memory
  <2>2. QED
    BY <1>1, <2>1 DEF Commit, StreamInv, Memory, WireInOrder, SentWasWritten
<1>2. CASE ~broken
  <2>1. PICK n \in 0..Staged : wire' = wire \o SubSeq(cells, 1, n)
                             /\ broken' = (n < Staged)
    BY <1>2 DEF Commit
  <2>2. n \in Nat /\ Staged \in Nat /\ Staged <= sockCap /\ n <= Staged
    BY <2>1, StagedRange DEF StreamInv
  <2> DEFINE sent == SubSeq(cells, 1, n)
  <2>3. \A i \in 1..n : cells[i] \in Nat /\ cells[i] = Len(wire) + i - 1
    BY <1>2, <2>2 DEF StreamInv, Memory, NothingLost, SizesAgree, Sizes
  <2>4. /\ sent \in Seq(Nat) /\ Len(sent) = n
        /\ \A i \in 1..n : sent[i] = cells[i]
    BY <2>2, <2>3, SubSeqProperties
  <2>5. wire \in Seq(Nat) /\ Len(wire) \in Nat
    BY LenProperties DEF StreamInv, Memory
  <2>6. /\ wire' \in Seq(Nat) /\ Len(wire') = Len(wire) + n
        /\ \A i \in 1..(Len(wire) + n) :
             wire'[i] = IF i <= Len(wire) THEN wire[i] ELSE sent[i - Len(wire)]
    BY <2>1, <2>4, <2>5, ConcatProperties
  <2>7. WireInOrder'
    <3> SUFFICES ASSUME NEW i \in 1..(Len(wire) + n)
                 PROVE  wire'[i] = i - 1
      BY <2>6 DEF WireInOrder
    <3>1. CASE i <= Len(wire)
      BY <2>5, <2>6, <3>1 DEF StreamInv, WireInOrder
    <3>2. CASE ~(i <= Len(wire))
      <4>1. i - Len(wire) \in 1..n
        BY <2>2, <2>5, <3>2
      <4>2. sent[i - Len(wire)] = Len(wire) + (i - Len(wire)) - 1
        BY <2>3, <2>4, <4>1
      <4>3. QED
        BY <2>5, <2>6, <3>2, <4>2
    <3>3. QED
      BY <3>1, <3>2
  <2>8. ASSUME ~broken'
        PROVE  written = Len(wire')
    <3>1. ~(n < Staged)
      BY <2>1, <2>8, Zenon
    <3>2. written = Len(wire) + Staged
      BY <1>2 DEF StreamInv, NothingLost
    <3>3. QED
      BY <2>2, <2>6, <3>1, <3>2
  <2>9. Len(wire') <= written
    <3>1. written = Len(wire) + Staged
      BY <1>2 DEF StreamInv, NothingLost
    <3>2. QED
      BY <2>2, <2>5, <2>6, <3>1
  <2>10. Len(wire) <= Len(wire')
    BY <2>2, <2>5, <2>6
  <2>11. QED
    BY <2>1, <2>6, <2>7, <2>8, <2>9, <2>10
<1>3. QED
  BY <1>1, <1>2

LEMMA StreamInit == SBInit => StreamInv
<1> SUFFICES ASSUME SBInit PROVE StreamInv
  OBVIOUS
<1>1. Memory
  <2>1. <<>> \in [1..0 -> Nat]
    BY EmptySeq, LenProperties
  <2>2. QED
    BY <2>1, EmptySeq DEF SBInit, Memory
<1>2. NothingLost /\ WireInOrder /\ SentWasWritten
  BY EmptySeq DEF SBInit, NothingLost, WireInOrder, SentWasWritten, Staged
<1>3. QED
  BY <1>1, <1>2, SizesInit DEF StreamInv

\* Every step keeps the staged bytes and the wire in order.
LEMMA StreamNext == StreamInv /\ [SBStep]_sbVars => StreamInv'
<1> SUFFICES ASSUME StreamInv, [SBStep]_sbVars PROVE StreamInv'
  OBVIOUS
<1>0. SizesAgree /\ SizesAgree'
  BY SizesNext DEF StreamInv
<1>a. /\ ioSize \in Nat \ {0} /\ ioFree \in 0..ioSize /\ sockCap \in Nat
      /\ ioBuf \in BOOLEAN /\ (ioBuf => ioSize <= sockCap)
  BY <1>0 DEF SizesAgree, Sizes, BufferFits
\* A buffer that is asked for without a flush had nothing staged in it.
<1>b. ASSUME NEW len \in 1..MaxLen, AsksForBuffer(len), ~FlushesFirst(len)
      PROVE  Staged = 0
  BY <1>a, <1>b, StreamAssumption DEF AsksForBuffer, FlushesFirst, NothingToFlush, Staged
\* Without a buffer nothing is staged.
<1>c. ASSUME Memory', WireInOrder', ioBuf' = FALSE,
             Len(wire') <= written', ~broken' => written' = Len(wire')
      PROVE  StreamInv'
  <2>1. NothingLost'
    <3>1. Staged' = 0
      BY <1>c DEF Staged
    <3>2. Len(wire') \in Nat
      BY <1>c, LenProperties DEF Memory
    <3>3. QED
      BY <1>c, <3>1, <3>2 DEF NothingLost
  <2>2. QED
    BY <1>0, <1>c, <2>1 DEF StreamInv, SentWasWritten
<1>1. CASE Flush
  <2>1. CASE NothingToFlush
    <3>1. UNCHANGED sbVars
      BY <1>1, <2>1 DEF Flush, sbVars
    <3>2. QED
      BY <1>0, <3>1 DEF sbVars, StreamInv, Memory, NothingLost, Staged, WireInOrder,
       SentWasWritten
  <2>2. CASE ~NothingToFlush
    <3>1. Commit /\ ioBuf' = FALSE /\ UNCHANGED <<sockCap, cells, written>>
      BY <1>1, <2>2 DEF Flush
    <3>2. Memory'
      BY <3>1, CommitInOrder DEF StreamInv, Memory
    <3>3. QED
      BY <1>c, <3>1, <3>2, CommitInOrder
  <2>3. QED
    BY <2>1, <2>2
<1>2. ASSUME NEW len \in 1..MaxLen, AllocFromFree(len)
      PROVE  StreamInv'
  <2>1. ioBuf /\ len \in Nat /\ len <= ioFree
    BY <1>2, <1>a, StreamAssumption
       DEF AllocFromFree, AsksForBuffer, FlushesFirst, NothingToFlush
  <2>2. /\ cells' = Filled(cells, ioSize - ioFree, len)
        /\ ioFree' = ioFree - len /\ written' = written + len
        /\ UNCHANGED <<ioBuf, ioSize, sockCap, wire, broken>>
    BY <1>2 DEF AllocFromFree
  <2>3. Staged = ioSize - ioFree /\ Staged' = Staged + len
        /\ Staged \in Nat /\ Staged + len <= sockCap
    BY <1>a, <2>1, <2>2 DEF Staged
  <2>4. /\ cells' \in [1..sockCap -> Nat]
        /\ \A i \in 1..sockCap :
             cells'[i] = IF i \in (Staged + 1)..(Staged + len)
                         THEN written + (i - Staged - 1) ELSE cells[i]
    <3>1. cells \in [1..sockCap -> Nat] /\ written \in Nat
      BY DEF StreamInv, Memory
    <3>2. cells' = [i \in 1..sockCap |->
                      IF i \in (Staged + 1)..(Staged + len)
                      THEN written + (i - Staged - 1) ELSE cells[i]]
      BY <2>2, <2>3, <3>1 DEF Filled
    <3>3. \A i \in (Staged + 1)..(Staged + len) : written + (i - Staged - 1) \in Nat
      BY <2>1, <2>3, <3>1
    <3>4. QED
      BY <3>1, <3>2, <3>3
  <2>5. Memory'
    BY <2>1, <2>2, <2>4 DEF StreamInv, Memory
  <2>6. NothingLost'
    <3> SUFFICES ASSUME ~broken
                 PROVE  /\ written' = Len(wire) + Staged'
                        /\ \A i \in 1..Staged' : cells'[i] = Len(wire) + i - 1
      BY <2>2 DEF NothingLost
    <3>1. Len(wire) \in Nat
      BY LenProperties DEF StreamInv, Memory
    <3>2. /\ written = Len(wire) + Staged
          /\ \A i \in 1..Staged : cells[i] = Len(wire) + i - 1
      BY DEF StreamInv, NothingLost
    <3>3. ASSUME NEW i \in 1..(Staged + len)
          PROVE  cells'[i] = Len(wire) + i - 1
      <4>1. i \in 1..sockCap
        BY <1>a, <2>1, <2>3
      <4>2. CASE i <= Staged
        BY <2>1, <2>3, <2>4, <3>1, <3>2, <4>1, <4>2
      <4>3. CASE ~(i <= Staged)
        <5>1. cells'[i] = written + (i - Staged - 1)
          BY <2>1, <2>3, <2>4, <4>1, <4>3
        <5>2. QED
          BY <2>3, <3>1, <3>2, <5>1
      <4>4. QED
        BY <4>2, <4>3
    <3>4. QED
      BY <2>1, <2>2, <2>3, <3>1, <3>2, <3>3
  <2>7. WireInOrder'
    BY <2>2 DEF StreamInv, WireInOrder
  <2>8. SentWasWritten'
    <3>1. Len(wire) \in Nat /\ Len(wire) <= written /\ written \in Nat
      BY LenProperties DEF StreamInv, Memory, SentWasWritten
    <3>2. QED
      BY <2>1, <2>2, <3>1 DEF SentWasWritten
  <2>9. QED
    BY <1>0, <2>5, <2>6, <2>7, <2>8 DEF StreamInv
<1>3. ASSUME NEW len \in 1..MaxLen, AllocFresh(len)
      PROVE  StreamInv'
  <2>1. /\ AsksForBuffer(len) /\ len \in Nat
        /\ cells' = Filled(Grown(sockCap'), 0, len)
        /\ ioBuf' = TRUE /\ ioSize' = Larger(ioSize, len)
        /\ ioFree' = Larger(ioSize, len) - len /\ written' = written + len
    BY <1>3, StreamAssumption DEF AllocFresh
  <2>2. /\ wire' \in Seq(Nat) /\ broken' \in BOOLEAN /\ WireInOrder'
        /\ Len(wire') <= written
        /\ ~broken' => written = Len(wire')
    <3>1. CASE FlushesFirst(len)
      BY <1>3, <3>1, CommitInOrder DEF AllocFresh
    <3>2. CASE ~FlushesFirst(len)
      <4>1. UNCHANGED <<wire, broken>>
        BY <1>3, <3>2 DEF AllocFresh
      <4>2. Staged = 0 /\ Len(wire) \in Nat
        BY <1>b, <2>1, <3>2, LenProperties DEF StreamInv, Memory
      <4>3. QED
        BY <4>1, <4>2
        DEF StreamInv, Memory, NothingLost, WireInOrder, SentWasWritten
    <3>3. QED
      BY <3>1, <3>2
  <2>3. sockCap' \in Nat /\ ioSize' \in Nat /\ len <= ioSize' /\ ioSize' <= sockCap'
    BY <1>0, <1>a, <2>1, LargerIsMax DEF SizesAgree, Sizes, BufferFits
  <2>4. Staged' = len
    BY <1>a, <2>1, LargerIsMax DEF Staged
  <2>5. Grown(sockCap') \in [1..sockCap' -> Nat]
    BY <1>a, <2>3, StreamAssumption DEF Grown, Fresh, StreamInv, Memory
  <2>6. /\ cells' \in [1..sockCap' -> Nat]
        /\ \A i \in 1..len : cells'[i] = written + (i - 1)
    <3> DEFINE mem == Grown(sockCap')
    <3>1. written \in Nat /\ mem \in [1..sockCap' -> Nat]
      BY <2>5 DEF StreamInv, Memory
    <3> HIDE DEF mem
    <3>2. cells' = Filled(mem, 0, len)
      BY <2>1 DEF mem
    <3>3. cells' = [i \in 1..sockCap' |->
                      IF i \in (0 + 1)..(0 + len) THEN written + (i - 0 - 1)
                      ELSE mem[i]]
      <4>1. DOMAIN mem = 1..sockCap'
        BY <3>1
      <4>2. QED
        BY <3>2, <4>1, Zenon DEF Filled
    <3>4. \A i \in 1..len : /\ i \in 1..sockCap' /\ i \in (0 + 1)..(0 + len)
                            /\ written + (i - 0 - 1) = written + (i - 1)
      BY <2>1, <2>3, <3>1
    <3>5. \A i \in (0 + 1)..(0 + len) : written + (i - 0 - 1) \in Nat
      BY <2>1, <3>1
    <3>6. cells' \in [1..sockCap' -> Nat]
      BY <3>1, <3>3, <3>5
    <3>7. \A i \in 1..len : cells'[i] = written + (i - 1)
      BY <3>3, <3>4
    <3> QED
      BY <3>6, <3>7
  <2>7. Memory'
    BY <2>1, <2>2, <2>6 DEF StreamInv, Memory
  <2>8. NothingLost'
    <3> SUFFICES ASSUME ~broken'
                 PROVE  /\ written' = Len(wire') + Staged'
                        /\ \A i \in 1..Staged' : cells'[i] = Len(wire') + i - 1
      BY DEF NothingLost
    <3>1. written = Len(wire') /\ written \in Nat
      BY <2>2 DEF StreamInv, Memory
    <3>2. QED
      BY <2>1, <2>4, <2>6, <3>1
  <2>9. SentWasWritten'
    <3>1. Len(wire') \in Nat /\ written \in Nat
      BY <2>2, LenProperties DEF StreamInv, Memory
    <3>2. QED
      BY <2>1, <2>2, <3>1 DEF SentWasWritten
  <2>10. QED
    BY <1>0, <2>2, <2>7, <2>8, <2>9 DEF StreamInv
<1>4. ASSUME NEW len \in 1..MaxLen, AllocFlushFails(len)
      PROVE  StreamInv'
  <2>1. Commit /\ ioBuf' = FALSE /\ UNCHANGED <<sockCap, cells, written>>
    BY <1>4 DEF AllocFlushFails
  <2>2. Memory'
    BY <2>1, CommitInOrder DEF StreamInv, Memory
  <2>3. QED
    BY <1>c, <2>1, <2>2, CommitInOrder
<1>5. ASSUME NEW len \in 1..MaxLen, AllocNoMemory(len)
      PROVE  StreamInv'
  <2>1. /\ AsksForBuffer(len) /\ ioBuf' = FALSE
        /\ sockCap' = 0 /\ cells' = <<>> /\ written' = written
    BY <1>5 DEF AllocNoMemory
  <2>2. /\ wire' \in Seq(Nat) /\ broken' \in BOOLEAN /\ WireInOrder'
        /\ Len(wire') <= written
        /\ ~broken' => written = Len(wire')
    <3>1. CASE FlushesFirst(len)
      BY <1>5, <3>1, CommitInOrder DEF AllocNoMemory
    <3>2. CASE ~FlushesFirst(len)
      <4>1. UNCHANGED <<wire, broken>>
        BY <1>5, <3>2 DEF AllocNoMemory
      <4>2. Staged = 0 /\ Len(wire) \in Nat
        BY <1>b, <2>1, <3>2, LenProperties DEF StreamInv, Memory
      <4>3. QED
        BY <4>1, <4>2
        DEF StreamInv, Memory, NothingLost, WireInOrder, SentWasWritten
    <3>3. QED
      BY <3>1, <3>2
  <2>3. Memory'
    <3>1. <<>> \in [1..0 -> Nat]
      BY EmptySeq, LenProperties
    <3>2. QED
      BY <2>1, <2>2, <3>1 DEF StreamInv, Memory
  <2>4. QED
    BY <1>c, <2>1, <2>2, <2>3
<1>6. CASE UNCHANGED sbVars
  BY <1>0, <1>6 DEF sbVars, StreamInv, Memory, NothingLost, Staged, WireInOrder,
       SentWasWritten
<1>7. QED
  BY <1>1, <1>2, <1>3, <1>4, <1>5, <1>6 DEF SBStep

\* What an alloc() that succeeds sends was written before it.
LEMMA AllocSends ==
  ASSUME StreamInv, NEW len \in 1..MaxLen, AllocFromFree(len) \/ AllocFresh(len)
  PROVE  /\ StreamInv' /\ written' = written + len
         /\ Len(wire) <= Len(wire') /\ Len(wire') <= written
         /\ broken' = broken
<1>1. StreamInv'
  BY StreamNext DEF SBStep
<1>2. Len(wire) \in Nat /\ Len(wire) <= written
  BY LenProperties DEF StreamInv, Memory, SentWasWritten
<1>3. CASE UNCHANGED <<wire, broken>>
  BY <1>1, <1>2, <1>3 DEF AllocFromFree, AllocFresh
<1>4. CASE AllocFresh(len) /\ Commit /\ ~broken'
  <2>1. broken' = broken
    BY <1>1, <1>4, Zenon DEF Commit, StreamInv, Memory
  <2>2. QED
    BY <1>1, <1>4, <2>1, CommitInOrder DEF AllocFresh
<1> QED
  BY <1>3, <1>4 DEF AllocFromFree, AllocFresh

\* The wire never loses a byte, nor a broken stream its mark.
LEMMA WireGrows ==
  ASSUME StreamInv, [SBStep]_sbVars
  PROVE  Len(wire) <= Len(wire') /\ (broken => broken')
<1>1. Len(wire) \in Nat
  BY LenProperties DEF StreamInv, Memory
<1>2. CASE UNCHANGED <<wire, broken>>
  BY <1>1, <1>2
<1>3. CASE Commit
  BY <1>3, CommitInOrder DEF Commit
<1> QED
  BY <1>2, <1>3
  DEF SBStep, Flush, AllocFromFree, AllocFresh, AllocFlushFails, AllocNoMemory, sbVars

\* The invariant of the output stream holds for ever.
THEOREM StreamInvariant == SBSpec => []StreamInv
BY StreamInit, StreamNext, BoundedIsStep, PTL DEF SBSpec

\* Every variable keeps its type, and the memory is as long as it was allocated.
THEOREM StreamTypeCorrect == SBSpec => []SBTypeOK
<1>1. StreamInv => SBTypeOK
  <2> SUFFICES ASSUME StreamInv PROVE SBTypeOK
    OBVIOUS
  <2>1. cells \in Seq(Nat) /\ Len(cells) = sockCap
    BY DEF StreamInv, Memory, SizesAgree, Sizes
  <2>2. QED
    BY <2>1 DEF StreamInv, Memory, SizesAgree, Sizes, SBTypeOK
<1>2. QED
  BY <1>1, StreamInvariant, PTL

\* The peer receives the callers' bytes in order and without a gap.
THEOREM BytesArriveInOrder == SBSpec => []WireInOrder
<1>1. StreamInv => WireInOrder
  BY DEF StreamInv
<1>2. QED
  BY <1>1, StreamInvariant, PTL

\* While the peer is there every byte written is on the wire or staged.
THEOREM NoByteLost == SBSpec => []NothingLost
<1>1. StreamInv => NothingLost
  BY DEF StreamInv
<1>2. QED
  BY <1>1, StreamInvariant, PTL
=============================================================================
