-------------------------- MODULE ReadBufferProofs --------------------------
(* Proofs about ReadBuffer, for every initial size, every limit of the       *)
(* allocator and every width of size_t that exceeds twice that limit.        *)
EXTENDS ReadBuffer, TLAPS

\* The part of the invariants that every step preserves.
RBInvariant == RBTypeOK /\ WindowIsStream

\* A number below the modulus is its own remainder.
LEMMA SmallRemainder ==
  ASSUME NEW a \in Nat, NEW b \in Nat, a < b
  PROVE  a % b = a
OBVIOUS

\* Doubling never wraps, so the buffer that recv() fills has room.
LEMMA DoublingIsExact ==
  ASSUME RBTypeOK
  PROVE  Doubled = 2 * size
<1>1. 2 * size \in Nat /\ 2 * size < Word /\ Word \in Nat
  BY SizeAssumption DEF RBTypeOK
<1>2. (2 * size) % Word = 2 * size
  BY <1>1, SmallRemainder
<1>3. ~(2 * size < size)
  BY DEF RBTypeOK
<1>4. QED
  BY <1>2, <1>3 DEF Doubled

\* recv() has room, and the buffer never shrinks.
LEMMA TargetHasRoom ==
  ASSUME RBTypeOK, WindowIsStream
  PROVE  Target \in Nat /\ Target >= size /\ Target > validData
<1>1. validData <= size
  BY DEF RBTypeOK, WindowIsStream
<1>2. QED
  BY <1>1, DoublingIsExact DEF Target, RBTypeOK

\* After the move the valid bytes start the buffer.
LEMMA CompactedWindow ==
  ASSUME RBTypeOK, WindowIsStream
  PROVE  /\ Compacted \in [0..(size - 1) -> Nat \cup {NoByte}]
         /\ \A i \in 0..(validData - 1) : Compacted[i] = consumed + i
<1>1. DOMAIN mem = 0..(size - 1)
  BY DEF RBTypeOK
<1>2. /\ size \in Nat \ {0} /\ readPtr \in Nat /\ validData \in Nat
      /\ consumed \in Nat /\ readPtr + validData <= size
  BY DEF RBTypeOK, WindowIsStream
<1>3. \A i \in 0..(size - 1) : mem[i] \in Nat \cup {NoByte}
  BY DEF RBTypeOK
<1>4. \A i \in 0..(validData - 1) : mem[readPtr + i] = consumed + i
  BY DEF WindowIsStream
<1>5. CASE validData > 0 /\ readPtr > 0
  <2>1. Compacted = [i \in 0..(size - 1) |->
                       IF i < validData THEN mem[readPtr + i] ELSE mem[i]]
    BY <1>1, <1>5 DEF Compacted
  <2>2. \A i \in 0..(validData - 1) : i \in 0..(size - 1)
    BY <1>2
  <2>3. \A i \in 0..(validData - 1) : Compacted[i] = consumed + i
    <3> SUFFICES ASSUME NEW i \in 0..(validData - 1)
                 PROVE  Compacted[i] = consumed + i
      OBVIOUS
    <3>1. i \in 0..(size - 1) /\ i < validData
      BY <1>2
    <3>2. Compacted[i] = mem[readPtr + i]
      BY <2>1, <3>1
    <3>3. QED
      BY <1>4, <3>2
  <2>4. \A i \in 0..(size - 1) :
          (IF i < validData THEN mem[readPtr + i] ELSE mem[i]) \in Nat \cup {NoByte}
    <3> SUFFICES ASSUME NEW i \in 0..(size - 1)
                 PROVE  (IF i < validData THEN mem[readPtr + i] ELSE mem[i])
                          \in Nat \cup {NoByte}
      OBVIOUS
    <3>1. CASE i < validData
      <4>1. i \in 0..(validData - 1)
        BY <1>2, <3>1
      <4>2. mem[readPtr + i] = consumed + i
        BY <1>4, <4>1
      <4>3. QED
        BY <1>2, <3>1, <4>2
    <3>2. CASE ~(i < validData)
      BY <1>3, <3>2
    <3>3. QED
      BY <3>1, <3>2
  <2>5. QED
    BY <2>1, <2>3, <2>4
<1>6. CASE validData = 0
  BY <1>2, <1>6 DEF Compacted, RBTypeOK
<1>7. CASE readPtr = 0
  <2>1. Compacted = mem
    BY <1>7 DEF Compacted
  <2>2. \A i \in 0..(validData - 1) : mem[i] = consumed + i
    BY <1>2, <1>4, <1>7
  <2>3. QED
    BY <2>1, <2>2 DEF RBTypeOK
<1>8. QED
  BY <1>2, <1>5, <1>6, <1>7

\* The invariant holds of an empty buffer.
LEMMA RBInitInvariant == RBInit => RBInvariant
BY SizeAssumption DEF RBInit, RBInvariant, RBTypeOK, WindowIsStream

\* What the peer does leaves the buffer alone.
LEMMA PeerKeeps ==
  ASSUME RBInvariant, sent' \in Nat, sent' >= sent, peerOpen' \in BOOLEAN,
         UNCHANGED bufVars
  PROVE  RBInvariant'
BY DEF RBInvariant, RBTypeOK, WindowIsStream, bufVars

\* getData() appends what has arrived, however it moves the valid bytes.
LEMMA GetDataKeeps ==
  ASSUME RBInvariant, NEW n \in Nat, GetData(n)
  PROVE  RBInvariant'
<1> USE SizeAssumption DEF RBInvariant
<1> DEFINE fresh == validData..(validData + n - 1)
<1>0. /\ sent \in Nat /\ arrived \in Nat /\ size \in Nat \ {0}
      /\ validData \in Nat /\ consumed \in Nat /\ peerOpen \in BOOLEAN
      /\ reading \in BOOLEAN
  BY RBTypeOK, WindowIsStream DEF RBTypeOK
<1>1. /\ Target \in Nat /\ Target >= size /\ Target <= MaxAlloc
      /\ n \in Nat \ {0} /\ n <= sent - arrived /\ n <= Target - validData
  <2>1. Target \in Nat /\ Target >= size
    BY RBTypeOK, WindowIsStream, TargetHasRoom
  <2>2. Target <= MaxAlloc /\ n \in 1..(sent - arrived) /\ n <= Target - validData
    BY DEF GetData
  <2>3. QED
    BY <1>0, <2>1, <2>2
<1>2. /\ size' = Target /\ readPtr' = 0 /\ validData' = validData + n
      /\ arrived' = arrived + n
      /\ UNCHANGED <<sent, peerOpen, consumed, reading>>
  BY DEF GetData, peerVars
<1>3. mem' = [i \in 0..(Target - 1) |->
                CASE i \in fresh -> arrived + (i - validData)
                  [] i < size /\ i \notin fresh -> Compacted[i]
                  [] OTHER -> NoByte]
  BY DEF GetData
<1>4. \A i \in 0..(Target - 1) :
        /\ i \in fresh => mem'[i] = arrived + (i - validData)
        /\ i < size /\ i \notin fresh => mem'[i] = Compacted[i]
        /\ ~(i < size) /\ i \notin fresh => mem'[i] = NoByte
  BY <1>3
<1>5. \A i \in 0..(Target - 1) : mem'[i] \in Nat \cup {NoByte}
  BY RBTypeOK, WindowIsStream, <1>1, <1>4, CompactedWindow DEF RBTypeOK
<1>6. RBTypeOK'
  <2>1. mem' \in [0..(size' - 1) -> Nat \cup {NoByte}]
    BY <1>2, <1>3, <1>5
  <2>2. size' \in Nat \ {0} /\ size' <= MaxAlloc /\ validData' \in Nat /\ arrived' \in Nat
    BY <1>0, <1>1, <1>2
  <2>3. QED
    BY <1>0, <1>2, <2>1, <2>2 DEF RBTypeOK
<1>7. \A i \in 0..(validData + n - 1) : mem'[i] = consumed + i
  <2> SUFFICES ASSUME NEW i \in 0..(validData + n - 1)
               PROVE  mem'[i] = consumed + i
    OBVIOUS
  <2>1. i \in 0..(Target - 1)
    BY RBTypeOK, WindowIsStream, <1>1 DEF RBTypeOK
  <2>2. CASE i \in fresh
    BY RBTypeOK, WindowIsStream, <1>4, <2>1, <2>2 DEF RBTypeOK, WindowIsStream
  <2>3. CASE i \notin fresh
    <3>1. i \in 0..(validData - 1) /\ i < size
      BY RBTypeOK, WindowIsStream, <1>1, <2>3 DEF RBTypeOK, WindowIsStream
    <3>2. QED
      BY RBTypeOK, WindowIsStream, <1>4, <2>1, <2>3, <3>1, CompactedWindow
  <2>4. QED
    BY <2>2, <2>3
<1>8. WindowIsStream'
  BY RBTypeOK, WindowIsStream, <1>1, <1>2, <1>7 DEF RBTypeOK, WindowIsStream
<1>9. QED
  BY <1>6, <1>8 DEF RBInvariant

\* consume() moves the window on.
LEMMA ConsumeKeeps ==
  ASSUME RBInvariant, NEW n \in Nat, Consume(n)
  PROVE  RBInvariant'
<1> USE SizeAssumption DEF RBInvariant
<1>1. /\ n \in Nat /\ n <= validData
      /\ validData' = validData - n /\ readPtr' = readPtr + n
      /\ consumed' = consumed + n
      /\ UNCHANGED <<sent, peerOpen, mem, size, arrived, reading>>
  BY RBTypeOK, WindowIsStream DEF Consume, peerVars, RBTypeOK
<1>2. RBTypeOK'
  BY RBTypeOK, WindowIsStream, <1>1 DEF RBTypeOK
<1>3. \A i \in 0..(validData - n - 1) :
        mem[readPtr + n + i] = consumed + n + i
  <2> SUFFICES ASSUME NEW i \in 0..(validData - n - 1)
               PROVE  mem[readPtr + n + i] = consumed + n + i
    OBVIOUS
  <2>1. n + i \in 0..(validData - 1)
    BY RBTypeOK, WindowIsStream, <1>1 DEF RBTypeOK
  <2>2. mem[readPtr + (n + i)] = consumed + (n + i)
    BY RBTypeOK, WindowIsStream, <2>1 DEF WindowIsStream
  <2>3. QED
    BY RBTypeOK, WindowIsStream, <1>1, <2>2 DEF RBTypeOK
<1>4. WindowIsStream'
  BY RBTypeOK, WindowIsStream, <1>1, <1>3 DEF RBTypeOK, WindowIsStream
<1>5. QED
  BY <1>2, <1>4 DEF RBInvariant

LEMMA GetDataFailsKeeps ==
  ASSUME RBInvariant, GetDataFails
  PROVE  RBInvariant'
BY DEF RBInvariant, RBTypeOK, WindowIsStream, GetDataFails, peerVars

\* Every step keeps the invariant.
LEMMA RBNextInvariant == RBInvariant /\ [RBNext]_rbVars => RBInvariant'
<1> SUFFICES ASSUME RBInvariant, [RBNext]_rbVars PROVE RBInvariant'
  OBVIOUS
<1>0. 1..MaxSent \subseteq Nat
  BY SizeAssumption
<1>1. ASSUME NEW n \in 1..MaxSent, Send(n)
      PROVE  RBInvariant'
  <2>1. sent' \in Nat /\ sent' >= sent /\ peerOpen' \in BOOLEAN
    BY <1>0, <1>1 DEF RBInvariant, RBTypeOK, Send
  <2> QED
    BY <1>1, <2>1, PeerKeeps DEF Send
<1>2. CASE Close
  <2>1. sent' \in Nat /\ sent' >= sent /\ peerOpen' \in BOOLEAN
    <3>1. sent' = sent /\ peerOpen' \in BOOLEAN
      BY <1>2 DEF Close
    <3> QED
      BY <3>1 DEF RBInvariant, RBTypeOK
  <2> QED
    BY <1>2, <2>1, PeerKeeps DEF Close
<1>3. ASSUME NEW n \in 1..MaxSent, GetData(n) \/ Consume(n)
      PROVE  RBInvariant'
  BY <1>0, <1>3, GetDataKeeps, ConsumeKeeps
<1>4. CASE UNCHANGED rbVars
  BY <1>4 DEF RBInvariant, RBTypeOK, WindowIsStream, rbVars, peerVars, bufVars
<1> QED
  BY <1>1, <1>2, <1>3, <1>4, GetDataFailsKeeps DEF RBNext

\* The buffer shows the decoder its guest's stream, in order, without a gap.
THEOREM WindowCorrect == RBSpec => [](RBTypeOK /\ WindowIsStream)
<1>1. RBInvariant <=> RBTypeOK /\ WindowIsStream
  BY DEF RBInvariant
<1>2. QED
  BY RBInitInvariant, RBNextInvariant, <1>1, PTL DEF RBSpec

\* The buffer's fields keep their types: it never loses its last byte of memory,
\* never exceeds what the allocator can give, and holds one cell per byte.
THEOREM BufferTypeCorrect == RBSpec => []RBTypeOK
BY WindowCorrect, PTL

\* recv() is never asked for zero bytes.
THEOREM AlwaysRoom == RBSpec => []RoomToRead
<1>1. RBTypeOK /\ WindowIsStream => RoomToRead
  BY TargetHasRoom DEF RoomToRead
<1>2. QED
  BY WindowCorrect, <1>1, PTL

\* Doubling the buffer's size never wraps around.
THEOREM NeverWraps == RBSpec => []DoublingNeverWraps
<1>1. RBTypeOK /\ WindowIsStream => DoublingNeverWraps
  BY DoublingIsExact DEF DoublingNeverWraps
<1>2. QED
  BY WindowCorrect, <1>1, PTL
=============================================================================
