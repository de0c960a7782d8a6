------------------------- MODULE CommandStreamProofs -------------------------
(* Proofs about a guest's connection, for every set of calls, every packet    *)
(* size and every size of the two buffers: the calls are executed once each   *)
(* and in order, a reply reaches the call it belongs to, at most one reply is *)
(* outstanding, and the read buffer stays bounded.                            *)
EXTENDS CommandStream, StreamBufferProofs

\* What is proved of the read buffer, for the render thread's.
RBP == INSTANCE ReadBufferProofs
       WITH sent <- Len(wire), peerOpen <- (caller # "dead" /\ ~broken),
            MaxSent <- MaxWritten

Made == Len(calls)
Done == Len(executed)
Sent == Len(wire)

\* The buffers, each by its own invariant.
Buffers ==
  /\ StreamInv
  /\ RB!RBTypeOK /\ RB!WindowIsStream
  /\ pos \in 0..validData

Records ==
  /\ calls \in Seq(Kind) /\ start \in Seq(Nat) /\ Len(start) = Made
  /\ caller \in {"free", "flush", "waiting", "dead"}
  /\ results \in Seq(Nat \cup {Undefined})
  /\ replies \in Seq(Nat) /\ executed \in Seq(Nat)
  /\ rpc \in {"read", "decode", "done"}

\* The byte behind a packet.
Behind(k) == start[k] + PacketSize[calls[k]]

\* The packets lie one behind the other in what was written.
PacketsAdjoin ==
  /\ \A k \in 1..Made : Behind(k) = IF k = Made THEN written ELSE start[k + 1]
  /\ \A j, k \in 1..Made : j < k => Behind(j) <= start[k]

\* The calls were executed in order, and decode() stands at the first byte of the
\* first packet that was not.
InStep ==
  /\ Done <= Made
  /\ \A k \in 1..Done : executed[k] = k
  /\ consumed + pos = IF Done = Made THEN written ELSE start[Done + 1]

\* Before the thread reads it has looked at what it has: no complete packet.
NothingComplete ==
  rpc = "read" =>
    /\ pos = 0
    /\ validData > 0 => Done < Made /\ validData < PacketSize[calls[Done + 1]]

\* A caller that waits, waits for the last call; while it has not flushed, that
\* call's packet is not on the wire.
LastCallPending ==
  /\ caller \in {"flush", "waiting"} => Made > 0 /\ calls[Made] \in Result
  /\ caller = "flush" => Sent <= start[Made]

\* The only reply under way is the last call's.
ReplyIsLast ==
  replies # <<>> =>
    Len(replies) = 1 /\ Head(replies) = Made /\ Done = Made
    /\ caller \in {"waiting", "dead"}

\* As long as the connection stands, every call with a result was executed before
\* its caller went on.
ResultsExecuted ==
  ~broken /\ caller # "dead" =>
    \A k \in 1..Made :
      calls[k] \in Result /\ (k < Made \/ caller = "free") => k <= Done

CSInv ==
  /\ Buffers /\ Records /\ PacketsAdjoin /\ InStep
  /\ NothingComplete /\ LastCallPending /\ ReplyIsLast /\ ResultsExecuted
  /\ BufferBounded

-----------------------------------------------------------------------------
(* What the invariant says of packets and bytes.                              *)

LEMMA PacketSizes ==
  /\ Header \in Nat \ {0}
  /\ \A kind \in Kind : /\ PacketSize[kind] \in Nat /\ PacketSize[kind] \in 1..MaxLen
                        /\ PacketSize[kind] >= Header /\ PacketSize[kind] >= 1
<1>1. \A kind \in Kind : PacketSize[kind] \in Header..MaxLen
  BY PacketAssumption
<1>2. Header \in Nat \ {0} /\ MaxLen \in Nat
  BY PacketAssumption, StreamAssumption
<1> QED
  BY <1>1, <1>2

LEMMA Numbers ==
  ASSUME CSInv
  PROVE  /\ Made \in Nat /\ Done \in Nat /\ Sent \in Nat /\ written \in Nat
         /\ consumed \in Nat /\ pos \in Nat /\ validData \in Nat /\ readPtr \in Nat
         /\ arrived \in Nat /\ size \in Nat \ {0} /\ Done <= Made
         /\ Sent <= written /\ arrived = consumed + validData /\ arrived <= Sent
         /\ pos <= validData
<1>1. Made \in Nat /\ Done \in Nat /\ Sent \in Nat
  BY LenProperties DEF CSInv, Records, Buffers, StreamInv, Memory, Made, Done, Sent
<1>2. written \in Nat /\ Sent <= written
  BY DEF CSInv, Buffers, StreamInv, Memory, SentWasWritten, Sent
<1>3. /\ consumed \in Nat /\ validData \in Nat /\ readPtr \in Nat /\ arrived \in Nat
      /\ size \in Nat \ {0}
      /\ arrived = consumed + validData /\ arrived <= Sent
  BY DEF CSInv, Buffers, RB!RBTypeOK, RB!WindowIsStream, Sent
<1>4. pos \in Nat /\ pos <= validData
  BY <1>3 DEF CSInv, Buffers
<1> QED
  BY <1>1, <1>2, <1>3, <1>4 DEF CSInv, InStep

LEMMA PacketAt ==
  ASSUME CSInv, NEW k \in 1..Made
  PROVE  /\ calls[k] \in Kind /\ start[k] \in Nat
         /\ PacketSize[calls[k]] \in Nat /\ PacketSize[calls[k]] >= Header
         /\ Behind(k) \in Nat /\ start[k] < Behind(k) /\ Behind(k) <= written
         /\ Behind(k) = IF k = Made THEN written ELSE start[k + 1]
<1>0. k \in Nat /\ Made \in Nat /\ k <= Made /\ Made \in 1..Made /\ written \in Nat
  BY Numbers
<1>1. \A j \in 1..Made : calls[j] \in Kind /\ start[j] \in Nat
  BY ElementOfSeq DEF CSInv, Records, Made
<1>2. \A j \in 1..Made : /\ PacketSize[calls[j]] \in Nat
                         /\ PacketSize[calls[j]] >= Header /\ PacketSize[calls[j]] >= 1
                         /\ Behind(j) \in Nat /\ start[j] < Behind(j)
  BY <1>1, PacketSizes DEF Behind
<1>3. Behind(k) = IF k = Made THEN written ELSE start[k + 1]
  BY DEF CSInv, PacketsAdjoin
<1>4. Behind(Made) = written
  BY <1>0 DEF CSInv, PacketsAdjoin
<1>5. k < Made => Behind(k) <= start[Made]
  BY <1>0 DEF CSInv, PacketsAdjoin
<1>6. Behind(k) <= written
  BY <1>0, <1>1, <1>2, <1>3, <1>4, <1>5
<1> QED
  BY <1>1, <1>2, <1>3, <1>6

\* The byte at decode()'s ptr is the one the caller wrote as that number.
LEMMA ByteAtPtr ==
  ASSUME CSInv, validData - pos >= Header
  PROVE  /\ wire[mem[readPtr + pos] + 1] = consumed + pos
         /\ consumed + pos < Sent /\ pos < validData
<1>1. pos \in 0..(validData - 1) /\ consumed + pos < Sent /\ pos < validData
  BY Numbers, PacketSizes
<1>2. mem[readPtr + pos] = consumed + pos
  BY <1>1 DEF CSInv, Buffers, RB!WindowIsStream
<1>3. consumed + pos + 1 \in 1..Sent
  BY <1>1, Numbers
<1>4. wire[consumed + pos + 1] = (consumed + pos + 1) - 1
  BY <1>3 DEF CSInv, Buffers, StreamInv, WireInOrder, Sent
<1> QED
  BY <1>1, <1>2, <1>4, Numbers

\* It begins the first packet that was not executed, and no other.
LEMMA AtNextPacket ==
  ASSUME CSInv, validData - pos >= Header
  PROVE  /\ Done < Made /\ start[Done + 1] = consumed + pos
         /\ \A k \in 1..Made : AtPacket(k) <=> k = Done + 1
<1>1. consumed + pos < written
  BY ByteAtPtr, Numbers
<1>2. Done < Made /\ start[Done + 1] = consumed + pos
  BY <1>1, Numbers DEF CSInv, InStep
<1>3. ASSUME NEW k \in 1..Made PROVE AtPacket(k) <=> k = Done + 1
  <2>1. AtPacket(k) <=> start[k] = start[Done + 1]
    BY ByteAtPtr, <1>2 DEF AtPacket
  <2>2. Done + 1 \in 1..Made /\ k \in Nat /\ Done + 1 \in Nat
    BY <1>2, Numbers
  <2>3. k < Done + 1 => start[k] < start[Done + 1]
    BY <2>2, PacketAt DEF CSInv, PacketsAdjoin
  <2>4. Done + 1 < k => start[Done + 1] < start[k]
    BY <2>2, PacketAt DEF CSInv, PacketsAdjoin
  <2>5. start[k] \in Nat /\ start[Done + 1] \in Nat
    BY <2>2, PacketAt
  <2> QED
    BY <2>1, <2>2, <2>3, <2>4, <2>5
<1> QED
  BY <1>2, <1>3

-----------------------------------------------------------------------------
(* The buffers.                                                               *)

\* The assumptions of ReadBuffer hold of the instance.
LEMMA ForReadBuffer ==
  /\ BufSize \in Nat \ {0} /\ MaxAlloc \in Nat /\ BufSize <= MaxAlloc
  /\ Word \in Nat /\ 2 * MaxAlloc < Word
  /\ IntMax \in Nat /\ MaxWritten \in Nat
  /\ NoByte \notin Nat
BY BufferAssumption, StreamAssumption

\* Sending leaves the read buffer alone.
LEMMA SendingKeepsBuffers ==
  ASSUME CSInv, StreamInv', Sent <= Sent', UNCHANGED threadVars
  PROVE  Buffers'
<1>1. RBP!RBInvariant
  BY DEF CSInv, Buffers, RB!RBTypeOK, RB!WindowIsStream, RBP!RBInvariant,
     RBP!RBTypeOK, RBP!WindowIsStream
<1>2. Len(wire') \in Nat /\ Len(wire') >= Len(wire)
  BY Numbers, LenProperties DEF StreamInv, Memory, Sent
<1>3. (caller # "dead" /\ ~broken)' \in BOOLEAN
  OBVIOUS
<1>4. UNCHANGED RBP!bufVars
  BY DEF threadVars, bufVars, RBP!bufVars
<1>5. RBP!RBInvariant'
  BY ForReadBuffer, <1>1, <1>2, <1>3, <1>4, RBP!PeerKeeps
<1>6. (RB!RBTypeOK /\ RB!WindowIsStream)'
  BY <1>5 DEF RB!RBTypeOK, RB!WindowIsStream, RBP!RBInvariant,
     RBP!RBTypeOK, RBP!WindowIsStream
<1>7. pos' \in 0..validData'
  BY DEF CSInv, Buffers, threadVars, bufVars
<1> QED
  BY <1>6, <1>7 DEF Buffers

LEMMA StreamUntouched ==
  ASSUME StreamInv, UNCHANGED sbVars PROVE StreamInv'
BY StreamNext

\* getData() and consume() keep the buffer's invariant.
LEMMA GetDataKeepsBuffers ==
  ASSUME CSInv, NEW n \in Nat, RB!GetData(n), UNCHANGED <<sbVars, caller, pos>>
  PROVE  /\ Buffers' /\ consumed' = consumed /\ size' \in {size, 2 * size}
         /\ size' = 2 * size => size = validData
<1>1. RBP!RBInvariant /\ RBP!RBTypeOK /\ RBP!WindowIsStream
  BY DEF CSInv, Buffers, RB!RBTypeOK, RB!WindowIsStream, RBP!RBInvariant,
     RBP!RBTypeOK, RBP!WindowIsStream
<1>2. RBP!GetData(n)
  BY DEF RB!GetData, RB!Target, RB!Doubled, RB!Compacted, RB!peerVars,
     RBP!GetData, RBP!Target, RBP!Doubled, RBP!Compacted, RBP!peerVars
<1>3. RBP!RBInvariant'
  BY ForReadBuffer, <1>1, <1>2, RBP!GetDataKeeps
<1>4. (RB!RBTypeOK /\ RB!WindowIsStream)'
  BY <1>3 DEF RB!RBTypeOK, RB!WindowIsStream, RBP!RBInvariant,
     RBP!RBTypeOK, RBP!WindowIsStream
<1>5. StreamInv'
  BY StreamUntouched DEF CSInv, Buffers
<1>6. consumed' = consumed /\ validData' = validData + n /\ size' = RB!Target
  BY DEF RB!GetData
<1>7. pos' \in 0..validData'
  BY <1>6, Numbers
<1>8. RB!Doubled = 2 * size
  BY ForReadBuffer, <1>1, RBP!DoublingIsExact DEF RB!Doubled, RBP!Doubled
<1>9. size' \in {size, 2 * size} /\ (size' = 2 * size => size = validData)
  BY <1>6, <1>8, Numbers DEF RB!Target
<1> QED
  BY <1>4, <1>5, <1>6, <1>7, <1>9 DEF Buffers

LEMMA ConsumeKeepsBuffers ==
  ASSUME CSInv, RB!Consume(pos), pos' = 0, UNCHANGED <<sbVars, caller>>
  PROVE  Buffers' /\ consumed' = consumed + pos /\ size' = size
<1>1. RBP!RBInvariant
  BY DEF CSInv, Buffers, RB!RBTypeOK, RB!WindowIsStream, RBP!RBInvariant,
     RBP!RBTypeOK, RBP!WindowIsStream
<1>2. RBP!Consume(pos)
  BY DEF RB!Consume, RB!peerVars, RBP!Consume, RBP!peerVars
<1>3. RBP!RBInvariant'
  BY ForReadBuffer, <1>1, <1>2, Numbers, RBP!ConsumeKeeps
<1>4. (RB!RBTypeOK /\ RB!WindowIsStream)'
  BY <1>3 DEF RB!RBTypeOK, RB!WindowIsStream, RBP!RBInvariant,
     RBP!RBTypeOK, RBP!WindowIsStream
<1>5. StreamInv'
  BY StreamUntouched DEF CSInv, Buffers
<1>6. pos' \in 0..validData'
  BY <1>4 DEF RB!RBTypeOK
<1> QED
  BY <1>4, <1>5, <1>6 DEF Buffers, RB!Consume

-----------------------------------------------------------------------------
(* The caller's steps.                                                        *)

\* A step of the stream that writes nothing leaves packets and thread in step.
LEMMA NothingWritten ==
  ASSUME CSInv, [SBStep]_sbVars \/ (StreamInv' /\ Sent <= Sent'),
         UNCHANGED <<calls, start, written, threadVars>>
  PROVE  Buffers' /\ PacketsAdjoin' /\ InStep' /\ NothingComplete' /\ BufferBounded'
<1>1. StreamInv' /\ Sent <= Sent'
  BY StreamNext, WireGrows DEF CSInv, Buffers, Sent
<1>2. Buffers'
  BY <1>1, SendingKeepsBuffers
<1>3. PacketsAdjoin'
  BY DEF CSInv, PacketsAdjoin, Behind, Made
<1>4. InStep'
  BY DEF CSInv, InStep, Made, Done, threadVars, bufVars
<1>5. NothingComplete'
  BY DEF CSInv, NothingComplete, Made, Done, threadVars, bufVars
<1>6. BufferBounded'
  BY DEF CSInv, BufferBounded, threadVars, bufVars
<1> QED
  BY <1>2, <1>3, <1>4, <1>5, <1>6

\* A new call's packet continues what was written.
LEMMA EncodeKeeps ==
  ASSUME CSInv, NEW kind \in Kind, Encode(kind)
  PROVE  CSInv'
<1> DEFINE len == PacketSize[kind]
<1>1. /\ caller = "free" /\ (AllocFromFree(len) \/ AllocFresh(len))
      /\ calls' = Append(calls, kind) /\ start' = Append(start, written)
      /\ caller' = IF kind \in Result THEN "flush" ELSE "free"
      /\ UNCHANGED <<results, replies, threadVars>>
  BY DEF Encode
<1>2. len \in Nat /\ len \in 1..MaxLen
  BY PacketSizes
<1>3. /\ StreamInv' /\ written' = written + len
      /\ Sent <= Sent' /\ Sent' <= written /\ broken' = broken
  BY <1>1, <1>2, AllocSends DEF CSInv, Buffers, Sent
<1>4. /\ calls' \in Seq(Kind) /\ Made' = Made + 1 /\ calls'[Made + 1] = kind
      /\ \A k \in 1..Made : calls'[k] = calls[k]
  BY <1>1, AppendProperties DEF CSInv, Records, Made
<1>5. /\ start' \in Seq(Nat) /\ Len(start') = Made + 1 /\ start'[Made + 1] = written
      /\ \A k \in 1..Made : start'[k] = start[k]
  <2>1. start \in Seq(Nat) /\ Len(start) = Made /\ written \in Nat
    BY Numbers DEF CSInv, Records
  <2>2. /\ start' \in Seq(Nat) /\ Len(start') = Len(start) + 1
        /\ start'[Len(start) + 1] = written
        /\ \A k \in 1..Len(start) : start'[k] = start[k]
    BY <1>1, <2>1, AppendProperties
  <2> QED
    BY <2>1, <2>2
<1>6. /\ \A k \in 1..Made : Behind(k)' = Behind(k)
      /\ start'[Made + 1] + PacketSize[calls'[Made + 1]] = written'
      /\ \A k : Behind(k)' = start'[k] + PacketSize[calls'[k]]
  <2>1. \A k : Behind(k)' = start'[k] + PacketSize[calls'[k]]
    BY DEF Behind
  <2>2. \A k \in 1..Made : Behind(k)' = Behind(k)
    BY <1>4, <1>5, <2>1 DEF Behind
  <2> QED
    BY <1>3, <1>4, <1>5, <2>1, <2>2
<1>7. Done' = Done /\ UNCHANGED <<replies, executed, rpc, pos, consumed, validData, size>>
  BY <1>1 DEF Done, threadVars, bufVars
<1>a. Made \in Nat /\ Done \in Nat /\ Done <= Made /\ written \in Nat
  BY Numbers
<1>8. Buffers'
  BY <1>1, <1>3, SendingKeepsBuffers
<1>9. Records'
  <2>1. caller' \in {"free", "flush", "waiting", "dead"}
    BY <1>1
  <2> QED
    BY <1>1, <1>4, <1>5, <1>7, <2>1 DEF CSInv, Records
<1>10. PacketsAdjoin'
  <2>1. ASSUME NEW k \in 1..Made'
        PROVE  Behind(k)' = IF k = Made' THEN written' ELSE start'[k + 1]
    <3>1. CASE k = Made + 1
      BY <1>4, <1>6, <3>1
    <3>2. CASE k \in 1..Made
      <4>1. Behind(k)' = IF k = Made THEN written ELSE start[k + 1]
        BY <1>6, <3>2, PacketAt
      <4>2. k # Made => k + 1 \in 1..Made
        BY <1>a, <3>2
      <4> QED
        BY <1>4, <1>5, <1>a, <3>2, <4>1, <4>2
    <3> QED
      BY <1>4, <1>a, <3>1, <3>2
  <2>2. ASSUME NEW j \in 1..Made', NEW k \in 1..Made', j < k
        PROVE  Behind(j)' <= start'[k]
    <3>1. j \in 1..Made /\ Behind(j)' = Behind(j)
      BY <1>4, <1>6, <1>a, <2>2
    <3>2. CASE k = Made + 1
      BY <1>5, <3>1, <3>2, PacketAt
    <3>3. CASE k \in 1..Made
      BY <1>5, <2>2, <3>1, <3>3 DEF CSInv, PacketsAdjoin
    <3> QED
      BY <1>4, <1>a, <3>2, <3>3
  <2> QED
    BY <2>1, <2>2 DEF PacketsAdjoin
<1>11. InStep'
  <2>1. consumed + pos = IF Done = Made THEN written ELSE start[Done + 1]
    BY DEF CSInv, InStep
  <2>2. Done # Made => Done + 1 \in 1..Made
    BY <1>a
  <2>3. consumed' + pos' = start'[Done + 1]
    BY <1>5, <1>7, <2>1, <2>2
  <2>4. Done' <= Made' /\ Done' # Made'
    BY <1>4, <1>7, <1>a
  <2>5. \A k \in 1..Done' : executed'[k] = k
    BY <1>7 DEF CSInv, InStep
  <2> QED
    BY <1>7, <2>3, <2>4, <2>5 DEF InStep
<1>12. NothingComplete'
  <2> SUFFICES ASSUME rpc = "read"
               PROVE  /\ pos = 0
                      /\ validData > 0 => /\ Done < Made + 1
                                          /\ validData < PacketSize[calls'[Done + 1]]
    BY <1>4, <1>7 DEF NothingComplete
  <2>1. /\ pos = 0
        /\ validData > 0 => Done < Made /\ validData < PacketSize[calls[Done + 1]]
    BY DEF CSInv, NothingComplete
  <2>2. Done < Made => Done + 1 \in 1..Made
    BY <1>a
  <2> QED
    BY <1>4, <1>a, <2>1, <2>2
<1>13. LastCallPending'
  BY <1>1, <1>3, <1>4, <1>5, <1>a DEF LastCallPending
<1>14. ReplyIsLast'
  <2>1. replies = <<>>
    BY <1>1 DEF CSInv, ReplyIsLast
  <2> QED
    BY <1>7, <2>1 DEF ReplyIsLast
<1>15. ResultsExecuted'
  <2> SUFFICES ASSUME ~broken, NEW k \in 1..(Made + 1), calls'[k] \in Result,
                      k < Made + 1 \/ caller' = "free"
               PROVE  k <= Done
    BY <1>3, <1>4, <1>7 DEF ResultsExecuted
  <2>1. ASSUME k = Made + 1 PROVE FALSE
    <3>1. kind \in Result
      BY <1>4, <2>1
    <3>2. caller' = "flush" /\ ~(k < Made + 1)
      BY <1>1, <1>a, <2>1, <3>1
    <3> QED
      BY <3>2
  <2>2. k \in 1..Made
    BY <1>a, <2>1
  <2> QED
    BY <1>1, <1>4, <2>2 DEF CSInv, ResultsExecuted
<1>16. BufferBounded'
  BY <1>7 DEF CSInv, BufferBounded
<1> QED
  BY <1>8, <1>9, <1>10, <1>11, <1>12, <1>13, <1>14, <1>15, <1>16 DEF CSInv

\* A caller that dies.
LEMMA DeathKeeps ==
  ASSUME CSInv, [SBStep]_sbVars, caller' = "dead",
         UNCHANGED <<calls, start, written, results, replies, threadVars>>
  PROVE  CSInv'
<1>1. Records'
  BY DEF CSInv, Records, Made, threadVars
<1>2. LastCallPending' /\ ResultsExecuted'
  BY DEF LastCallPending, ResultsExecuted
<1>3. ReplyIsLast'
  BY DEF CSInv, ReplyIsLast, Made, Done, threadVars
<1> QED
  BY <1>1, <1>2, <1>3, NothingWritten DEF CSInv

LEMMA EncodeIntoNullKeeps ==
  ASSUME CSInv, NEW kind \in Kind, EncodeIntoNull(kind)
  PROVE  CSInv'
<1>1. PacketSize[kind] \in 1..MaxLen
  BY PacketSizes
<1>2. SBStep /\ UNCHANGED written
  BY <1>1 DEF EncodeIntoNull, SBStep, AllocFlushFails, AllocNoMemory
<1> QED
  BY <1>2, DeathKeeps DEF EncodeIntoNull

LEMMA HangUpKeeps ==
  ASSUME CSInv, HangUp PROVE CSInv'
BY DeathKeeps DEF HangUp, sbVars

LEMMA ReadbackFlushKeeps ==
  ASSUME CSInv, ReadbackFlush PROVE CSInv'
<1>1. /\ caller = "flush" /\ SBStep /\ caller' = "waiting"
      /\ UNCHANGED <<calls, start, written, results, replies, threadVars>>
  BY DEF ReadbackFlush, SBStep, Flush
<1>2. broken => broken'
  BY <1>1, WireGrows DEF CSInv, Buffers
<1>3. Records'
  BY <1>1 DEF CSInv, Records, Made, threadVars
<1>4. LastCallPending'
  BY <1>1 DEF CSInv, LastCallPending, Made
<1>5. ReplyIsLast'
  BY <1>1 DEF CSInv, ReplyIsLast
<1>6. ResultsExecuted'
  BY <1>1, <1>2 DEF CSInv, ResultsExecuted, Made, Done, threadVars
<1> QED
  BY <1>1, <1>3, <1>4, <1>5, <1>6, NothingWritten DEF CSInv

\* The reply is the last call's, and every call was executed.
LEMMA ReadbackReplyKeeps ==
  ASSUME CSInv, ReadbackReply
  PROVE  CSInv' /\ results' = Append(results, Made) /\ Done = Made
<1>1. /\ caller = "waiting" /\ replies # <<>> /\ caller' = "free"
      /\ results' = Append(results, Head(replies)) /\ replies' = Tail(replies)
      /\ UNCHANGED <<sbVars, calls, start, threadVars>>
  BY DEF ReadbackReply
<1>2. Len(replies) = 1 /\ Head(replies) = Made /\ Done = Made
  BY <1>1 DEF CSInv, ReplyIsLast
<1>3. replies' = <<>>
  BY <1>1, <1>2, HeadTailProperties, EmptySeq DEF CSInv, Records
<1>4. UNCHANGED <<written, broken>>
  BY <1>1 DEF sbVars
<1>5. results' \in Seq(Nat \cup {Undefined})
  <2>1. Made \in Nat \cup {Undefined}
    BY Numbers
  <2> QED
    BY <1>1, <1>2, <2>1, AppendProperties DEF CSInv, Records
<1>6. Records'
  <2>1. replies' \in Seq(Nat)
    BY <1>3, EmptySeq
  <2> QED
    BY <1>1, <1>5, <2>1 DEF CSInv, Records, Made, threadVars
<1>7. LastCallPending'
  BY <1>1 DEF LastCallPending
<1>8. ReplyIsLast'
  BY <1>3 DEF ReplyIsLast
<1>9. ResultsExecuted'
  BY <1>1, <1>2, Numbers DEF ResultsExecuted, Made, Done, threadVars
<1> QED
  BY <1>1, <1>2, <1>4, <1>6, <1>7, <1>8, <1>9, NothingWritten DEF CSInv

LEMMA ReadbackFailsKeeps ==
  ASSUME CSInv, ReadbackFails PROVE CSInv'
<1>1. /\ replies = <<>> /\ broken /\ caller' = "free"
      /\ results' = Append(results, Undefined)
      /\ UNCHANGED <<sbVars, calls, start, replies, threadVars>>
  BY DEF ReadbackFails
<1>2. UNCHANGED <<written, broken>>
  BY <1>1 DEF sbVars
<1>3. Records'
  <2>1. results' \in Seq(Nat \cup {Undefined})
    BY <1>1, AppendProperties DEF CSInv, Records
  <2> QED
    BY <1>1, <2>1 DEF CSInv, Records, Made, threadVars
<1>4. LastCallPending' /\ ReplyIsLast'
  BY <1>1 DEF LastCallPending, ReplyIsLast
<1>5. ResultsExecuted'
  BY <1>1, <1>2 DEF ResultsExecuted
<1> QED
  BY <1>1, <1>2, <1>3, <1>4, <1>5, NothingWritten DEF CSInv

\* Once the connection is shut down nothing is promised of staged bytes.
LEMMA ShutdownKeeps ==
  ASSUME CSInv, Shutdown PROVE CSInv'
<1>1. /\ broken' = TRUE /\ UNCHANGED <<ioBuf, ioSize, ioFree, sockSize, sockCap>>
      /\ UNCHANGED <<cells, written, wire, callerVars, replies, threadVars>>
  BY DEF Shutdown
<1>2. StreamInv'
  BY <1>1 DEF CSInv, Buffers, StreamInv, SizesAgree, Sizes, BufferFits, Memory,
     NothingLost, WireInOrder, SentWasWritten
<1>3. Sent <= Sent'
  BY <1>1, Numbers DEF Sent
<1>4. Records' /\ LastCallPending' /\ ReplyIsLast'
  BY <1>1 DEF CSInv, Records, LastCallPending, ReplyIsLast, Made, Done, Sent,
     callerVars, threadVars
<1>5. ResultsExecuted'
  BY <1>1 DEF ResultsExecuted
<1> QED
  BY <1>1, <1>2, <1>3, <1>4, <1>5, NothingWritten DEF CSInv, callerVars

-----------------------------------------------------------------------------
(* The render thread's steps.                                                 *)

\* What a step that touches neither the stream nor the caller leaves as it was.
LEMMA ThreadLeavesCaller ==
  ASSUME CSInv, UNCHANGED <<sbVars, callerVars>>
  PROVE  /\ PacketsAdjoin' /\ LastCallPending'
         /\ UNCHANGED <<calls, start, caller, results, written, wire, broken, Made, Sent>>
BY DEF CSInv, sbVars, callerVars, PacketsAdjoin, Behind, LastCallPending, Made, Sent

\* The buffer is doubled only when it is full of an incomplete packet.
LEMMA ReadKeeps ==
  ASSUME CSInv, Read PROVE CSInv'
<1>1. /\ rpc = "read" /\ rpc' = "decode"
      /\ UNCHANGED <<sbVars, callerVars, replies, executed, pos>>
  BY DEF Read
<1>2. PICK n \in 1..MaxWritten : RB!GetData(n)
  BY DEF Read
<1>3. n \in Nat
  BY StreamAssumption
<1>4. /\ Buffers' /\ consumed' = consumed /\ size' \in {size, 2 * size}
      /\ size' = 2 * size => size = validData
  BY <1>1, <1>2, <1>3, GetDataKeepsBuffers DEF callerVars
<1>5. /\ PacketsAdjoin' /\ LastCallPending'
      /\ UNCHANGED <<calls, start, caller, results, written, wire, broken, Made, Sent>>
  BY <1>1, ThreadLeavesCaller
<1>6. Records' /\ ReplyIsLast' /\ ResultsExecuted'
  BY <1>1, <1>5 DEF CSInv, Records, ReplyIsLast, ResultsExecuted, Done
<1>7. InStep'
  BY <1>1, <1>4, <1>5 DEF CSInv, InStep, Done
<1>8. NothingComplete'
  BY <1>1 DEF NothingComplete
<1>9. BufferBounded'
  <2>1. CASE size' = size
    BY <2>1 DEF CSInv, BufferBounded
  <2>2. CASE size' = 2 * size
    <3>1. size = validData /\ validData \in Nat \ {0}
      BY <1>4, <2>2, Numbers
    <3>2. Done < Made /\ validData < PacketSize[calls[Done + 1]]
      BY <1>1, <3>1 DEF CSInv, NothingComplete
    <3>3. Done + 1 \in 1..Made
      BY <3>2, Numbers
    <3>4. calls[Done + 1] \in Kind /\ PacketSize[calls[Done + 1]] \in Nat
      BY <3>3, PacketAt
    <3>5. size' <= 2 * (PacketSize[calls[Done + 1]] - 1)
      BY <2>2, <3>1, <3>2, <3>4
    <3> QED
      BY <3>4, <3>5 DEF BufferBounded
  <2> QED
    BY <1>4, <2>1, <2>2
<1> QED
  BY <1>4, <1>5, <1>6, <1>7, <1>8, <1>9 DEF CSInv

LEMMA ReadFailsKeeps ==
  ASSUME CSInv, ReadFails PROVE CSInv'
<1>1. /\ rpc' = "done" /\ reading' = FALSE
      /\ UNCHANGED <<sbVars, callerVars, replies, executed, pos>>
      /\ UNCHANGED <<mem, size, readPtr, validData, arrived, consumed>>
  BY DEF ReadFails, RB!GetDataFails
<1>2. /\ PacketsAdjoin' /\ LastCallPending'
      /\ UNCHANGED <<calls, start, caller, results, written, wire, broken, Made, Sent>>
  BY <1>1, ThreadLeavesCaller
<1>3. Buffers'
  <2>1. StreamInv'
    BY <1>1, StreamUntouched DEF CSInv, Buffers
  <2>2. (RB!RBTypeOK /\ RB!WindowIsStream)'
    BY <1>1, <1>2 DEF CSInv, Buffers, RB!RBTypeOK, RB!WindowIsStream
  <2> QED
    BY <1>1, <2>1, <2>2 DEF CSInv, Buffers
<1>4. Records' /\ ReplyIsLast' /\ ResultsExecuted'
  BY <1>1, <1>2 DEF CSInv, Records, ReplyIsLast, ResultsExecuted, Done
<1>5. InStep' /\ NothingComplete' /\ BufferBounded'
  BY <1>1, <1>2 DEF CSInv, InStep, NothingComplete, BufferBounded, Done
<1> QED
  BY <1>2, <1>3, <1>4, <1>5 DEF CSInv

\* The packet decode() executes is the next call's, and pos moves behind it.
LEMMA DecodedNext ==
  ASSUME CSInv, NEW k \in 1..Made, CompletePacket(k),
         executed' = Append(executed, k), pos' = pos + PacketSize[calls[k]]
  PROVE  /\ k = Done + 1 /\ Done < Made /\ consumed + pos < Sent
         /\ executed' \in Seq(Nat) /\ Done' = k /\ \A j \in 1..k : executed'[j] = j
         /\ pos' \in 0..validData
         /\ consumed + pos' = IF k = Made THEN written ELSE start[k + 1]
<1>1. AtPacket(k) /\ PacketSize[calls[k]] <= validData - pos /\ validData - pos >= Header
  BY DEF CompletePacket, AtPacket
<1>2. k = Done + 1 /\ Done < Made /\ start[k] = consumed + pos
  BY <1>1, AtNextPacket
<1>3. consumed + pos < Sent
  BY <1>1, ByteAtPtr
<1>4. /\ executed' \in Seq(Nat) /\ Done' = k /\ executed'[k] = k
      /\ \A j \in 1..Done : executed'[j] = executed[j]
  <2>1. executed \in Seq(Nat) /\ k \in Nat
    BY Numbers DEF CSInv, Records
  <2>2. /\ executed' \in Seq(Nat) /\ Done' = Done + 1 /\ executed'[Done + 1] = k
        /\ \A j \in 1..Done : executed'[j] = executed[j]
    BY <2>1, AppendProperties DEF Done
  <2> QED
    BY <1>2, <2>2
<1>5. \A j \in 1..k : executed'[j] = j
  <2>1. \A j \in 1..Done : executed[j] = j
    BY DEF CSInv, InStep
  <2>2. \A j \in 1..k : j = k \/ j \in 1..Done
    BY <1>2, Numbers
  <2> QED
    BY <1>4, <2>1, <2>2
<1>6. /\ pos' \in 0..validData
      /\ consumed + pos' = IF k = Made THEN written ELSE start[k + 1]
  <2>1. /\ PacketSize[calls[k]] \in Nat /\ start[k] \in Nat
        /\ Behind(k) = IF k = Made THEN written ELSE start[k + 1]
    BY PacketAt
  <2> DEFINE len == PacketSize[calls[k]]
  <2>2. pos' = pos + len /\ len <= validData - pos /\ len \in Nat
    BY <1>1, <2>1
  <2>3. consumed \in Nat /\ pos \in Nat /\ validData \in Nat
    BY Numbers
  <2>4. Behind(k) = (consumed + pos) + len
    BY <1>2 DEF Behind
  <2> HIDE DEF len
  <2>5. consumed + pos' = Behind(k) /\ pos' \in 0..validData
    BY <2>2, <2>3, <2>4
  <2> QED
    BY <2>1, <2>5
<1> QED
  BY <1>2, <1>3, <1>4, <1>5, <1>6

\* decode() executes the call that is next, and replies to its caller only while
\* that one waits for this very call.
LEMMA DecodePacketKeeps ==
  ASSUME CSInv, DecodePacket
  PROVE  CSInv' /\ Done < Made /\ executed' = Append(executed, Done + 1)
<1>1. rpc = "decode" /\ UNCHANGED <<sbVars, callerVars, rpc, bufVars>>
  BY DEF DecodePacket
<1>2. PICK k \in 1..Made :
        /\ CompletePacket(k)
        /\ executed' = Append(executed, k)
        /\ pos' = pos + PacketSize[calls[k]]
        /\ replies' = IF calls[k] \in Result /\ caller # "dead" /\ ~broken
                      THEN Append(replies, k) ELSE replies
  BY DEF DecodePacket, Made
<1>3. /\ k = Done + 1 /\ Done < Made /\ consumed + pos < Sent
      /\ executed' \in Seq(Nat) /\ Done' = k /\ \A j \in 1..k : executed'[j] = j
      /\ pos' \in 0..validData
      /\ consumed + pos' = IF k = Made THEN written ELSE start[k + 1]
  BY <1>2, DecodedNext
<1>4. /\ PacketsAdjoin' /\ LastCallPending'
      /\ UNCHANGED <<calls, start, caller, results, written, wire, broken, Made, Sent>>
  BY <1>1, ThreadLeavesCaller
<1>5. Buffers'
  <2>1. StreamInv' /\ RB!RBTypeOK' /\ RB!WindowIsStream'
    BY <1>1, <1>4, StreamUntouched
    DEF CSInv, Buffers, RB!RBTypeOK, RB!WindowIsStream, bufVars
  <2> QED
    BY <1>1, <1>3, <2>1 DEF Buffers, bufVars
<1>6. InStep'
  BY <1>1, <1>3, <1>4, Numbers DEF InStep, bufVars
<1>7. NothingComplete' /\ BufferBounded'
  BY <1>1 DEF CSInv, NothingComplete, BufferBounded, bufVars
<1>8. replies = <<>>
  BY <1>3, Numbers DEF CSInv, ReplyIsLast
<1>9. ASSUME calls[k] \in Result, caller # "dead", ~broken
      PROVE  k = Made /\ caller = "waiting"
  <2>1. k = Made /\ caller # "free"
    <3>1. k = Done + 1 /\ Done < Made
      BY <1>3
    <3> QED
      BY <3>1, <1>9, Numbers DEF CSInv, ResultsExecuted
  <2>2. start[k] = consumed + pos
    BY <1>3, <2>1 DEF CSInv, InStep
  <2>3. caller # "flush"
    BY <1>3, <2>1, <2>2, Numbers DEF CSInv, LastCallPending
  <2> QED
    BY <1>9, <2>1, <2>3 DEF CSInv, Records
<1>10. replies' = <<k>> \/ replies' = <<>>
  BY <1>2, <1>8
<1>11. Records'
  <2>1. replies' \in Seq(Nat)
    <3>1. k \in Nat /\ <<>> \in Seq(Nat)
      BY EmptySeq
    <3>2. Append(<<>>, k) \in Seq(Nat)
      BY <3>1, AppendProperties
    <3> QED
      BY <1>2, <1>8, <3>1, <3>2
  <2> QED
    BY <1>1, <1>3, <1>4, <2>1 DEF CSInv, Records
<1>12. ReplyIsLast'
  <2>1. CASE replies' = <<>>
    BY <2>1 DEF ReplyIsLast
  <2>2. CASE replies' = <<k>> /\ replies' # <<>>
    <3>1. calls[k] \in Result /\ caller # "dead" /\ ~broken
      BY <1>2, <1>8, <2>2
    <3>2. k = Made /\ caller = "waiting"
      BY <1>9, <3>1
    <3> QED
      BY <1>3, <1>4, <2>2, <3>2 DEF ReplyIsLast
  <2> QED
    BY <1>10, <2>1, <2>2
<1>13. ResultsExecuted'
  <2>1. \A j \in Nat : j <= Done => j <= k
    BY <1>3, Numbers
  <2> QED
    BY <1>3, <1>4, <2>1 DEF CSInv, ResultsExecuted
<1> QED
  BY <1>2, <1>3, <1>4, <1>5, <1>6, <1>7, <1>11, <1>12, <1>13 DEF CSInv

\* A host that falls over its first reply has executed that call.
LEMMA DecodeIntoNullKeeps ==
  ASSUME CSInv, DecodeIntoNull
  PROVE  CSInv' /\ Done < Made /\ executed' = Append(executed, Done + 1)
<1>1. /\ rpc' = "done" /\ broken' = TRUE
      /\ UNCHANGED <<ioBuf, ioSize, ioFree, sockSize, sockCap, cells, written, wire>>
      /\ UNCHANGED <<calls, start, caller, results, replies, bufVars>>
  BY DEF DecodeIntoNull, callerVars
<1>2. PICK k \in 1..Made :
        /\ CompletePacket(k)
        /\ executed' = Append(executed, k)
        /\ pos' = pos + PacketSize[calls[k]]
  BY DEF DecodeIntoNull, Made
<1>3. /\ k = Done + 1 /\ Done < Made
      /\ executed' \in Seq(Nat) /\ Done' = k /\ \A j \in 1..k : executed'[j] = j
      /\ pos' \in 0..validData
      /\ consumed + pos' = IF k = Made THEN written ELSE start[k + 1]
  BY <1>2, DecodedNext
<1>4. UNCHANGED <<Made, Sent>>
  BY <1>1 DEF Made, Sent
<1>5. Buffers'
  <2>1. StreamInv'
    BY <1>1 DEF CSInv, Buffers, StreamInv, SizesAgree, Sizes, BufferFits, Memory,
       NothingLost, WireInOrder, SentWasWritten
  <2>2. RB!RBTypeOK' /\ RB!WindowIsStream'
    BY <1>1 DEF CSInv, Buffers, RB!RBTypeOK, RB!WindowIsStream, bufVars
  <2> QED
    BY <1>1, <1>3, <2>1, <2>2 DEF Buffers, bufVars
<1>6. Records'
  BY <1>1, <1>3, <1>4 DEF CSInv, Records
<1>7. PacketsAdjoin' /\ LastCallPending'
  BY <1>1, <1>4 DEF CSInv, PacketsAdjoin, Behind, LastCallPending
<1>8. InStep'
  BY <1>1, <1>3, <1>4, Numbers DEF InStep, bufVars
<1>9. NothingComplete' /\ BufferBounded'
  BY <1>1 DEF CSInv, NothingComplete, BufferBounded, bufVars
<1>10. replies = <<>>
  BY <1>3, Numbers DEF CSInv, ReplyIsLast
<1>11. ReplyIsLast' /\ ResultsExecuted'
  BY <1>1, <1>10 DEF ReplyIsLast, ResultsExecuted
<1> QED
  BY <1>2, <1>3, <1>5, <1>6, <1>7, <1>8, <1>9, <1>11 DEF CSInv

\* decode() gives up only at an incomplete packet.
LEMMA DecodeReturnKeeps ==
  ASSUME CSInv, DecodeReturn PROVE CSInv'
<1>1. /\ rpc = "decode" /\ pos' = 0
      /\ UNCHANGED <<sbVars, callerVars, replies, executed>>
      /\ \A k \in 1..Made : ~CompletePacket(k)
  BY DEF DecodeReturn, Made
<1>2. /\ PacketsAdjoin' /\ LastCallPending'
      /\ UNCHANGED <<calls, start, caller, results, written, wire, broken, Made, Sent>>
  BY <1>1, ThreadLeavesCaller
<1>3. Done' = Done
  BY <1>1 DEF Done
<1>4. ReplyIsLast' /\ ResultsExecuted'
  BY <1>1, <1>2, <1>3 DEF CSInv, ReplyIsLast, ResultsExecuted
<1>5. CASE pos > 0
  <2>1. RB!Consume(pos) /\ rpc' = rpc
    BY <1>5 DEF DecodeReturn
  <2>2. Buffers' /\ consumed' = consumed + pos /\ size' = size
    BY <1>1, <1>2, <2>1, ConsumeKeepsBuffers
  <2>3. Records'
    BY <1>1, <1>2, <2>1 DEF CSInv, Records
  <2>4. InStep'
    BY <1>1, <1>2, <1>3, <2>2, Numbers DEF CSInv, InStep
  <2>5. NothingComplete' /\ BufferBounded'
    BY <1>1, <2>1, <2>2 DEF CSInv, NothingComplete, BufferBounded
  <2> QED
    BY <1>2, <1>4, <2>2, <2>3, <2>4, <2>5 DEF CSInv
<1>6. CASE ~(pos > 0)
  <2>1. rpc' = "read" /\ UNCHANGED bufVars
    BY <1>6 DEF DecodeReturn
  <2>2. pos = 0
    BY <1>6, Numbers
  <2>3. Buffers'
    <3>1. StreamInv' /\ RB!RBTypeOK' /\ RB!WindowIsStream'
      BY <1>1, <1>2, <2>1, StreamUntouched
      DEF CSInv, Buffers, RB!RBTypeOK, RB!WindowIsStream, bufVars
    <3> QED
      BY <1>1, <2>1, <2>2, <3>1 DEF CSInv, Buffers, bufVars
  <2>4. Records'
    BY <1>1, <1>2, <2>1 DEF CSInv, Records
  <2>5. InStep' /\ BufferBounded'
    BY <1>1, <1>2, <1>3, <2>1, <2>2 DEF CSInv, InStep, BufferBounded, bufVars
  <2>6. ASSUME validData > 0
        PROVE  Done < Made /\ validData < PacketSize[calls[Done + 1]]
    <3>1. CASE validData < Header
      <4>1. Done # Made
        BY <2>2, <2>6, Numbers DEF CSInv, InStep
      <4>2. Done < Made /\ Done + 1 \in 1..Made
        BY <4>1, Numbers
      <4> QED
        BY <3>1, <4>2, PacketAt, PacketSizes, Numbers
    <3>2. CASE ~(validData < Header)
      <4>1. validData - pos >= Header
        BY <2>2, <3>2, Numbers, PacketSizes
      <4>2. Done < Made /\ \A k \in 1..Made : AtPacket(k) <=> k = Done + 1
        BY <4>1, AtNextPacket
      <4>3. Done + 1 \in 1..Made
        BY <4>2, Numbers
      <4>4. ~(PacketSize[calls[Done + 1]] <= validData - pos)
        BY <1>1, <4>2, <4>3 DEF CompletePacket
      <4> QED
        BY <2>2, <4>2, <4>3, <4>4, PacketAt, Numbers
    <3> QED
      BY <3>1, <3>2
  <2>7. NothingComplete'
    BY <1>1, <1>2, <1>3, <2>1, <2>6 DEF NothingComplete, bufVars
  <2> QED
    BY <1>2, <1>4, <2>3, <2>4, <2>5, <2>7 DEF CSInv
<1> QED
  BY <1>5, <1>6

-----------------------------------------------------------------------------
(* The invariant.                                                             *)

LEMMA StartHolds ==
  ASSUME CSInit PROVE CSInv
<1> USE DEF CSInit
<1>1. StreamInv
  BY StreamInit
<1>2. RB!RBTypeOK
  <2>1. (caller # "dead" /\ ~broken) \in BOOLEAN
    OBVIOUS
  <2>2. Len(wire) \in Nat
    BY EmptySeq DEF SBInit
  <2>3. mem \in [0..(size - 1) -> Nat \cup {NoByte}]
    OBVIOUS
  <2>4. size \in Nat \ {0} /\ size <= MaxAlloc /\ reading \in BOOLEAN
    BY BufferAssumption
  <2> QED
    BY <2>1, <2>2, <2>3, <2>4 DEF RB!RBTypeOK
<1>3. RB!WindowIsStream
  BY BufferAssumption, EmptySeq DEF SBInit, RB!WindowIsStream
<1>4. Made = 0 /\ Done = 0 /\ Sent = 0
  BY EmptySeq DEF Made, Done, Sent, SBInit
<1>5. Buffers
  BY <1>1, <1>2, <1>3 DEF Buffers
<1>6. Records
  BY <1>4, EmptySeq DEF Records
<1>7. PacketsAdjoin /\ InStep
  BY <1>4 DEF PacketsAdjoin, InStep, SBInit
<1>8. NothingComplete /\ LastCallPending /\ ReplyIsLast
  BY <1>4 DEF NothingComplete, LastCallPending, ReplyIsLast
<1>9. ResultsExecuted /\ BufferBounded
  BY <1>4, BufferAssumption DEF ResultsExecuted, BufferBounded
<1> QED
  BY <1>5, <1>6, <1>7, <1>8, <1>9 DEF CSInv

LEMMA StutterKeeps ==
  ASSUME CSInv, UNCHANGED csVars PROVE CSInv'
<1>1. /\ UNCHANGED <<sbVars, calls, start, written, caller, results, replies, threadVars>>
      /\ UNCHANGED <<executed, rpc, broken, wire>>
  BY DEF csVars, callerVars, sbVars, threadVars
<1>2. Records' /\ LastCallPending' /\ ReplyIsLast' /\ ResultsExecuted'
  BY <1>1 DEF CSInv, Records, LastCallPending, ReplyIsLast, ResultsExecuted,
     Made, Done, Sent
<1> QED
  BY <1>1, <1>2, NothingWritten DEF CSInv

LEMMA StepKeeps == CSInv /\ [CSNext]_csVars => CSInv'
BY EncodeKeeps, EncodeIntoNullKeeps, ReadbackFlushKeeps, ReadbackReplyKeeps,
   ReadbackFailsKeeps, HangUpKeeps, ShutdownKeeps, ReadKeeps, ReadFailsKeeps,
   DecodePacketKeeps, DecodeIntoNullKeeps, DecodeReturnKeeps, StutterKeeps
DEF CSNext, Caller, Thread

\* Bytes, packets, calls and replies stay in step for ever.
THEOREM CommandStreamInvariant == CSSpec => []CSInv
BY StartHolds, StepKeeps, PTL DEF CSSpec

\* Every variable of the connection keeps its type, those of both buffers too.
THEOREM ConnectionTypeCorrect == CSSpec => []CSTypeOK
<1>1. CSInv => CSTypeOK
  <2> SUFFICES ASSUME CSInv PROVE CSTypeOK
    OBVIOUS
  <2>1. cells \in Seq(Nat) /\ Len(cells) = sockCap
    BY DEF CSInv, Buffers, StreamInv, Memory, SizesAgree, Sizes
  <2>2. SBTypeOK
    BY <2>1 DEF CSInv, Buffers, StreamInv, Memory, SizesAgree, Sizes, SBTypeOK
  <2> QED
    BY <2>2 DEF CSInv, Buffers, Records, CSTypeOK
<1> QED
  BY <1>1, CommandStreamInvariant, PTL

\* At most one reply is on its way to a guest, so that the render thread never
\* blocks in send() with m_lock held.
THEOREM NoReplyPilesUp == CSSpec => []OneReplyOutstanding
<1>1. CSInv => OneReplyOutstanding
  <2> SUFFICES ASSUME CSInv PROVE OneReplyOutstanding
    OBVIOUS
  <2>1. CASE replies = <<>>
    BY <2>1, EmptySeq DEF OneReplyOutstanding
  <2>2. CASE replies # <<>>
    <3>1. Len(replies) = 1
      BY <2>2 DEF CSInv, ReplyIsLast
    <3> QED
      BY <3>1 DEF OneReplyOutstanding
  <2> QED
    BY <2>1, <2>2
<1> QED
  BY <1>1, CommandStreamInvariant, PTL

\* The read buffer never reaches twice the size of the largest packet, however
\* many calls a guest piles up.
THEOREM ReadBufferStaysBounded == CSSpec => []BufferBounded
<1>1. CSInv => BufferBounded
  BY DEF CSInv
<1> QED
  BY <1>1, CommandStreamInvariant, PTL

-----------------------------------------------------------------------------
(* The connection implements RemoteCalls.                                     *)

LEMMA StartRefines ==
  ASSUME CSInit PROVE Calls!RCInit
<1>1. calls = <<>> /\ executed = <<>> /\ results = <<>> /\ broken = FALSE
  BY DEF CSInit, SBInit
<1>2. (IF caller = "flush" THEN "waiting" ELSE caller) = "free"
  BY DEF CSInit
<1> QED
  BY <1>1, <1>2 DEF Calls!RCInit

LEMMA EncodeRefines ==
  ASSUME CSInv, NEW kind \in Kind, Encode(kind)
  PROVE  Calls!CallVoid \/ Calls!CallResult
<1>1. /\ caller = "free" /\ calls' = Append(calls, kind)
      /\ caller' = IF kind \in Result THEN "flush" ELSE "free"
      /\ UNCHANGED <<executed, results>>
  BY DEF Encode, threadVars
<1>2. broken' = broken
  BY PacketSizes, AllocSends DEF Encode, CSInv, Buffers
<1>3. CASE kind \in Result
  <2>1. Calls!CallResult
    BY <1>1, <1>2, <1>3 DEF Calls!CallResult
  <2> QED
    BY <2>1
<1>4. CASE kind \notin Result
  <2>1. Calls!CallVoid
    BY <1>1, <1>2, <1>4 DEF Calls!CallVoid
  <2> QED
    BY <2>1
<1> QED
  BY <1>3, <1>4

LEMMA DeathRefines ==
  ASSUME CSInv, [SBStep]_sbVars, caller' = "dead", UNCHANGED <<calls, executed, results>>
  PROVE  Calls!Die
<1>1. (IF caller = "flush" THEN "waiting" ELSE caller)' = "dead"
  OBVIOUS
<1>2. broken' \in {broken, TRUE}
  <2>1. broken \in BOOLEAN /\ broken' \in BOOLEAN
    BY StreamNext DEF CSInv, Buffers, StreamInv, Memory
  <2>2. broken => broken'
    BY WireGrows DEF CSInv, Buffers
  <2> QED
    BY <2>1, <2>2, Zenon
<1> QED
  BY <1>1, <1>2 DEF Calls!Die

LEMMA FlushRefines ==
  ASSUME CSInv, ReadbackFlush
  PROVE  Calls!Lose \/ UNCHANGED Calls!rcVars
<1>1. /\ caller = "flush" /\ caller' = "waiting" /\ SBStep
      /\ UNCHANGED <<calls, executed, results>>
  BY DEF ReadbackFlush, SBStep, threadVars
<1>2. (IF caller = "flush" THEN "waiting" ELSE caller)'
      = IF caller = "flush" THEN "waiting" ELSE caller
  BY <1>1
<1>3. broken' = broken \/ broken' = TRUE
  <2>1. broken \in BOOLEAN /\ broken' \in BOOLEAN
    BY <1>1, StreamNext DEF CSInv, Buffers, StreamInv, Memory
  <2>2. broken => broken'
    BY <1>1, WireGrows DEF CSInv, Buffers
  <2> QED
    BY <2>1, <2>2, Zenon
<1> QED
  BY <1>1, <1>2, <1>3 DEF Calls!Lose, Calls!rcVars

\* What the caller reads is its own call's reply, and that call was executed.
LEMMA ReplyRefines ==
  ASSUME CSInv, ReadbackReply
  PROVE  Calls!ReturnResult
<1>1. results' = Append(results, Len(calls)) /\ Len(executed) = Len(calls)
  BY ReadbackReplyKeeps DEF Made, Done
<1>2. /\ caller = "waiting" /\ caller' = "free"
      /\ UNCHANGED <<calls, executed, broken>>
  BY DEF ReadbackReply, sbVars, threadVars
<1> QED
  BY <1>1, <1>2 DEF Calls!ReturnResult

LEMMA ReadbackFailureRefines ==
  ASSUME CSInv, ReadbackFails
  PROVE  Calls!ReturnUndefined
<1>1. /\ caller = "waiting" /\ caller' = "free" /\ broken
      /\ results' = Append(results, Undefined)
      /\ UNCHANGED <<calls, executed, broken>>
  BY DEF ReadbackFails, sbVars, threadVars
<1> QED
  BY <1>1 DEF Calls!ReturnUndefined

LEMMA DecodeRefines ==
  ASSUME CSInv, DecodePacket \/ DecodeIntoNull
  PROVE  Calls!Execute
<1>1. Len(executed) < Len(calls) /\ executed' = Append(executed, Len(executed) + 1)
  BY DecodePacketKeeps, DecodeIntoNullKeeps DEF Made, Done
<1>2. UNCHANGED <<calls, caller, results>> /\ broken' \in {broken, TRUE}
  BY DEF DecodePacket, DecodeIntoNull, sbVars, callerVars
<1> QED
  BY <1>1, <1>2 DEF Calls!Execute

\* Batching, splitting, moving and reallocating are steps nobody sees.
LEMMA BuffersRefine ==
  ASSUME Read \/ ReadFails \/ DecodeReturn \/ UNCHANGED csVars
  PROVE  UNCHANGED Calls!rcVars
<1>1. UNCHANGED <<calls, executed, caller, results, broken>>
  BY DEF Read, ReadFails, DecodeReturn, csVars, sbVars, callerVars, threadVars
<1> QED
  BY <1>1 DEF Calls!rcVars

LEMMA StepRefines ==
  ASSUME CSInv, [CSNext]_csVars
  PROVE  [Calls!RCNext]_Calls!rcVars
<1>1. ASSUME NEW kind \in Kind, Encode(kind) \/ EncodeIntoNull(kind)
      PROVE  Calls!RCNext
  <2>1. CASE Encode(kind)
    BY <2>1, EncodeRefines DEF Calls!RCNext
  <2>2. CASE EncodeIntoNull(kind)
    <3>1. SBStep /\ caller' = "dead" /\ UNCHANGED <<calls, executed, results>>
      BY <2>2, PacketSizes DEF EncodeIntoNull, SBStep, threadVars
    <3> QED
      BY <3>1, DeathRefines DEF Calls!RCNext
  <2> QED
    BY <1>1, <2>1, <2>2
<1>2. CASE ReadbackFlush
  BY <1>2, FlushRefines DEF Calls!RCNext
<1>3. CASE ReadbackReply
  BY <1>3, ReplyRefines DEF Calls!RCNext
<1>4. CASE ReadbackFails
  BY <1>4, ReadbackFailureRefines DEF Calls!RCNext
<1>5. CASE HangUp
  <2>1. UNCHANGED sbVars /\ caller' = "dead" /\ UNCHANGED <<calls, executed, results>>
    BY <1>5 DEF HangUp, threadVars
  <2> QED
    BY <2>1, DeathRefines DEF Calls!RCNext
<1>6. CASE Shutdown
  <2>1. broken' = TRUE /\ UNCHANGED <<calls, executed, caller, results>>
    BY <1>6 DEF Shutdown, callerVars, threadVars
  <2>2. Calls!Lose
    BY <2>1 DEF Calls!Lose
  <2> QED
    BY <2>2 DEF Calls!RCNext
<1>7. CASE DecodePacket \/ DecodeIntoNull
  BY <1>7, DecodeRefines DEF Calls!RCNext
<1>8. CASE Read \/ ReadFails \/ DecodeReturn \/ UNCHANGED csVars
  BY <1>8, BuffersRefine
<1> QED
  BY <1>1, <1>2, <1>3, <1>4, <1>5, <1>6, <1>7, <1>8 DEF CSNext, Caller, Thread

\* The calls are executed once each and in order, and every result is that of
\* the call it is returned to.
THEOREM ConnectionRefinement == CSSpec => ImplementsRemoteCalls
BY StartRefines, StepRefines, CommandStreamInvariant, PTL
DEF CSSpec, ImplementsRemoteCalls, Calls!RCSpec
=============================================================================
