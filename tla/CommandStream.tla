--------------------------- MODULE CommandStream ---------------------------
(* One connection from the guest's encoder to the host's decoder:           *)
(*   - the caller's *_enc functions write packets into an IOStream          *)
(*     (StreamBuffer); those with a result flush it and wait in readback(); *)
(*   - the render thread collects the bytes in a ReadBuffer and decodes the *)
(*     packets it holds completely.                                         *)
(* A packet is a header, of Header bytes with the opcode and the packet's   *)
(* length, and parameters.  A call's reply is small and written at once.    *)
EXTENDS StreamBuffer

CONSTANTS
  Kind,        \* the calls there are, with their parameters
  Result,      \* those with a result; the others return at once
  PacketSize,  \* the size of a call's packet
  Header,      \* the bytes decode() needs before it looks at a packet
  MaxCalls,    \* bound of the model: calls made on the connection
  Undefined,   \* an uninitialised result
  BufSize, MaxAlloc, Word, IntMax, NoByte  \* of ReadBuffer

ASSUME PacketAssumption ==
  /\ Header \in Nat \ {0}
  /\ Result \subseteq Kind
  /\ PacketSize \in [Kind -> Header..MaxLen]

\* As for ReadBuffer.
ASSUME BufferAssumption ==
  /\ BufSize \in Nat \ {0} /\ MaxAlloc \in Nat /\ BufSize <= MaxAlloc
  /\ Word \in Nat /\ 2 * MaxAlloc < Word
  /\ IntMax \in Nat /\ NoByte \notin Nat

VARIABLES
  calls,      \* history: the calls made, in order
  start,      \* history: the first byte of each call's packet
  caller,     \* "free", "flush", "waiting" or "dead"
  results,    \* history: what the calls with a result returned
  replies,    \* replies on their way to the caller: numbers of calls
  executed,   \* history: the numbers of the calls the decoder executed
  rpc,        \* the render thread: "read", "decode" or "done"
  pos,        \* decode()'s pos
  mem, size, readPtr, validData, arrived, consumed, reading  \* of ReadBuffer

callerVars == <<calls, start, caller, results>>
bufVars == <<mem, size, readPtr, validData, arrived, consumed, reading>>
threadVars == <<executed, rpc, pos, bufVars>>
csVars == <<sbVars, callerVars, replies, threadVars>>

\* The read buffer of the render thread: what the caller's stream has sent is
\* what the socket can deliver.
RB == INSTANCE ReadBuffer
      WITH sent <- Len(wire), peerOpen <- (caller # "dead" /\ ~broken),
           MaxSent <- MaxWritten

CSInit ==
  /\ SBInit
  /\ calls = <<>> /\ start = <<>> /\ caller = "free" /\ results = <<>>
  /\ replies = <<>> /\ executed = <<>>
  /\ rpc = "read" /\ pos = 0
  /\ mem = [i \in 0..(BufSize - 1) |-> NoByte]
  /\ size = BufSize /\ readPtr = 0 /\ validData = 0
  /\ arrived = 0 /\ consumed = 0 /\ reading = TRUE

----------------------------------------------------------------------------
(* The caller.                                                              *)

\* Faulty variant: a call with a result does not wait for it.
EncodeWithoutWaiting(kind) ==
  /\ caller = "free" /\ Len(calls) < MaxCalls
  /\ AllocFromFree(PacketSize[kind]) \/ AllocFresh(PacketSize[kind])
  /\ calls' = Append(calls, kind) /\ start' = Append(start, written)
  /\ UNCHANGED <<caller, results, replies, threadVars>>

\* A *_enc function begins: it allocates its packet and fills it in.
Encode(kind) ==
  /\ caller = "free" /\ Len(calls) < MaxCalls
  /\ AllocFromFree(PacketSize[kind]) \/ AllocFresh(PacketSize[kind])
  /\ calls' = Append(calls, kind) /\ start' = Append(start, written)
  /\ caller' = IF kind \in Result THEN "flush" ELSE "free"
  /\ UNCHANGED <<results, replies, threadVars>>

\* alloc() returned NULL and the encoder wrote there.
EncodeIntoNull(kind) ==
  /\ caller = "free" /\ Len(calls) < MaxCalls
  /\ AllocFlushFails(PacketSize[kind]) \/ AllocNoMemory(PacketSize[kind])
  /\ caller' = "dead"
  /\ UNCHANGED <<calls, start, results, replies, threadVars>>

\* Faulty variant: readback() waits without flushing.
ReadbackUnflushed ==
  /\ caller = "flush"
  /\ caller' = "waiting"
  /\ UNCHANGED <<sbVars, calls, start, results, replies, threadVars>>

\* readback(): flush, whose failure nobody looks at, ...
ReadbackFlush ==
  /\ caller = "flush"
  /\ Flush
  /\ caller' = "waiting"
  /\ UNCHANGED <<calls, start, results, replies, threadVars>>

\* ... then readFully(), which delivers the next reply ...
ReadbackReply ==
  /\ caller = "waiting" /\ replies # <<>>
  /\ results' = Append(results, Head(replies))
  /\ replies' = Tail(replies)
  /\ caller' = "free"
  /\ UNCHANGED <<sbVars, calls, start, threadVars>>

\* ... or fails; retval is returned as it is.
ReadbackFails ==
  /\ caller = "waiting" /\ replies = <<>> /\ broken
  /\ results' = Append(results, Undefined)
  /\ caller' = "free"
  /\ UNCHANGED <<sbVars, calls, start, replies, threadVars>>

HangUp ==
  /\ caller # "dead"
  /\ caller' = "dead"
  /\ UNCHANGED <<sbVars, calls, start, results, replies, threadVars>>

\* The host shuts the connection down: forceStop(), or the stream's deletion.
Shutdown ==
  /\ ~broken
  /\ broken' = TRUE
  /\ UNCHANGED <<ioBuf, ioSize, ioFree, sockSize, sockCap, cells, written, wire,
                 callerVars, replies, threadVars>>

----------------------------------------------------------------------------
(* The render thread.                                                       *)

Read ==
  /\ rpc = "read"
  /\ UNCHANGED <<sbVars, callerVars, replies, executed, pos>>
  /\ \E n \in 1..MaxWritten : RB!GetData(n)
  /\ rpc' = "decode"

ReadFails ==
  /\ rpc = "read"
  /\ UNCHANGED <<sbVars, callerVars, replies, executed, pos>>
  /\ RB!GetDataFails
  /\ rpc' = "done"

\* decode() looks at the packet at ptr: the call that begins with that byte.
AtPacket(k) ==
  /\ validData - pos >= Header
  /\ wire[mem[readPtr + pos] + 1] = start[k]

\* Faulty variant: a packet is decoded as soon as its header is there.
CompletePacketHeaderOnly(k) == AtPacket(k)

CompletePacket(k) ==
  AtPacket(k) /\ PacketSize[calls[k]] <= validData - pos

\* A complete packet is executed.  The reply is allocated and flushed at once;
\* a failure to send it goes unnoticed.
DecodePacket ==
  /\ rpc = "decode"
  /\ \E k \in 1..Len(calls) :
       /\ CompletePacket(k)
       /\ executed' = Append(executed, k)
       /\ pos' = pos + PacketSize[calls[k]]
       /\ replies' = IF calls[k] \in Result /\ caller # "dead" /\ ~broken
                     THEN Append(replies, k) ELSE replies
  /\ UNCHANGED <<sbVars, callerVars, rpc, bufVars>>

\* The host has no memory for a connection's first reply: alloc() returned NULL,
\* the callback ran, and storing its result kills the host.  Later replies find
\* the stream's block there.
DecodeIntoNull ==
  /\ rpc = "decode"
  /\ \A j \in 1..Len(executed) : calls[executed[j]] \notin Result
  /\ \E k \in 1..Len(calls) :
       /\ CompletePacket(k) /\ calls[k] \in Result
       /\ executed' = Append(executed, k)
       /\ pos' = pos + PacketSize[calls[k]]
  /\ broken' = TRUE /\ rpc' = "done"
  /\ UNCHANGED <<ioBuf, ioSize, ioFree, sockSize, sockCap, cells, written, wire,
                 callerVars, replies, bufVars>>

\* Faulty variant: what decode() reports is not consumed.
DecodeReturnUnconsumed ==
  /\ rpc = "decode"
  /\ \A k \in 1..Len(calls) : ~CompletePacket(k)
  /\ rpc' = "read" /\ pos' = 0
  /\ UNCHANGED <<sbVars, callerVars, replies, executed, bufVars>>

\* decode() returns pos: after progress the bytes are consumed and decode() is
\* called again, else the thread reads on.
DecodeReturn ==
  /\ rpc = "decode"
  /\ \A k \in 1..Len(calls) : ~CompletePacket(k)
  /\ UNCHANGED <<sbVars, callerVars, replies, executed>>
  /\ IF pos > 0
     THEN RB!Consume(pos) /\ UNCHANGED rpc
     ELSE rpc' = "read" /\ UNCHANGED bufVars
  /\ pos' = 0

----------------------------------------------------------------------------
Caller ==
  \/ \E kind \in Kind : Encode(kind) \/ EncodeIntoNull(kind)
  \/ ReadbackFlush \/ ReadbackReply \/ ReadbackFails

Thread == Read \/ ReadFails \/ DecodePacket \/ DecodeIntoNull \/ DecodeReturn

CSNext == Caller \/ HangUp \/ Shutdown \/ Thread

CSSpec == CSInit /\ [][CSNext]_csVars

\* The render thread runs, and a caller in readback() goes on with it.
CSFairSpec ==
  /\ CSSpec
  /\ WF_csVars(Thread)
  /\ WF_csVars(ReadbackFlush \/ ReadbackReply \/ ReadbackFails)

----------------------------------------------------------------------------
CSTypeOK ==
  /\ SBTypeOK /\ RB!RBTypeOK
  /\ calls \in Seq(Kind) /\ start \in Seq(Nat)
  /\ caller \in {"free", "flush", "waiting", "dead"}
  /\ results \in Seq(Nat \cup {Undefined})
  /\ replies \in Seq(Nat) /\ executed \in Seq(Nat)
  /\ rpc \in {"read", "decode", "done"}
  /\ pos \in 0..validData

\* The render thread never blocks in send(), where it would hold m_lock and
\* stop every other connection: the one reply that can be outstanding fits the
\* socket's buffer.
OneReplyOutstanding == Len(replies) <= 1

\* The read buffer grows only for a packet that does not fit: it is never twice
\* the size of the largest packet, however many calls pile up in the socket.
BufferBounded ==
  size > BufSize => \E kind \in Kind : size <= 2 * (PacketSize[kind] - 1)

\* The connection is an implementation of RemoteCalls: whatever way the packets
\* are batched, split, moved and reallocated, the calls are executed once each
\* and in order, and a reply reaches the call it belongs to.
Calls == INSTANCE RemoteCalls
         WITH caller <- IF caller = "flush" THEN "waiting" ELSE caller,
              lost <- broken
ImplementsRemoteCalls == Calls!RCSpec

\* A call with a result returns, unless the caller dies or the render thread
\* gave the connection up.
EveryResultReturns ==
  caller \in {"flush", "waiting"} ~> (caller \in {"free", "dead"} \/ rpc = "done")
=============================================================================
