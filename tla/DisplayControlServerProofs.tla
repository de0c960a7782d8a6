-------------------- MODULE DisplayControlServerProofs --------------------
(* Proofs about DisplayControlServer, for any set of connections and any   *)
(* length of the accept queue.                                             *)
EXTENDS DisplayControlServer, TLAPS

---------------------------------------------------------------------------
(* Type correctness.                                                       *)

\* What a guest does keeps every variable in its type.
LEMMA GuestType ==
  ASSUME TypeOK, NEW c \in Client, Guest(c)
  PROVE  TypeOK'
<1>0. c \in Conn
  BY DEF Conn
<1>1. CASE Connect(c)
  BY <1>0, <1>1
  DEF TypeOK, Connect, Dial, objVars, mainVars, Active, Holding
<1>2. CASE SendFlags(c)
  BY <1>0, <1>2 DEF TypeOK, SendFlags, objVars, mainVars, Active, Holding
<1>3. CASE Call(c)
  BY <1>0, <1>3 DEF TypeOK, Call, objVars, mainVars, Active, Holding
<1>4. CASE Return(c)
  BY <1>0, <1>4 DEF TypeOK, Return, objVars, mainVars, Active, Holding
<1>5. CASE HangUp(c)
  BY <1>0, <1>5 DEF TypeOK, HangUp, objVars, mainVars, Active, Holding
<1>6. QED
  BY <1>1, <1>2, <1>3, <1>4, <1>5 DEF Guest

\* A step of the accept thread keeps every variable in its type.
LEMMA AcceptThreadType ==
  ASSUME TypeOK, WorksOnCur, AcceptThread
  PROVE  TypeOK'
<1>1. CASE Accept
  <2>1. Head(backlog) \in Conn /\ Tail(backlog) \in Seq(Conn)
    BY <1>1 DEF TypeOK, Accept
  <2>2. QED
    BY <1>1, <2>1 DEF TypeOK, Accept, guestVars
<1>2. CASE ReadFlagsFails
  BY <1>2 DEF TypeOK, ReadFlagsFails, DeleteStream, guestVars
<1>3. CASE ReadExitFlag
  BY <1>3 DEF TypeOK, ReadExitFlag, DeleteStream, guestVars
<1>4. CASE StartThread
  BY <1>4 DEF TypeOK, StartThread, guestVars, Active
<1>5. CASE StartFails
  BY <1>5 DEF TypeOK, StartFails, DeleteStream, DeleteThread, guestVars
<1>6. ASSUME NEW c \in Conn, ReapSkip(c)
      PROVE  TypeOK'
  BY <1>6 DEF TypeOK, ReapSkip, guestVars, objVars
<1>7. ASSUME NEW c \in Conn, Reap(c)
      PROVE  TypeOK'
  BY <1>7 DEF TypeOK, Reap, JoinAndDelete, DeleteStream, DeleteThread,
              guestVars
<1>8. ASSUME NEW c \in Conn, ReapDangling(c)
      PROVE  TypeOK'
  BY <1>8 DEF TypeOK, ReapDangling, guestVars, objVars
<1>9. CASE Insert
  BY <1>9 DEF TypeOK, WorksOnCur, Insert, guestVars, objVars
<1>10. ASSUME NEW c \in Conn, ForceStop(c)
       PROVE  TypeOK'
  BY <1>10 DEF TypeOK, ForceStop, guestVars, objVars
<1>11. ASSUME NEW c \in Conn, ForceStopDangling(c)
       PROVE  TypeOK'
  BY <1>11 DEF TypeOK, ForceStopDangling, guestVars, objVars
<1>12. CASE WaitThread
  BY <1>12 DEF TypeOK, WaitThread, JoinAndDelete, DeleteStream, DeleteThread,
               guestVars
<1>13. CASE ServerReturns
  BY <1>13 DEF TypeOK, ServerReturns, guestVars, objVars
<1>14. QED
  BY <1>1, <1>2, <1>3, <1>4, <1>5, <1>6, <1>7, <1>8, <1>9, <1>10, <1>11,
     <1>12, <1>13 DEF AcceptThread

\* A step of a render thread keeps every variable in its type.
LEMMA RenderThreadType ==
  ASSUME TypeOK, NEW c \in Conn, RenderThread(c)
  PROVE  TypeOK'
<1>1. CASE ReadData(c)
  BY <1>1 DEF TypeOK, ReadData, Goto, mainVars, Active
<1>2. CASE ReadEof(c)
  BY <1>2 DEF TypeOK, ReadEof, Goto, guestVars, mainVars, Active
<1>3. CASE AcquireLock(c)
  BY <1>3
  DEF TypeOK, AcquireLock, Goto, guestVars, mainVars, Active, Holding
<1>4. CASE DecodeCall(c)
  BY <1>4 DEF TypeOK, DecodeCall, Goto, mainVars, Active, Holding
<1>5. CASE DecodeNothing(c)
  BY <1>5
  DEF TypeOK, DecodeNothing, Goto, guestVars, mainVars, Active, Holding
<1>6. CASE Unlock(c)
  BY <1>6 DEF TypeOK, Unlock, Goto, guestVars, mainVars, Active
<1>7. CASE MarkStopped(c)
  BY <1>7 DEF TypeOK, MarkStopped, Goto, guestVars, mainVars, Active
<1>8. CASE Exit(c)
  BY <1>8 DEF TypeOK, Exit, Goto, guestVars, mainVars, Active
<1>9. CASE ReadGivesUp(c)
  BY <1>9 DEF TypeOK, ReadGivesUp, Goto, guestVars, mainVars, Active
<1>10. QED
  BY <1>1, <1>2, <1>3, <1>4, <1>5, <1>6, <1>7, <1>8, <1>9
  DEF RenderThread, RenderRuns

\* A step of the controlling thread keeps every variable in its type.
LEMMA ControllerType ==
  ASSUME TypeOK, Controller
  PROVE  TypeOK'
<1>1. CASE StopConnect
  BY <1>1 DEF TypeOK, StopConnect, Dial, Conn, objVars, mainVars
<1>2. CASE StopSendFlag
  BY <1>2 DEF TypeOK, StopSendFlag, Conn, objVars, mainVars
<1>3. CASE StopJoin
  BY <1>3 DEF TypeOK, StopJoin, guestVars, objVars, mainVars
<1>4. CASE StopDelete
  BY <1>4 DEF TypeOK, StopDelete, Conn, objVars, mainVars
<1>5. QED
  BY <1>1, <1>2, <1>3, <1>4 DEF Controller
---------------------------------------------------------------------------
(* The inductive invariant.                                                *)

\* A connection that joins the accept queue has never been in it.
LEMMA DialKeepsOnce ==
  ASSUME TypeOK, EveryConnOnce, NEW c \in Conn, Dial(c),
         UNCHANGED <<objVars, spc, cur>>
  PROVE  EveryConnOnce'
<1>1. /\ Len(backlog') = Len(backlog) + 1
      /\ backlog'[Len(backlog')] = c
      /\ \A i \in 1..Len(backlog) : backlog'[i] = backlog[i]
  BY DEF TypeOK, Dial
<1>2. Len(backlog) \in Nat
  BY DEF TypeOK
<1>3. Queued' = Queued \cup {c}
  BY <1>1, <1>2 DEF Queued
<1>4. c \notin Queued /\ sock[c] = "none"
  BY DEF EveryConnOnce, Dial
<1>5. (\A i, j \in 1..Len(backlog) : backlog[i] = backlog[j] => i = j)'
  BY <1>1, <1>2, <1>4 DEF EveryConnOnce, Queued
<1>6. \A d \in Conn : peer'[d] = "none" => peer[d] = "none" /\ d # c
  BY DEF TypeOK, Dial
<1>7. QED
  BY <1>3, <1>4, <1>5, <1>6 DEF EveryConnOnce, objVars

\* What a guest does keeps the invariant: it changes nothing of the server's
\* but the accept queue.
LEMMA GuestInvariant ==
  ASSUME ServerInvariant, NEW c \in Client, Guest(c)
  PROVE  ServerInvariant'
<1>0. c \in Conn
  BY DEF Conn
<1>1. TypeOK'
  BY GuestType DEF ServerInvariant
<1>2. UNCHANGED <<objVars, mLock, mainVars, mpc>>
  BY DEF Guest, Connect, SendFlags, Call, Return, HangUp
<1>3. /\ WorksOnCur' /\ DecodingSerialised' /\ ThreadWithinStream'
      /\ NoOrphan' /\ StopFollowsReturn'
  BY <1>2
  DEF ServerInvariant, WorksOnCur, DecodingSerialised, ThreadWithinStream,
      NoOrphan, StopFollowsReturn, objVars, mainVars
<1>4. CASE Connect(c)
  BY <1>0, <1>1, <1>2, <1>3, <1>4, DialKeepsOnce
  DEF ServerInvariant, Connect, mainVars
<1>5. ASSUME backlog' = backlog,
             \A d \in Conn : peer'[d] = "none" => peer[d] = "none"
      PROVE  ServerInvariant'
  BY <1>1, <1>2, <1>3, <1>5
  DEF ServerInvariant, EveryConnOnce, Queued, objVars, mainVars
<1>6. CASE SendFlags(c) \/ Call(c) \/ Return(c) \/ HangUp(c)
  BY <1>5, <1>6 DEF SendFlags, Call, Return, HangUp, ServerInvariant, TypeOK
<1>7. QED
  BY <1>4, <1>6 DEF Guest
\* Joining a thread and deleting its two objects takes nothing from another
\* connection; what is left alive is still found.
LEMMA JoinKeepsObjects ==
  ASSUME ServerInvariant, NEW c \in Conn, JoinAndDelete(c),
         spc # "flags", spc' # "flags",
         UNCHANGED <<guestVars, backlog, mLock>>,
         cur' = cur \/ cur = c
  PROVE  /\ DecodingSerialised' /\ ThreadWithinStream'
         /\ NoOrphan' /\ EveryConnOnce'
<1>1. /\ rpc[c] = "exited" /\ rpc' = [rpc EXCEPT ![c] = "joined"]
      /\ sock' = [sock EXCEPT ![c] = "deleted"]
      /\ thr' = [thr EXCEPT ![c] = "deleted"]
      /\ threads' = threads \ {c}
  BY DEF JoinAndDelete, DeleteStream, DeleteThread
<1>2. TypeOK
  BY DEF ServerInvariant
<1>3. DecodingSerialised'
  BY <1>1, <1>2 DEF ServerInvariant, DecodingSerialised, TypeOK, Holding
<1>4. ThreadWithinStream'
  BY <1>1, <1>2
  DEF ServerInvariant, ThreadWithinStream, TypeOK, Active, Holding
<1>5. NoOrphan'
  BY <1>1, <1>2 DEF ServerInvariant, NoOrphan, TypeOK
<1>6. \A d \in Conn : sock'[d] = "none" => sock[d] = "none" /\ d # c
  BY <1>1, <1>2 DEF TypeOK
<1>7. sock[c] # "none"
  BY <1>1 DEF ServerInvariant, EveryConnOnce
<1>8. \A d \in Conn : d # c => thr'[d] = thr[d] /\ rpc'[d] = rpc[d]
                               /\ sock'[d] = sock[d]
  BY <1>1, <1>2 DEF TypeOK
<1>9. Queued' = Queued /\ Queued \subseteq Conn
  BY <1>2 DEF Queued, TypeOK
<1>10. EveryConnOnce'
  BY <1>6, <1>7, <1>8, <1>9 DEF ServerInvariant, EveryConnOnce, guestVars
<1>11. QED
  BY <1>3, <1>4, <1>5, <1>10

\* A step of the accept thread keeps the invariant.
LEMMA AcceptThreadInvariant ==
  ASSUME ServerInvariant, AcceptThread
  PROVE  ServerInvariant'
<1> USE ConnAssumption
<1>0. TypeOK /\ WorksOnCur /\ TypeOK'
  BY AcceptThreadType DEF ServerInvariant
<1>1. CASE Accept
  <2> DEFINE h == Head(backlog)
  <2>1. /\ spc = "accept" /\ cur' = h /\ spc' = "flags"
        /\ sock' = [sock EXCEPT ![h] = "live"]
        /\ backlog' = Tail(backlog)
        /\ UNCHANGED <<guestVars, thr, running, rpc, shut, mLock, threads, todo, mpc>>
    BY <1>1 DEF Accept
  <2>2. h \in Conn /\ h = backlog[1] /\ Len(backlog) \in Nat \ {0}
    BY <1>0, <1>1 DEF Accept, TypeOK
  <2>3. /\ Len(backlog') = Len(backlog) - 1
        /\ \A i \in 1..Len(backlog') : backlog'[i] = backlog[i + 1]
    BY <1>0, <1>1 DEF Accept, TypeOK
  <2>4. h \in Queued /\ Queued' \subseteq Queued
    BY <2>2, <2>3 DEF Queued
  <2>5. \A i \in 1..Len(backlog') : backlog'[i] # h
    BY <2>2, <2>3 DEF ServerInvariant, EveryConnOnce
  <2>6. h \notin Queued'
    BY <2>5 DEF Queued
  <2>7. sock[h] = "none" /\ thr[h] = "none" /\ rpc[h] = "none" /\ peer[h] # "none"
    BY <2>2, <2>4 DEF ServerInvariant, EveryConnOnce
  <2>8. \A d \in Conn \ {h} : sock'[d] = sock[d]
    BY <1>0, <2>1 DEF TypeOK
  <2>9. sock'[h] = "live"
    BY <1>0, <2>1, <2>2 DEF TypeOK
  <2>10. (\A i, j \in 1..Len(backlog) : backlog[i] = backlog[j] => i = j)'
    BY <2>2, <2>3 DEF ServerInvariant, EveryConnOnce
  <2>11. Queued \subseteq Conn
    BY <1>0 DEF Queued, TypeOK
  <2>12. EveryConnOnce'
    BY <2>1, <2>2, <2>4, <2>6, <2>7, <2>8, <2>9, <2>10, <2>11
    DEF ServerInvariant, EveryConnOnce, guestVars
  <2>13. WorksOnCur' /\ DecodingSerialised' /\ StopFollowsReturn'
    BY <2>1, <2>2
    DEF ServerInvariant, WorksOnCur, DecodingSerialised, StopFollowsReturn
  <2>14. ThreadWithinStream' /\ NoOrphan'
    BY <2>1, <2>2, <2>8, <2>9, <1>0
    DEF ServerInvariant, ThreadWithinStream, NoOrphan, WorksOnCur
  <2>15. QED
    BY <1>0, <2>12, <2>13, <2>14 DEF ServerInvariant
<1>2. CASE ReadFlagsFails \/ ReadExitFlag
  <2>1. /\ spc = "flags" /\ cur' = NoConn /\ spc' \in {"accept", "drain"}
        /\ sock' = [sock EXCEPT ![cur] = "deleted"]
        /\ UNCHANGED <<guestVars, backlog, thr, running, rpc, shut, mLock,
                       threads, todo, mpc>>
    BY <1>2 DEF ReadFlagsFails, ReadExitFlag, DeleteStream
  <2>2. cur \in Conn /\ sock[cur] = "live" /\ thr[cur] = "none"
    BY <1>0, <2>1 DEF WorksOnCur, ServerInvariant, EveryConnOnce
  <2>3. \A d \in Conn \ {cur} : sock'[d] = sock[d]
    BY <1>0, <2>1 DEF TypeOK
  <2>4. sock'[cur] = "deleted"
    BY <1>0, <2>1, <2>2 DEF TypeOK
  <2>5. Queued' = Queued /\ Queued \subseteq Conn
    BY <1>0, <2>1 DEF Queued, TypeOK
  <2>6. EveryConnOnce'
    BY <2>1, <2>2, <2>3, <2>4, <2>5
    DEF ServerInvariant, EveryConnOnce, guestVars
  <2>7. WorksOnCur' /\ DecodingSerialised' /\ StopFollowsReturn'
    BY <2>1 DEF ServerInvariant, WorksOnCur, DecodingSerialised, StopFollowsReturn
  <2>8. ThreadWithinStream' /\ NoOrphan'
    BY <2>1, <2>2, <2>3, <2>4
    DEF ServerInvariant, ThreadWithinStream, NoOrphan
  <2>9. QED
    BY <1>0, <2>6, <2>7, <2>8 DEF ServerInvariant
<1>3. CASE StartThread
  <2>1. /\ spc = "flags" /\ spc' = "reap"
        /\ thr' = [thr EXCEPT ![cur] = "live"]
        /\ rpc' = [rpc EXCEPT ![cur] = "read"]
        /\ UNCHANGED <<guestVars, backlog, sock, mLock, cur, threads, mpc>>
    BY <1>3 DEF StartThread
  <2>2. cur \in Conn /\ sock[cur] = "live" /\ rpc[cur] = "none"
    BY <1>0, <2>1 DEF WorksOnCur, ServerInvariant, EveryConnOnce
  <2>3. /\ thr'[cur] = "live" /\ rpc'[cur] = "read"
        /\ \A d \in Conn \ {cur} : thr'[d] = thr[d] /\ rpc'[d] = rpc[d]
    BY <1>0, <2>1, <2>2 DEF TypeOK
  <2>4. Queued' = Queued
    BY <2>1 DEF Queued
  <2>5. EveryConnOnce'
    BY <2>1, <2>2, <2>3, <2>4 DEF ServerInvariant, EveryConnOnce, guestVars
  <2>6. WorksOnCur' /\ StopFollowsReturn'
    BY <2>1 DEF ServerInvariant, WorksOnCur, StopFollowsReturn
  <2>7. DecodingSerialised'
    BY <2>1, <2>2, <2>3 DEF ServerInvariant, DecodingSerialised, Holding
  <2>8. ThreadWithinStream' /\ NoOrphan'
    BY <2>1, <2>2, <2>3
    DEF ServerInvariant, ThreadWithinStream, NoOrphan, Active
  <2>9. QED
    BY <1>0, <2>5, <2>6, <2>7, <2>8 DEF ServerInvariant
<1>4. CASE StartFails
  <2>1. /\ spc = "flags" /\ spc' = "reap"
        /\ thr' = [thr EXCEPT ![cur] = "deleted"]
        /\ sock' = [sock EXCEPT ![cur] = "deleted"]
        /\ UNCHANGED <<guestVars, backlog, running, rpc, shut, mLock, cur,
                       threads, mpc>>
    BY <1>4 DEF StartFails, DeleteStream, DeleteThread
  <2>2. /\ cur \in Conn /\ sock[cur] = "live"
        /\ thr[cur] = "none" /\ rpc[cur] = "none"
    BY <1>0, <2>1 DEF WorksOnCur, ServerInvariant, EveryConnOnce
  <2>3. /\ thr'[cur] = "deleted" /\ sock'[cur] = "deleted"
        /\ \A d \in Conn \ {cur} : thr'[d] = thr[d] /\ sock'[d] = sock[d]
    BY <1>0, <2>1, <2>2 DEF TypeOK
  <2>4. Queued' = Queued /\ Queued \subseteq Conn
    BY <1>0, <2>1 DEF Queued, TypeOK
  <2>5. EveryConnOnce'
    BY <2>1, <2>2, <2>3, <2>4 DEF ServerInvariant, EveryConnOnce, guestVars
  <2>6. WorksOnCur' /\ DecodingSerialised' /\ StopFollowsReturn'
    BY <2>1 DEF ServerInvariant, WorksOnCur, DecodingSerialised, StopFollowsReturn
  <2>7. ThreadWithinStream' /\ NoOrphan'
    BY <2>1, <2>2, <2>3
    DEF ServerInvariant, ThreadWithinStream, NoOrphan, Active, Holding
  <2>8. QED
    BY <1>0, <2>5, <2>6, <2>7 DEF ServerInvariant
<1>5. ASSUME NEW c \in Conn, Reap(c)
      PROVE  ServerInvariant'
  <2>1. /\ JoinAndDelete(c) /\ spc = "reap"
        /\ UNCHANGED <<guestVars, backlog, mLock, spc, cur, mpc>>
    BY <1>5 DEF Reap
  <2>2. /\ DecodingSerialised' /\ ThreadWithinStream'
        /\ NoOrphan' /\ EveryConnOnce'
    BY <2>1, JoinKeepsObjects
  <2>3. WorksOnCur' /\ StopFollowsReturn'
    BY <2>1 DEF ServerInvariant, WorksOnCur, StopFollowsReturn
  <2>4. QED
    BY <1>0, <2>2, <2>3 DEF ServerInvariant
<1>6. CASE WaitThread
  <2>1. /\ JoinAndDelete(cur) /\ spc = "join" /\ spc' = "drain"
        /\ cur' = NoConn
        /\ UNCHANGED <<guestVars, backlog, mLock, mpc>>
    BY <1>6 DEF WaitThread
  <2>2. cur \in Conn
    BY <1>0, <2>1 DEF WorksOnCur
  <2>3. /\ DecodingSerialised' /\ ThreadWithinStream'
        /\ NoOrphan' /\ EveryConnOnce'
    BY <2>1, <2>2, JoinKeepsObjects
  <2>4. WorksOnCur' /\ StopFollowsReturn'
    BY <2>1 DEF ServerInvariant, WorksOnCur, StopFollowsReturn
  <2>5. QED
    BY <1>0, <2>3, <2>4 DEF ServerInvariant
<1>7. ASSUME UNCHANGED <<guestVars, backlog, objVars, mLock, mpc>>,
             spc # "flags", spc' # "flags",
             WorksOnCur', StopFollowsReturn', NoOrphan'
      PROVE  ServerInvariant'
  <2>1. Queued' = Queued
    BY <1>7 DEF Queued
  <2>2. EveryConnOnce' /\ DecodingSerialised' /\ ThreadWithinStream'
    BY <1>7, <2>1
    DEF ServerInvariant, EveryConnOnce, DecodingSerialised,
        ThreadWithinStream, guestVars, objVars
  <2>3. QED
    BY <1>0, <1>7, <2>2 DEF ServerInvariant
<1>8. ASSUME NEW c \in Conn, ReapSkip(c)
      PROVE  ServerInvariant'
  BY <1>7, <1>8
  DEF ReapSkip, ServerInvariant, WorksOnCur, StopFollowsReturn, NoOrphan, objVars
<1>9. ASSUME NEW c \in Conn, ReapDangling(c)
      PROVE  ServerInvariant'
  <2>1. sock[c] # "live" /\ thr[c] # "live"
    BY <1>9 DEF ReapDangling, ServerInvariant, ThreadWithinStream
  <2>2. WorksOnCur' /\ StopFollowsReturn' /\ NoOrphan'
    BY <1>9, <2>1
    DEF ReapDangling, ServerInvariant, WorksOnCur, StopFollowsReturn,
        NoOrphan, objVars
  <2>3. QED
    BY <1>7, <1>9, <2>2 DEF ReapDangling
<1>10. CASE Insert
  <2>1. WorksOnCur' /\ StopFollowsReturn' /\ NoOrphan'
    BY <1>10
    DEF Insert, ServerInvariant, WorksOnCur, StopFollowsReturn, NoOrphan, objVars
  <2>2. QED
    BY <1>7, <1>10, <2>1 DEF Insert
<1>11. ASSUME NEW c \in Conn, ForceStop(c) \/ ForceStopDangling(c)
       PROVE  ServerInvariant'
  <2>1. WorksOnCur' /\ StopFollowsReturn' /\ NoOrphan'
    BY <1>11
    DEF ForceStop, ForceStopDangling, ServerInvariant, WorksOnCur,
        StopFollowsReturn, NoOrphan, objVars
  <2>2. QED
    BY <1>7, <1>11, <2>1 DEF ForceStop, ForceStopDangling
<1>12. CASE ServerReturns
  <2>1. WorksOnCur' /\ StopFollowsReturn' /\ NoOrphan'
    BY <1>12
    DEF ServerReturns, ServerInvariant, WorksOnCur, StopFollowsReturn,
        NoOrphan, objVars
  <2>2. QED
    BY <1>7, <1>12, <2>1 DEF ServerReturns
<1>13. QED
  BY <1>1, <1>2, <1>3, <1>4, <1>5, <1>6, <1>8, <1>9, <1>10, <1>11, <1>12
  DEF AcceptThread
\* A step of a render thread keeps the invariant: it moves its own program
\* counter between positions in which its objects must live, and m_lock with it.
LEMMA RenderThreadInvariant ==
  ASSUME ServerInvariant, NEW c \in Conn, RenderThread(c)
  PROVE  ServerInvariant'
<1> USE ConnAssumption
<1>0. TypeOK /\ TypeOK'
  BY RenderThreadType DEF ServerInvariant
<1>1. UNCHANGED <<peer, flags, backlog, sock, thr, mainVars, mpc>>
  BY DEF RenderThread, RenderRuns, ReadData, ReadEof, ReadGivesUp, AcquireLock,
         DecodeCall, DecodeNothing, Unlock, MarkStopped, Exit, guestVars
<1>2. WorksOnCur' /\ NoOrphan' /\ StopFollowsReturn' /\ Queued' = Queued
  BY <1>1
  DEF ServerInvariant, WorksOnCur, NoOrphan, StopFollowsReturn, Queued, mainVars
<1>3. /\ rpc[c] \in Active /\ rpc'[c] \in Active \cup {"exited"}
      /\ \A d \in Conn \ {c} : rpc'[d] = rpc[d]
  BY <1>0
  DEF RenderThread, RenderRuns, ReadData, ReadEof, ReadGivesUp, AcquireLock,
      DecodeCall, DecodeNothing, Unlock, MarkStopped, Exit, Goto, TypeOK, Active, Holding
<1>4. ThreadWithinStream'
  BY <1>1, <1>3 DEF ServerInvariant, ThreadWithinStream, mainVars
<1>5. EveryConnOnce'
  <2>1. rpc[c] # "none" /\ sock[c] # "none"
    BY <1>3 DEF ServerInvariant, EveryConnOnce, Active, Holding
  <2>2. spc = "flags" => cur # c
    BY <2>1 DEF ServerInvariant, EveryConnOnce
  <2>3. spc = "flags" => cur \in Conn
    BY DEF ServerInvariant, WorksOnCur
  <2>4. QED
    BY <1>1, <1>2, <1>3, <2>1, <2>2, <2>3
    DEF ServerInvariant, EveryConnOnce, mainVars
<1>6. DecodingSerialised'
  <2>1. CASE AcquireLock(c)
    BY <1>0, <1>3, <2>1
    DEF AcquireLock, Goto, ServerInvariant, DecodingSerialised, TypeOK, Holding
  <2>2. CASE Unlock(c)
    BY <1>0, <1>3, <2>2
    DEF Unlock, Goto, ServerInvariant, DecodingSerialised, TypeOK, Holding
  <2>3. CASE DecodeCall(c) \/ DecodeNothing(c)
    BY <1>0, <1>3, <2>3
    DEF DecodeCall, DecodeNothing, Goto, ServerInvariant, DecodingSerialised,
        TypeOK, Holding
  <2>4. CASE ReadData(c) \/ ReadEof(c) \/ ReadGivesUp(c) \/ MarkStopped(c) \/ Exit(c)
    BY <1>0, <1>3, <2>4
    DEF ReadData, ReadEof, ReadGivesUp, MarkStopped, Exit, Goto, ServerInvariant,
        DecodingSerialised, TypeOK, Holding
  <2>5. QED
    BY <2>1, <2>2, <2>3, <2>4 DEF RenderThread, RenderRuns
<1>7. QED
  BY <1>0, <1>2, <1>4, <1>5, <1>6 DEF ServerInvariant

\* A step of the controlling thread keeps the invariant.
LEMMA ControllerInvariant ==
  ASSUME ServerInvariant, Controller
  PROVE  ServerInvariant'
<1>0. TypeOK /\ TypeOK' /\ Dummy \in Conn
  BY ControllerType DEF ServerInvariant, Conn
<1>1. UNCHANGED <<objVars, mLock, mainVars>>
  BY DEF Controller, StopConnect, StopSendFlag, StopJoin, StopDelete
<1>2. /\ WorksOnCur' /\ DecodingSerialised' /\ ThreadWithinStream' /\ NoOrphan'
  BY <1>1
  DEF ServerInvariant, WorksOnCur, DecodingSerialised, ThreadWithinStream,
      NoOrphan, objVars, mainVars
<1>3. StopFollowsReturn'
  BY <1>1
  DEF ServerInvariant, StopFollowsReturn, Controller, StopConnect,
      StopSendFlag, StopJoin, StopDelete, mainVars
<1>4. CASE StopConnect
  <2>1. EveryConnOnce'
    BY <1>0, <1>4, DialKeepsOnce DEF StopConnect, ServerInvariant, mainVars
  <2>2. QED
    BY <1>0, <1>2, <1>3, <2>1 DEF ServerInvariant
<1>5. CASE StopSendFlag \/ StopJoin
  BY <1>0, <1>1, <1>2, <1>3, <1>5
  DEF StopSendFlag, StopJoin, ServerInvariant, EveryConnOnce, Queued,
      guestVars, objVars, mainVars
<1>6. CASE StopDelete
  <2>1. Queued' = {} /\ Len(backlog') = 0
    BY <1>6 DEF StopDelete, Queued
  <2>2. \A d \in Conn : peer'[d] = "none" => peer[d] = "none"
    BY <1>0, <1>6 DEF StopDelete, TypeOK
  <2>3. EveryConnOnce'
    BY <1>1, <2>1, <2>2 DEF ServerInvariant, EveryConnOnce, objVars, mainVars
  <2>4. QED
    BY <1>0, <1>2, <1>3, <2>3 DEF ServerInvariant
<1>7. QED
  BY <1>4, <1>5, <1>6 DEF Controller

---------------------------------------------------------------------------
(* The theorems.                                                           *)

\* The invariant holds initially: nothing is connected, queued or started.
LEMMA InitInvariant == Init => ServerInvariant
<1> USE ConnAssumption
<1> SUFFICES ASSUME Init PROVE ServerInvariant
  OBVIOUS
<1>1. TypeOK
  BY DEF Init, TypeOK
<1>2. Len(backlog) = 0 /\ Queued = {}
  BY DEF Init, Queued
<1>3. EveryConnOnce
  BY <1>2 DEF Init, EveryConnOnce
<1>4. DecodingSerialised /\ ThreadWithinStream /\ NoOrphan
  BY DEF Init, DecodingSerialised, ThreadWithinStream, NoOrphan, Active, Holding
<1>5. QED
  BY <1>1, <1>3, <1>4 DEF Init, ServerInvariant, WorksOnCur, StopFollowsReturn

\* Every step keeps the invariant.
LEMMA NextInvariant == ServerInvariant /\ [Next]_vars => ServerInvariant'
<1> SUFFICES ASSUME ServerInvariant, [Next]_vars PROVE ServerInvariant'
  OBVIOUS
<1>1. CASE Process
  BY <1>1, AcceptThreadInvariant, RenderThreadInvariant, ControllerInvariant
  DEF Process
<1>2. ASSUME NEW c \in Client, Guest(c)
      PROVE  ServerInvariant'
  BY <1>2, GuestInvariant
<1>3. ASSUME UNCHANGED vars
      PROVE  ServerInvariant'
  <2>1. TypeOK'
    BY <1>3
    DEF ServerInvariant, TypeOK, vars, guestVars, objVars, mainVars
  <2>2. QED
    BY <1>3, <2>1
    DEF ServerInvariant, WorksOnCur, DecodingSerialised, ThreadWithinStream,
        NoOrphan, EveryConnOnce, Queued, StopFollowsReturn, vars, guestVars,
        objVars, mainVars
<1>4. QED
  BY <1>1, <1>2, <1>3 DEF Next, Rest

\* The inductive invariant of the server, of which the other theorems are
\* consequences.
THEOREM Invariant == Spec => []ServerInvariant
<1>1. QED
  BY InitInvariant, NextInvariant, PTL DEF Spec

\* Type correctness.
THEOREM TypeCorrect == Spec => []TypeOK
<1>1. ServerInvariant => TypeOK
  BY DEF ServerInvariant
<1>2. QED
  BY Invariant, <1>1, PTL

\* However many guests connect, hang up and call, and whenever the stop comes:
\* no render thread ever runs on a deleted object or a deleted stream.
THEOREM NoUseAfterDelete == Spec => []RenderLifetime
<1>1. ServerInvariant => RenderLifetime
  BY DEF ServerInvariant, ThreadWithinStream, RenderLifetime
<1>2. QED
  BY Invariant, <1>1, PTL

\* No stream and no thread object is lost to the accept thread.
THEOREM NothingLost == Spec => []NoOrphan
<1>1. ServerInvariant => NoOrphan
  BY DEF ServerInvariant
<1>2. QED
  BY Invariant, <1>1, PTL

\* m_lock serialises the decoders of all connections.
THEOREM DecodersExclude == Spec => []DecodingSerialised
<1>1. ServerInvariant => DecodingSerialised
  BY DEF ServerInvariant
<1>2. QED
  BY Invariant, <1>1, PTL

\* When stopDisplayControl deletes the server nothing that uses it is left.
THEOREM StopLeavesNothing == Spec => []StopIsClean
<1>1. ASSUME ServerInvariant, mpc \in {"delete", "stopped"}
      PROVE  /\ mLock = NoConn
             /\ \A c \in Conn :
                  rpc[c] \notin Active /\ sock[c] # "live" /\ thr[c] # "live"
  <2>1. threads = {} /\ cur = NoConn /\ cur \notin Conn
    BY <1>1, ConnAssumption DEF ServerInvariant, StopFollowsReturn, WorksOnCur
  <2>2. \A c \in Conn : sock[c] # "live" /\ thr[c] # "live"
    BY <1>1, <2>1 DEF ServerInvariant, NoOrphan
  <2>3. \A c \in Conn : rpc[c] \notin Active
    BY <1>1, <2>2 DEF ServerInvariant, ThreadWithinStream
  <2>4. mLock \notin Conn
    BY <1>1, <2>3 DEF ServerInvariant, DecodingSerialised, Active
  <2>5. QED
    BY <1>1, <2>2, <2>3, <2>4 DEF ServerInvariant, TypeOK
<1>2. ServerInvariant => StopIsClean
  BY <1>1 DEF StopIsClean
<1>3. QED
  BY Invariant, <1>2, PTL
----------------------------------------------------------------------------
(* Refinement of ServerLife.                                               *)

\* Every step keeps the reason for which the accept loop is left.
LEMMA LeavesOnRequestStep ==
  ASSUME ServerInvariant, LeavesOnRequest, [Next]_vars
  PROVE  LeavesOnRequest'
<1> USE ConnAssumption
<1>0. TypeOK /\ WorksOnCur /\ Dummy \in Conn
  BY DEF ServerInvariant, Conn
<1>1. ASSUME NEW c \in Client, Guest(c)
      PROVE  LeavesOnRequest'
  <2>1. /\ c \in Conn /\ c # Dummy /\ UNCHANGED spc
        /\ flags' = flags \/ flags' = [flags EXCEPT ![c] = "normal"]
    BY <1>1
    DEF Guest, Connect, SendFlags, Call, Return, HangUp, mainVars, Conn
  <2>2. QED
    BY <1>0, <2>1 DEF LeavesOnRequest, TypeOK
<1>2. CASE AcceptThread
  <2>1. flags' = flags
    BY <1>2
    DEF AcceptThread, Accept, ReadFlagsFails, ReadExitFlag, StartThread,
        StartFails, ReapSkip, Reap, ReapDangling, Insert, ForceStop,
        ForceStopDangling, WaitThread, ServerReturns, guestVars
  <2>2. \/ spc' \notin {"drain", "join", "returned"}
        \/ spc \in {"drain", "join"}
        \/ ReadExitFlag
    BY <1>2
    DEF AcceptThread, Accept, ReadFlagsFails, StartThread, StartFails, ReapSkip,
        Reap, ReapDangling, Insert, ForceStop, ForceStopDangling, WaitThread,
        ServerReturns
  <2>3. ReadExitFlag => flags[Dummy] = "exit"
    BY <1>0 DEF ReadExitFlag, WorksOnCur, LeavesOnRequest
  <2>4. QED
    BY <2>1, <2>2, <2>3 DEF LeavesOnRequest
<1>3. ASSUME NEW c \in Conn, RenderThread(c)
      PROVE  LeavesOnRequest'
  <2>1. UNCHANGED <<flags, spc>>
    BY <1>3
    DEF RenderThread, RenderRuns, ReadData, ReadEof, ReadGivesUp, AcquireLock,
        DecodeCall, DecodeNothing, Unlock, MarkStopped, Exit, guestVars, mainVars
  <2>2. QED
    BY <2>1 DEF LeavesOnRequest
<1>4. CASE Controller
  <2>1. /\ UNCHANGED spc
        /\ flags' = flags \/ flags' = [flags EXCEPT ![Dummy] = "exit"]
    BY <1>4
    DEF Controller, StopConnect, StopSendFlag, StopJoin, StopDelete, guestVars,
        mainVars
  <2>2. QED
    BY <1>0, <2>1 DEF LeavesOnRequest, TypeOK
<1>5. CASE UNCHANGED vars
  BY <1>5 DEF LeavesOnRequest, vars, guestVars, mainVars
<1>6. QED
  BY <1>1, <1>2, <1>3, <1>4, <1>5 DEF Next, Process, Rest

\* The server ends on request, and only then.
THEOREM EndsOnRequest == Spec => []LeavesOnRequest
<1>1. Init => LeavesOnRequest
  BY DEF Init, LeavesOnRequest
<1>2. QED
  BY <1>1, LeavesOnRequestStep, Invariant, PTL DEF Spec

\* Deleting a stream closes a session that was open.
LEMMA DeletionCloses ==
  ASSUME NEW c \in Conn, sock[c] = "live", sock' = [sock EXCEPT ![c] = "deleted"],
         UNCHANGED flags, spc # "returned", spc' # "returned"
  PROVE  Life!CloseSession(c)
BY DEF Life!CloseSession

\* A step that leaves streams, flags and the end of main() alone.
LEMMA LifeStutters ==
  ASSUME UNCHANGED <<sock, flags>>, spc' = "returned" <=> spc = "returned"
  PROVE  UNCHANGED Life!lifeVars
BY DEF Life!lifeVars

\* What the accept thread does is a step of the abstract server, or none.
LEMMA AcceptThreadLife ==
  ASSUME ServerInvariant, LeavesOnRequest, AcceptThread
  PROVE  [Life!LifeNext]_(Life!lifeVars)
<1> USE ConnAssumption
<1>0. TypeOK /\ WorksOnCur /\ EveryConnOnce /\ ThreadWithinStream /\ NoOrphan
  BY DEF ServerInvariant
<1>1. CASE Accept
  <2> DEFINE c == Head(backlog)
  <2>1. c \in Conn /\ c \in Queued
    BY <1>0, <1>1 DEF Accept, TypeOK, Queued
  <2>2. Life!Open(c)
    BY <1>0, <1>1, <2>1 DEF Accept, EveryConnOnce, Life!Open, guestVars
  <2>3. QED
    BY <2>1, <2>2 DEF Life!LifeNext
<1>2. CASE ReadFlagsFails \/ ReadExitFlag \/ StartFails
  <2>1. /\ cur \in Conn /\ sock[cur] = "live"
        /\ sock' = [sock EXCEPT ![cur] = "deleted"]
        /\ UNCHANGED flags /\ spc # "returned" /\ spc' # "returned"
    BY <1>0, <1>2
    DEF ReadFlagsFails, ReadExitFlag, StartFails, DeleteStream, WorksOnCur,
        EveryConnOnce, guestVars
  <2>2. QED
    BY <2>1, DeletionCloses DEF Life!LifeNext
<1>3. ASSUME NEW c \in Conn, Reap(c)
      PROVE  [Life!LifeNext]_(Life!lifeVars)
  <2>1. /\ sock[c] = "live" /\ sock' = [sock EXCEPT ![c] = "deleted"]
        /\ UNCHANGED flags /\ spc # "returned" /\ spc' # "returned"
    BY <1>0, <1>3
    DEF Reap, JoinAndDelete, DeleteStream, ThreadWithinStream, guestVars
  <2>2. QED
    BY <2>1, DeletionCloses DEF Life!LifeNext
<1>4. CASE WaitThread
  <2>1. /\ cur \in Conn /\ sock[cur] = "live"
        /\ sock' = [sock EXCEPT ![cur] = "deleted"]
        /\ UNCHANGED flags /\ spc # "returned" /\ spc' # "returned"
    BY <1>0, <1>4
    DEF WaitThread, JoinAndDelete, DeleteStream, ThreadWithinStream, WorksOnCur,
        guestVars
  <2>2. QED
    BY <2>1, DeletionCloses DEF Life!LifeNext
<1>5. CASE ServerReturns
  <2>1. \A c \in Conn : sock[c] # "live"
    BY <1>0, <1>5 DEF ServerReturns, NoOrphan, WorksOnCur
  <2>2. flags[Dummy] = "exit"
    BY <1>5 DEF ServerReturns, LeavesOnRequest
  <2>3. Life!End
    BY <1>5, <2>1, <2>2 DEF ServerReturns, Life!End, guestVars, objVars
  <2>4. QED
    BY <2>3 DEF Life!LifeNext
<1>6. ASSUME NEW c \in Conn,
             StartThread \/ ReapSkip(c) \/ ReapDangling(c) \/ Insert
               \/ ForceStop(c) \/ ForceStopDangling(c)
      PROVE  [Life!LifeNext]_(Life!lifeVars)
  BY <1>6, LifeStutters
  DEF StartThread, ReapSkip, ReapDangling, Insert, ForceStop, ForceStopDangling,
      guestVars, objVars
<1>7. QED
  BY <1>1, <1>2, <1>3, <1>4, <1>5, <1>6 DEF AcceptThread, Conn

\* Of the others only the controlling thread's request is seen.
LEMMA OthersLife ==
  ASSUME ServerInvariant
  PROVE  /\ \A c \in Client : Guest(c) => UNCHANGED Life!lifeVars
         /\ \A c \in Conn : RenderThread(c) => UNCHANGED Life!lifeVars
         /\ Controller => [Life!LifeNext]_(Life!lifeVars)
<1> USE ConnAssumption
<1>0. TypeOK /\ Dummy \in Conn
  BY DEF ServerInvariant, Conn
<1>1. ASSUME NEW c \in Client, Guest(c)
      PROVE  UNCHANGED Life!lifeVars
  <2>1. /\ c # Dummy /\ UNCHANGED <<sock, spc>>
        /\ flags' = flags \/ flags' = [flags EXCEPT ![c] = "normal"]
    BY <1>1
    DEF Guest, Connect, SendFlags, Call, Return, HangUp, objVars, mainVars
  <2>2. flags'[Dummy] = flags[Dummy]
    BY <1>0, <2>1 DEF TypeOK
  <2>3. QED
    BY <2>1, <2>2 DEF Life!lifeVars
<1>2. ASSUME NEW c \in Conn, RenderThread(c)
      PROVE  UNCHANGED Life!lifeVars
  BY <1>2, LifeStutters
  DEF RenderThread, RenderRuns, ReadData, ReadEof, ReadGivesUp, AcquireLock,
      DecodeCall, DecodeNothing, Unlock, MarkStopped, Exit, guestVars, mainVars
<1>3. ASSUME StopSendFlag
      PROVE  [Life!LifeNext]_(Life!lifeVars)
  <2>1. flags'[Dummy] = "exit" /\ UNCHANGED <<sock, spc>>
    BY <1>0, <1>3 DEF StopSendFlag, TypeOK, objVars, mainVars
  <2>2. CASE flags[Dummy] = "exit"
    BY <2>1, <2>2 DEF Life!lifeVars
  <2>3. CASE flags[Dummy] # "exit"
    <3>1. (flags[Dummy] = "exit")' = TRUE
      BY <2>1
    <3>2. Life!Ask
      BY <2>1, <2>3, <3>1 DEF Life!Ask
    <3>3. QED
      BY <3>2 DEF Life!LifeNext
  <2>4. QED
    BY <2>2, <2>3
<1>4. ASSUME StopConnect \/ StopJoin \/ StopDelete
      PROVE  [Life!LifeNext]_(Life!lifeVars)
  BY <1>4, LifeStutters
  DEF StopConnect, StopJoin, StopDelete, guestVars, objVars, mainVars
<1>5. QED
  BY <1>1, <1>2, <1>3, <1>4 DEF Controller

\* The server implements the safety half of ServerLife: every connection is
\* served at most once, main() returns only after the exit request and with
\* every session closed, and none is opened afterwards; also when threads fail
\* to start.
THEOREM ServerLifeRefinement == Spec => Life!LifeSafety
<1>1. Init => Life!LifeInit
  BY ConnAssumption DEF Init, Life!LifeInit, Conn
<1>2. ServerInvariant /\ LeavesOnRequest /\ [Next]_vars
        => [Life!LifeNext]_(Life!lifeVars)
  <2>1. UNCHANGED vars => UNCHANGED Life!lifeVars
    BY LifeStutters DEF vars, guestVars, objVars, mainVars
  <2>2. QED
    BY <2>1, AcceptThreadLife, OthersLife DEF Next, Process, Rest
<1>3. QED
  BY <1>1, <1>2, Invariant, EndsOnRequest, PTL DEF Spec, Life!LifeSafety
=============================================================================
