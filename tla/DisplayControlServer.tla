----------------------- MODULE DisplayControlServer -----------------------
(***************************************************************************)
(* The accept loop of libDisplayControl, the thread it starts for every    *)
(* connection, and the stop request of the controlling thread.             *)
(*                                                                         *)
(* Actors, each a real thread or process of the system:                    *)
(*   - guests: one connection each (Client), outside the repository's host *)
(*     code; a guest may hang up whenever it likes;                        *)
(*   - the accept thread, DisplayControlServer::main;                      *)
(*   - one render thread per connection, DisplayControlThread::main run by *)
(*     emugl::Thread::thread_main;                                         *)
(*   - the controlling thread, which calls stopDisplayControl once.        *)
(*                                                                         *)
(* The initial state is the one initDisplayControl leaves behind: a bound  *)
(* listening socket and a started accept thread.  Bytes are abstracted to  *)
(* the outstanding call of a connection: every call with a result blocks   *)
(* its caller in IOStream::readback, so a connection has at most one.      *)
(***************************************************************************)
EXTENDS Naturals, Sequences

CONSTANTS
  Client,       \* the guests' connections
  Dummy,        \* the connection stopDisplayControl opens
  NoConn,       \* no connection
  Backlog,      \* length of the accept queue, listen(s, 5) in sockets.cpp
  StartMayFail  \* whether pthread_create may fail for a render thread

Conn == Client \cup {Dummy}

ASSUME ConnAssumption == Dummy \notin Client /\ NoConn \notin Conn
ASSUME BacklogAssumption == Backlog \in Nat \ {0}

VARIABLES
  peer,     \* the connection's other end: "none", "open", "closed"
  flags,    \* the clientFlags word it sent: "none", "normal", "exit"
  call,     \* its outstanding call: "idle", "sent", "read", "done"
  backlog,  \* connections the kernel holds for accept()
  sock,     \* the SocketStream object: "none", "live", "deleted"
  shut,     \* connections on which forceStop() shut the socket down
  thr,      \* the DisplayControlThread object: "none", "live", "deleted"
  running,  \* its mIsRunning
  rpc,      \* where its pthread is
  mLock,    \* holder of the server's m_lock
  spc,      \* where the accept thread is
  cur,      \* the connection it is working on
  threads,  \* the keys of its local map of threads
  todo,     \* the entries the clean-up loop has yet to visit
  mpc       \* where the controlling thread is

guestVars == <<peer, flags, call>>
objVars == <<sock, thr, running, rpc>>
mainVars == <<spc, cur, threads, todo>>
vars == <<guestVars, backlog, objVars, shut, mLock, mainVars, mpc>>

\* The positions of a render thread in which it holds m_lock.
Holding == {"decode", "unlockMore", "unlockDone"}
\* The positions in which it still uses its own object and its stream.
Active == {"read", "lock", "finish", "ending"} \cup Holding

Init ==
  /\ peer = [c \in Conn |-> "none"]
  /\ flags = [c \in Conn |-> "none"]
  /\ call = [c \in Conn |-> "idle"]
  /\ backlog = <<>>
  /\ sock = [c \in Conn |-> "none"]
  /\ shut = {}
  /\ thr = [c \in Conn |-> "none"]
  /\ running = [c \in Conn |-> FALSE]
  /\ rpc = [c \in Conn |-> "none"]
  /\ mLock = NoConn
  /\ spc = "accept"
  /\ cur = NoConn
  /\ threads = {}
  /\ todo = {}
  /\ mpc = "up"

---------------------------------------------------------------------------
(* Guests.                                                                 *)

\* The socket file exists until the server object is deleted.
Listening == mpc # "stopped"

\* connect(): it waits for a free place in the accept queue.
Dial(c) ==
  /\ peer[c] = "none" /\ Len(backlog) < Backlog
  /\ peer' = [peer EXCEPT ![c] = "open"]
  /\ backlog' = Append(backlog, c)

Connect(c) ==
  /\ Listening /\ Dial(c)
  /\ UNCHANGED <<flags, call, objVars, shut, mLock, mainVars, mpc>>

\* The first word on a connection says what the guest wants.
SendFlags(c) ==
  /\ peer[c] = "open" /\ flags[c] = "none"
  /\ flags' = [flags EXCEPT ![c] = "normal"]
  /\ UNCHANGED <<peer, call, backlog, objVars, shut, mLock, mainVars, mpc>>

\* The server's end is gone: deleted, or dropped with the accept queue.
HungUpByServer(c) ==
  /\ peer[c] = "open" /\ sock[c] # "live"
  /\ \A i \in 1..Len(backlog) : backlog[i] # c

Call(c) ==
  /\ peer[c] = "open" /\ flags[c] = "normal" /\ call[c] = "idle"
  /\ c \notin shut /\ ~HungUpByServer(c)
  /\ call' = [call EXCEPT ![c] = "sent"]
  /\ UNCHANGED <<peer, flags, backlog, objVars, shut, mLock, mainVars, mpc>>

Return(c) ==
  /\ peer[c] = "open" /\ call[c] = "done"
  /\ call' = [call EXCEPT ![c] = "idle"]
  /\ UNCHANGED <<peer, flags, backlog, objVars, shut, mLock, mainVars, mpc>>

\* The guest closes its socket or dies, at any moment.
HangUp(c) ==
  /\ peer[c] = "open"
  /\ peer' = [peer EXCEPT ![c] = "closed"]
  /\ UNCHANGED <<flags, call, backlog, objVars, shut, mLock, mainVars, mpc>>

---------------------------------------------------------------------------
(* The accept thread.                                                      *)

DeleteStream(c) == sock' = [sock EXCEPT ![c] = "deleted"]
DeleteThread(c) == thr' = [thr EXCEPT ![c] = "deleted"]

Accept ==
  /\ spc = "accept" /\ backlog # <<>>
  /\ cur' = Head(backlog)
  /\ backlog' = Tail(backlog)
  /\ sock' = [sock EXCEPT ![Head(backlog)] = "live"]
  /\ spc' = "flags"
  /\ UNCHANGED <<guestVars, thr, running, rpc, shut, mLock, threads, todo, mpc>>

\* Faulty variant: the stream of a refused connection is forgotten.
ReadFlagsFailsLeaks ==
  /\ spc = "flags" /\ flags[cur] = "none" /\ peer[cur] = "closed"
  /\ cur' = NoConn
  /\ spc' = "accept"
  /\ UNCHANGED <<guestVars, backlog, objVars, shut, mLock, threads, todo, mpc>>

\* Faulty variant: a guest that hangs up early ends the loop.
ReadFlagsFailsBreaks ==
  /\ spc = "flags" /\ flags[cur] = "none" /\ peer[cur] = "closed"
  /\ DeleteStream(cur)
  /\ cur' = NoConn
  /\ spc' = "drain"
  /\ UNCHANGED <<guestVars, backlog, thr, running, rpc, shut, mLock, threads,
                 todo, mpc>>

\* readFully() of clientFlags returns NULL: the peer hung up before them.
ReadFlagsFails ==
  /\ spc = "flags" /\ flags[cur] = "none" /\ peer[cur] = "closed"
  /\ DeleteStream(cur)
  /\ cur' = NoConn
  /\ spc' = "accept"
  /\ UNCHANGED <<guestVars, backlog, thr, running, rpc, shut, mLock, threads,
                 todo, mpc>>

\* IOSTREAM_CLIENT_EXIT_SERVER: leave the loop and stop every thread.
ReadExitFlag ==
  /\ spc = "flags" /\ flags[cur] = "exit"
  /\ DeleteStream(cur)
  /\ cur' = NoConn
  /\ spc' = "drain"
  /\ UNCHANGED <<guestVars, backlog, thr, running, rpc, shut, mLock, threads,
                 todo, mpc>>

\* Faulty variant: the clean-up loop visits no entry.
StartThreadWithoutCleanUp ==
  /\ spc = "flags" /\ flags[cur] = "normal"
  /\ thr' = [thr EXCEPT ![cur] = "live"]
  /\ running' = [running EXCEPT ![cur] = TRUE]
  /\ rpc' = [rpc EXCEPT ![cur] = "read"]
  /\ spc' = "reap"
  /\ todo' = {}
  /\ UNCHANGED <<guestVars, backlog, sock, shut, mLock, cur, threads, mpc>>

\* create() and a successful start(): mIsRunning is set before the pthread
\* exists, both under the thread's own lock.
StartThread ==
  /\ spc = "flags" /\ flags[cur] = "normal"
  /\ thr' = [thr EXCEPT ![cur] = "live"]
  /\ running' = [running EXCEPT ![cur] = TRUE]
  /\ rpc' = [rpc EXCEPT ![cur] = "read"]
  /\ spc' = "reap"
  /\ todo' = threads
  /\ UNCHANGED <<guestVars, backlog, sock, shut, mLock, cur, threads, mpc>>

\* start() returns false: both objects are deleted, rt keeps its value.
StartFails ==
  /\ StartMayFail
  /\ spc = "flags" /\ flags[cur] = "normal"
  /\ DeleteThread(cur)
  /\ DeleteStream(cur)
  /\ spc' = "reap"
  /\ todo' = threads
  /\ UNCHANGED <<guestVars, backlog, running, rpc, shut, mLock, cur, threads,
                 mpc>>

\* isFinished() on an entry whose thread still runs: the entry stays.
ReapSkip(c) ==
  /\ spc = "reap" /\ c \in todo /\ thr[c] = "live"
  /\ running[c]
  /\ todo' = todo \ {c}
  /\ UNCHANGED <<guestVars, backlog, objVars, shut, mLock, spc, cur, threads,
                 mpc>>

\* Faulty variant: the objects are deleted without waiting for the pthread.
DeleteUnjoined(c) ==
  /\ UNCHANGED rpc
  /\ DeleteStream(c)
  /\ DeleteThread(c)
  /\ threads' = threads \ {c}

\* The pthread has returned: it is joined, then stream and thread deleted.
JoinAndDelete(c) ==
  /\ rpc[c] = "exited"
  /\ rpc' = [rpc EXCEPT ![c] = "joined"]
  /\ DeleteStream(c)
  /\ DeleteThread(c)
  /\ threads' = threads \ {c}

\* isFinished() on a finished entry: tryWait() joins while holding the
\* thread's lock, so it may wait for the pthread to return.
Reap(c) ==
  /\ spc = "reap" /\ c \in todo /\ thr[c] = "live"
  /\ ~running[c]
  /\ JoinAndDelete(c)
  /\ todo' = todo \ {c}
  /\ UNCHANGED <<guestVars, backlog, running, shut, mLock, spc, cur, mpc>>

\* An entry whose objects are gone is used: undefined behaviour.  The freed
\* memory may look like a running thread, it may look like a finished one that
\* is joined and deleted once more (or the thread just created may lie at that
\* address, its entry then standing in for the stale one), or the process
\* aborts.
ReapDangling(c) ==
  /\ spc = "reap" /\ c \in todo /\ thr[c] = "deleted"
  /\ todo' = todo \ {c}
  /\ \/ spc' \in {"reap", "crashed"} /\ UNCHANGED threads
     \/ threads' = threads \ {c} /\ UNCHANGED spc
  /\ UNCHANGED <<guestVars, backlog, objVars, shut, mLock, cur, mpc>>

\* Faulty variant: the local pointer is reset before it is inserted.
InsertAfterReset ==
  /\ spc = "reap" /\ todo = {}
  /\ cur' = NoConn
  /\ threads' = threads \cup {cur'}
  /\ spc' = "accept"
  /\ UNCHANGED <<guestVars, backlog, objVars, shut, mLock, todo, mpc>>

Insert ==
  /\ spc = "reap" /\ todo = {}
  /\ threads' = threads \cup {cur}
  /\ cur' = NoConn
  /\ spc' = "accept"
  /\ UNCHANGED <<guestVars, backlog, objVars, shut, mLock, todo, mpc>>

\* Faulty variant: wait() without the shutdown that wakes the thread.
ForceStopQuiet(c) ==
  /\ spc = "drain" /\ c \in threads /\ thr[c] = "live"
  /\ cur' = c
  /\ spc' = "join"
  /\ UNCHANGED <<guestVars, backlog, objVars, shut, mLock, threads, todo, mpc>>

\* One turn of the last loop: shut a socket down, ...
ForceStop(c) ==
  /\ spc = "drain" /\ c \in threads /\ thr[c] = "live"
  /\ shut' = shut \cup {c}
  /\ cur' = c
  /\ spc' = "join"
  /\ UNCHANGED <<guestVars, backlog, objVars, mLock, threads, todo, mpc>>

ForceStopDangling(c) ==
  /\ spc = "drain" /\ c \in threads /\ thr[c] = "deleted"
  /\ spc' = "crashed"
  /\ UNCHANGED <<guestVars, backlog, objVars, shut, mLock, cur, threads, todo,
                 mpc>>

\* ... wait() for its thread, and delete both objects.
WaitThread ==
  /\ spc = "join"
  /\ JoinAndDelete(cur)
  /\ cur' = NoConn
  /\ spc' = "drain"
  /\ UNCHANGED <<guestVars, backlog, running, shut, mLock, todo, mpc>>

\* Faulty variant: main() returns without the last loop.
ServerReturnsEarly ==
  /\ spc = "drain"
  /\ spc' = "returned"
  /\ UNCHANGED <<guestVars, backlog, objVars, shut, mLock, cur, threads, todo,
                 mpc>>

ServerReturns ==
  /\ spc = "drain" /\ threads = {}
  /\ spc' = "returned"
  /\ UNCHANGED <<guestVars, backlog, objVars, shut, mLock, cur, threads, todo,
                 mpc>>

---------------------------------------------------------------------------
(* A render thread: DisplayControlThread::main within thread_main.         *)

Goto(c, from, to) == rpc[c] = from /\ rpc' = [rpc EXCEPT ![c] = to]

\* Bytes queued before a hang-up or a shutdown are still delivered.
ReadData(c) ==
  /\ Goto(c, "read", "lock")
  /\ call[c] = "sent"
  /\ call' = [call EXCEPT ![c] = "read"]
  /\ UNCHANGED <<peer, flags, backlog, sock, thr, running, shut, mLock,
                 mainVars, mpc>>

\* getData() returns -1: end of file, after the peer's or our shutdown.
ReadEof(c) ==
  /\ Goto(c, "read", "finish")
  /\ call[c] # "sent"
  /\ peer[c] = "closed" \/ c \in shut
  /\ UNCHANGED <<guestVars, backlog, sock, thr, running, shut, mLock, mainVars,
                 mpc>>

\* getData() also returns -1 when the packet does not fit and realloc() fails:
\* main() is left with the peer still there.  A guest whose calls are all
\* answered ("done") has left nothing in the buffer.
ReadGivesUp(c) ==
  /\ Goto(c, "read", "finish")
  /\ call[c] \in {"idle", "sent"}
  /\ UNCHANGED <<guestVars, backlog, sock, thr, running, shut, mLock, mainVars,
                 mpc>>

\* Faulty variant: decoding without mutual exclusion.
AcquireLockUnguarded(c) ==
  /\ Goto(c, "lock", "decode")
  /\ mLock' = c
  /\ UNCHANGED <<guestVars, backlog, sock, thr, running, shut, mainVars, mpc>>

AcquireLock(c) ==
  /\ Goto(c, "lock", "decode")
  /\ mLock = NoConn
  /\ mLock' = c
  /\ UNCHANGED <<guestVars, backlog, sock, thr, running, shut, mainVars, mpc>>

\* decode() runs the call and flushes the reply; flush() reports a peer that
\* is gone, nobody looks, and the call's bytes are consumed all the same.
DecodeCall(c) ==
  /\ Goto(c, "decode", "unlockMore")
  /\ call[c] = "read"
  /\ call' = [call EXCEPT ![c] =
                IF peer[c] = "open" /\ c \notin shut THEN "done" ELSE "idle"]
  /\ UNCHANGED <<peer, flags, backlog, sock, thr, running, shut, mLock,
                 mainVars, mpc>>

\* decode() finds no complete packet and returns 0: no progress.
DecodeNothing(c) ==
  /\ Goto(c, "decode", "unlockDone")
  /\ call[c] # "read"
  /\ UNCHANGED <<guestVars, backlog, sock, thr, running, shut, mLock, mainVars,
                 mpc>>

\* Faulty variant: the loop is left before unlock() when nothing was decoded.
UnlockAfterProgressOnly(c) ==
  /\ \/ Goto(c, "unlockMore", "lock") /\ mLock' = NoConn
     \/ Goto(c, "unlockDone", "read") /\ UNCHANGED mLock
  /\ UNCHANGED <<guestVars, backlog, sock, thr, running, shut, mainVars, mpc>>

\* The do-while loop tries again after progress, else reads on.
Unlock(c) ==
  /\ \/ Goto(c, "unlockMore", "lock")
     \/ Goto(c, "unlockDone", "read")
  /\ mLock' = NoConn
  /\ UNCHANGED <<guestVars, backlog, sock, thr, running, shut, mainVars, mpc>>

\* main() has returned; thread_main records it under the thread's lock ...
MarkStopped(c) ==
  /\ Goto(c, "finish", "ending")
  /\ running' = [running EXCEPT ![c] = FALSE]
  /\ UNCHANGED <<guestVars, backlog, sock, thr, shut, mLock, mainVars, mpc>>

\* ... and returns.
Exit(c) ==
  /\ Goto(c, "ending", "exited")
  /\ UNCHANGED <<guestVars, backlog, sock, thr, running, shut, mLock, mainVars,
                 mpc>>

---------------------------------------------------------------------------
(* The controlling thread in stopDisplayControl.                           *)

StopConnect ==
  /\ mpc = "up"
  /\ Dial(Dummy)
  /\ mpc' = "connected"
  /\ UNCHANGED <<flags, call, objVars, shut, mLock, mainVars>>

StopSendFlag ==
  /\ mpc = "connected"
  /\ flags' = [flags EXCEPT ![Dummy] = "exit"]
  /\ mpc' = "wait"
  /\ UNCHANGED <<peer, call, backlog, objVars, shut, mLock, mainVars>>

StopJoin ==
  /\ mpc = "wait" /\ spc = "returned"
  /\ mpc' = "delete"
  /\ UNCHANGED <<guestVars, backlog, objVars, shut, mLock, mainVars>>

\* Deleting the server closes the listening socket and unlinks its path; the
\* connections still queued are reset.  The dummy connection goes last.
StopDelete ==
  /\ mpc = "delete"
  /\ backlog' = <<>>
  /\ peer' = [peer EXCEPT ![Dummy] = "closed"]
  /\ mpc' = "stopped"
  /\ UNCHANGED <<flags, call, objVars, shut, mLock, mainVars>>

---------------------------------------------------------------------------

Guest(c) == Connect(c) \/ SendFlags(c) \/ Call(c) \/ Return(c) \/ HangUp(c)

AcceptThread ==
  \/ Accept \/ ReadFlagsFails \/ ReadExitFlag \/ StartThread \/ StartFails
  \/ \E c \in Conn : ReapSkip(c) \/ Reap(c) \/ ReapDangling(c)
  \/ Insert
  \/ \E c \in Conn : ForceStop(c) \/ ForceStopDangling(c)
  \/ WaitThread \/ ServerReturns

RenderRuns(c) ==
  \/ ReadData(c) \/ ReadEof(c)
  \/ AcquireLock(c) \/ DecodeCall(c) \/ DecodeNothing(c) \/ Unlock(c)
  \/ MarkStopped(c) \/ Exit(c)

RenderThread(c) == RenderRuns(c) \/ ReadGivesUp(c)

Controller == StopConnect \/ StopSendFlag \/ StopJoin \/ StopDelete

\* A crash ends every thread of the process.
Alive == spc # "crashed"

Process ==
  /\ Alive
  /\ \/ AcceptThread
     \/ \E c \in Conn : RenderThread(c)
     \/ Controller

\* The system may come to rest once the server is stopped or has crashed.
Rest ==
  /\ mpc = "stopped" \/ ~Alive
  /\ UNCHANGED vars

Next == Process \/ (\E c \in Client : Guest(c)) \/ Rest

Spec == Init /\ [][Next]_vars

\* Threads that can run, run; a mutex that is released again and again is
\* granted in the end.  A guest that connected sends its flags or hangs up,
\* as createDisplayControlThread does; nothing else is asked of a guest, and
\* realloc() need not fail.
Fairness ==
  /\ WF_vars(Alive /\ AcceptThread)
  /\ WF_vars(Alive /\ (StopSendFlag \/ StopJoin \/ StopDelete))
  /\ \A c \in Conn : WF_vars(Alive /\ RenderRuns(c))
  /\ \A c \in Conn : SF_vars(Alive /\ AcquireLock(c))
  /\ \A c \in Client : WF_vars(SendFlags(c))

FairSpec == Spec /\ Fairness

---------------------------------------------------------------------------
(* Properties.                                                             *)

TypeOK ==
  /\ peer \in [Conn -> {"none", "open", "closed"}]
  /\ flags \in [Conn -> {"none", "normal", "exit"}]
  /\ call \in [Conn -> {"idle", "sent", "read", "done"}]
  /\ backlog \in Seq(Conn)
  /\ sock \in [Conn -> {"none", "live", "deleted"}]
  /\ shut \subseteq Conn
  /\ thr \in [Conn -> {"none", "live", "deleted"}]
  /\ running \in [Conn -> BOOLEAN]
  /\ rpc \in [Conn -> Active \cup {"none", "exited", "joined"}]
  /\ mLock \in Conn \cup {NoConn}
  /\ spc \in {"accept", "flags", "reap", "drain", "join", "returned",
              "crashed"}
  /\ cur \in Conn \cup {NoConn}
  /\ threads \subseteq Conn
  /\ todo \subseteq Conn
  /\ mpc \in {"up", "connected", "wait", "delete", "stopped"}

\* A render thread that can still touch its DisplayControlThread object or
\* its stream finds both alive: the accept thread deletes neither before the
\* pthread has returned and been joined.
RenderLifetime ==
  \A c \in Conn : rpc[c] \in Active => thr[c] = "live" /\ sock[c] = "live"

\* No stream and no thread is lost: whatever is alive is either the accept
\* thread's current connection or an entry of its map, where the clean-up
\* loop or the final loop will find it.
NoOrphan ==
  \A c \in Conn :
    sock[c] = "live" \/ thr[c] = "live" => c \in threads \/ c = cur

\* m_lock serialises decoding between all render threads: its holder is the
\* one thread between lock() and unlock(), and when no thread is there it is
\* free, also after a thread was forced to stop.
DecodingSerialised ==
  \A c \in Conn : rpc[c] \in Holding <=> mLock = c

\* When wait() on the server has returned in stopDisplayControl, deleting the
\* server (and m_lock with it) is safe: no render thread runs, none holds the
\* lock, and no stream or thread object is left behind.
StopIsClean ==
  mpc \in {"delete", "stopped"} =>
    /\ mLock = NoConn
    /\ \A c \in Conn :
         rpc[c] \notin Active /\ sock[c] # "live" /\ thr[c] # "live"

\* The comment above threads.insert: an entry of the map was created and
\* started.  A failed start() is inserted all the same.
EntryWasStarted == \A c \in threads : rpc[c] # "none"

\* The inductive strengthening of the invariants above, part by part.

\* The accept thread works on a connection between accept() and the insertion,
\* and while it waits for a thread it has stopped; otherwise on none.
WorksOnCur ==
  /\ spc \in {"flags", "reap", "join"} => cur \in Conn
  /\ spc \in {"accept", "drain", "returned"} => cur = NoConn

\* A thread object lives from its start until it is joined, and its stream at
\* least as long; only the connection whose flags are awaited has a stream
\* and no thread.
ThreadWithinStream ==
  /\ \A c \in Conn : thr[c] = "live" <=> rpc[c] \in Active \cup {"exited"}
  /\ \A c \in Conn : thr[c] = "live" => sock[c] = "live"
  /\ \A c \in Conn :
       sock[c] = "live" /\ thr[c] # "live" => spc = "flags" /\ c = cur

\* A connection is queued once, before it has a stream, and has a stream
\* before it has a thread.
Queued == {backlog[i] : i \in 1..Len(backlog)}

EveryConnOnce ==
  /\ \A i, j \in 1..Len(backlog) : backlog[i] = backlog[j] => i = j
  /\ \A c \in Queued : sock[c] = "none"
  /\ \A c \in Conn : peer[c] = "none" => c \notin Queued /\ sock[c] = "none"
  /\ \A c \in Conn : sock[c] = "none" => thr[c] = "none" /\ rpc[c] = "none"
  /\ spc = "flags" => sock[cur] = "live" /\ thr[cur] = "none" /\ rpc[cur] = "none"

\* stopDisplayControl goes on only when main() has returned, and main()
\* returns only with an empty map.
StopFollowsReturn ==
  /\ mpc \in {"delete", "stopped"} => spc = "returned"
  /\ spc = "returned" => threads = {}

ServerInvariant ==
  /\ TypeOK
  /\ WorksOnCur
  /\ DecodingSerialised
  /\ ThreadWithinStream
  /\ NoOrphan
  /\ EveryConnOnce
  /\ StopFollowsReturn

\* The accept loop is left only after the exit flag was read, which nobody but
\* stopDisplayControl sends.
LeavesOnRequest ==
  /\ \A c \in Conn : flags[c] = "exit" => c = Dummy
  /\ spc \in {"drain", "join", "returned"} => flags[Dummy] = "exit"

\* Once the dummy connection is made, stopDisplayControl returns, whatever
\* the render threads and their guests are doing.
StopReturns == mpc = "connected" ~> mpc = "stopped"

\* A guest's call ends: it is answered, or the connection is closed by one of
\* its ends, or its thread has given up for lack of memory.  Nothing else keeps
\* a guest waiting on a server that goes on serving others.
Pending(c) ==
  /\ peer[c] = "open" /\ call[c] \in {"sent", "read"}
  /\ ~HungUpByServer(c)

\* The thread has left its loop, its socket is still open.
GaveUp(c) == rpc[c] \in {"finish", "ending", "exited"} /\ c \notin shut

EveryCallEnds == \A c \in Client : Pending(c) ~> ~Pending(c) \/ GaveUp(c)

\* A thread that has ended, for whatever reason, holds its guest's connection
\* no longer than until the next connection has said what it wants: the
\* clean-up loop, or the last loop of main(), then closes it.
GivenUpIsClosed ==
  \A c \in Client :
    rpc[c] \in {"ending", "exited"} /\ spc = "flags" /\ flags[cur] # "none"
      ~> sock[c] = "deleted"

\* The server as its process sees it: sessions are the streams, the request is
\* the flag of the dummy connection, the end is the return of main().
Life ==
  INSTANCE ServerLife WITH
    session <- sock,
    asked <- (flags[Dummy] = "exit"),
    ended <- (spc = "returned")

\* Every connection is served at most once; main() returns only after the exit
\* request was sent, never because of what a guest did, with every stream
\* deleted, and accepts nothing afterwards; once the request is sent the open
\* sessions are closed and main() does return.
ImplementsServerLife == Life!LifeSpec
=============================================================================
