----------------------------- MODULE EmuThread -----------------------------
(* emugl::Thread on pthreads: one thread object, its thread, and the callers  *)
(* that wait for it.  A pthread may be joined once.                          *)
EXTENDS Naturals

CONSTANTS
  Caller,   \* the threads that use the object
  Uses,     \* ways of sharing the object: who calls "wait", who "tryWait"
  NoCaller  \* mLock is free

ASSUME ThreadAssumption ==
  /\ NoCaller \notin Caller
  /\ Uses \subseteq [Caller -> SUBSET {"wait", "tryWait"}]

VARIABLES
  use,         \* the way chosen for this object
  mLock,       \* the caller that holds it; the thread never keeps it
  mIsRunning,
  mJoined,
  pthread,     \* "none", "main", "returning", "ended" or "reclaimed"
  cpc,         \* each caller: "idle", "join", "joinLocked" or "mark"
  joins        \* history: calls of pthread_join()

threadVars == <<use, mLock, mIsRunning, mJoined, pthread, cpc, joins>>

ThreadInit ==
  /\ use \in Uses
  /\ mLock = NoCaller /\ mIsRunning = FALSE /\ mJoined = FALSE
  /\ pthread = "none"
  /\ cpc = [c \in Caller |-> "idle"]
  /\ joins = 0

Calls(c, f) == cpc[c] = "idle" /\ f \in use[c] /\ pthread # "none"

\* start(), under mLock.  After a failure it may be called again.
StartPthread ==
  /\ mLock = NoCaller /\ pthread = "none"
  /\ \E created \in BOOLEAN :
       /\ mIsRunning' = created
       /\ pthread' = IF created THEN "main" ELSE "none"
  /\ UNCHANGED <<use, mLock, mJoined, cpc, joins>>

\* thread_main() after main(): flag and exit status, under mLock ...
ThreadStops ==
  /\ pthread = "main" /\ mLock = NoCaller
  /\ mIsRunning' = FALSE
  /\ pthread' = "returning"
  /\ UNCHANGED <<use, mLock, mJoined, cpc, joins>>

\* ... then it returns; nothing is left of OnThreadExit() here.
ThreadReturns ==
  /\ pthread = "returning"
  /\ pthread' = "ended"
  /\ UNCHANGED <<use, mLock, mIsRunning, mJoined, cpc, joins>>

\* wait() finds the thread running: it gives mLock up and joins.
WaitJoins(c) ==
  /\ Calls(c, "wait") /\ mLock = NoCaller /\ mIsRunning
  /\ joins' = joins + 1
  /\ cpc' = [cpc EXCEPT ![c] = "join"]
  /\ UNCHANGED <<use, mLock, mIsRunning, mJoined, pthread>>

\* Faulty variant: mJoined is not looked at.
StoppedJoinsAgain(c) ==
  /\ \E f \in {"wait", "tryWait"} : Calls(c, f)
  /\ mLock = NoCaller /\ ~mIsRunning
  /\ joins' = joins + 1
  /\ mLock' = c
  /\ cpc' = [cpc EXCEPT ![c] = "joinLocked"]
  /\ UNCHANGED <<use, mIsRunning, mJoined, pthread>>

\* wait() or tryWait() finds it stopped and nobody has joined: it joins with
\* mLock held.  (When somebody has, or tryWait() finds it running, the call
\* returns and changes nothing.)
StoppedJoins(c) ==
  /\ \E f \in {"wait", "tryWait"} : Calls(c, f)
  /\ mLock = NoCaller /\ ~mIsRunning /\ ~mJoined
  /\ joins' = joins + 1
  /\ mLock' = c
  /\ cpc' = [cpc EXCEPT ![c] = "joinLocked"]
  /\ UNCHANGED <<use, mIsRunning, mJoined, pthread>>

\* pthread_join() returns.  What a second one does is undefined: here it never
\* returns.
JoinReturns(c) ==
  /\ cpc[c] = "join" /\ pthread = "ended"
  /\ pthread' = "reclaimed"
  /\ cpc' = [cpc EXCEPT ![c] = "mark"]
  /\ UNCHANGED <<use, mLock, mIsRunning, mJoined, joins>>

JoinLockedReturns(c) ==
  /\ cpc[c] = "joinLocked" /\ pthread = "ended"
  /\ pthread' = "reclaimed"
  /\ mJoined' = TRUE
  /\ mLock' = NoCaller
  /\ cpc' = [cpc EXCEPT ![c] = "idle"]
  /\ UNCHANGED <<use, mIsRunning, joins>>

\* wait() records the join, under mLock again.
MarkJoined(c) ==
  /\ cpc[c] = "mark" /\ mLock = NoCaller
  /\ mJoined' = TRUE
  /\ cpc' = [cpc EXCEPT ![c] = "idle"]
  /\ UNCHANGED <<use, mLock, mIsRunning, pthread, joins>>

ThreadNext ==
  \/ StartPthread \/ ThreadStops \/ ThreadReturns
  \/ \E c \in Caller :
       \/ WaitJoins(c) \/ StoppedJoins(c)
       \/ JoinReturns(c) \/ JoinLockedReturns(c) \/ MarkJoined(c)

ThreadSpec == ThreadInit /\ [][ThreadNext]_threadVars

\* "to avoid race conditions between two threads waiting for the same thread":
\* pthread_join() is called once, however calls of wait() and tryWait() fall
\* around the thread's exit.
JoinedOnce == joins <= 1
=============================================================================
