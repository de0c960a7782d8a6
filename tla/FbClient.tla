------------------------------ MODULE FbClient ------------------------------
(* The forwarding client: do_FBPost() keeps one connection to another display *)
(* server, drops it after a failure and connects again at the next call.      *)
(* One thread calls it; the descriptor has no lock.                           *)
EXTENDS Naturals

CONSTANT MaxFailures  \* bound of the model: failing calls counted

VARIABLES
  listening,  \* the other server runs
  connFd,     \* "none" (-1), "open", or "dead": the server closed its end
  posting,    \* do_FBPost() has written its request and reads the result
  failures    \* history: calls failed since the server last did something

fbVars == <<listening, connFd, posting, failures>>

FbInit == listening = FALSE /\ connFd = "none" /\ posting = FALSE /\ failures = 0

Lost == IF connFd = "open" THEN "dead" ELSE connFd

\* The other server (external) starts, ends, or closes a connection.
ServerStarts ==
  /\ ~listening
  /\ listening' = TRUE /\ failures' = 0
  /\ UNCHANGED <<connFd, posting>>

ServerEnds ==
  /\ listening
  /\ listening' = FALSE /\ connFd' = Lost /\ failures' = 0
  /\ UNCHANGED posting

ServerDrops ==
  /\ connFd = "open"
  /\ connFd' = Lost /\ failures' = 0
  /\ UNCHANGED <<listening, posting>>

\* get_conn_fd(): a new connection is tried if there is none.
ConnFd ==
  IF connFd = "none" /\ listening THEN "open" ELSE connFd

\* The call fails: it returns -errno, where errno is what the last failing
\* system call left; after a connection's end that is none, and 0 may come back.
Fail == failures < MaxFailures /\ failures' = failures + 1

\* Faulty variant: a failed read leaves the connection as it is.
ReadFailsKeeping ==
  /\ posting /\ connFd = "dead"
  /\ Fail /\ posting' = FALSE
  /\ UNCHANGED <<listening, connFd>>

\* try_write_fully().
WriteRequest ==
  /\ ~posting /\ ConnFd = "open"
  /\ connFd' = ConnFd /\ posting' = TRUE
  /\ UNCHANGED <<listening, failures>>

WriteFails ==
  /\ ~posting /\ ConnFd # "open"
  /\ connFd' = "none" /\ Fail
  /\ UNCHANGED <<listening, posting>>

\* try_read_fully(): the result arrives (if the server has closed its end since,
\* it had sent it before), or the connection is dropped.
ReadResult ==
  /\ posting
  /\ posting' = FALSE
  /\ UNCHANGED <<listening, connFd, failures>>

ReadFails ==
  /\ posting /\ connFd = "dead"
  /\ connFd' = "none" /\ Fail /\ posting' = FALSE
  /\ UNCHANGED listening

FbNext ==
  \/ ServerStarts \/ ServerEnds \/ ServerDrops
  \/ WriteRequest \/ WriteFails \/ ReadResult \/ ReadFails

FbSpec == FbInit /\ [][FbNext]_fbVars

\* While the server runs, each of its restarts and each connection it closes
\* costs at most one call: the next one finds a descriptor that works.
OneFailurePerLoss == listening => failures <= 1
=============================================================================
