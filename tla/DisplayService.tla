--------------------------- MODULE DisplayService ---------------------------
(* The life of the service: the library, the path and the server of each     *)
(* program instance, from android_initDisplayControl() to                    *)
(* android_stopDisplayControl(), and the socket files the instances share.   *)
(* One thread of an instance controls it.  What its accept thread does from  *)
(* its start to an exit request is DisplayControlServer.                     *)

CONSTANTS
  Instance,    \* the program instances
  Path,        \* the paths they may serve
  NoPath,      \* no path set, or none bound
  NoFile,      \* no file at a path
  Stale,       \* a socket file whose socket is closed
  CreateFails  \* can pthread_create() fail?

ASSUME ServiceAssumption ==
  /\ NoPath \notin Path
  /\ NoFile \notin Instance /\ Stale \notin Instance /\ NoFile # Stale
  /\ CreateFails \in BOOLEAN

VARIABLES
  file,    \* at each path: NoFile, Stale, or the instance whose socket it is
  inst,    \* the variables of each instance:
           \*   pc       its controlling thread: "idle" or inside start or stop
           \*   lib      displayControlLib is loaded
           \*   address  displayControlAddress
           \*   started  displayControlStarted
           \*   server   s_displayControlThread is not NULL
           \*   target   s_displayControlAddr
           \*   bound    bound_socket_path of the server's listening stream
           \*   thread   the accept thread: "none", "serving" or "ended"
  asked,   \* the instances whose exit request reached the server
  robbed,  \* history: another instance removed the server's socket file
  starved  \* history: a stop of the server could not get a socket

vars == <<file, inst, asked, robbed, starved>>

Fresh ==
  [pc |-> "idle", lib |-> FALSE, address |-> NoPath, started |-> FALSE,
   server |-> FALSE, target |-> NoPath, bound |-> NoPath, thread |-> "none"]

Init ==
  /\ file = [p \in Path |-> NoFile]
  /\ inst = [i \in Instance |-> Fresh]
  /\ asked = [i \in Instance |-> {}]
  /\ robbed = [i \in Instance |-> FALSE]
  /\ starved = [i \in Instance |-> FALSE]

----------------------------------------------------------------------------
(* The socket file.                                                         *)

\* Instance i removes the file at p, whoever's it is.
Remove(i, p) ==
  /\ file' = [file EXCEPT ![p] = NoFile]
  /\ robbed' = [j \in Instance |-> robbed[j] \/ (j # i /\ file[p] = j)]

\* The listening socket of i is closed; its file stays.
Close(i) ==
  /\ file' = [p \in Path |-> IF file[p] = i THEN Stale ELSE file[p]]
  /\ asked' = [asked EXCEPT ![i] = {}]
  /\ robbed' = [robbed EXCEPT ![i] = FALSE]
  /\ starved' = [starved EXCEPT ![i] = FALSE]

\* connect() finds somebody listening at p.
Answers(p) == file[p] \in Instance

----------------------------------------------------------------------------
(* android_initDisplayControl() and android_display_control_set_path().     *)

\* The library is opened and every symbol found; else it is closed again.
InitDisplayControl(i) ==
  /\ inst[i].pc = "idle" /\ ~inst[i].lib
  /\ \E found \in BOOLEAN : inst' = [inst EXCEPT ![i].lib = found]
  /\ UNCHANGED <<file, asked, robbed, starved>>

\* At any time, also while a server runs.
SetPath(i, p) ==
  /\ inst[i].pc = "idle"
  /\ inst' = [inst EXCEPT ![i].address = p]
  /\ UNCHANGED <<file, asked, robbed, starved>>

----------------------------------------------------------------------------
(* android_startDisplayControl().                                           *)

\* Not started; initDisplayControl() fails if it has a server, create() if the
\* path is empty.
MayStart(i) ==
  /\ inst[i].pc = "idle" /\ inst[i].lib /\ inst[i].address # NoPath
  /\ ~inst[i].started /\ ~inst[i].server

\* UnixStream::listen() takes the path, and mkpath() removes what is there.
StartListening(i) ==
  /\ MayStart(i)
  /\ Remove(i, inst[i].address)
  /\ inst' = [inst EXCEPT ![i].pc = "bind", ![i].bound = inst[i].address]
  /\ UNCHANGED <<asked, starved>>

\* Faulty variant: the path of a first start stays the stop's address.
BindKeepsTarget(i) ==
  /\ inst[i].pc = "bind" /\ file[inst[i].bound] = NoFile
  /\ file' = [file EXCEPT ![inst[i].bound] = i]
  /\ inst' = [inst EXCEPT ![i] =
                [@ EXCEPT !.pc = "idle", !.server = TRUE, !.started = TRUE,
                          !.target = IF @ = NoPath THEN inst[i].bound ELSE @,
                          !.thread = "serving"]]
  /\ UNCHANGED <<asked, robbed, starved>>

\* bind() creates the file.  The server exists and counts as started; whether
\* its thread was created is not looked at.
Bind(i) ==
  /\ inst[i].pc = "bind" /\ file[inst[i].bound] = NoFile
  /\ file' = [file EXCEPT ![inst[i].bound] = i]
  /\ \E created \in {TRUE, ~CreateFails} :
       inst' = [inst EXCEPT ![i] =
                  [@ EXCEPT !.pc = "idle", !.server = TRUE, !.started = TRUE,
                            !.target = inst[i].bound,
                            !.thread = IF created THEN "serving" ELSE "none"]]
  /\ UNCHANGED <<asked, robbed, starved>>

\* bind() fails: the path is in use again, or its directory is missing.
BindFails(i) ==
  /\ inst[i].pc = "bind"
  /\ inst' = [inst EXCEPT ![i].pc = "discard"]
  /\ UNCHANGED <<file, asked, robbed, starved>>

\* create() deletes the server, whose stream unlinks the path it had taken.
Discard(i) ==
  /\ inst[i].pc = "discard"
  /\ Remove(i, inst[i].bound)
  /\ inst' = [inst EXCEPT ![i].pc = "idle", ![i].bound = NoPath]
  /\ UNCHANGED <<asked, starved>>

----------------------------------------------------------------------------
(* android_stopDisplayControl().                                            *)

\* Faulty variant: the request goes to displayControlAddress, which may have
\* been set anew.
StopConnectToNewPath(i) ==
  /\ inst[i].pc = "idle" /\ inst[i].started /\ Answers(inst[i].address)
  /\ asked' = [asked EXCEPT ![file[inst[i].address]] = @ \cup {i}]
  /\ inst' = [inst EXCEPT ![i].pc = "wait"]
  /\ UNCHANGED <<file, robbed, starved>>

\* The exit request goes to whoever listens at the address.
StopConnect(i) ==
  /\ inst[i].pc = "idle" /\ inst[i].started /\ Answers(inst[i].target)
  /\ asked' = [asked EXCEPT ![file[inst[i].target]] = @ \cup {i}]
  /\ inst' = [inst EXCEPT ![i].pc = "wait"]
  /\ UNCHANGED <<file, robbed, starved>>

\* Faulty variant: the new path is asked, and nobody need listen there.
StopRefusedAtNewPath(i) ==
  /\ inst[i].pc = "idle" /\ inst[i].started /\ ~Answers(inst[i].address)
  /\ inst' = [inst EXCEPT ![i].started = FALSE]
  /\ UNCHANGED <<file, asked, robbed, starved>>

\* Nobody does: stopDisplayControl() gives up, and its result is ignored.
StopRefused(i) ==
  /\ inst[i].pc = "idle" /\ inst[i].started /\ ~Answers(inst[i].target)
  /\ inst' = [inst EXCEPT ![i].started = FALSE]
  /\ UNCHANGED <<file, asked, robbed, starved>>

\* Somebody listens, but the stop gets no socket to connect with, as when the
\* guests hold all descriptors: it gives up as well, and the server stays.
StopStarved(i) ==
  /\ inst[i].pc = "idle" /\ inst[i].started /\ Answers(inst[i].target)
  /\ inst' = [inst EXCEPT ![i].started = FALSE]
  /\ starved' = [starved EXCEPT ![i] = TRUE]
  /\ UNCHANGED <<file, asked, robbed>>

\* The accept thread takes an exit request and ends: End of ServerLife, which
\* DisplayControlServer implements.
ServerExits(i) ==
  /\ inst[i].thread = "serving" /\ asked[i] # {}
  /\ inst' = [inst EXCEPT ![i].thread = "ended"]
  /\ UNCHANGED <<file, asked, robbed, starved>>

\* wait() returns when the thread has ended.  If none was ever created it joins
\* nothing: undefined; it may return all the same, or the process dies (Crash).
StopJoin(i) ==
  /\ inst[i].pc = "wait" /\ inst[i].thread # "serving"
  /\ inst' = [inst EXCEPT ![i].pc = "unlink"]
  /\ UNCHANGED <<file, asked, robbed, starved>>

\* The server is deleted: its stream unlinks the path it was bound to ...
StopUnlink(i) ==
  /\ inst[i].pc = "unlink"
  /\ Remove(i, inst[i].bound)
  /\ inst' = [inst EXCEPT ![i].pc = "close", ![i].bound = NoPath]
  /\ UNCHANGED <<asked, starved>>

\* ... and closes its socket, with the connections queued in it.
StopClose(i) ==
  /\ inst[i].pc = "close"
  /\ Close(i)
  /\ inst' = [inst EXCEPT ![i] =
                [@ EXCEPT !.pc = "idle", !.server = FALSE, !.started = FALSE,
                          !.thread = "none"]]

----------------------------------------------------------------------------
\* The process dies; it may be run again, and its file is still there.
Crash(i) ==
  /\ inst[i] # Fresh
  /\ Close(i)
  /\ inst' = [inst EXCEPT ![i] = Fresh]

Start(i) == StartListening(i) \/ Bind(i) \/ BindFails(i) \/ Discard(i)

Stop(i) ==
  \/ StopConnect(i) \/ StopRefused(i) \/ StopStarved(i)
  \/ StopJoin(i) \/ StopUnlink(i) \/ StopClose(i)

Next ==
  \E i \in Instance :
    \/ InitDisplayControl(i) \/ (\E p \in Path : SetPath(i, p))
    \/ Start(i) \/ Stop(i) \/ ServerExits(i) \/ Crash(i)

Spec == Init /\ [][Next]_vars

\* The accept thread runs, and a stop that has begun goes on.
FairSpec ==
  /\ Spec
  /\ \A i \in Instance :
       /\ WF_vars(ServerExits(i))
       /\ WF_vars(StopJoin(i) \/ StopUnlink(i) \/ StopClose(i))

----------------------------------------------------------------------------
InstanceState ==
  [pc : {"idle", "bind", "discard", "wait", "unlink", "close"},
   lib : BOOLEAN, address : Path \cup {NoPath}, started : BOOLEAN,
   server : BOOLEAN, target : Path \cup {NoPath}, bound : Path \cup {NoPath},
   thread : {"none", "serving", "ended"}]

TypeOK ==
  /\ file \in [Path -> Instance \cup {NoFile, Stale}]
  /\ inst \in [Instance -> InstanceState]
  /\ asked \in [Instance -> SUBSET Instance]
  /\ robbed \in [Instance -> BOOLEAN]
  /\ starved \in [Instance -> BOOLEAN]

\* A server whose socket file no other instance took can be reached at the
\* address the stop will use, whatever paths were set and starts refused since.
OwnFileStands ==
  \A i \in Instance :
    inst[i].server /\ inst[i].pc \in {"idle", "wait"} /\ ~robbed[i]
      => file[inst[i].target] = i

\* displayControlStarted and s_displayControlThread agree between two calls,
\* although a stop's failure is not looked at: a server that is left without the
\* flag, and so can be neither stopped nor started again, has lost its file to
\* another instance, or a stop of it got no socket.
FlagsAgree ==
  \A i \in Instance :
    inst[i].pc = "idle" /\ ~robbed[i] /\ ~starved[i]
      => (inst[i].started <=> inst[i].server)

\* "stopDisplayControl - stops the DisplayControl process": where a stop has
\* cleared the flag, no server is left.
StopStops ==
  \A i \in Instance : inst[i].pc = "idle" /\ inst[i].server => inst[i].started

\* A stop returns, also when another instance's request came first, as long as
\* this server's socket file was not taken.
StopReturns ==
  \A i \in Instance :
    inst[i].pc = "wait" ~> (inst[i].pc = "idle" \/ robbed[i])

\* "open a dummy connection to the display control to make it realize the exit
\* request": the connection reaches the server that is to exit.
ExitRequestReachesOwnServer ==
  \A i \in Instance : inst[i].pc = "wait" => i \in asked[i]
=============================================================================
