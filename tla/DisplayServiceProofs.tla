------------------------ MODULE DisplayServiceProofs ------------------------
(* Safety of the service's life, for any number of program instances and      *)
(* paths, with failing binds and thread starts, and crashes, at any point.    *)
EXTENDS DisplayService, TLAPS

\* Where an instance's controlling thread is says what its flags hold and which
\* path its stream has; only at rest may flag and server differ, after a stop
\* that found nobody at the path or got no socket.
Consistent(i) ==
  /\ inst[i].started => inst[i].server
  /\ inst[i].pc \in {"bind", "discard"} => ~inst[i].server /\ inst[i].bound \in Path
  /\ inst[i].pc \in {"wait", "unlink", "close"} => inst[i].started
  /\ inst[i].server /\ inst[i].pc # "close" =>
       inst[i].bound \in Path /\ inst[i].target = inst[i].bound

\* The server's file is at the path it is bound to, unless it was taken, and so a
\* request that was sent while it stood has come to this server.
InPlace(i) ==
  /\ inst[i].server /\ inst[i].pc \in {"idle", "wait"} /\ ~robbed[i] =>
       file[inst[i].bound] = i /\ (inst[i].started \/ starved[i])
  /\ inst[i].pc = "wait" /\ ~robbed[i] => i \in asked[i]

ServiceInv ==
  /\ TypeOK
  /\ \A i \in Instance : Consistent(i) /\ InPlace(i)

\* The properties follow.
LEMMA ServiceInvImplies ==
  ASSUME ServiceInv PROVE OwnFileStands /\ FlagsAgree
BY DEF ServiceInv, Consistent, InPlace, OwnFileStands, FlagsAgree

\* What an action of i leaves to the others: their variables and requests; and
\* a file that is lost to them is lost to their knowledge.
Spares(i) ==
  \A j \in Instance \ {i} :
    /\ inst'[j] = inst[j]
    /\ asked[j] \subseteq asked'[j]
    /\ robbed[j] => robbed'[j]
    /\ starved[j] => starved'[j]
    /\ \A p \in Path : file[p] = j => file'[p] = j \/ robbed'[j]

LEMMA OthersKept ==
  ASSUME ServiceInv, NEW i \in Instance, Spares(i), TypeOK'
  PROVE  \A j \in Instance \ {i} : Consistent(j)' /\ InPlace(j)'
<1> SUFFICES ASSUME NEW j \in Instance \ {i} PROVE Consistent(j)' /\ InPlace(j)'
  OBVIOUS
<1>1. Consistent(j)'
  BY DEF ServiceInv, Consistent, Spares
<1>2. InPlace(j)'
  <2>1. /\ robbed'[j] \in BOOLEAN /\ robbed[j] \in BOOLEAN
        /\ starved'[j] \in BOOLEAN /\ starved[j] \in BOOLEAN
    BY DEF ServiceInv, TypeOK
  <2> QED
    BY <2>1 DEF ServiceInv, Consistent, InPlace, Spares
<1> QED
  BY <1>1, <1>2

LEMMA RemoveSpares ==
  ASSUME TypeOK, NEW i \in Instance, NEW p \in Path, Remove(i, p)
  PROVE  /\ file' \in [Path -> Instance \cup {NoFile, Stale}]
         /\ robbed' \in [Instance -> BOOLEAN]
         /\ robbed'[i] = robbed[i]
         /\ \A j \in Instance \ {i} :
              /\ robbed[j] => robbed'[j]
              /\ \A q \in Path : file[q] = j => file'[q] = j \/ robbed'[j]
<1> USE DEF TypeOK, Remove
<1>1. /\ file' \in [Path -> Instance \cup {NoFile, Stale}]
      /\ \A q \in Path \ {p} : file'[q] = file[q]
  OBVIOUS
<1>2. robbed' \in [Instance -> BOOLEAN]
  OBVIOUS
<1>3. \A j \in Instance : robbed'[j] <=> robbed[j] \/ (j # i /\ file[p] = j)
  OBVIOUS
<1>4. robbed'[i] = robbed[i]
  BY <1>2, <1>3
<1>5. ASSUME NEW j \in Instance \ {i}
      PROVE  /\ robbed[j] => robbed'[j]
             /\ \A q \in Path : file[q] = j => file'[q] = j \/ robbed'[j]
  BY <1>1, <1>3
<1> QED
  BY <1>1, <1>2, <1>4, <1>5

LEMMA CloseSpares ==
  ASSUME TypeOK, NEW i \in Instance, Close(i)
  PROVE  /\ file' \in [Path -> Instance \cup {NoFile, Stale}]
         /\ asked' \in [Instance -> SUBSET Instance]
         /\ robbed' \in [Instance -> BOOLEAN]
         /\ starved' \in [Instance -> BOOLEAN]
         /\ \A j \in Instance \ {i} :
              /\ robbed'[j] = robbed[j] /\ asked'[j] = asked[j]
              /\ starved'[j] = starved[j]
              /\ \A q \in Path : file[q] = j => file'[q] = j
BY DEF TypeOK, Close

\* A step that leaves the files alone and sets variables of i only.
LEMMA OwnStep ==
  ASSUME ServiceInv, NEW i \in Instance, NEW s \in InstanceState,
         inst' = [inst EXCEPT ![i] = s],
         UNCHANGED <<file, robbed, asked, starved>>
  PROVE  TypeOK' /\ Spares(i) /\ inst'[i] = s
BY DEF ServiceInv, TypeOK, Spares

\* Each action keeps the invariant.
LEMMA InitDisplayControlStep ==
  ASSUME ServiceInv, NEW i \in Instance, InitDisplayControl(i)
  PROVE  ServiceInv'
<1>1. PICK found \in BOOLEAN : inst' = [inst EXCEPT ![i].lib = found]
  BY DEF InitDisplayControl
<1> DEFINE s == [inst[i] EXCEPT !.lib = found]
<1>2. s \in InstanceState /\ inst' = [inst EXCEPT ![i] = s]
  BY <1>1 DEF ServiceInv, TypeOK, InstanceState
<1>3. TypeOK' /\ Spares(i) /\ inst'[i] = s
  BY <1>2, OwnStep DEF InitDisplayControl
<1>4. Consistent(i)' /\ InPlace(i)'
  BY <1>3 DEF ServiceInv, TypeOK, InstanceState, Consistent, InPlace, InitDisplayControl
<1> QED
  BY <1>3, <1>4, OthersKept DEF ServiceInv

LEMMA SetPathStep ==
  ASSUME ServiceInv, NEW i \in Instance, NEW p \in Path, SetPath(i, p)
  PROVE  ServiceInv'
<1> DEFINE s == [inst[i] EXCEPT !.address = p]
<1>2. s \in InstanceState /\ inst' = [inst EXCEPT ![i] = s]
  BY DEF ServiceInv, TypeOK, InstanceState, SetPath
<1>3. TypeOK' /\ Spares(i) /\ inst'[i] = s
  BY <1>2, OwnStep DEF SetPath
<1>4. Consistent(i)' /\ InPlace(i)'
  BY <1>3 DEF ServiceInv, TypeOK, InstanceState, Consistent, InPlace, SetPath
<1> QED
  BY <1>3, <1>4, OthersKept DEF ServiceInv

LEMMA StartListeningStep ==
  ASSUME ServiceInv, NEW i \in Instance, StartListening(i)
  PROVE  ServiceInv'
<1> USE DEF ServiceInv, TypeOK, InstanceState
<1>1. inst[i].address \in Path
  BY DEF StartListening, MayStart
<1>2. /\ inst' \in [Instance -> InstanceState]
      /\ \A j \in Instance \ {i} : inst'[j] = inst[j]
      /\ inst'[i].pc = "bind" /\ inst'[i].bound = inst[i].address
      /\ inst'[i].server = inst[i].server /\ inst'[i].started = inst[i].started
  <2> DEFINE s == [inst[i] EXCEPT !.pc = "bind", !.bound = inst[i].address]
  <2>1. inst' = [inst EXCEPT ![i] = s]
    BY DEF StartListening
  <2>2. s \in InstanceState
    <3>1. inst[i] \in InstanceState
      OBVIOUS
    <3> QED
      BY ONLY <3>1, <1>1 DEF InstanceState
  <2> QED
    BY <2>1, <2>2
<1>3. TypeOK' /\ Spares(i)
  BY <1>1, <1>2, RemoveSpares DEF StartListening, Spares
<1>4. Consistent(i)' /\ InPlace(i)'
  BY <1>1, <1>2 DEF Consistent, InPlace, StartListening, MayStart
<1> QED
  BY <1>3, <1>4, OthersKept

LEMMA BindStep ==
  ASSUME ServiceInv, NEW i \in Instance, Bind(i)
  PROVE  ServiceInv'
<1> USE ServiceAssumption DEF ServiceInv, TypeOK, InstanceState
<1>1. inst[i].bound \in Path /\ file[inst[i].bound] = NoFile
  BY DEF Bind, Consistent
<1>2. PICK created \in {TRUE, ~CreateFails} :
        inst' = [inst EXCEPT ![i] =
                  [@ EXCEPT !.pc = "idle", !.server = TRUE, !.started = TRUE,
                            !.target = inst[i].bound,
                            !.thread = IF created THEN "serving" ELSE "none"]]
  BY DEF Bind
<1>3. /\ inst' \in [Instance -> InstanceState]
      /\ \A j \in Instance \ {i} : inst'[j] = inst[j]
      /\ inst'[i].pc = "idle" /\ inst'[i].server /\ inst'[i].started
      /\ inst'[i].bound = inst[i].bound /\ inst'[i].target = inst[i].bound
  <2> DEFINE s == [inst[i] EXCEPT !.pc = "idle", !.server = TRUE, !.started = TRUE,
                     !.target = inst[i].bound,
                     !.thread = IF created THEN "serving" ELSE "none"]
  <2>1. inst' = [inst EXCEPT ![i] = s]
    BY <1>2
  <2>2. s \in InstanceState
    <3>1. inst[i] \in InstanceState
      OBVIOUS
    <3> QED
      BY ONLY <3>1, <1>1 DEF InstanceState
  <2>3. /\ s.pc = "idle" /\ s.server /\ s.started
        /\ s.bound = inst[i].bound /\ s.target = inst[i].bound
    OBVIOUS
  <2> QED
    BY <2>1, <2>2, <2>3
<1>4. /\ file' \in [Path -> Instance \cup {NoFile, Stale}]
      /\ file'[inst[i].bound] = i
      /\ \A p \in Path : file[p] \in Instance => file'[p] = file[p]
  BY <1>1 DEF Bind
<1>5. TypeOK' /\ Spares(i)
  BY <1>3, <1>4 DEF Bind, Spares
<1>6. Consistent(i)' /\ InPlace(i)'
  BY <1>1, <1>3, <1>4 DEF Consistent, InPlace
<1> QED
  BY <1>5, <1>6, OthersKept

LEMMA BindFailsStep ==
  ASSUME ServiceInv, NEW i \in Instance, BindFails(i)
  PROVE  ServiceInv'
<1> DEFINE s == [inst[i] EXCEPT !.pc = "discard"]
<1>1. s \in InstanceState /\ inst' = [inst EXCEPT ![i] = s]
  BY DEF ServiceInv, TypeOK, InstanceState, BindFails
<1>2. TypeOK' /\ Spares(i) /\ inst'[i] = s
  BY <1>1, OwnStep DEF BindFails
<1>3. Consistent(i)' /\ InPlace(i)'
  BY <1>2 DEF ServiceInv, TypeOK, InstanceState, Consistent, InPlace, BindFails
<1> QED
  BY <1>2, <1>3, OthersKept DEF ServiceInv

LEMMA DiscardStep ==
  ASSUME ServiceInv, NEW i \in Instance, Discard(i)
  PROVE  ServiceInv'
<1> USE ServiceAssumption DEF ServiceInv, TypeOK
<1>1. inst[i].bound \in Path /\ ~inst[i].server /\ ~inst[i].started
  BY DEF Discard, Consistent
<1> DEFINE s == [inst[i] EXCEPT !.pc = "idle", !.bound = NoPath]
<1>2. s \in InstanceState
  <2>1. inst[i] \in InstanceState
    OBVIOUS
  <2> QED
    BY ONLY <2>1 DEF InstanceState
<1>3. inst' = [inst EXCEPT ![i] = s]
  BY DEF Discard
<1>4. TypeOK' /\ Spares(i)
  BY <1>1, <1>2, <1>3, RemoveSpares DEF Discard, Spares
<1>5. s.pc = "idle" /\ ~s.server /\ ~s.started
  BY <1>1 DEF InstanceState
<1>6. Consistent(i)' /\ InPlace(i)'
  BY <1>2, <1>3, <1>5 DEF Consistent, InPlace
<1> QED
  BY <1>4, <1>6, OthersKept

LEMMA StopConnectStep ==
  ASSUME ServiceInv, NEW i \in Instance, StopConnect(i)
  PROVE  ServiceInv'
<1> USE DEF ServiceInv, TypeOK
<1>1. /\ inst[i].pc = "idle" /\ inst[i].started /\ inst[i].server
      /\ inst[i].bound \in Path /\ inst[i].target = inst[i].bound
      /\ file[inst[i].bound] \in Instance
  BY DEF StopConnect, Consistent, Answers
<1> DEFINE s == [inst[i] EXCEPT !.pc = "wait"]
<1>2. s \in InstanceState /\ inst' = [inst EXCEPT ![i] = s]
  BY DEF StopConnect, InstanceState
<1>3. /\ asked' \in [Instance -> SUBSET Instance]
      /\ \A j \in Instance : asked[j] \subseteq asked'[j]
      /\ file[inst[i].bound] = i => i \in asked'[i]
  BY <1>1 DEF StopConnect
<1>4. TypeOK' /\ Spares(i)
  BY <1>2, <1>3 DEF StopConnect, Spares
<1>5. /\ inst'[i].pc = "wait" /\ inst'[i].started = inst[i].started
      /\ inst'[i].server = inst[i].server /\ inst'[i].bound = inst[i].bound
      /\ inst'[i].target = inst[i].target
  BY <1>2 DEF InstanceState
<1>6. Consistent(i)' /\ InPlace(i)'
  BY <1>1, <1>3, <1>5 DEF Consistent, InPlace, StopConnect
<1> QED
  BY <1>4, <1>6, OthersKept

LEMMA StopRefusedStep ==
  ASSUME ServiceInv, NEW i \in Instance, StopRefused(i)
  PROVE  ServiceInv'
<1> DEFINE s == [inst[i] EXCEPT !.started = FALSE]
<1>1. s \in InstanceState /\ inst' = [inst EXCEPT ![i] = s]
  BY DEF ServiceInv, TypeOK, InstanceState, StopRefused
<1>2. TypeOK' /\ Spares(i) /\ inst'[i] = s
  BY <1>1, OwnStep DEF StopRefused
<1>3. Consistent(i)' /\ InPlace(i)'
  BY <1>2 DEF ServiceInv, TypeOK, InstanceState, Consistent, InPlace, StopRefused, Answers
<1> QED
  BY <1>2, <1>3, OthersKept DEF ServiceInv

LEMMA StopStarvedStep ==
  ASSUME ServiceInv, NEW i \in Instance, StopStarved(i)
  PROVE  ServiceInv'
<1> USE DEF ServiceInv, TypeOK
<1> DEFINE s == [inst[i] EXCEPT !.started = FALSE]
<1>1. s \in InstanceState /\ inst' = [inst EXCEPT ![i] = s]
  BY DEF InstanceState, StopStarved
<1>2. /\ starved' \in [Instance -> BOOLEAN] /\ starved'[i] = TRUE
      /\ \A j \in Instance : starved[j] => starved'[j]
  BY DEF StopStarved
<1>3. TypeOK' /\ Spares(i)
  BY <1>1, <1>2 DEF StopStarved, Spares
<1>4. /\ inst'[i].pc = "idle" /\ inst'[i].started = FALSE
      /\ inst'[i].server = inst[i].server /\ inst'[i].bound = inst[i].bound
      /\ inst'[i].target = inst[i].target
  BY <1>1 DEF InstanceState, StopStarved
<1>5. Consistent(i)' /\ InPlace(i)'
  BY <1>2, <1>4 DEF Consistent, InPlace, StopStarved
<1> QED
  BY <1>3, <1>5, OthersKept

LEMMA ServerExitsStep ==
  ASSUME ServiceInv, NEW i \in Instance, ServerExits(i)
  PROVE  ServiceInv'
<1> DEFINE s == [inst[i] EXCEPT !.thread = "ended"]
<1>1. s \in InstanceState /\ inst' = [inst EXCEPT ![i] = s]
  BY DEF ServiceInv, TypeOK, InstanceState, ServerExits
<1>2. TypeOK' /\ Spares(i) /\ inst'[i] = s
  BY <1>1, OwnStep DEF ServerExits
<1>3. Consistent(i)' /\ InPlace(i)'
  BY <1>2 DEF ServiceInv, TypeOK, InstanceState, Consistent, InPlace, ServerExits
<1> QED
  BY <1>2, <1>3, OthersKept DEF ServiceInv

LEMMA StopJoinStep ==
  ASSUME ServiceInv, NEW i \in Instance, StopJoin(i)
  PROVE  ServiceInv'
<1> DEFINE s == [inst[i] EXCEPT !.pc = "unlink"]
<1>1. s \in InstanceState /\ inst' = [inst EXCEPT ![i] = s]
  BY DEF ServiceInv, TypeOK, InstanceState, StopJoin
<1>2. TypeOK' /\ Spares(i) /\ inst'[i] = s
  BY <1>1, OwnStep DEF StopJoin
<1>3. Consistent(i)' /\ InPlace(i)'
  BY <1>2 DEF ServiceInv, TypeOK, InstanceState, Consistent, InPlace, StopJoin
<1> QED
  BY <1>2, <1>3, OthersKept DEF ServiceInv

LEMMA StopUnlinkStep ==
  ASSUME ServiceInv, NEW i \in Instance, StopUnlink(i)
  PROVE  ServiceInv'
<1> USE ServiceAssumption DEF ServiceInv, TypeOK
<1>1. inst[i].bound \in Path /\ inst[i].started /\ inst[i].server
  BY DEF StopUnlink, Consistent
<1> DEFINE s == [inst[i] EXCEPT !.pc = "close", !.bound = NoPath]
<1>2. s \in InstanceState
  <2>1. inst[i] \in InstanceState
    OBVIOUS
  <2> QED
    BY ONLY <2>1 DEF InstanceState
<1>3. inst' = [inst EXCEPT ![i] = s]
  BY DEF StopUnlink
<1>4. TypeOK' /\ Spares(i)
  BY <1>1, <1>2, <1>3, RemoveSpares DEF StopUnlink, Spares
<1>5. s.pc = "close" /\ s.server = inst[i].server /\ s.started = inst[i].started
  BY <1>1 DEF InstanceState
<1>6. Consistent(i)' /\ InPlace(i)'
  BY <1>1, <1>2, <1>3, <1>5 DEF Consistent, InPlace
<1> QED
  BY <1>4, <1>6, OthersKept

LEMMA StopCloseStep ==
  ASSUME ServiceInv, NEW i \in Instance, StopClose(i)
  PROVE  ServiceInv'
<1> USE DEF ServiceInv, TypeOK
<1> DEFINE s == [inst[i] EXCEPT !.pc = "idle", !.server = FALSE,
                   !.started = FALSE, !.thread = "none"]
<1>1. s \in InstanceState
  <2>1. inst[i] \in InstanceState
    OBVIOUS
  <2> QED
    BY ONLY <2>1 DEF InstanceState
<1>2. inst' = [inst EXCEPT ![i] = s]
  BY DEF StopClose
<1>3. TypeOK' /\ Spares(i)
  BY <1>1, <1>2, CloseSpares DEF StopClose, Spares
<1>4. s.pc = "idle" /\ s.server = FALSE /\ s.started = FALSE
  BY DEF InstanceState
<1>5. Consistent(i)' /\ InPlace(i)'
  BY <1>2, <1>4 DEF Consistent, InPlace
<1> QED
  BY <1>3, <1>5, OthersKept

LEMMA CrashStep ==
  ASSUME ServiceInv, NEW i \in Instance, Crash(i)
  PROVE  ServiceInv'
<1> USE DEF ServiceInv, TypeOK
<1>1. Fresh \in InstanceState
  BY DEF Fresh, InstanceState
<1>2. TypeOK' /\ Spares(i)
  BY <1>1, CloseSpares DEF Crash, Spares
<1>3. Consistent(i)' /\ InPlace(i)'
  BY DEF Crash, Fresh, Consistent, InPlace
<1> QED
  BY <1>2, <1>3, OthersKept

LEMMA ServiceStep ==
  ASSUME ServiceInv, [Next]_vars
  PROVE  ServiceInv'
<1>1. CASE UNCHANGED vars
  BY <1>1 DEF vars, ServiceInv, TypeOK, Consistent, InPlace
<1>2. CASE Next
  BY <1>2, InitDisplayControlStep, SetPathStep, StartListeningStep, BindStep,
     BindFailsStep, DiscardStep, StopConnectStep, StopRefusedStep, StopStarvedStep,
     StopJoinStep, StopUnlinkStep, StopCloseStep, ServerExitsStep, CrashStep
  DEF Next, Start, Stop
<1> QED
  BY <1>1, <1>2

LEMMA ServiceBegins ==
  ASSUME Init PROVE ServiceInv
<1>1. Fresh \in InstanceState
  BY DEF Fresh, InstanceState
<1>2. TypeOK
  BY <1>1 DEF Init, TypeOK
<1>3. \A i \in Instance : Consistent(i) /\ InPlace(i)
  BY DEF Init, Fresh, Consistent, InPlace
<1> QED
  BY <1>2, <1>3 DEF ServiceInv

-----------------------------------------------------------------------------
\* The variables keep their types.
THEOREM TypeCorrect == Spec => []TypeOK
<1>1. ServiceInv => TypeOK
  BY DEF ServiceInv
<1> QED
  BY <1>1, ServiceBegins, ServiceStep, PTL DEF Spec

\* However many instances start, stop and crash at the same paths: a server whose
\* file was not taken can be reached where its stop will look for it.
THEOREM FileStands == Spec => []OwnFileStands
BY ServiceInvImplies, ServiceBegins, ServiceStep, PTL DEF Spec

\* The flags drift apart between calls only when a server's file was taken or its
\* stop got no socket; any other server can be stopped and started again.
THEOREM FlagsStayTogether == Spec => []FlagsAgree
BY ServiceInvImplies, ServiceBegins, ServiceStep, PTL DEF Spec

\* The comment on the exit request is true of a program that is alone: only
\* another instance at the same path (the run service_takeover) refutes it.
THEOREM AloneReachesItself ==
  ASSUME \A i, j \in Instance : i = j
  PROVE  Spec => []ExitRequestReachesOwnServer
<1> DEFINE Unrobbed == \A i \in Instance : robbed[i] = FALSE
<1>1. Init => Unrobbed
  BY DEF Init
<1>2. ASSUME ServiceInv, Unrobbed, [Next]_vars PROVE Unrobbed'
  <2>1. \A i \in Instance, p \in Path : Remove(i, p) => Unrobbed'
    BY <1>2 DEF Remove, ServiceInv, TypeOK
  <2>2. \A i \in Instance : Close(i) => Unrobbed'
    BY <1>2 DEF Close, ServiceInv, TypeOK
  <2>3. UNCHANGED robbed => Unrobbed'
    BY <1>2
  <2>4. \A i \in Instance :
          /\ StartListening(i) => inst[i].address \in Path
          /\ Discard(i) \/ StopUnlink(i) => inst[i].bound \in Path
    BY <1>2, ServiceAssumption DEF ServiceInv, TypeOK, InstanceState, Consistent,
       StartListening, MayStart, Discard, StopUnlink
  <2>5. CASE UNCHANGED vars
    BY <2>3, <2>5 DEF vars
  <2>6. ASSUME NEW i \in Instance,
               \/ InitDisplayControl(i) \/ (\E p \in Path : SetPath(i, p))
               \/ Bind(i) \/ BindFails(i) \/ StopConnect(i) \/ StopRefused(i)
               \/ StopStarved(i) \/ StopJoin(i) \/ ServerExits(i)
        PROVE  Unrobbed'
    BY <2>3, <2>6 DEF InitDisplayControl, SetPath, Bind, BindFails, StopConnect,
       StopRefused, StopStarved, StopJoin, ServerExits
  <2>7. ASSUME NEW i \in Instance, StartListening(i) \/ Discard(i) \/ StopUnlink(i)
        PROVE  Unrobbed'
    BY <2>1, <2>4, <2>7 DEF StartListening, Discard, StopUnlink
  <2>8. ASSUME NEW i \in Instance, StopClose(i) \/ Crash(i) PROVE Unrobbed'
    BY <2>2, <2>8 DEF StopClose, Crash
  <2> QED
    BY <1>2, <2>5, <2>6, <2>7, <2>8 DEF Next, Start, Stop
<1>3. ServiceInv /\ Unrobbed => ExitRequestReachesOwnServer
  BY DEF ServiceInv, InPlace, ExitRequestReachesOwnServer
<1> QED
  BY <1>1, <1>2, <1>3, ServiceBegins, ServiceStep, PTL DEF Spec
=============================================================================
