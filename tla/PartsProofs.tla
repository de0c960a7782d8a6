---------------------------- MODULE PartsProofs ----------------------------
(* Safety of the parts that stand alone, for any number of callers, threads,  *)
(* pointers and objects.  Each section gives one part's inductive invariant   *)
(* and proves it, action by action.                                           *)
EXTENDS EmuThread, LazyInstance, DecoderCallbacks, SmartPtr, FbClient,
        FiniteSetTheorems, TLAPS

-----------------------------------------------------------------------------
(* EmuThread: a pthread is joined once.                                       *)

\* How the program shares its threads: if one caller waits for a thread, no
\* other one uses its object.  (Where two may wait, the run thread_join shows
\* that the property is lost.)
LoneWaiter ==
  \A u \in Uses : \A c, d \in Caller : "wait" \in u[c] /\ c # d => u[d] = {}

ThreadTypeOK ==
  /\ use \in Uses
  /\ mLock \in Caller \cup {NoCaller}
  /\ mIsRunning \in BOOLEAN /\ mJoined \in BOOLEAN
  /\ pthread \in {"none", "main", "returning", "ended", "reclaimed"}
  /\ cpc \in [Caller -> {"idle", "join", "joinLocked", "mark"}]
  /\ joins \in Nat

\* The flag, the lock and the callers say how far thread and join have come.
PthreadAgrees ==
  /\ mIsRunning => pthread = "main"
  /\ mJoined => pthread = "reclaimed"
  /\ \A c \in Caller :
       /\ cpc[c] = "joinLocked" => mLock = c
       /\ cpc[c] = "mark" => pthread = "reclaimed"
       /\ cpc[c] \in {"join", "mark"} => "wait" \in use[c]
       /\ cpc[c] # "idle" => use[c] # {}

\* A join that was begun is recorded, or its caller is still at it.
JoinAccounted ==
  /\ joins <= 1
  /\ joins = 1 => mJoined \/ \E c \in Caller : cpc[c] # "idle"

ThreadInv == ThreadTypeOK /\ PthreadAgrees /\ JoinAccounted

\* Who begins a join is the first: whoever was before would have recorded it,
\* or would be a second user beside one that waits.
LEMMA FirstToJoin ==
  ASSUME LoneWaiter, ThreadInv, NEW c \in Caller,
         WaitJoins(c) \/ StoppedJoins(c)
  PROVE  joins = 0
<1> USE ThreadAssumption DEF ThreadInv, ThreadTypeOK, PthreadAgrees,
        JoinAccounted, Calls
<1>1. SUFFICES ASSUME joins = 1 PROVE FALSE
  OBVIOUS
<1>2. ~mJoined
  BY DEF WaitJoins, StoppedJoins
<1>3. PICK d \in Caller : cpc[d] # "idle"
  BY <1>1, <1>2
<1>4. c # d /\ use[c] # {} /\ use[d] # {}
  BY <1>3 DEF WaitJoins, StoppedJoins
<1>5. "wait" \in use[c] \/ "wait" \in use[d]
  BY <1>3 DEF WaitJoins, StoppedJoins
<1> QED
  BY <1>4, <1>5 DEF LoneWaiter

LEMMA ThreadStep ==
  ASSUME LoneWaiter, ThreadInv, [ThreadNext]_threadVars
  PROVE  ThreadInv'
<1> USE ThreadAssumption DEF ThreadInv, ThreadTypeOK, PthreadAgrees, JoinAccounted
<1>1. CASE StartPthread
  BY <1>1 DEF StartPthread
<1>2. CASE ThreadStops
  BY <1>2 DEF ThreadStops
<1>3. CASE ThreadReturns
  BY <1>3 DEF ThreadReturns
<1>4. ASSUME NEW c \in Caller, WaitJoins(c) PROVE ThreadInv'
  <2>1. joins = 0
    BY ONLY LoneWaiter, ThreadInv, <1>4, FirstToJoin
  <2>2. ThreadTypeOK' /\ PthreadAgrees'
    BY <1>4 DEF WaitJoins, Calls
  <2>3. joins' = 1 /\ cpc'[c] # "idle"
    BY <2>1, <1>4 DEF WaitJoins
  <2>4. JoinAccounted'
    BY ONLY <2>3, c \in Caller DEF JoinAccounted
  <2> QED
    BY ONLY <2>2, <2>4 DEF ThreadInv
<1>5. ASSUME NEW c \in Caller, StoppedJoins(c) PROVE ThreadInv'
  <2>1. joins = 0
    BY ONLY LoneWaiter, ThreadInv, <1>5, FirstToJoin
  <2>2. ThreadTypeOK' /\ PthreadAgrees'
    BY <1>5 DEF StoppedJoins, Calls
  <2>3. joins' = 1 /\ cpc'[c] # "idle"
    BY <2>1, <1>5 DEF StoppedJoins
  <2>4. JoinAccounted'
    BY ONLY <2>3, c \in Caller DEF JoinAccounted
  <2> QED
    BY ONLY <2>2, <2>4 DEF ThreadInv
<1>6. ASSUME NEW c \in Caller, JoinReturns(c) PROVE ThreadInv'
  BY <1>6 DEF JoinReturns
<1>7. ASSUME NEW c \in Caller, JoinLockedReturns(c) PROVE ThreadInv'
  BY <1>7 DEF JoinLockedReturns
<1>8. ASSUME NEW c \in Caller, MarkJoined(c) PROVE ThreadInv'
  BY <1>8 DEF MarkJoined
<1>9. CASE UNCHANGED threadVars
  BY <1>9 DEF threadVars
<1> QED
  BY <1>1, <1>2, <1>3, <1>4, <1>5, <1>6, <1>7, <1>8, <1>9 DEF ThreadNext

\* pthread_join() is called at most once for any number of callers, if a caller
\* that waits is the only user of the object.
THEOREM JoinedAtMostOnce ==
  ASSUME LoneWaiter PROVE ThreadSpec => []JoinedOnce
<1>1. ASSUME ThreadInit PROVE ThreadInv
  <2>1. ThreadTypeOK
    BY <1>1 DEF ThreadInit, ThreadTypeOK
  <2>2. PthreadAgrees
    BY <1>1 DEF ThreadInit, PthreadAgrees
  <2>3. JoinAccounted
    BY <1>1 DEF ThreadInit, JoinAccounted
  <2> QED
    BY <2>1, <2>2, <2>3 DEF ThreadInv
<1>2. ThreadInv /\ [ThreadNext]_threadVars => ThreadInv'
  BY ThreadStep
<1>3. ThreadInv => JoinedOnce
  BY DEF ThreadInv, JoinAccounted, JoinedOnce
<1> QED
  BY <1>1, <1>2, <1>3, PTL DEF ThreadSpec

-----------------------------------------------------------------------------
(* LazyInstance: in whatever order the stores become visible.                 *)

LazyTypeOK ==
  /\ mState \in {"init", "constructing", "done"}
  /\ lpc \in [LazyThread ->
                {"idle", "swap", "spin", "construct", "publish", "use"}]
  /\ stores \subseteq {"object", "done"}
  /\ visible \in BOOLEAN

\* The threads that construct the object.
InCharge(t) == lpc[t] \in {"construct", "publish"}

\* One thread at most is in charge, and only while STATE_CONSTRUCTING is what
\* all see and nobody has told or been told otherwise.
ConstructedOnce ==
  /\ \A t, u \in LazyThread : InCharge(t) /\ InCharge(u) => t = u
  /\ \A t \in LazyThread : InCharge(t) => mState = "constructing"
  /\ (\E t \in LazyThread : InCharge(t)) \/ mState = "init" =>
       "done" \notin stores /\ \A t \in LazyThread : lpc[t] # "use"

LazyInv == LazyTypeOK /\ ConstructedOnce

LEMMA LazyStepInv ==
  ASSUME LazyInv, [LazyNext]_lazyVars
  PROVE  LazyInv'
<1> USE DEF LazyInv, LazyTypeOK, ConstructedOnce, InCharge
<1>1. ASSUME NEW t \in LazyThread, NeedConstruction(t) PROVE LazyInv'
  BY <1>1 DEF NeedConstruction, LazyGoto
<1>2. ASSUME NEW t \in LazyThread, CompareAndSwap(t) PROVE LazyInv'
  <2>1. CASE mState = "init"
    BY <1>2, <2>1 DEF CompareAndSwap, LazyGoto
  <2>2. CASE mState # "init"
    BY <1>2, <2>2 DEF CompareAndSwap, LazyGoto
  <2> QED
    BY <2>1, <2>2
<1>3. ASSUME NEW t \in LazyThread, Spin(t) PROVE LazyInv'
  BY <1>3 DEF Spin, LazyGoto
<1>4. ASSUME NEW t \in LazyThread, Construct(t) PROVE LazyInv'
  BY <1>4 DEF Construct, LazyGoto
<1>5. ASSUME NEW t \in LazyThread, DoneConstructing(t) PROVE LazyInv'
  BY <1>5 DEF DoneConstructing, LazyGoto
<1>6. ASSUME NEW t \in LazyThread, LazyReturn(t) PROVE LazyInv'
  BY <1>6 DEF LazyReturn, LazyGoto
<1>7. CASE StoreArrives
  <2>1. /\ stores' \subseteq stores /\ visible' \in BOOLEAN /\ UNCHANGED lpc
        /\ mState' = mState \/ ("done" \in stores /\ mState' = "done")
    BY <1>7 DEF StoreArrives
  <2> QED
    BY <2>1
<1>8. CASE UNCHANGED lazyVars
  BY <1>8 DEF lazyVars
<1> QED
  BY <1>1, <1>2, <1>3, <1>4, <1>5, <1>6, <1>7, <1>8 DEF LazyNext, LazyStep

LEMMA LazyBegins ==
  ASSUME LazyInit PROVE LazyInv
BY DEF LazyInit, LazyInv, LazyTypeOK, ConstructedOnce, InCharge

\* For any number of callers and any order of the stores, the object is
\* constructed by one of them, before any other has got it.
THEOREM ConstructedByOne == LazySpec => []OneConstructor
<1>1. LazyInv => OneConstructor
  BY DEF LazyInv, LazyTypeOK, ConstructedOnce, InCharge, OneConstructor
<1> QED
  BY <1>1, LazyBegins, LazyStepInv, PTL DEF LazySpec

\* On a CPU that keeps the order of a thread's stores the object's fields are
\* seen before STATE_DONE.
SeenInOrder ==
  /\ mState = "done" => visible
  /\ "done" \in stores => "object" \in stores \/ visible
  /\ \A t \in LazyThread : lpc[t] = "publish" => "object" \in stores \/ visible
  /\ mState # "done" =>
       \A t, u \in LazyThread : lpc[t] = "use" /\ lpc[u] = "use" => t = u

LEMMA SeenInOrderStep ==
  ASSUME StoreOrder, LazyInv, SeenInOrder, [LazyNext]_lazyVars
  PROVE  SeenInOrder'
<1> USE DEF LazyInv, LazyTypeOK, ConstructedOnce, InCharge, SeenInOrder
<1>1. ASSUME NEW t \in LazyThread,
             NeedConstruction(t) \/ CompareAndSwap(t) \/ Spin(t) \/ LazyReturn(t)
      PROVE  SeenInOrder'
  BY <1>1 DEF NeedConstruction, CompareAndSwap, Spin, LazyReturn, LazyGoto
<1>2. ASSUME NEW t \in LazyThread, Construct(t) PROVE SeenInOrder'
  BY <1>2 DEF Construct, LazyGoto
<1>3. ASSUME NEW t \in LazyThread, DoneConstructing(t) PROVE SeenInOrder'
  BY <1>3 DEF DoneConstructing, LazyGoto
<1>4. CASE StoreArrives
  <2>1. PICK x \in stores :
          /\ x = "done" => "object" \notin stores
          /\ stores' = stores \ {x}
          /\ mState' = IF x = "done" THEN "done" ELSE mState
          /\ visible' = (visible \/ x = "object")
          /\ UNCHANGED lpc
    BY <1>4 DEF StoreArrives
  <2>2. visible => visible'
    BY <2>1
  <2>3. CASE x = "done"
    BY <2>1, <2>2, <2>3
  <2>4. CASE x = "object"
    <3>1. visible' = TRUE
      BY <2>1, <2>4, Zenon
    <3> QED
      BY <2>1, <2>4, <3>1
  <2> QED
    BY <2>3, <2>4
<1>5. CASE UNCHANGED lazyVars
  BY <1>5 DEF lazyVars
<1> QED
  BY <1>1, <1>2, <1>3, <1>4, <1>5 DEF LazyNext, LazyStep

\* There the promise of thread-safe initialisation is kept; without the order it
\* is not (the run lazy_order).
LEMMA CompleteInOrder ==
  ASSUME StoreOrder PROVE LazySpec => []UseComplete
<1>1. LazyInit => SeenInOrder
  BY DEF LazyInit, SeenInOrder
<1>2. LazyInv /\ SeenInOrder => UseComplete
  BY DEF SeenInOrder, UseComplete
<1> QED
  BY <1>1, <1>2, LazyBegins, LazyStepInv, SeenInOrderStep, PTL DEF LazySpec

-----------------------------------------------------------------------------
(* DecoderCallbacks.                                                          *)

CallbackTypeOK ==
  /\ instance \in BOOLEAN
  /\ fields \subseteq Callback
  /\ dpc \in [Threads -> {"idle", "get", "lock", "create", "use"}]
  /\ serving \in [RenderThread -> Callback]
  /\ late \in [RenderThread -> BOOLEAN]
  /\ answer \in [RenderThread -> {"none", "registered", "default"}]

\* Callbacks belong to a decoder, and a call that began when its callback was in
\* place finds it there until it is answered.
CallbacksKept ==
  /\ ~instance => fields = {}
  /\ \A t \in Threads : dpc[t] = "use" => instance
  /\ \A t \in RenderThread : dpc[t] # "idle" /\ late[t] => serving[t] \in fields

CallbackInv == CallbackTypeOK /\ CallbacksKept /\ RegisteredAnswersStick

LEMMA CallbackStep ==
  ASSUME CallbackInv, [CallbackNext]_callbackVars
  PROVE  CallbackInv' /\ fields \subseteq fields'
<1> USE CallbackAssumption
    DEF CallbackInv, CallbackTypeOK, CallbacksKept, RegisteredAnswersStick,
        Threads, DecoderGoto
<1> DEFINE Goal == CallbackInv' /\ fields \subseteq fields'
<1>1. ASSUME NEW t \in Threads, GetInstance(t) PROVE Goal
  BY <1>1 DEF GetInstance
<1>2. ASSUME NEW t \in Threads, LockDecoder(t) PROVE Goal
  BY <1>2 DEF LockDecoder
<1>3. ASSUME NEW t \in Threads, Create(t) PROVE Goal
  <2>1. fields' = fields
    BY <1>3 DEF Create
  <2> QED
    BY <1>3, <2>1 DEF Create
<1>4. ASSUME NEW t \in RenderThread, AnswerRegistered(t) PROVE Goal
  BY <1>4 DEF AnswerRegistered
<1>5. ASSUME NEW t \in RenderThread, AnswerDefault(t) PROVE Goal
  BY <1>5 DEF AnswerDefault
<1>6. ASSUME NEW t \in RenderThread, NEW c \in Callback, BeginCall(t, c) PROVE Goal
  <2>1. late'[t] = TRUE => c \in fields
    BY <1>6 DEF BeginCall
  <2>2. late' \in [RenderThread -> BOOLEAN]
    BY <1>6 DEF BeginCall
  <2>3. CallbackTypeOK' /\ UNCHANGED <<instance, fields, answer>>
    BY <1>6, <2>2 DEF BeginCall
  <2>4. \A u \in RenderThread :
          u # t => dpc'[u] = dpc[u] /\ late'[u] = late[u] /\ serving'[u] = serving[u]
    BY <1>6 DEF BeginCall
  <2>5. dpc'[t] = "get" /\ serving'[t] = c
    BY <1>6 DEF BeginCall
  <2>6. CallbacksKept'
    BY <1>6, <2>1, <2>3, <2>4, <2>5 DEF BeginCall
  <2>7. RegisteredAnswersStick'
    BY <2>3, <2>4, <2>5
  <2> QED
    BY <2>3, <2>6, <2>7
<1>7. CASE Register
  <2>1. fields \subseteq fields' /\ fields' \subseteq Callback
    BY <1>7 DEF Register
  <2> QED
    BY <1>7, <2>1 DEF Register
<1>8. CASE UNCHANGED callbackVars
  BY <1>8 DEF callbackVars
<1> QED
  BY <1>1, <1>2, <1>3, <1>4, <1>5, <1>6, <1>7, <1>8 DEF CallbackNext

\* For any number of render threads, whoever creates the decoder: a call that
\* began after its callback was registered is answered by it.
THEOREM AnswersStick ==
  ASSUME Registered # <<>> PROVE CallbackSpec => []RegisteredAnswersStick
<1>1. ASSUME CallbackInit PROVE CallbackInv
  <2>1. Head(Registered) \in Callback
    BY CallbackAssumption
  <2>2. CallbackTypeOK
    BY <1>1, <2>1 DEF CallbackInit, CallbackTypeOK, Threads
  <2>3. CallbacksKept /\ RegisteredAnswersStick
    BY <1>1 DEF CallbackInit, CallbacksKept, RegisteredAnswersStick, Threads
  <2> QED
    BY <2>2, <2>3 DEF CallbackInv
<1>2. CallbackInv /\ [CallbackNext]_callbackVars => CallbackInv'
  BY CallbackStep
<1>3. CallbackInv => RegisteredAnswersStick
  BY DEF CallbackInv
<1> QED
  BY <1>1, <1>2, <1>3, PTL DEF CallbackSpec

-----------------------------------------------------------------------------
(* FbClient.                                                                  *)

\* While the server runs, a failure leaves a descriptor that works or none.
FbInv ==
  /\ listening \in BOOLEAN /\ posting \in BOOLEAN
  /\ connFd \in {"none", "open", "dead"}
  /\ failures \in Nat
  /\ listening => failures <= 1
  /\ listening /\ failures = 1 => connFd # "dead"

\* However often the server restarts or closes connections, the client loses one
\* call each time at most.
THEOREM OneCallPerLoss == FbSpec => []OneFailurePerLoss
<1>1. ASSUME FbInit PROVE FbInv
  BY <1>1 DEF FbInit, FbInv
<1>2. ASSUME FbInv, [FbNext]_fbVars PROVE FbInv'
  <2> USE <1>2 DEF FbInv
  <2>1. CASE ServerStarts
    BY <2>1 DEF ServerStarts
  <2>2. CASE ServerEnds
    BY <2>2 DEF ServerEnds, Lost
  <2>3. CASE ServerDrops
    BY <2>3 DEF ServerDrops, Lost
  <2>4. CASE WriteRequest
    BY <2>4 DEF WriteRequest, ConnFd
  <2>5. CASE WriteFails
    BY <2>5 DEF WriteFails, ConnFd, Fail
  <2>6. CASE ReadResult
    BY <2>6 DEF ReadResult
  <2>7. CASE ReadFails
    <3>1. connFd = "dead" /\ connFd' = "none" /\ failures' = failures + 1
      BY <2>7 DEF ReadFails, Fail
    <3>2. posting' \in BOOLEAN /\ listening' \in BOOLEAN /\ listening' = listening
      BY <2>7 DEF ReadFails
    <3> QED
      BY <3>1, <3>2
  <2>8. CASE UNCHANGED fbVars
    BY <2>8 DEF fbVars
  <2> QED
    BY <2>1, <2>2, <2>3, <2>4, <2>5, <2>6, <2>7, <2>8 DEF FbNext
<1>3. FbInv => OneFailurePerLoss
  BY DEF FbInv, OneFailurePerLoss
<1> QED
  BY <1>1, <1>2, <1>3, PTL DEF FbSpec

-----------------------------------------------------------------------------
(* SmartPtr.                                                                  *)

Oper == [dst : Pointer \cup {NoPointer}, src : Pointer \cup {NoPointer},
         old : Object \cup {NoObject}]

PtrTypeOK ==
  /\ mPtr \in [Pointer -> Object \cup {NoObject}]
  /\ mCount \in [Object -> Nat]
  /\ object \in [Object -> {"unused", "alive", "deleted"}]
  /\ oper \in [PtrThread -> Oper]

\* The pointers to an object, which its count counts.
Holders(o) == {p \in Pointer : mPtr[p] = o}
Counted == \A o \in Object : mCount[o] = Cardinality(Holders(o))

\* Whoever copies has emptied its pointer before, and nobody else uses it.
CopiesApart ==
  /\ \A t \in PtrThread :
       oper[t].src # NoPointer =>
         oper[t].dst # NoPointer /\ mPtr[oper[t].dst] = NoObject
  /\ \A t, u \in PtrThread :
       t # u /\ oper[t].dst # NoPointer =>
         oper[t].dst \notin {oper[u].dst, oper[u].src}

PtrInv == PtrTypeOK /\ Counted /\ CopiesApart /\ DeletedWhenUnheld

\* A set that gains or loses one member; the count says when the last one goes.
LEMMA OneMore ==
  ASSUME NEW S, NEW x, IsFiniteSet(S), x \notin S
  PROVE  Cardinality(S \cup {x}) = Cardinality(S) + 1
BY FS_AddElement

LEMMA OneLess ==
  ASSUME NEW S, NEW x, IsFiniteSet(S), x \in S
  PROVE  /\ Cardinality(S) \in Nat /\ Cardinality(S) # 0
         /\ Cardinality(S \ {x}) = Cardinality(S) - 1
         /\ Cardinality(S) = 1 <=> S \ {x} = {}
<1>1. Cardinality(S) \in Nat /\ Cardinality(S \ {x}) = Cardinality(S) - 1
  BY FS_RemoveElement, FS_CardinalityType
<1>2. IsFiniteSet(S \ {x})
  BY FS_RemoveElement
<1>3. Cardinality(S \ {x}) \in Nat
  BY <1>2, FS_CardinalityType
<1>4. Cardinality(S \ {x}) = 0 <=> S \ {x} = {}
  BY <1>2, FS_EmptySet
<1> QED
  BY <1>1, <1>3, <1>4

LEMMA HoldersFinite ==
  ASSUME NEW o \in Object
  PROVE  IsFiniteSet(Holders(o)) /\ Cardinality(Holders(o)) \in Nat
<1>1. Holders(o) \subseteq Pointer
  BY DEF Holders
<1> QED
  BY <1>1, PtrAssumption, FS_Subset, FS_CardinalityType

LEMMA TakeOwnershipStep ==
  ASSUME PtrInv, NEW p \in Pointer, NEW o \in Object, TakeOwnership(p, o)
  PROVE  PtrInv'
<1> USE PtrAssumption DEF PtrInv, PtrTypeOK, Oper
<1>1. Holders(o) = {} /\ \A t \in PtrThread : oper[t].old # o
  BY DEF TakeOwnership, DeletedWhenUnheld, Holders
<1>2. Holders(o)' = {p} /\ \A x \in Object \ {o} : Holders(x)' = Holders(x)
  BY <1>1 DEF TakeOwnership, Holders
<1>3. PtrTypeOK'
  BY DEF TakeOwnership
<1>4. Counted'
  BY <1>2, FS_Singleton DEF TakeOwnership, Counted
<1>5. CopiesApart'
  BY DEF TakeOwnership, CopiesApart, MayWrite
<1>6. DeletedWhenUnheld'
  BY <1>1 DEF TakeOwnership, DeletedWhenUnheld
<1> QED
  BY <1>3, <1>4, <1>5, <1>6

\* A pointer that held nothing gets an object that another one holds.
LEMMA CopiedStep ==
  ASSUME PtrInv, NEW p \in Pointer, NEW o \in Object, Holders(o) # {},
         mPtr[p] = NoObject, mPtr' = [mPtr EXCEPT ![p] = o],
         mCount' = [mCount EXCEPT ![o] = @ + 1], UNCHANGED object,
         oper' \in [PtrThread -> Oper],
         \A t \in PtrThread : oper'[t].old = oper[t].old
  PROVE  PtrTypeOK' /\ Counted' /\ DeletedWhenUnheld'
<1> USE PtrAssumption DEF PtrInv, PtrTypeOK
<1>1. Holders(o)' = Holders(o) \cup {p} /\ p \notin Holders(o)
  BY DEF Holders
<1>2. \A x \in Object \ {o} : Holders(x)' = Holders(x)
  BY DEF Holders
<1>3. PtrTypeOK'
  OBVIOUS
<1>4. Counted'
  <2>1. mCount'[o] = Cardinality(Holders(o)')
    BY <1>1, HoldersFinite, OneMore DEF Counted
  <2> QED
    BY <1>2, <2>1 DEF Counted
<1>5. DeletedWhenUnheld'
  <2>1. PICK q \in Pointer : mPtr[q] = o
    BY DEF Holders
  <2>2. \A t \in PtrThread : oper[t].old # o
    BY <2>1 DEF DeletedWhenUnheld
  <2>3. object[o] = "alive"
    BY <2>1 DEF DeletedWhenUnheld
  <2>4. \A x \in Object \ {o} :
          (\E r \in Pointer : mPtr'[r] = x) <=> (\E r \in Pointer : mPtr[r] = x)
    OBVIOUS
  <2>5. \A r \in Pointer : mPtr'[r] = mPtr[r] \/ mPtr'[r] = o
    OBVIOUS
  <2>6. mPtr'[p] = o
    OBVIOUS
  <2>7. ASSUME NEW x \in Object
        PROVE  object'[x] = "alive" <=> \/ \E r \in Pointer : mPtr'[r] = x
                                        \/ \E t \in PtrThread : oper'[t].old = x
    BY <2>3, <2>4, <2>6 DEF DeletedWhenUnheld
  <2>8. \A x \in Object, t \in PtrThread, r \in Pointer :
          oper'[t].old = x => mPtr'[r] # x
    BY <2>2, <2>5 DEF DeletedWhenUnheld
  <2> QED
    BY <2>7, <2>8 DEF DeletedWhenUnheld
<1> QED
  BY <1>3, <1>4, <1>5

LEMMA CopyConstructStep ==
  ASSUME PtrInv, NEW p \in Pointer, NEW q \in Pointer, CopyConstruct(p, q)
  PROVE  PtrInv'
<1> USE PtrAssumption DEF PtrInv
<1>1. mPtr[q] \in Object /\ Holders(mPtr[q]) # {}
  BY DEF CopyConstruct, Holders, PtrTypeOK
<1>2. PtrTypeOK' /\ Counted' /\ DeletedWhenUnheld'
  BY <1>1, CopiedStep DEF CopyConstruct, PtrTypeOK
<1>3. CopiesApart'
  BY DEF CopyConstruct, CopiesApart, MayWrite, PtrTypeOK, Oper
<1> QED
  BY <1>2, <1>3

LEMMA CopyStep ==
  ASSUME PtrInv, NEW t \in PtrThread, Copy(t)
  PROVE  PtrInv'
<1> USE PtrAssumption DEF PtrInv
<1> DEFINE p == oper[t].dst
           q == oper[t].src
<1>1. /\ p \in Pointer /\ q \in Pointer /\ mPtr[p] = NoObject
      /\ oper' = [oper EXCEPT ![t].src = NoPointer] /\ UNCHANGED object
      /\ mPtr' = [mPtr EXCEPT ![p] = mPtr[q]]
  BY DEF Copy, CopiesApart, PtrTypeOK, Oper
<1>2. oper' \in [PtrThread -> Oper] /\ \A u \in PtrThread : oper'[u].old = oper[u].old
  BY <1>1 DEF PtrTypeOK, Oper
<1>5. CopiesApart'
  BY <1>1 DEF CopiesApart, PtrTypeOK, Oper
<1>3. CASE mPtr[q] = NoObject
  <2>1. mPtr' = mPtr /\ mCount' = mCount
    BY <1>1, <1>3 DEF Copy, PtrTypeOK
  <2>2. PtrTypeOK' /\ Counted'
    BY <1>1, <1>2, <2>1 DEF PtrTypeOK, Counted, Holders
  <2>3. DeletedWhenUnheld'
    BY <1>1, <1>2, <2>1 DEF DeletedWhenUnheld
  <2> QED
    BY <1>5, <2>2, <2>3
<1>4. ASSUME NEW o \in Object, mPtr[q] = o PROVE PtrInv'
  <2>1. Holders(o) # {}
    BY <1>1, <1>4 DEF Holders
  <2>2. mCount' = [mCount EXCEPT ![o] = @ + 1]
    BY <1>4 DEF Copy
  <2>3. mPtr' = [mPtr EXCEPT ![p] = o]
    BY <1>1, <1>4
  <2>4. PtrTypeOK' /\ Counted' /\ DeletedWhenUnheld'
    BY <1>1, <1>2, <2>1, <2>2, <2>3, CopiedStep
  <2> QED
    BY <1>5, <2>4
<1>6. mPtr[q] \in Object \cup {NoObject}
  BY <1>1 DEF PtrTypeOK
<1> QED
  BY <1>3, <1>4, <1>6

LEMMA ReleaseStep ==
  ASSUME PtrInv, NEW t \in PtrThread, NEW p \in Pointer,
         NEW q \in Pointer \cup {NoPointer}, Release(t, p, q)
  PROVE  PtrInv'
<1> USE PtrAssumption DEF PtrInv
<1> DEFINE kept == IF Last(p) THEN mPtr[p] ELSE NoObject
<1>1. /\ mPtr' = [mPtr EXCEPT ![p] = NoObject] /\ UNCHANGED object
      /\ oper' = [oper EXCEPT ![t] = [dst |-> p, src |-> q, old |-> kept]]
      /\ mCount' = Released(p) /\ oper[t] = NoOper
  BY DEF Release
<1>2. kept \in Object \cup {NoObject}
  BY DEF PtrTypeOK
<1> HIDE DEF kept
<1>3. oper' \in [PtrThread -> Oper]
  BY <1>1, <1>2 DEF PtrTypeOK, Oper
<1>4. \A u \in PtrThread \ {t} : oper'[u] = oper[u]
  BY <1>1 DEF PtrTypeOK
<1>5. oper'[t].dst = p /\ oper'[t].src = q /\ oper'[t].old = kept
  BY <1>1 DEF PtrTypeOK
<1>6. CopiesApart'
  <2>1. \A u \in PtrThread : p \notin {oper[u].dst, oper[u].src}
    BY DEF Release, MayWrite
  <2>2. \A u \in PtrThread : oper[u].dst # NoPointer => q # oper[u].dst
    BY DEF Release, MayRead
  <2> QED
    BY <1>1, <1>4, <1>5, <2>1, <2>2 DEF CopiesApart, PtrTypeOK, Oper
<1>7. CASE mPtr[p] = NoObject
  <2>1. kept = NoObject /\ mCount' = mCount /\ mPtr' = mPtr
    BY <1>1, <1>7 DEF kept, Last, Released, PtrTypeOK
  <2>2. oper[t].old = NoObject
    BY <1>1 DEF NoOper
  <2>3. PtrTypeOK' /\ Counted'
    BY <1>1, <1>3, <2>1 DEF PtrTypeOK, Counted, Holders
  <2>4. DeletedWhenUnheld'
    BY <1>1, <1>4, <1>5, <2>1, <2>2 DEF DeletedWhenUnheld
  <2> QED
    BY <1>6, <2>3, <2>4
<1>8. ASSUME NEW o \in Object, mPtr[p] = o PROVE PtrInv'
  <2>1. o # NoObject /\ p \in Holders(o) /\ IsFiniteSet(Holders(o))
    BY <1>8, HoldersFinite DEF PtrTypeOK, Holders
  <2>2. /\ Holders(o)' = Holders(o) \ {p}
        /\ \A x \in Object \ {o} : Holders(x)' = Holders(x)
    BY <1>1, <1>8, <2>1 DEF Holders, PtrTypeOK
  <2>3. /\ mCount[o] \in Nat /\ mCount[o] # 0
        /\ mCount[o] - 1 = Cardinality(Holders(o)')
        /\ mCount[o] = 1 <=> Holders(o)' = {}
    BY <2>1, <2>2, OneLess DEF Counted
  <2>4. mCount' = [mCount EXCEPT ![o] = @ - 1]
    BY <1>1, <1>8, <2>1 DEF Released
  <2>5. PtrTypeOK' /\ Counted'
    BY <1>1, <1>3, <2>1, <2>2, <2>3, <2>4 DEF PtrTypeOK, Counted
  <2>6. /\ kept = o \/ kept = NoObject
        /\ kept = o <=> ~\E r \in Pointer : mPtr'[r] = o
    <3>1. kept = IF mCount[o] = 1 THEN o ELSE NoObject
      BY <1>8, <2>1 DEF kept, Last
    <3>2. Holders(o)' = {} <=> ~\E r \in Pointer : mPtr'[r] = o
      BY DEF Holders
    <3> QED
      BY <2>1, <2>3, <3>1, <3>2
  <2>7. object[o] = "alive" /\ \A u \in PtrThread : oper[u].old # o
    BY <1>8, <2>1 DEF DeletedWhenUnheld
  <2>8. \A x \in Object \ {o} :
          (\E r \in Pointer : mPtr'[r] = x) <=> (\E r \in Pointer : mPtr[r] = x)
    BY <1>1, <1>8, <2>1 DEF PtrTypeOK
  <2>9. oper[t].old = NoObject
    BY <1>1 DEF NoOper
  <2>10. DeletedWhenUnheld'
    BY <1>1, <1>4, <1>5, <2>1, <2>6, <2>7, <2>8, <2>9 DEF DeletedWhenUnheld, PtrTypeOK
  <2> QED
    BY <1>6, <2>5, <2>10
<1>9. mPtr[p] \in Object \cup {NoObject}
  BY DEF PtrTypeOK
<1> QED
  BY <1>7, <1>8, <1>9

LEMMA DeleteOldStep ==
  ASSUME PtrInv, NEW t \in PtrThread, DeleteOld(t)
  PROVE  PtrInv'
<1> USE PtrAssumption DEF PtrInv, PtrTypeOK, Oper
<1>1. /\ oper' = [oper EXCEPT ![t] = NoOper] /\ UNCHANGED <<mPtr, mCount>>
      /\ NoOper \in Oper
  BY DEF DeleteOld, NoOper
<1>2. /\ \A u \in PtrThread \ {t} : oper'[u] = oper[u]
      /\ oper'[t].old = NoObject /\ oper'[t].dst = NoPointer
      /\ oper'[t].src = NoPointer
  BY <1>1 DEF NoOper
<1>3. PtrTypeOK'
  BY <1>1 DEF DeleteOld
<1>4. Counted' /\ CopiesApart'
  BY <1>1, <1>2 DEF Counted, Holders, CopiesApart
<1>5. DeletedWhenUnheld'
  <2>1. \A x \in Object : x # oper[t].old => object'[x] = object[x]
    BY DEF DeleteOld
  <2>2. oper[t].old \in Object => object'[oper[t].old] = "deleted"
    BY DEF DeleteOld
  <2> QED
    BY <1>1, <1>2, <2>1, <2>2 DEF DeletedWhenUnheld
<1> QED
  BY <1>3, <1>4, <1>5

\* For any number of threads, pointers and objects: an object is deleted when the
\* last pointer lets go of it, not before, not twice, and none leaks.
THEOREM DeletedOnceUnheld == PtrSpec => []DeletedWhenUnheld
<1>1. ASSUME PtrInit PROVE PtrInv
  <2>1. PtrTypeOK
    BY <1>1 DEF PtrInit, PtrTypeOK, Oper, NoOper
  <2>2. \A o \in Object : Holders(o) = {}
    BY <1>1, PtrAssumption DEF PtrInit, Holders
  <2>3. Counted
    BY <1>1, <2>2, FS_EmptySet DEF PtrInit, Counted
  <2>4. CopiesApart
    BY <1>1 DEF PtrInit, NoOper, CopiesApart
  <2>5. DeletedWhenUnheld
    BY <1>1, PtrAssumption DEF PtrInit, NoOper, DeletedWhenUnheld
  <2> QED
    BY <2>1, <2>3, <2>4, <2>5 DEF PtrInv
<1>2. ASSUME PtrInv, [PtrNext]_ptrVars PROVE PtrInv'
  <2>1. CASE UNCHANGED ptrVars
    BY <1>2, <2>1 DEF ptrVars, PtrInv, PtrTypeOK, Counted, Holders, CopiesApart,
       DeletedWhenUnheld
  <2>2. CASE PtrNext
    BY <1>2, <2>2, TakeOwnershipStep, CopyConstructStep, ReleaseStep, CopyStep,
       DeleteOldStep DEF PtrNext
  <2> QED
    BY <1>2, <2>1, <2>2
<1>3. PtrInv => DeletedWhenUnheld
  BY DEF PtrInv
<1> QED
  BY <1>1, <1>2, <1>3, PTL DEF PtrSpec
=============================================================================
