---------------------------- MODULE LazyInstance ----------------------------
(* emugl::LazyInstance: the first caller of ptr() constructs the object, the  *)
(* others wait.  Its barriers bind the compiler only, also on ARM, so that    *)
(* the order in which the constructor's stores and STATE_DONE become visible  *)
(* is the CPU's.                                                              *)
CONSTANTS
  LazyThread,  \* the callers
  StoreOrder   \* does the CPU keep the order of a thread's stores?

ASSUME LazyAssumption == StoreOrder \in BOOLEAN

VARIABLES
  mState,   \* "init", "constructing" or "done", as the other threads see it
  lpc,      \* each caller's position in ptr()
  stores,   \* what the constructing thread stored and nobody sees: "object", "done"
  visible   \* the object's fields are visible to the other threads

lazyVars == <<mState, lpc, stores, visible>>

LazyInit ==
  /\ mState = "init"
  /\ lpc = [t \in LazyThread |-> "idle"]
  /\ stores = {}
  /\ visible = FALSE

LazyGoto(t, from, to) == lpc[t] = from /\ lpc' = [lpc EXCEPT ![t] = to]

\* needConstruction() reads mState; a thread sees its own stores.
NeedConstruction(t) ==
  /\ LazyGoto(t, "idle", IF mState = "done" THEN "use" ELSE "swap")
  /\ UNCHANGED <<mState, stores, visible>>

\* Faulty variant: the state is read and written in two steps.
CompareAndSwapInTwo(t) ==
  \/ /\ mState = "init"
     /\ LazyGoto(t, "swap", "write")
     /\ UNCHANGED <<mState, stores, visible>>
  \/ /\ LazyGoto(t, "write", "construct")
     /\ mState' = "constructing"
     /\ UNCHANGED <<stores, visible>>
  \/ /\ mState # "init"
     /\ LazyGoto(t, "swap", "spin")
     /\ UNCHANGED <<mState, stores, visible>>

\* One caller finds "init" and constructs; the others wait.
CompareAndSwap(t) ==
  /\ LazyGoto(t, "swap", IF mState = "init" THEN "construct" ELSE "spin")
  /\ mState' = IF mState = "init" THEN "constructing" ELSE mState
  /\ UNCHANGED <<stores, visible>>

Spin(t) ==
  /\ mState = "done"
  /\ LazyGoto(t, "spin", "use")
  /\ UNCHANGED <<mState, stores, visible>>

Construct(t) ==
  /\ LazyGoto(t, "construct", "publish")
  /\ stores' = stores \cup {"object"}
  /\ UNCHANGED <<mState, visible>>

\* Faulty variant: the constructor is done, and nobody is told.
DoneQuietly(t) ==
  /\ LazyGoto(t, "publish", "use")
  /\ UNCHANGED <<mState, stores, visible>>

DoneConstructing(t) ==
  /\ LazyGoto(t, "publish", "use")
  /\ stores' = stores \cup {"done"}
  /\ UNCHANGED <<mState, visible>>

\* A store reaches the other threads: any of them, or the one of the object
\* first.
StoreArrives ==
  \E x \in stores :
    /\ StoreOrder /\ x = "done" => "object" \notin stores
    /\ stores' = stores \ {x}
    /\ mState' = IF x = "done" THEN "done" ELSE mState
    /\ visible' = (visible \/ x = "object")
    /\ UNCHANGED lpc

\* The caller is done with the object; it may ask for it again once its own
\* stores have left.
LazyReturn(t) ==
  /\ LazyGoto(t, "use", "idle") /\ stores = {}
  /\ UNCHANGED <<mState, stores, visible>>

LazyStep(t) ==
  \/ NeedConstruction(t) \/ CompareAndSwap(t) \/ Spin(t)
  \/ Construct(t) \/ DoneConstructing(t) \/ LazyReturn(t)

LazyNext == (\E t \in LazyThread : LazyStep(t)) \/ StoreArrives

LazyFairness ==
  /\ \A t \in LazyThread : WF_lazyVars(lpc[t] # "idle" /\ LazyStep(t))
  /\ WF_lazyVars(StoreArrives)

LazySpec == LazyInit /\ [][LazyNext]_lazyVars /\ LazyFairness

\* One caller constructs the object, once: not two at a time, and not under the
\* hands of one that has got it, in whatever order the stores become visible.
OneConstructor ==
  \A t, u \in LazyThread :
    t # u /\ lpc[t] \in {"construct", "publish"}
      => lpc[u] \notin {"construct", "publish", "use"}

\* "Thread-safe lazy initialization": of two callers that use the object, the one
\* that did not construct it finds it constructed.
UseComplete ==
  \A t, u \in LazyThread :
    t # u /\ lpc[t] = "use" /\ lpc[u] = "use" => visible

\* Every caller gets the object, those that wait for the constructing one too.
EveryCallerServed ==
  \A t \in LazyThread : lpc[t] # "idle" ~> lpc[t] = "use"
=============================================================================
