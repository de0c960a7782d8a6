-------------------------- MODULE DecoderCallbacks --------------------------
(* DisplayControlDecoder: the singleton that holds the program's callbacks.   *)
(* Render threads ask it for each call they decode, while main() registers    *)
(* the callbacks after the server has started.  Stores are taken to become    *)
(* visible in order (see LazyInstance for what depends on that).              *)
EXTENDS Naturals, Sequences

CONSTANTS
  RenderThread,
  MainThread,
  Callback,    \* the decoder's function pointers
  Registered,  \* those main() sets, in the order in which it does
  NoThread

ASSUME CallbackAssumption ==
  /\ MainThread \notin RenderThread
  /\ NoThread \notin RenderThread \cup {MainThread}
  /\ Registered \in Seq(Callback)

VARIABLES
  instance,  \* m_pInstance is not NULL
  fields,    \* the callbacks that are not NULL
  dlock,     \* the holder of DisplayControlDecoder::lock
  dpc,       \* each thread's position in getInstance() and behind it
  serving,   \* the callback a render thread's call asks for
  late,      \* history: it had been registered before the call began
  answer     \* history: what the thread's last call was answered with

callbackVars == <<instance, fields, dlock, dpc, serving, late, answer>>

Threads == RenderThread \cup {MainThread}

CallbackInit ==
  /\ instance = FALSE /\ fields = {} /\ dlock = NoThread
  /\ dpc = [t \in Threads |-> IF t = MainThread THEN "get" ELSE "idle"]
  /\ serving = [t \in RenderThread |-> Head(Registered)]
  /\ late = [t \in RenderThread |-> FALSE]
  /\ answer = [t \in RenderThread |-> "none"]

DecoderGoto(t, from, to) == dpc[t] = from /\ dpc' = [dpc EXCEPT ![t] = to]

\* A dec_* function is called for a decoded packet.
BeginCall(t, c) ==
  /\ DecoderGoto(t, "idle", "get")
  /\ serving' = [serving EXCEPT ![t] = c]
  /\ late' = [late EXCEPT ![t] = c \in fields]
  /\ UNCHANGED <<instance, fields, dlock, answer>>

\* getInstance() without the lock.
GetInstance(t) ==
  /\ DecoderGoto(t, "get", IF instance THEN "use" ELSE "lock")
  /\ UNCHANGED <<instance, fields, dlock, serving, late, answer>>

LockDecoder(t) ==
  /\ dlock = NoThread
  /\ DecoderGoto(t, "lock", "create")
  /\ dlock' = t
  /\ UNCHANGED <<instance, fields, serving, late, answer>>

\* Faulty variant: m_pInstance is not tested again under the lock.
CreateUntested(t) ==
  /\ DecoderGoto(t, "create", "use")
  /\ instance' = TRUE
  /\ fields' = {}
  /\ dlock' = NoThread
  /\ UNCHANGED <<serving, late, answer>>

\* Under the lock m_pInstance is tested again; a new decoder has no callbacks.
Create(t) ==
  /\ DecoderGoto(t, "create", "use")
  /\ instance' = TRUE
  /\ fields' = IF instance THEN fields ELSE {}
  /\ dlock' = NoThread
  /\ UNCHANGED <<serving, late, answer>>

\* The program's callback is called ...
AnswerRegistered(t) ==
  /\ DecoderGoto(t, "use", "idle") /\ serving[t] \in fields
  /\ answer' = [answer EXCEPT ![t] = "registered"]
  /\ UNCHANGED <<instance, fields, dlock, serving, late>>

\* ... or the built-in default is returned.
AnswerDefault(t) ==
  /\ DecoderGoto(t, "use", "idle") /\ serving[t] \notin fields
  /\ answer' = [answer EXCEPT ![t] = "default"]
  /\ UNCHANGED <<instance, fields, dlock, serving, late>>

\* main() sets the next callback.
Register ==
  /\ dpc[MainThread] = "use"
  /\ \E k \in DOMAIN Registered :
       /\ \A j \in DOMAIN Registered : Registered[j] \in fields <=> j < k
       /\ fields' = fields \cup {Registered[k]}
  /\ UNCHANGED <<instance, dlock, dpc, serving, late, answer>>

CallbackNext ==
  \/ \E t \in Threads : GetInstance(t) \/ LockDecoder(t) \/ Create(t)
  \/ \E t \in RenderThread :
       \/ AnswerRegistered(t) \/ AnswerDefault(t)
       \/ \E c \in Callback : BeginCall(t, c)
  \/ Register

CallbackSpec == CallbackInit /\ [][CallbackNext]_callbackVars

\* Guests are served before main() has registered its callbacks, and then get
\* the defaults.  But no callback that was in place when a call began is lost
\* again, whichever threads create the decoder meanwhile.
RegisteredAnswersStick ==
  \A t \in RenderThread :
    dpc[t] = "idle" /\ late[t] => answer[t] = "registered"
=============================================================================
