------------------------------ MODULE MCParts ------------------------------
(* Small instances of the parts that stand alone.  A behaviour is about one   *)
(* part, chosen at its start; the others keep their initial state.            *)
EXTENDS MCEmuThread, LazyInstance, DecoderCallbacks, SmartPtr,
        UniqueIntegerMap, IdToObjectMap, FbClient

\* main() sets some of the callbacks only.
MCRegistered == <<"width", "fps">>

VARIABLE part

PartsInit ==
  /\ part \in {"thread", "lazy", "callbacks", "pointer", "integers", "objects",
               "forwarding"}
  /\ ThreadInit /\ (part # "thread" => use = [c \in Caller |-> {"tryWait"}])
  /\ LazyInit /\ CallbackInit /\ PtrInit
  /\ MapInit /\ (part # "integers" => lastValue = 0)
  /\ TableInit
  /\ FbInit

Of(p, v) == part # p /\ UNCHANGED v

PartsNext ==
  /\ (part = "thread" /\ ThreadNext) \/ Of("thread", threadVars)
  /\ (part = "lazy" /\ LazyNext) \/ Of("lazy", lazyVars)
  /\ (part = "callbacks" /\ CallbackNext) \/ Of("callbacks", callbackVars)
  /\ (part = "pointer" /\ PtrNext) \/ Of("pointer", ptrVars)
  /\ (part = "integers" /\ MapNext) \/ Of("integers", mapVars)
  /\ (part = "objects" /\ TableNext) \/ Of("objects", tableVars)
  /\ (part = "forwarding" /\ FbNext) \/ Of("forwarding", fbVars)
  /\ UNCHANGED part

partsVars ==
  <<threadVars, lazyVars, callbackVars, ptrVars, mapVars, tableVars, fbVars, part>>

PartsSpec ==
  PartsInit /\ [][PartsNext]_partsVars /\ LazyFairness
=============================================================================
