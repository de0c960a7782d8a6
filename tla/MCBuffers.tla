----------------------------- MODULE MCBuffers -----------------------------
(* Small instances of the three bounded buffers: the render thread's read     *)
(* buffer, a stream's output buffer and the message channel.  A behaviour is  *)
(* about one of them, chosen at its start; the others keep their initial      *)
(* state.                                                                     *)
EXTENDS ReadBuffer, StreamBuffer, MessageChannel

VARIABLE buffer

BuffersInit ==
  /\ buffer \in {"read", "stream", "channel"}
  /\ RBInit /\ SBInit /\ Init

BuffersNext ==
  /\ \/ buffer = "read" /\ RBNext /\ UNCHANGED <<sbVars, vars>>
     \/ buffer = "stream" /\ SBNext /\ UNCHANGED <<rbVars, vars>>
     \/ buffer = "channel" /\ Next /\ UNCHANGED <<rbVars, sbVars>>
  /\ UNCHANGED buffer

BuffersSpec ==
  BuffersInit /\ [][BuffersNext]_<<rbVars, sbVars, vars, buffer>>
  /\ ChannelFairness
=============================================================================
