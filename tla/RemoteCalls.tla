---------------------------- MODULE RemoteCalls ----------------------------
(* What a guest's connection promises, without streams, buffers or packets: *)
(* calls are executed on the host once each and in the order they were      *)
(* made, and a call with a result gets the result of its own execution or,  *)
(* when the connection is lost, an undefined one.                           *)
EXTENDS Naturals, Sequences

CONSTANTS
  Kind,      \* the calls there are
  Result,    \* those with a result
  Undefined  \* a result the caller never received

VARIABLES
  calls,     \* the calls made, in order
  executed,  \* the numbers of the calls executed
  caller,    \* "free", "waiting" for a result, or "dead"
  results,   \* what the calls with a result returned, in order
  lost       \* whether the connection is lost

rcVars == <<calls, executed, caller, results, lost>>

RCInit ==
  /\ calls = <<>> /\ executed = <<>> /\ results = <<>>
  /\ caller = "free" /\ lost = FALSE

CallVoid ==
  /\ caller = "free"
  /\ \E kind \in Kind \ Result : calls' = Append(calls, kind)
  /\ UNCHANGED <<executed, caller, results, lost>>

CallResult ==
  /\ caller = "free"
  /\ \E kind \in Result : calls' = Append(calls, kind)
  /\ caller' = "waiting"
  /\ UNCHANGED <<executed, results, lost>>

\* The next call is executed; the host may fall over its result.
Execute ==
  /\ Len(executed) < Len(calls)
  /\ executed' = Append(executed, Len(executed) + 1)
  /\ lost' \in {lost, TRUE}
  /\ UNCHANGED <<calls, caller, results>>

ReturnResult ==
  /\ caller = "waiting" /\ Len(executed) = Len(calls)
  /\ results' = Append(results, Len(calls))
  /\ caller' = "free"
  /\ UNCHANGED <<calls, executed, lost>>

ReturnUndefined ==
  /\ caller = "waiting" /\ lost
  /\ results' = Append(results, Undefined)
  /\ caller' = "free"
  /\ UNCHANGED <<calls, executed, lost>>

\* The caller hangs up or dies; the connection breaks.
Die ==
  /\ caller' = "dead" /\ lost' \in {lost, TRUE}
  /\ UNCHANGED <<calls, executed, results>>

Lose ==
  /\ lost' = TRUE
  /\ UNCHANGED <<calls, executed, caller, results>>

RCNext ==
  CallVoid \/ CallResult \/ Execute \/ ReturnResult \/ ReturnUndefined \/ Die
  \/ Lose

RCSpec == RCInit /\ [][RCNext]_rcVars
=============================================================================
