------------------------------ MODULE ServerLife ------------------------------
(* What a display control server promises its process: it serves every       *)
(* connection at most once, opens no session after it has ended, ends only   *)
(* when it was asked to and no session is open, and, once asked, it does end. *)
(* DisplayControlServer implements it; DisplayService relies on it.           *)

CONSTANT Conn  \* the connections

VARIABLES
  session,  \* of each connection: "none", "live", "deleted"
  asked,    \* an exit request was sent
  ended     \* the server's thread has ended

lifeVars == <<session, asked, ended>>

LifeInit ==
  /\ session = [c \in Conn |-> "none"]
  /\ asked = FALSE
  /\ ended = FALSE

Open(c) ==
  /\ ~ended /\ session[c] = "none"
  /\ session' = [session EXCEPT ![c] = "live"]
  /\ UNCHANGED <<asked, ended>>

CloseSession(c) ==
  /\ session[c] = "live"
  /\ session' = [session EXCEPT ![c] = "deleted"]
  /\ UNCHANGED <<asked, ended>>

Ask ==
  /\ ~asked
  /\ asked' = TRUE
  /\ UNCHANGED <<session, ended>>

End ==
  /\ asked /\ ~ended
  /\ \A c \in Conn : session[c] # "live"
  /\ ended' = TRUE
  /\ UNCHANGED <<session, asked>>

LifeNext == Ask \/ End \/ \E c \in Conn : Open(c) \/ CloseSession(c)

LifeSafety == LifeInit /\ [][LifeNext]_lifeVars

\* A session may last for ever, but not after the exit request.
LifeSpec ==
  /\ LifeSafety
  /\ WF_lifeVars(End)
  /\ WF_lifeVars(asked /\ \E c \in Conn : CloseSession(c))
===============================================================================
