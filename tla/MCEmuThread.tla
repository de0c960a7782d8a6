---------------------------- MODULE MCEmuThread ----------------------------
(* Ways of sharing a thread object, for TLC.                                  *)
EXTENDS EmuThread

\* One caller waits for the thread, alone; or any number of callers poll it.
MCUses ==
  {[c \in Caller |-> {"tryWait"}]} \cup
  {[c \in Caller |-> IF c = w THEN {"wait", "tryWait"} ELSE {}] : w \in Caller}

\* Every caller may wait.
MCWaiters == {[c \in Caller |-> {"wait"}]}
=============================================================================
