---------------------------- MODULE BoundedFifo ----------------------------
(* What a MessageChannel promises: a queue of at most Capacity messages,    *)
(* without slots, positions, locks or condition variables.                  *)
EXTENDS Naturals, Sequences

CONSTANTS
  Sender, Receiver,  \* the threads at either end
  Msg,               \* the messages
  Nothing,           \* no message
  Capacity           \* how many messages the queue holds

VARIABLES
  queue,  \* the messages sent and not yet received, oldest first
  hand    \* what a thread has to send, or what it has received

fifoVars == <<queue, hand>>

FifoInit ==
  /\ queue = <<>>
  /\ hand = [t \in Sender \cup Receiver |-> Nothing]

BeginSend(s, m) ==
  /\ hand[s] = Nothing
  /\ hand' = [hand EXCEPT ![s] = m]
  /\ UNCHANGED queue

Put(s) ==
  /\ hand[s] # Nothing /\ Len(queue) < Capacity
  /\ queue' = Append(queue, hand[s])
  /\ hand' = [hand EXCEPT ![s] = Nothing]

BeginReceive(r) ==
  /\ hand' = [hand EXCEPT ![r] = Nothing]
  /\ UNCHANGED queue

Get(r) ==
  /\ hand[r] = Nothing /\ queue # <<>>
  /\ hand' = [hand EXCEPT ![r] = Head(queue)]
  /\ queue' = Tail(queue)

FifoNext ==
  \/ \E s \in Sender : Put(s) \/ \E m \in Msg : BeginSend(s, m)
  \/ \E r \in Receiver : Get(r) \/ BeginReceive(r)

FifoSpec == FifoInit /\ [][FifoNext]_fifoVars
=============================================================================
