--------------------------- MODULE MessageChannel ---------------------------
(* emugl::MessageChannel: messages pass from senders to receivers through a *)
(* ring of slots, under one mutex and two condition variables.              *)
(*                                                                          *)
(* A call of send() or receive() goes through the positions "enter" (it     *)
(* wants mLock), "test" (it holds mLock and looks at mCount), "wait" (in a  *)
(* condition variable), "copy" (at its slot) and "after" (before            *)
(* afterWrite() or afterRead()).  The header has one sender and one         *)
(* receiver in mind; the model takes any number of each.                    *)
EXTENDS Naturals, Sequences, FiniteSets

CONSTANTS
  Sender, Receiver,  \* the threads that call send() and receive()
  Msg,               \* the messages
  Nothing,           \* no message
  NoThread,          \* the holder of a free mutex
  Capacity           \* CAPACITY

ASSUME ChannelAssumption ==
  /\ Sender \cap Receiver = {} /\ NoThread \notin Sender \cup Receiver
  /\ Nothing \notin Msg
ASSUME CapacityAssumption == Capacity \in Nat \ {0}
ASSUME FiniteAssumption == IsFiniteSet(Sender) /\ IsFiniteSet(Receiver)

Thread == Sender \cup Receiver

VARIABLES
  mPos,    \* the slot of the oldest message
  mCount,  \* how many messages there are
  mItems,  \* the slots
  mLock,   \* the holder of mLock
  pc,      \* where a thread is in its call
  msg      \* a caller's message: to send, or received

vars == <<mPos, mCount, mItems, mLock, pc, msg>>

Init ==
  /\ mPos = 0 /\ mCount = 0
  /\ mItems = [i \in 0..(Capacity - 1) |-> Nothing]
  /\ mLock = NoThread
  /\ pc = [t \in Thread |-> "idle"]
  /\ msg = [t \in Thread |-> Nothing]

\* The waiters of mCanRead and of mCanWrite.
Waiting(side) == {t \in side : pc[t] = "wait"}

\* The slot of the k-th message after the oldest.
Slot(k) == IF mPos + k >= Capacity THEN mPos + k - Capacity ELSE mPos + k

\* Faulty variant: a writer does not look behind the messages there are.
SlotOfOldest(t) == mPos

\* The slot a thread that has passed beforeWrite() or beforeRead() uses.
SlotOf(t) == IF t \in Sender THEN Slot(mCount) ELSE mPos

----------------------------------------------------------------------------
CallSend(s, m) ==
  /\ pc[s] = "idle"
  /\ pc' = [pc EXCEPT ![s] = "enter"]
  /\ msg' = [msg EXCEPT ![s] = m]
  /\ UNCHANGED <<mPos, mCount, mItems, mLock>>

CallReceive(r) ==
  /\ pc[r] = "idle"
  /\ pc' = [pc EXCEPT ![r] = "enter"]
  /\ msg' = [msg EXCEPT ![r] = Nothing]
  /\ UNCHANGED <<mPos, mCount, mItems, mLock>>

\* Faulty variant: the mutex is not waited for.
EnterUnguarded(t) ==
  /\ pc[t] = "enter"
  /\ mLock' = t
  /\ pc' = [pc EXCEPT ![t] = "test"]
  /\ UNCHANGED <<mPos, mCount, mItems, msg>>

\* mLock.lock(), or the return from a condition variable.
Enter(t) ==
  /\ pc[t] = "enter" /\ mLock = NoThread
  /\ mLock' = t
  /\ pc' = [pc EXCEPT ![t] = "test"]
  /\ UNCHANGED <<mPos, mCount, mItems, msg>>

\* Faulty variant: the limit is off by one.
MustWaitLate(t) == IF t \in Sender THEN mCount > Capacity ELSE mCount = 0

\* The condition of the while loop.
MustWait(t) == IF t \in Sender THEN mCount >= Capacity ELSE mCount = 0

\* wait() lets the mutex go ...
Wait(t) ==
  /\ pc[t] = "test" /\ MustWait(t)
  /\ mLock' = NoThread
  /\ pc' = [pc EXCEPT ![t] = "wait"]
  /\ UNCHANGED <<mPos, mCount, mItems, msg>>

\* ... and may return unsignalled at any time.
SpuriousWakeup(t) ==
  /\ pc[t] = "wait"
  /\ pc' = [pc EXCEPT ![t] = "enter"]
  /\ UNCHANGED <<mPos, mCount, mItems, mLock, msg>>

Proceed(t) ==
  /\ pc[t] = "test" /\ ~MustWait(t)
  /\ pc' = [pc EXCEPT ![t] = "copy"]
  /\ UNCHANGED <<mPos, mCount, mItems, mLock, msg>>

CopyIn(s) ==
  /\ pc[s] = "copy"
  /\ mItems' = [mItems EXCEPT ![SlotOf(s)] = msg[s]]
  /\ pc' = [pc EXCEPT ![s] = "after"]
  /\ UNCHANGED <<mPos, mCount, mLock, msg>>

CopyOut(r) ==
  /\ pc[r] = "copy"
  /\ msg' = [msg EXCEPT ![r] = mItems[SlotOf(r)]]
  /\ pc' = [pc EXCEPT ![r] = "after"]
  /\ UNCHANGED <<mPos, mCount, mItems, mLock>>

\* Faulty variant: nobody is signalled.
LeaveQuietly(t, side) == pc' = [pc EXCEPT ![t] = "idle"]

\* Faulty variant: only an empty or a full channel is worth a signal.
LeaveAndSignalOnChange(t, side) ==
  IF \/ Waiting(side) = {}
     \/ side = Receiver /\ mCount # 0
     \/ side = Sender /\ mCount # Capacity
  THEN pc' = [pc EXCEPT ![t] = "idle"]
  ELSE \E w \in Waiting(side) :
         pc' = [pc EXCEPT ![t] = "idle", ![w] = "enter"]

\* t returns after signal(), which wakes one of the waiters there are.
LeaveAndSignal(t, side) ==
  IF Waiting(side) = {} THEN pc' = [pc EXCEPT ![t] = "idle"]
  ELSE \E w \in Waiting(side) :
         pc' = [pc EXCEPT ![t] = "idle", ![w] = "enter"]

AfterWrite(s) ==
  /\ pc[s] = "after"
  /\ mCount' = mCount + 1
  /\ LeaveAndSignal(s, Receiver)
  /\ mLock' = NoThread
  /\ msg' = [msg EXCEPT ![s] = Nothing]
  /\ UNCHANGED <<mPos, mItems>>

AfterRead(r) ==
  /\ pc[r] = "after"
  /\ mPos' = IF mPos + 1 = Capacity THEN 0 ELSE mPos + 1
  /\ mCount' = mCount - 1
  /\ LeaveAndSignal(r, Sender)
  /\ mLock' = NoThread
  /\ UNCHANGED <<mItems, msg>>

----------------------------------------------------------------------------
Locked(t) == Enter(t) \/ Wait(t) \/ Proceed(t)
Sending(s) == Locked(s) \/ CopyIn(s) \/ AfterWrite(s)
Receiving(r) == Locked(r) \/ CopyOut(r) \/ AfterRead(r)

Next ==
  \/ \E s \in Sender : Sending(s) \/ \E m \in Msg : CallSend(s, m)
  \/ \E r \in Receiver : Receiving(r) \/ CallReceive(r)
  \/ \E t \in Thread : SpuriousWakeup(t)

Spec == Init /\ [][Next]_vars

\* A thread inside a call runs, and the mutex is granted in the end.
ChannelFairness ==
  /\ \A s \in Sender : WF_vars(Sending(s))
  /\ \A r \in Receiver : WF_vars(Receiving(r))
  /\ \A t \in Thread : SF_vars(Enter(t))

FairSpec == Spec /\ ChannelFairness

----------------------------------------------------------------------------
Holding == {"test", "copy", "after"}

TypeOK ==
  /\ mPos \in 0..(Capacity - 1) /\ mCount \in 0..Capacity
  /\ mItems \in [0..(Capacity - 1) -> Msg \cup {Nothing}]
  /\ mLock \in Thread \cup {NoThread}
  /\ pc \in [Thread -> {"idle", "enter", "wait"} \cup Holding]
  /\ msg \in [Thread -> Msg \cup {Nothing}]

\* One thread at a time is between beforeWrite() or beforeRead() and the
\* unlock that ends the call, so that no message is copied while another
\* thread moves the ring.
OneInside == \A t \in Thread : pc[t] \in Holding <=> mLock = t

\* No wake-up is lost, although signal() wakes one thread only: as long as a
\* sender waits, every free slot has a sender of its own on its way to it, and
\* likewise every message a receiver.
OnTheWay(side) == {t \in side : pc[t] \in {"enter"} \cup Holding}

NoLostWakeup ==
  /\ Waiting(Sender) # {} => Capacity - mCount <= Cardinality(OnTheWay(Sender))
  /\ Waiting(Receiver) # {} => mCount <= Cardinality(OnTheWay(Receiver))

\* The queue is what the slots hold from the oldest message on; a received
\* message is in the caller's hand when the call is over.
QueueBar == [i \in 1..mCount |-> mItems[Slot(i - 1)]]
HandBar ==
  [t \in Thread |->
     IF t \in Receiver /\ pc[t] = "after" THEN Nothing ELSE msg[t]]

Fifo == INSTANCE BoundedFifo WITH queue <- QueueBar, hand <- HandBar

\* The channel implements a bounded queue: a send takes effect in afterWrite()
\* and a receive in afterRead(), whatever threads run between the two halves.
ImplementsBoundedFifo == Fifo!FifoSpec

\* A receiver in its call returns, or the channel runs empty: it does not
\* sleep through the messages that come in.
ReceiverServed ==
  \A r \in Receiver :
    pc[r] # "idle" /\ mCount > 0 ~> (pc[r] = "idle" \/ mCount = 0)
=============================================================================
