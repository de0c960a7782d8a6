------------------------ MODULE MessageChannelProofs ------------------------
(* The mutex admits one thread at a time, and the channel implements the    *)
(* bounded queue, for any number of senders and receivers and any capacity. *)
EXTENDS MessageChannel, FiniteSetTheorems, TLAPS

\* What a thread inside knows: its side's condition still holds, and after its
\* copy the message is where it belongs.
Inside ==
  /\ \A t \in Thread : pc[t] \in {"copy", "after"} => ~MustWait(t)
  /\ \A s \in Sender : pc[s] = "after" => mItems[Slot(mCount)] = msg[s]
  /\ \A r \in Receiver : pc[r] = "after" => msg[r] = mItems[mPos]

\* A message is in hand, and a slot in use is filled.
Filled ==
  /\ \A s \in Sender : pc[s] # "idle" => msg[s] \in Msg
  /\ \A s \in Sender : pc[s] = "idle" => msg[s] = Nothing
  /\ \A r \in Receiver : pc[r] \notin {"idle", "after"} => msg[r] = Nothing
  /\ \A k \in 0..(mCount - 1) : mItems[Slot(k)] \in Msg

ChannelInv == TypeOK /\ OneInside /\ Inside /\ Filled

\* Slots of different messages differ, and every slot is one of the ring's.
LEMMA SlotRange ==
  ASSUME mPos \in 0..(Capacity - 1)
  PROVE  /\ \A k \in 0..(Capacity - 1) : Slot(k) \in 0..(Capacity - 1)
         /\ \A j, k \in 0..(Capacity - 1) : Slot(j) = Slot(k) => j = k
         /\ Slot(0) = mPos
  BY CapacityAssumption, SMT DEF Slot

\* The invariant holds initially.
LEMMA InitInv == Init => ChannelInv
  <1> SUFFICES ASSUME Init PROVE ChannelInv
    OBVIOUS
  <1>1. TypeOK
    BY CapacityAssumption, SMT DEF Init, TypeOK, Holding
  <1>2. OneInside
    BY ChannelAssumption DEF Init, OneInside, Holding, Thread
  <1>3. Inside
    BY DEF Init, Inside, Thread
  <1>4. Filled
    BY CapacityAssumption, SMT DEF Init, Filled, Thread
  <1> QED
    BY <1>1, <1>2, <1>3, <1>4 DEF ChannelInv

\* What the end of a call does to the threads' positions.
LEMMA LeaveType ==
  ASSUME TypeOK, NEW t \in Thread, NEW side \in {Sender, Receiver},
         pc[t] = "after", LeaveAndSignal(t, side)
  PROVE  /\ pc' \in [Thread -> {"idle", "enter", "wait"} \cup Holding]
         /\ pc'[t] = "idle"
         /\ \A u \in Thread \ {t} :
              \/ pc'[u] = pc[u]
              \/ u \in side /\ pc[u] = "wait" /\ pc'[u] = "enter"
  <1>1. CASE Waiting(side) = {}
    BY <1>1 DEF LeaveAndSignal, TypeOK, Holding
  <1>2. CASE Waiting(side) # {}
    <2>1. PICK w \in Waiting(side) : pc' = [pc EXCEPT ![t] = "idle", ![w] = "enter"]
      BY <1>2 DEF LeaveAndSignal
    <2>2. w \in side /\ w \in Thread /\ pc[w] = "wait" /\ w # t
      BY <2>1 DEF Waiting, Thread
    <2> QED
      BY <2>1, <2>2 DEF TypeOK, Holding
  <1> QED
    BY <1>1, <1>2

\* Every step keeps the invariant.
LEMMA NextInv == ChannelInv /\ [Next]_vars => ChannelInv'
  <1> SUFFICES ASSUME ChannelInv, [Next]_vars PROVE ChannelInv'
    OBVIOUS
  <1> USE ChannelAssumption, CapacityAssumption
  <1> USE DEF ChannelInv
  <1>1. ASSUME NEW s \in Sender, NEW m \in Msg, CallSend(s, m)
        PROVE  ChannelInv'
    BY <1>1 DEF CallSend, TypeOK, OneInside, Inside, Filled, Holding, Thread,
                MustWait, Slot
  <1>2. ASSUME NEW r \in Receiver, CallReceive(r)
        PROVE  ChannelInv'
    BY <1>2 DEF CallReceive, TypeOK, OneInside, Inside, Filled, Holding, Thread,
                MustWait, Slot
  <1>3. ASSUME NEW t \in Thread, Enter(t)
        PROVE  ChannelInv'
    BY <1>3 DEF Enter, TypeOK, OneInside, Inside, Filled, Holding, Thread,
                MustWait, Slot
  <1>4. ASSUME NEW t \in Thread, Wait(t)
        PROVE  ChannelInv'
    BY <1>4 DEF Wait, TypeOK, OneInside, Inside, Filled, Holding, Thread,
                MustWait, Slot
  <1>5. ASSUME NEW t \in Thread, Proceed(t)
        PROVE  ChannelInv'
    BY <1>5 DEF Proceed, TypeOK, OneInside, Inside, Filled, Holding, Thread,
                MustWait, Slot
  <1>6. ASSUME NEW t \in Thread, SpuriousWakeup(t)
        PROVE  ChannelInv'
    BY <1>6 DEF SpuriousWakeup, TypeOK, OneInside, Inside, Filled, Holding, Thread,
                MustWait, Slot
  <1>7. ASSUME NEW s \in Sender, CopyIn(s)
        PROVE  ChannelInv'
    BY <1>7 DEF CopyIn, TypeOK, OneInside, Inside, Filled, Holding, Thread,
                MustWait, Slot, SlotOf
  <1>8. ASSUME NEW r \in Receiver, CopyOut(r)
        PROVE  ChannelInv'
    BY <1>8 DEF CopyOut, TypeOK, OneInside, Inside, Filled, Holding, Thread,
                MustWait, Slot, SlotOf
  <1>9. ASSUME NEW s \in Sender, AfterWrite(s)
        PROVE  ChannelInv'
    <2>1. /\ pc[s] = "after" /\ mLock = s /\ mCount < Capacity
          /\ mItems[Slot(mCount)] = msg[s] /\ msg[s] \in Msg
      BY <1>9 DEF AfterWrite, TypeOK, OneInside, Inside, Filled, Holding, Thread,
                  MustWait
    <2>2. /\ pc' \in [Thread -> {"idle", "enter", "wait"} \cup Holding]
          /\ pc'[s] = "idle"
          /\ \A u \in Thread \ {s} :
               \/ pc'[u] = pc[u]
               \/ u \in Receiver /\ pc[u] = "wait" /\ pc'[u] = "enter"
      BY <1>9, LeaveType DEF AfterWrite, Thread
    <2>3. /\ mCount' = mCount + 1 /\ mLock' = NoThread
          /\ msg' = [msg EXCEPT ![s] = Nothing]
          /\ UNCHANGED <<mPos, mItems>>
      BY <1>9 DEF AfterWrite
    <2>4. TypeOK'
      BY <2>1, <2>2, <2>3 DEF TypeOK, Thread
    <2>5. OneInside' /\ \A t \in Thread : pc'[t] \notin Holding
      BY <2>1, <2>2, <2>3 DEF OneInside, Holding, Thread
    <2>6. Inside'
      BY <2>5 DEF Inside, Holding, Thread
    <2>7. Filled'
      <3>1. \A k \in 0..(mCount' - 1) : mItems'[Slot(k)'] \in Msg
        BY <2>1, <2>3 DEF TypeOK, Filled, Slot
      <3>2. /\ \A u \in Sender : pc'[u] # "idle" => msg'[u] \in Msg
            /\ \A u \in Sender : pc'[u] = "idle" => msg'[u] = Nothing
        BY <2>2, <2>3 DEF TypeOK, Filled, Thread
      <3>3. \A r \in Receiver : pc'[r] \notin {"idle", "after"} => msg'[r] = Nothing
        BY <2>2, <2>3 DEF TypeOK, Filled, Thread
      <3> QED
        BY <3>1, <3>2, <3>3 DEF Filled
    <2> QED
      BY <2>4, <2>5, <2>6, <2>7
  <1>10. ASSUME NEW r \in Receiver, AfterRead(r)
        PROVE  ChannelInv'
    <2>1. pc[r] = "after" /\ mLock = r /\ mCount > 0
      BY <1>10 DEF AfterRead, TypeOK, OneInside, Inside, Holding, Thread, MustWait
    <2>2. /\ pc' \in [Thread -> {"idle", "enter", "wait"} \cup Holding]
          /\ pc'[r] = "idle"
          /\ \A u \in Thread \ {r} :
               \/ pc'[u] = pc[u]
               \/ u \in Sender /\ pc[u] = "wait" /\ pc'[u] = "enter"
      BY <1>10, LeaveType DEF AfterRead, Thread
    <2>3. /\ mCount' = mCount - 1 /\ mLock' = NoThread
          /\ mPos' = IF mPos + 1 = Capacity THEN 0 ELSE mPos + 1
          /\ UNCHANGED <<mItems, msg>>
      BY <1>10 DEF AfterRead
    <2>4. TypeOK'
      BY <2>1, <2>2, <2>3 DEF TypeOK
    <2>5. OneInside' /\ \A t \in Thread : pc'[t] \notin Holding
      BY <2>1, <2>2, <2>3 DEF OneInside, Holding, Thread
    <2>6. Inside'
      BY <2>5 DEF Inside, Holding, Thread
    <2>7. Filled'
      <3>1. \A k \in 0..(mCount' - 1) : Slot(k)' = Slot(k + 1)
        BY <2>1, <2>3 DEF TypeOK, Slot
      <3>2. \A k \in 0..(mCount' - 1) : mItems'[Slot(k)'] \in Msg
        BY <2>1, <2>3, <3>1 DEF TypeOK, Filled
      <3>3. /\ \A u \in Sender : pc'[u] # "idle" => msg'[u] \in Msg
            /\ \A u \in Sender : pc'[u] = "idle" => msg'[u] = Nothing
            /\ \A u \in Receiver : pc'[u] \notin {"idle", "after"} => msg'[u] = Nothing
        BY <2>2, <2>3 DEF TypeOK, Filled, Thread
      <3> QED
        BY <3>2, <3>3 DEF Filled
    <2> QED
      BY <2>4, <2>5, <2>6, <2>7
  <1>11. CASE UNCHANGED vars
    BY <1>11 DEF vars, TypeOK, OneInside, Inside, Filled, MustWait, Slot
  <1> QED
    BY <1>1, <1>2, <1>3, <1>4, <1>5, <1>6, <1>7, <1>8, <1>9, <1>10, <1>11
       DEF Next, Sending, Receiving, Locked, Thread

\* The channel's invariant holds for ever.
THEOREM ChannelInvariant == Spec => []ChannelInv
  BY InitInv, NextInv, PTL DEF Spec

\* Every variable keeps its type: positions and counts stay in the ring.
THEOREM TypeCorrect == Spec => []TypeOK
  <1>1. ChannelInv => TypeOK
    BY DEF ChannelInv
  <1> QED
    BY <1>1, ChannelInvariant, PTL

\* No two threads are inside at once.
THEOREM MutualExclusion == Spec => []OneInside
  <1>1. ChannelInv => OneInside
    BY DEF ChannelInv
  <1> QED
    BY <1>1, ChannelInvariant, PTL

----------------------------------------------------------------------------
(* No wake-up is lost.                                                      *)

\* The threads on their way can be counted.
LEMMA OnTheWayFinite ==
  ASSUME NEW side \in {Sender, Receiver}
  PROVE  /\ IsFiniteSet(OnTheWay(side)) /\ Cardinality(OnTheWay(side)) \in Nat
         /\ IsFiniteSet(OnTheWay(side)') /\ Cardinality(OnTheWay(side)') \in Nat
  <1>1. IsFiniteSet(side)
    BY FiniteAssumption
  <1>2. OnTheWay(side) \subseteq side /\ OnTheWay(side)' \subseteq side
    BY DEF OnTheWay
  <1> QED
    BY <1>1, <1>2, FS_Subset, FS_CardinalityType

\* When nobody leaves, there are at least as many on their way as before.
LEMMA NobodyLeaves ==
  ASSUME NEW side \in {Sender, Receiver}, OnTheWay(side) \subseteq OnTheWay(side)'
  PROVE  Cardinality(OnTheWay(side)) <= Cardinality(OnTheWay(side)')
  BY OnTheWayFinite, FS_Subset

\* A set that lacks at most one element of another is at most one smaller.
LEMMA AlmostSubset ==
  ASSUME NEW S, NEW T, NEW t, IsFiniteSet(S), IsFiniteSet(T), S \subseteq T \cup {t}
  PROVE  Cardinality(S) <= Cardinality(T) + 1
  <1>1. /\ IsFiniteSet(T \cup {t}) /\ Cardinality(T) \in Nat
        /\ Cardinality(T \cup {t}) \in {Cardinality(T), Cardinality(T) + 1}
    BY FS_AddElement, FS_CardinalityType
  <1>2. Cardinality(S) \in Nat /\ Cardinality(S) <= Cardinality(T \cup {t})
    BY <1>1, FS_Subset, FS_CardinalityType
  <1> QED
    BY <1>1, <1>2

\* When one thread leaves, there is at most one less.
LEMMA OneLeaves ==
  ASSUME NEW side \in {Sender, Receiver}, NEW t,
         OnTheWay(side) \subseteq OnTheWay(side)' \cup {t}
  PROVE  Cardinality(OnTheWay(side)) <= Cardinality(OnTheWay(side)') + 1
  BY OnTheWayFinite, AlmostSubset

\* When a waiter is woken, there is one more.
LEMMA OneJoins ==
  ASSUME NEW side \in {Sender, Receiver}, NEW w, w \notin OnTheWay(side),
         OnTheWay(side) \cup {w} \subseteq OnTheWay(side)'
  PROVE  Cardinality(OnTheWay(side)) + 1 <= Cardinality(OnTheWay(side)')
  <1>1. /\ IsFiniteSet(OnTheWay(side) \cup {w})
        /\ Cardinality(OnTheWay(side) \cup {w}) = Cardinality(OnTheWay(side)) + 1
    BY OnTheWayFinite, FS_AddElement
  <1> QED
    BY <1>1, OnTheWayFinite, FS_Subset

\* signal() makes up for the message, or the free slot, that came in.
LEMMA SignalCounts ==
  ASSUME TypeOK, NEW t \in Thread, NEW side \in {Sender, Receiver}, t \notin side,
         pc[t] = "after", LeaveAndSignal(t, side), Waiting(side)' # {}
  PROVE  /\ Waiting(side) # {}
         /\ Cardinality(OnTheWay(side)) + 1 <= Cardinality(OnTheWay(side)')
  <1>1. \A u \in side : u \in Thread /\ u # t
    BY DEF Thread
  <1>2. Waiting(side) # {}
    BY <1>1, LeaveType DEF Waiting
  <1>3. PICK w \in Waiting(side) : pc' = [pc EXCEPT ![t] = "idle", ![w] = "enter"]
    BY <1>2 DEF LeaveAndSignal
  <1>4. w \notin OnTheWay(side) /\ OnTheWay(side) \cup {w} \subseteq OnTheWay(side)'
    BY <1>1, <1>3 DEF Waiting, OnTheWay, TypeOK, Holding
  <1> QED
    BY <1>2, <1>4, OneJoins

\* Every step keeps the two counts in balance.
LEMMA NoLostWakeupStep ==
  ChannelInv /\ NoLostWakeup /\ [Next]_vars => NoLostWakeup'
  <1> SUFFICES ASSUME ChannelInv, NoLostWakeup, [Next]_vars PROVE NoLostWakeup'
    OBVIOUS
  <1> USE ChannelAssumption, CapacityAssumption
  <1>0. TypeOK /\ OneInside /\ Inside
    BY DEF ChannelInv
  \* Who is not among the waiters afterwards and was not among those on their way
  \* changes nothing.
  <1>1. ASSUME UNCHANGED mCount,
               NEW t, \A u \in Thread \ {t} : pc'[u] = pc[u],
               t \in Thread => pc'[t] # "wait",
               t \in Thread =>
                 (pc[t] \in {"enter"} \cup Holding => pc'[t] \in {"enter"} \cup Holding)
        PROVE  NoLostWakeup'
    <2>1. \A side \in {Sender, Receiver} :
            /\ OnTheWay(side) \subseteq OnTheWay(side)'
            /\ Waiting(side)' \subseteq Waiting(side)
      BY <1>1 DEF OnTheWay, Waiting, Thread
    <2>2. /\ Cardinality(OnTheWay(Sender)) <= Cardinality(OnTheWay(Sender)')
          /\ Cardinality(OnTheWay(Receiver)) <= Cardinality(OnTheWay(Receiver)')
      BY <2>1, NobodyLeaves
    <2> QED
      BY <1>0, <1>1, <2>1, <2>2, OnTheWayFinite DEF NoLostWakeup, TypeOK
  <1>2. ASSUME NEW s \in Sender, NEW m \in Msg, CallSend(s, m)
        PROVE  NoLostWakeup'
    BY <1>0, <1>1, <1>2 DEF CallSend, TypeOK, Thread, Holding
  <1>3. ASSUME NEW r \in Receiver, CallReceive(r)
        PROVE  NoLostWakeup'
    BY <1>0, <1>1, <1>3 DEF CallReceive, TypeOK, Thread, Holding
  <1>4. ASSUME NEW t \in Thread, Enter(t) \/ Proceed(t) \/ SpuriousWakeup(t)
        PROVE  NoLostWakeup'
    BY <1>0, <1>1, <1>4
       DEF Enter, Proceed, SpuriousWakeup, TypeOK, Thread, Holding
  <1>5. ASSUME NEW s \in Sender, CopyIn(s)
        PROVE  NoLostWakeup'
    BY <1>0, <1>1, <1>5 DEF CopyIn, TypeOK, Thread, Holding
  <1>6. ASSUME NEW r \in Receiver, CopyOut(r)
        PROVE  NoLostWakeup'
    BY <1>0, <1>1, <1>6 DEF CopyOut, TypeOK, Thread, Holding
  \* Who goes to sleep leaves his side with nothing to be woken for.
  <1>7. ASSUME NEW t \in Thread, Wait(t)
        PROVE  NoLostWakeup'
    <2>1. /\ mCount' = mCount /\ MustWait(t)
          /\ \A u \in Thread \ {t} : pc'[u] = pc[u]
      BY <1>0, <1>7 DEF Wait, TypeOK
    <2>2. CASE t \in Sender
      <3>1. Capacity - mCount' = 0
        BY <1>0, <2>1, <2>2 DEF MustWait, TypeOK
      <3>2. /\ OnTheWay(Receiver) \subseteq OnTheWay(Receiver)'
            /\ Waiting(Receiver)' = Waiting(Receiver)
        BY <2>1, <2>2 DEF OnTheWay, Waiting, Thread
      <3>3. Cardinality(OnTheWay(Receiver)) <= Cardinality(OnTheWay(Receiver)')
        BY <3>2, NobodyLeaves
      <3> QED
        BY <1>0, <2>1, <3>1, <3>2, <3>3, OnTheWayFinite DEF NoLostWakeup, TypeOK
    <2>3. CASE t \in Receiver
      <3>1. mCount' = 0
        BY <2>1, <2>3 DEF MustWait
      <3>2. /\ OnTheWay(Sender) \subseteq OnTheWay(Sender)'
            /\ Waiting(Sender)' = Waiting(Sender)
        BY <2>1, <2>3 DEF OnTheWay, Waiting, Thread
      <3>3. Cardinality(OnTheWay(Sender)) <= Cardinality(OnTheWay(Sender)')
        BY <3>2, NobodyLeaves
      <3> QED
        BY <1>0, <2>1, <3>1, <3>2, <3>3, OnTheWayFinite DEF NoLostWakeup, TypeOK
    <2> QED
      BY <2>2, <2>3 DEF Thread
  <1>8. ASSUME NEW s \in Sender, AfterWrite(s)
        PROVE  NoLostWakeup'
    <2>1. /\ s \in Thread /\ s \notin Receiver /\ pc[s] = "after"
          /\ mCount' = mCount + 1 /\ LeaveAndSignal(s, Receiver)
      BY <1>8 DEF AfterWrite, Thread
    <2>2. Waiting(Receiver)' # {} =>
            /\ Waiting(Receiver) # {}
            /\ Cardinality(OnTheWay(Receiver)) + 1 <= Cardinality(OnTheWay(Receiver)')
      BY <1>0, <2>1, SignalCounts
    <2>3. /\ OnTheWay(Sender) \subseteq OnTheWay(Sender)' \cup {s}
          /\ Waiting(Sender)' \subseteq Waiting(Sender)
      BY <1>0, <2>1, LeaveType DEF OnTheWay, Waiting, Thread
    <2>4. Cardinality(OnTheWay(Sender)) <= Cardinality(OnTheWay(Sender)') + 1
      BY <2>3, OneLeaves
    <2> QED
      BY <1>0, <2>1, <2>2, <2>3, <2>4, OnTheWayFinite DEF NoLostWakeup, TypeOK
  <1>9. ASSUME NEW r \in Receiver, AfterRead(r)
        PROVE  NoLostWakeup'
    <2>1. /\ r \in Thread /\ r \notin Sender /\ pc[r] = "after"
          /\ mCount' = mCount - 1 /\ LeaveAndSignal(r, Sender)
      BY <1>9 DEF AfterRead, Thread
    <2>2. Waiting(Sender)' # {} =>
            /\ Waiting(Sender) # {}
            /\ Cardinality(OnTheWay(Sender)) + 1 <= Cardinality(OnTheWay(Sender)')
      BY <1>0, <2>1, SignalCounts
    <2>3. /\ OnTheWay(Receiver) \subseteq OnTheWay(Receiver)' \cup {r}
          /\ Waiting(Receiver)' \subseteq Waiting(Receiver)
      BY <1>0, <2>1, LeaveType DEF OnTheWay, Waiting, Thread
    <2>4. Cardinality(OnTheWay(Receiver)) <= Cardinality(OnTheWay(Receiver)') + 1
      BY <2>3, OneLeaves
    <2> QED
      BY <1>0, <2>1, <2>2, <2>3, <2>4, OnTheWayFinite DEF NoLostWakeup, TypeOK
  <1>10. CASE UNCHANGED vars
    BY <1>10 DEF vars, NoLostWakeup, Waiting, OnTheWay
  <1> QED
    BY <1>2, <1>3, <1>4, <1>5, <1>6, <1>7, <1>8, <1>9, <1>10
       DEF Next, Sending, Receiving, Locked, Thread

\* As long as a thread waits, every free slot (every message) has a thread of its
\* own on the way to it, although signal() wakes only one.
THEOREM NoWakeupLost == Spec => []NoLostWakeup
  <1>1. Init => NoLostWakeup
    BY DEF Init, NoLostWakeup, Waiting, Thread
  <1> QED
    BY <1>1, NoLostWakeupStep, ChannelInvariant, PTL DEF Spec

----------------------------------------------------------------------------
(* Refinement.                                                              *)

\* As long as the ring, the messages and who is done with his call do not
\* change, the bounded queue does not change.
LEMMA StutterStep ==
  ASSUME ChannelInv, UNCHANGED <<mPos, mCount, msg>>,
         \A k \in 0..(mCount - 1) : mItems'[Slot(k)] = mItems[Slot(k)],
         \A r \in Receiver : pc'[r] = "after" <=> pc[r] = "after"
  PROVE  UNCHANGED <<QueueBar, HandBar>>
  <1>1. QueueBar' = QueueBar
    <2>1. \A i \in 1..mCount : mItems'[Slot(i - 1)'] = mItems[Slot(i - 1)]
      BY DEF ChannelInv, TypeOK, Slot
    <2> QED
      BY <2>1 DEF QueueBar
  <1>2. HandBar' = HandBar
    BY DEF HandBar
  <1> QED
    BY <1>1, <1>2

\* The value of the queue: a sequence of mCount messages.
LEMMA QueueType ==
  ASSUME ChannelInv
  PROVE  /\ QueueBar \in Seq(Msg) /\ Len(QueueBar) = mCount
         /\ \A i \in 1..mCount : QueueBar[i] = mItems[Slot(i - 1)]
  <1>1. \A i \in 1..mCount : mItems[Slot(i - 1)] \in Msg
    BY DEF ChannelInv, TypeOK, Filled
  <1>2. mCount \in Nat
    BY DEF ChannelInv, TypeOK
  <1>3. QueueBar \in [1..mCount -> Msg]
    BY <1>1 DEF QueueBar
  <1> QED
    BY <1>2, <1>3 DEF QueueBar

\* The end of a send is a Put.
LEMMA PutStep ==
  ASSUME ChannelInv, ChannelInv', NEW s \in Sender, AfterWrite(s)
  PROVE  Fifo!Put(s)
  <1> USE ChannelAssumption, CapacityAssumption
  <1>1. /\ pc[s] = "after" /\ mCount \in Nat /\ mCount < Capacity
        /\ mItems[Slot(mCount)] = msg[s] /\ msg[s] \in Msg
    BY DEF AfterWrite, ChannelInv, TypeOK, Inside, Filled, Thread, MustWait
  <1>2. HandBar[s] = msg[s] /\ HandBar[s] # Nothing
    BY <1>1 DEF HandBar, Thread
  <1>3. QueueBar' = Append(QueueBar, HandBar[s])
    <2>1. Len(QueueBar') = mCount + 1 /\ QueueBar' \in Seq(Msg)
      <3>1. mCount' = mCount + 1
        BY DEF AfterWrite
      <3>2. \A i \in 1..mCount' : mItems'[Slot(i - 1)'] \in Msg
        BY <1>1, <3>1 DEF ChannelInv, Filled
      <3>3. QueueBar' \in [1..mCount' -> Msg]
        BY <3>2 DEF QueueBar
      <3> QED
        BY <1>1, <3>1, <3>3
    <2>2. \A i \in 1..(mCount + 1) : QueueBar'[i] = mItems[Slot(i - 1)]
      BY <1>1 DEF AfterWrite, QueueBar, Slot
    <2>3. /\ QueueBar \in Seq(Msg) /\ Len(QueueBar) = mCount
          /\ \A i \in 1..mCount : QueueBar[i] = mItems[Slot(i - 1)]
      BY QueueType
    <2> DEFINE longer == Append(QueueBar, HandBar[s])
    <2>4. /\ longer \in Seq(Msg) /\ Len(longer) = mCount + 1
          /\ \A i \in 1..mCount : longer[i] = QueueBar[i]
          /\ longer[mCount + 1] = mItems[Slot(mCount)]
      BY <1>1, <1>2, <2>3
    <2>5. \A i \in 1..(mCount + 1) : longer[i] = mItems[Slot(i - 1)]
      BY <1>1, <2>3, <2>4
    <2> HIDE DEF longer
    <2>6. QueueBar' = longer
      BY <1>1, <2>1, <2>2, <2>4, <2>5
    <2> QED
      BY <2>6 DEF longer
  <1>4. HandBar' = [HandBar EXCEPT ![s] = Nothing]
    <2>1. \A r \in Receiver : pc'[r] # "after" /\ pc[r] # "after"
      BY <1>1, LeaveType DEF AfterWrite, ChannelInv, OneInside, Holding, Thread
    <2> QED
      BY <2>1 DEF AfterWrite, HandBar, Thread, ChannelInv, TypeOK
  <1> QED
    BY <1>1, <1>2, <1>3, <1>4, QueueType DEF Fifo!Put

\* The end of a receive is a Get.
LEMMA GetStep ==
  ASSUME ChannelInv, ChannelInv', NEW r \in Receiver, AfterRead(r)
  PROVE  Fifo!Get(r)
  <1> USE ChannelAssumption, CapacityAssumption
  <1>1. /\ pc[r] = "after" /\ mCount \in Nat /\ mCount > 0
        /\ msg[r] = mItems[mPos]
    BY DEF AfterRead, ChannelInv, TypeOK, Inside, Thread, MustWait
  <1>2. HandBar[r] = Nothing
    BY <1>1 DEF HandBar, Thread
  <1>3. QueueBar # <<>> /\ Head(QueueBar) = msg[r]
    <2>1. QueueBar[1] = mItems[Slot(0)] /\ Slot(0) = mPos
      BY <1>1, QueueType DEF ChannelInv, TypeOK, Slot
    <2> QED
      BY <1>1, <2>1, QueueType
  <1>4. QueueBar' = Tail(QueueBar)
    <2>1. Len(QueueBar') = mCount - 1 /\ QueueBar' \in Seq(Msg)
      <3>1. mCount' = mCount - 1
        BY DEF AfterRead
      <3>2. \A i \in 1..mCount' : mItems'[Slot(i - 1)'] \in Msg
        BY <1>1, <3>1 DEF ChannelInv, Filled
      <3>3. QueueBar' \in [1..mCount' -> Msg]
        BY <3>2 DEF QueueBar
      <3> QED
        BY <1>1, <3>1, <3>3
    <2>2. \A i \in 1..(mCount - 1) : Slot(i - 1)' = Slot(i)
      BY <1>1 DEF AfterRead, ChannelInv, TypeOK, Slot
    <2>3. \A i \in 1..(mCount - 1) : QueueBar'[i] = mItems[Slot(i)]
      BY <1>1, <2>2 DEF AfterRead, QueueBar
    <2>4. \A i \in 1..(mCount - 1) : Tail(QueueBar)[i] = mItems[Slot(i)]
      BY <1>1, QueueType
    <2> QED
      BY <1>1, <2>1, <2>3, <2>4, QueueType
  <1>5. HandBar' = [HandBar EXCEPT ![r] = Head(QueueBar)]
    <2>1. /\ pc'[r] = "idle"
          /\ \A u \in Receiver \ {r} : pc'[u] # "after" /\ pc[u] # "after"
      BY <1>1, LeaveType DEF AfterRead, ChannelInv, OneInside, Holding, Thread
    <2> QED
      BY <1>3, <2>1 DEF AfterRead, HandBar, Thread
  <1> QED
    BY <1>2, <1>3, <1>4, <1>5 DEF Fifo!Get

\* Every step is a step of the bounded queue or leaves it as it is.
LEMMA RefinementStep ==
  ASSUME ChannelInv, ChannelInv', [Next]_vars
  PROVE  [Fifo!FifoNext]_(Fifo!fifoVars)
  <1> USE ChannelAssumption, CapacityAssumption
  <1>1. ASSUME NEW s \in Sender, NEW m \in Msg, CallSend(s, m)
        PROVE  Fifo!BeginSend(s, m)
    <2>1. HandBar[s] = Nothing
      BY <1>1 DEF CallSend, ChannelInv, TypeOK, Filled, HandBar, Thread
    <2>2. HandBar' = [HandBar EXCEPT ![s] = m]
      BY <1>1 DEF CallSend, ChannelInv, TypeOK, HandBar, Thread
    <2>3. QueueBar' = QueueBar
      BY <1>1 DEF CallSend, QueueBar, Slot
    <2> QED
      BY <2>1, <2>2, <2>3 DEF Fifo!BeginSend
  <1>2. ASSUME NEW r \in Receiver, CallReceive(r)
        PROVE  Fifo!BeginReceive(r)
    <2>1. HandBar' = [HandBar EXCEPT ![r] = Nothing]
      BY <1>2 DEF CallReceive, ChannelInv, TypeOK, HandBar, Thread
    <2>2. QueueBar' = QueueBar
      BY <1>2 DEF CallReceive, QueueBar, Slot
    <2> QED
      BY <2>1, <2>2 DEF Fifo!BeginReceive
  <1>3. ASSUME NEW t \in Thread, Locked(t) \/ SpuriousWakeup(t)
        PROVE  UNCHANGED <<QueueBar, HandBar>>
    BY <1>3, StutterStep
       DEF Locked, Enter, Wait, Proceed, SpuriousWakeup, ChannelInv, TypeOK, Thread
  <1>4. ASSUME NEW s \in Sender, CopyIn(s)
        PROVE  UNCHANGED <<QueueBar, HandBar>>
    <2>1. mCount < Capacity
      BY <1>4 DEF CopyIn, ChannelInv, TypeOK, Inside, MustWait, Thread
    <2>2. \A k \in 0..(mCount - 1) : Slot(k) # Slot(mCount)
      BY <2>1, SlotRange DEF ChannelInv, TypeOK
    <2>3. \A k \in 0..(mCount - 1) : mItems'[Slot(k)] = mItems[Slot(k)]
      BY <1>4, <2>1, <2>2, SlotRange DEF CopyIn, SlotOf, ChannelInv, TypeOK
    <2> QED
      BY <1>4, <2>3, StutterStep DEF CopyIn, ChannelInv, TypeOK, Thread
  <1>5. ASSUME NEW r \in Receiver, CopyOut(r)
        PROVE  UNCHANGED <<QueueBar, HandBar>>
    <2>1. QueueBar' = QueueBar
      BY <1>5 DEF CopyOut, QueueBar, Slot
    <2>2. msg[r] = Nothing /\ pc[r] = "copy" /\ pc'[r] = "after"
      BY <1>5 DEF CopyOut, ChannelInv, TypeOK, Filled, Thread
    <2>3. HandBar' = HandBar
      BY <1>5, <2>2 DEF CopyOut, HandBar, ChannelInv, TypeOK, Thread
    <2> QED
      BY <2>1, <2>3
  <1>6. CASE UNCHANGED vars
    BY <1>6 DEF vars, QueueBar, HandBar, Slot, Fifo!fifoVars
  <1>7. CASE Next
    BY <1>7, <1>1, <1>2, <1>3, <1>4, <1>5, PutStep, GetStep
       DEF Next, Sending, Receiving, Thread, Fifo!FifoNext, Fifo!fifoVars
  <1> QED
    BY <1>6, <1>7

\* The channel implements the bounded queue.
THEOREM Refinement == Spec => ImplementsBoundedFifo
  <1>1. Init => Fifo!FifoInit
    <2> SUFFICES ASSUME Init PROVE Fifo!FifoInit
      OBVIOUS
    <2>1. QueueBar = <<>>
      BY DEF Init, QueueBar
    <2>2. HandBar = [t \in Thread |-> Nothing]
      BY DEF Init, HandBar, Thread
    <2> QED
      BY <2>1, <2>2 DEF Fifo!FifoInit, Thread
  <1>2. ChannelInv /\ ChannelInv' /\ [Next]_vars => [Fifo!FifoNext]_(Fifo!fifoVars)
    BY RefinementStep
  <1> QED
    BY <1>1, <1>2, ChannelInvariant, PTL DEF Spec, ImplementsBoundedFifo, Fifo!FifoSpec
=============================================================================
