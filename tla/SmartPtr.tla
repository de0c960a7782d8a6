------------------------------ MODULE SmartPtr ------------------------------
(* emugl::SmartPtr: pointers that share an object and an atomic count.        *)
(* Threads work on different pointers at the same time; one pointer is never  *)
(* written by one thread while another one uses it.                           *)
EXTENDS Integers, FiniteSets

CONSTANTS Pointer, Object, NoObject, NoPointer, PtrThread

ASSUME PtrAssumption ==
  /\ NoObject \notin Object /\ NoPointer \notin Pointer
  /\ IsFiniteSet(Pointer)

VARIABLES
  mPtr,      \* what each pointer holds (with mRefCount, they change together)
  mCount,    \* each object's RefCount
  object,    \* each object: "unused", "alive" or "deleted"
  oper       \* each thread's operator= or destructor, if it is inside one

ptrVars == <<mPtr, mCount, object, oper>>

NoOper == [dst |-> NoPointer, src |-> NoPointer, old |-> NoObject]

PtrInit ==
  /\ mPtr = [p \in Pointer |-> NoObject]
  /\ mCount = [o \in Object |-> 0]
  /\ object = [o \in Object |-> "unused"]
  /\ oper = [t \in PtrThread |-> NoOper]

\* No other operation uses p; no other operation writes q.
MayWrite(p) == \A t \in PtrThread : p \notin {oper[t].dst, oper[t].src}
MayRead(q) == \A t \in PtrThread : q # oper[t].dst

\* SmartPtr(T*): the first pointer to an object.
TakeOwnership(p, o) ==
  /\ MayWrite(p) /\ mPtr[p] = NoObject /\ object[o] = "unused"
  /\ mPtr' = [mPtr EXCEPT ![p] = o]
  /\ mCount' = [mCount EXCEPT ![o] = 1]
  /\ object' = [object EXCEPT ![o] = "alive"]
  /\ UNCHANGED oper

\* The copy constructor.
CopyConstruct(p, q) ==
  /\ MayWrite(p) /\ MayRead(q) /\ mPtr[p] = NoObject /\ mPtr[q] # NoObject
  /\ mPtr' = [mPtr EXCEPT ![p] = mPtr[q]]
  /\ mCount' = [mCount EXCEPT ![mPtr[q]] = @ + 1]
  /\ UNCHANGED <<object, oper>>

\* release(): the pointer is emptied and its object's count goes down; who takes
\* it to zero has the object to delete.
Released(p) ==
  IF mPtr[p] = NoObject THEN mCount
  ELSE [mCount EXCEPT ![mPtr[p]] = @ - 1]

Last(p) == mPtr[p] # NoObject /\ mCount[mPtr[p]] = 1

\* operator= from q, or the destructor (q = NoPointer), begins with release().
\* q may be p itself: then it is found empty afterwards.
Release(t, p, q) ==
  /\ oper[t] = NoOper /\ MayWrite(p) /\ (q # NoPointer => MayRead(q))
  /\ mCount' = Released(p)
  /\ oper' = [oper EXCEPT ![t] = [dst |-> p, src |-> q,
                old |-> IF Last(p) THEN mPtr[p] ELSE NoObject]]
  /\ mPtr' = [mPtr EXCEPT ![p] = NoObject]
  /\ UNCHANGED object

\* Faulty variant: copyFrom() does not count the copy.
CopyUncounted(t) ==
  /\ oper[t].src # NoPointer
  /\ mPtr' = [mPtr EXCEPT ![oper[t].dst] = mPtr[oper[t].src]]
  /\ oper' = [oper EXCEPT ![t].src = NoPointer]
  /\ UNCHANGED <<mCount, object>>

\* copyFrom() copies pointer and count, and counts.
Copy(t) ==
  /\ oper[t].src # NoPointer
  /\ LET o == mPtr[oper[t].src]
     IN  /\ mPtr' = [mPtr EXCEPT ![oper[t].dst] = o]
         /\ mCount' = IF o = NoObject THEN mCount
                      ELSE [mCount EXCEPT ![o] = @ + 1]
  /\ oper' = [oper EXCEPT ![t].src = NoPointer]
  /\ UNCHANGED object

\* The old object is deleted if this was its last pointer.
DeleteOld(t) ==
  /\ oper[t] # NoOper /\ oper[t].src = NoPointer
  /\ object' = IF oper[t].old = NoObject THEN object
               ELSE [object EXCEPT ![oper[t].old] = "deleted"]
  /\ oper' = [oper EXCEPT ![t] = NoOper]
  /\ UNCHANGED <<mPtr, mCount>>

PtrNext ==
  \/ \E p \in Pointer : \/ \E o \in Object : TakeOwnership(p, o)
                        \/ \E q \in Pointer : CopyConstruct(p, q)
  \/ \E t \in PtrThread :
       \/ \E p \in Pointer, q \in Pointer \cup {NoPointer} : Release(t, p, q)
       \/ Copy(t) \/ DeleteOld(t)

PtrSpec == PtrInit /\ [][PtrNext]_ptrVars

\* An object lives exactly as long as a pointer holds it or the one operation
\* that let go of it last is about to delete it: no pointer is left dangling, no
\* object leaks and none is deleted twice, even if a pointer is assigned to
\* itself.
DeletedWhenUnheld ==
  \A o \in Object :
    /\ object[o] = "alive" <=> \/ \E p \in Pointer : mPtr[p] = o
                               \/ \E t \in PtrThread : oper[t].old = o
    /\ \A t, u \in PtrThread : oper[t].old = o /\ oper[u].old = o => t = u
    /\ \A t \in PtrThread, p \in Pointer : oper[t].old = o => mPtr[p] # o
=============================================================================
