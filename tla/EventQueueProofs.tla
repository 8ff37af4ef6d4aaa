-------------------------- MODULE EventQueueProofs --------------------------
(***************************************************************************)
(* Proofs about EventQueue, for any finite number of consumers, producers  *)
(* and stoppers and any bound MaxEnq: the inductive invariant IInv (type   *)
(* correctness, mutual exclusion, no lost wake-up), FIFO order, and that   *)
(* EventQueue implements the abstract FifoQueue.                           *)
(***************************************************************************)
EXTENDS EventQueue, FiniteSetTheorems, SequenceTheorems, TLAPS

-----------------------------------------------------------------------------
(***************************************************************************)
(* The inductive invariant.  The mutex is held by exactly the thread in    *)
(* the critical section; a consumer about to sleep saw an empty queue and  *)
(* one about to pop a queue with an item (both hold the mutex since); the  *)
(* item popped after Stop, if any, is that of a consumer that had passed   *)
(* the second test.                                                        *)
(***************************************************************************)
LockInv == \A t \in Threads : t \in InCS <=> lck = t

SleepSawEmpty == \A c \in Consumers : pc[c] = "sleep" => queue = <<>>

PopHasItem == \A c \in Consumers : pc[c] = "pop" => queue # <<>>

LeaveHasItem == \A c \in Consumers : pc[c] = "leave" => queue # <<>> \/ isStop

LateInv == /\ ~isStop => late = 0
           /\ late > 0 => late = 1 /\ \A c \in Consumers : pc[c] # "pop"

IInv ==
    /\ TypeOK
    /\ LockInv
    /\ SleepSawEmpty
    /\ PopHasItem
    /\ LeaveHasItem
    /\ LateInv
    /\ NoLostWakeup
    /\ ItemWakesSomeone

-----------------------------------------------------------------------------
(* The part of the invariant that needs no counting. *)
Core == TypeOK /\ LockInv /\ SleepSawEmpty /\ PopHasItem /\ LeaveHasItem
        /\ LateInv

-----------------------------------------------------------------------------
(* Initially everyone is idle and the queue is empty. *)
LEMMA InitCore == Init => Core
<1> SUFFICES ASSUME Init PROVE Core
  OBVIOUS
<1> USE ThreadsAssumption DEF Init
<1>1. \A t \in Threads : pc[t] = "idle"
  OBVIOUS
<1>2. TypeOK
  <2>1. \A S : <<>> \in Seq(S)
    OBVIOUS
  <2>2. /\ pc \in [Threads -> ConsumerPC \cup ProducerPC \cup StopperPC]
        /\ item \in [Producers -> Items]
    BY DEF ConsumerPC
  <2>3. QED
    BY <1>1, <2>1, <2>2 DEF TypeOK, Threads, ConsumerPC, ProducerPC, StopperPC
<1>3. LockInv
  BY <1>1 DEF LockInv, InCS, Threads
<1>4. SleepSawEmpty /\ PopHasItem /\ LeaveHasItem /\ LateInv
  BY <1>1 DEF SleepSawEmpty, PopHasItem, LeaveHasItem, LateInv, Threads
<1>5. QED
  BY <1>2, <1>3, <1>4 DEF Core

(* Each operation of each thread preserves Core: first the consumers'. *)
LEMMA DeQueueCore ==
    ASSUME Core, NEW c \in Consumers, DeQueue(c) \/ Spurious(c)
    PROVE  Core'
<1> USE ThreadsAssumption DEF Core, TypeOK, Threads, ConsumerPC, ProducerPC, StopperPC,
   LockInv, InCS, SleepSawEmpty, PopHasItem, LeaveHasItem, LateInv, Goto, Acquire, Release
<1>1. CASE DeqLock(c)
  BY <1>1 DEF DeqLock
<1>2. CASE DeqTest(c)
  BY <1>2 DEF DeqTest
<1>3. CASE DeqWait(c)
  BY <1>3 DEF DeqWait
<1>4. CASE DeqRelock(c)
  BY <1>4 DEF DeqRelock
<1>5. CASE DeqLeave(c)
  BY <1>5 DEF DeqLeave
<1>6. CASE DeqStopped(c)
  BY <1>6 DEF DeqStopped
<1>7. CASE DeqPop(c)
  BY <1>7 DEF DeqPop
<1>8. CASE Spurious(c)
  BY <1>8 DEF Spurious
<1>9. QED
  BY <1>1, <1>2, <1>3, <1>4, <1>5, <1>6, <1>7, <1>8 DEF DeQueue

(* A notification preserves Core as soon as the thread that sends it does. *)
LEMMA EnQueueCore ==
    ASSUME Core, NEW p \in Producers, EnQueue(p)
    PROVE  Core'
<1> USE ThreadsAssumption DEF Core, TypeOK, Threads, ConsumerPC, ProducerPC, StopperPC,
   LockInv, InCS, SleepSawEmpty, PopHasItem, LeaveHasItem, LateInv, Goto, Acquire, Release
<1>1. ASSUME NEW x \in Items, EnqLock(p, x) PROVE Core'
  BY <1>1 DEF EnqLock
<1>2. CASE EnqPush(p)
  BY <1>2 DEF EnqPush
<1>3. CASE EnqNotify(p)
  <2>1. CASE Waiting = {} /\ Goto(p, "idle")
    BY <1>3, <2>1 DEF EnqNotify
  <2>2. ASSUME NEW c \in Consumers, pc[c] = "waiting",
               pc' = [pc EXCEPT ![c] = "woken", ![p] = "idle"]
        PROVE  Core'
    BY <1>3, <2>2 DEF EnqNotify
  <2>3. QED
    BY <1>3, <2>1, <2>2 DEF EnqNotify, NotifyOne, Waiting
<1>4. QED
  BY <1>1, <1>2, <1>3 DEF EnQueue

LEMMA StopCore ==
    ASSUME Core, NEW s \in Stoppers, Stop(s)
    PROVE  Core'
<1> USE ThreadsAssumption DEF Core, TypeOK, Threads, ConsumerPC, ProducerPC, StopperPC,
   LockInv, InCS, SleepSawEmpty, PopHasItem, LeaveHasItem, LateInv, Goto, Acquire, Release
<1>1. CASE StopSet(s)
  BY <1>1 DEF StopSet
<1>2. CASE StopNotify(s)
  <2>1. CASE Waiting = {} /\ Goto(s, "done")
    BY <1>2, <2>1 DEF StopNotify
  <2>2. ASSUME NEW c \in Consumers, pc[c] = "waiting",
               pc' = [pc EXCEPT ![c] = "woken", ![s] = "done"]
        PROVE  Core'
    BY <1>2, <2>2 DEF StopNotify
  <2>3. QED
    BY <1>2, <2>1, <2>2 DEF StopNotify, NotifyOne, Waiting
<1>3. QED
  BY <1>1, <1>2 DEF Stop

LEMMA NextCore == Core /\ [Next]_vars => Core'
<1> SUFFICES ASSUME Core, [Next]_vars PROVE Core'
  OBVIOUS
<1>1. CASE Next
  BY <1>1, DeQueueCore, EnQueueCore, StopCore DEF Next
<1>2. CASE UNCHANGED vars
  BY <1>2 DEF vars, Core, TypeOK, LockInv, InCS, SleepSawEmpty, PopHasItem,
              LeaveHasItem, LateInv
<1>3. QED
  BY <1>1, <1>2

-----------------------------------------------------------------------------
(***************************************************************************)
(* Counting: one consumer that starts or stops looking changes the number  *)
(* of those that look by at most one.                                      *)
(***************************************************************************)
LEMMA LookingFinite ==
    /\ IsFiniteSet(Looking)
    /\ Cardinality(Looking) \in Nat
<1>1. IsFiniteSet(Looking)
  BY FS_Subset, ThreadsAssumption DEF Looking
<1>2. QED
  BY <1>1, FS_CardinalityType

LEMMA LookingAdd ==
    ASSUME NEW c, Looking' = Looking \cup {c}
    PROVE  /\ Cardinality(Looking') \in Nat
           /\ Cardinality(Looking') =
                IF c \in Looking THEN Cardinality(Looking) ELSE Cardinality(Looking) + 1
BY LookingFinite, FS_AddElement

LEMMA LookingRemove ==
    ASSUME NEW c \in Looking, Looking' = Looking \ {c}
    PROVE  Cardinality(Looking') = Cardinality(Looking) - 1
BY LookingFinite, FS_RemoveElement

(***************************************************************************)
(* NoLostWakeup is preserved.  A consumer only ceases to look because it   *)
(* pops an item, because it saw the queue empty, or because of Stop.       *)
(***************************************************************************)
LEMMA DeQueueWakeup ==
    ASSUME Core, NoLostWakeup, NEW c \in Consumers, DeQueue(c) \/ Spurious(c)
    PROVE  NoLostWakeup'
<1> USE LookingFinite, ThreadsAssumption DEF Core, TypeOK, Threads, Goto
<1>n. Notifying' = Notifying
  BY DEF Notifying, DeQueue, DeqLock, DeqTest, DeqWait, DeqRelock, DeqLeave,
         DeqStopped, DeqPop, Spurious
<1>1. CASE DeqLock(c)
  <2>1. Looking' = Looking \cup {c} /\ Waiting' = Waiting /\ c \notin Looking
    BY <1>1 DEF DeqLock, Looking, Waiting
  <2>2. Cardinality(Looking') = Cardinality(Looking) + 1
    BY <2>1, LookingAdd
  <2>3. Len(queue) \in Nat
    OBVIOUS
  <2>4. queue' = queue /\ isStop' = isStop
    BY <1>1 DEF DeqLock
  <2>5. QED
    BY <1>n, <2>1, <2>2, <2>3, <2>4 DEF NoLostWakeup
<1>2. CASE DeqTest(c)
  <2>1. CASE queue = <<>> /\ ~isStop
    <3>1. Looking' = Looking \ {c} /\ c \in Looking /\ queue' = <<>>
      BY <1>2, <2>1 DEF DeqTest, Looking
    <3>2. Len(queue') = 0 /\ Cardinality(Looking') \in Nat
      BY <3>1, FS_RemoveElement, FS_CardinalityType
    <3>3. QED
      BY <3>2 DEF NoLostWakeup
  <2>2. CASE ~(queue = <<>> /\ ~isStop)
    <3>1. Looking' = Looking /\ Waiting' = Waiting
      BY <1>2, <2>2 DEF DeqTest, Looking, Waiting
    <3>2. QED
      BY <1>2, <1>n, <3>1 DEF DeqTest, NoLostWakeup
  <2>3. QED
    BY <2>1, <2>2
<1>3. CASE DeqWait(c)
  <2>1. Looking' = Looking /\ Len(queue') = 0
    BY <1>3 DEF DeqWait, Looking, SleepSawEmpty
  <2>2. QED
    BY <2>1 DEF NoLostWakeup
<1>4. CASE DeqRelock(c)
  <2>1. Looking' = Looking /\ Waiting' = Waiting
    BY <1>4 DEF DeqRelock, Looking, Waiting
  <2>2. QED
    BY <1>4, <1>n, <2>1 DEF DeqRelock, NoLostWakeup
<1>5. CASE DeqLeave(c)
  <2>1. CASE isStop
    BY <1>5, <2>1 DEF DeqLeave, NoLostWakeup
  <2>2. CASE ~isStop
    <3>1. Looking' = Looking /\ Waiting' = Waiting
      BY <1>5, <2>2 DEF DeqLeave, Looking, Waiting
    <3>2. QED
      BY <1>5, <1>n, <3>1 DEF DeqLeave, NoLostWakeup
  <2>3. QED
    BY <2>1, <2>2
<1>6. CASE DeqStopped(c)
  <2>1. Looking' = Looking /\ Waiting' = Waiting
    BY <1>6 DEF DeqStopped, Looking, Waiting
  <2>2. QED
    BY <1>6, <1>n, <2>1 DEF DeqStopped, NoLostWakeup
<1>7. CASE DeqPop(c)
  <2>1. Looking' = Looking \ {c} /\ c \in Looking /\ Waiting' = Waiting
    BY <1>7 DEF DeqPop, Looking, Waiting
  <2>2. Len(queue') = Len(queue) - 1
    BY <1>7 DEF DeqPop, PopHasItem
  <2>3. Len(queue) \in Nat
    OBVIOUS
  <2>4. Cardinality(Looking') = Cardinality(Looking) - 1
    BY <2>1, LookingRemove
  <2>5. isStop' = isStop
    BY <1>7 DEF DeqPop
  <2>6. QED
    BY <1>n, <2>1, <2>2, <2>3, <2>4, <2>5 DEF NoLostWakeup
<1>8. CASE Spurious(c)
  <2>1. Looking' = Looking \cup {c} /\ Waiting' \subseteq Waiting /\ c \notin Looking
    BY <1>8 DEF Spurious, Looking, Waiting
  <2>2. Len(queue) \in Nat
    OBVIOUS
  <2>3. Cardinality(Looking') = Cardinality(Looking) + 1
    BY <2>1, LookingAdd
  <2>4. c \in Waiting /\ queue' = queue /\ isStop' = isStop
    BY <1>8 DEF Spurious, Waiting
  <2>5. QED
    BY <1>n, <2>2, <2>3, <2>4 DEF NoLostWakeup
<1>9. QED
  BY <1>1, <1>2, <1>3, <1>4, <1>5, <1>6, <1>7, <1>8 DEF DeQueue

LEMMA EnQueueWakeup ==
    ASSUME Core, NoLostWakeup, NEW p \in Producers, EnQueue(p)
    PROVE  NoLostWakeup'
<1> USE LookingFinite, ThreadsAssumption DEF Core, TypeOK, Threads, Goto
<1>l. Len(queue) \in Nat
  OBVIOUS
<1>1. ASSUME NEW x \in Items, EnqLock(p, x) PROVE NoLostWakeup'
  <2>1. Looking' = Looking /\ Waiting' = Waiting /\ Notifying' = Notifying
    BY <1>1 DEF EnqLock, Looking, Waiting, Notifying
  <2>2. QED
    BY <1>1, <2>1 DEF EnqLock, NoLostWakeup
<1>2. CASE EnqPush(p)
  <2>1. Looking' = Looking /\ Waiting' = Waiting /\ Notifying' # {}
    BY <1>2 DEF EnqPush, Looking, Waiting, Notifying
  <2>2. Notifying = {}
    BY <1>2 DEF EnqPush, Notifying, LockInv, InCS
  <2>3. Len(queue') = Len(queue) + 1
    BY <1>2 DEF EnqPush
  <2>4. QED
    BY <1>2, <1>l, <2>1, <2>2, <2>3 DEF EnqPush, NoLostWakeup
<1>3. CASE EnqNotify(p)
  <2>1. Notifying = {p}
    BY <1>3 DEF EnqNotify, Notifying, LockInv, InCS
  <2>2. CASE Waiting = {} /\ Goto(p, "idle")
    <3>1. Waiting' = {}
      BY <1>3, <2>2 DEF Waiting
    <3>2. QED
      BY <3>1 DEF NoLostWakeup
  <2>3. ASSUME NEW c \in Waiting, pc' = [pc EXCEPT ![c] = "woken", ![p] = "idle"]
        PROVE  NoLostWakeup'
    <3>1. Looking' = Looking \cup {c} /\ c \notin Looking
      BY <2>3 DEF Looking, Waiting
    <3>2. Cardinality(Looking') = Cardinality(Looking) + 1
      BY <3>1, LookingAdd
    <3>3. queue' = queue /\ isStop' = isStop
      BY <1>3 DEF EnqNotify
    <3>4. QED
      BY <1>l, <2>1, <2>3, <3>2, <3>3 DEF NoLostWakeup
  <2>4. QED
    BY <1>3, <2>2, <2>3 DEF EnqNotify, NotifyOne
<1>4. QED
  BY <1>1, <1>2, <1>3 DEF EnQueue

(* Once Stop has set the flag, NoLostWakeup claims nothing. *)
LEMMA StopWakeup ==
    ASSUME Core, NoLostWakeup, NEW s \in Stoppers, Stop(s)
    PROVE  NoLostWakeup'
<1> USE LookingFinite, ThreadsAssumption DEF Core, TypeOK, Threads, Goto
<1>1. CASE StopSet(s)
  BY <1>1 DEF StopSet, NoLostWakeup
<1>2. CASE StopNotify(s)
  <2>1. Notifying' = Notifying /\ Len(queue) \in Nat
    BY <1>2 DEF StopNotify, NotifyOne, Notifying, Waiting
  <2>2. CASE Waiting = {} /\ Goto(s, "done")
    <3>1. Waiting' = {}
      BY <2>2 DEF Waiting
    <3>2. QED
      BY <3>1 DEF NoLostWakeup
  <2>3. ASSUME NEW c \in Waiting, pc' = [pc EXCEPT ![c] = "woken", ![s] = "done"]
        PROVE  NoLostWakeup'
    <3>1. Looking' = Looking \cup {c} /\ c \notin Looking
      BY <2>3 DEF Looking, Waiting
    <3>2. Cardinality(Looking') = Cardinality(Looking) + 1
      BY <3>1, LookingAdd
    <3>3. queue' = queue /\ isStop' = isStop
      BY <1>2 DEF StopNotify
    <3>4. QED
      BY <2>1, <2>3, <3>2, <3>3 DEF NoLostWakeup
  <2>4. QED
    BY <1>2, <2>2, <2>3 DEF StopNotify, NotifyOne
<1>3. QED
  BY <1>1, <1>2 DEF Stop

LEMMA NextWakeup == Core /\ NoLostWakeup /\ [Next]_vars => NoLostWakeup'
<1> SUFFICES ASSUME Core, NoLostWakeup, [Next]_vars PROVE NoLostWakeup'
  OBVIOUS
<1>1. CASE Next
  BY <1>1, DeQueueWakeup, EnQueueWakeup, StopWakeup DEF Next
<1>2. CASE UNCHANGED vars
  BY <1>2 DEF vars, NoLostWakeup, Waiting, Looking, Notifying
<1>3. QED
  BY <1>1, <1>2

-----------------------------------------------------------------------------
(***************************************************************************)
(* ItemWakesSomeone: only DeqWait adds a sleeper, and it saw an empty      *)
(* queue; EnQueue's notification, if anyone sleeps, wakes a thread.        *)
(***************************************************************************)
LEMMA NextWakesSomeone ==
    ASSUME Core, ItemWakesSomeone, Next
    PROVE  ItemWakesSomeone'
<1> USE ThreadsAssumption DEF Core, TypeOK, Threads, Goto
<1>1. ASSUME NEW c \in Consumers, DeQueue(c) \/ Spurious(c)
      PROVE  ItemWakesSomeone'
  <2>1. Notifying' = Notifying
    BY <1>1 DEF Notifying, DeQueue, DeqLock, DeqTest, DeqWait, DeqRelock, DeqLeave,
                DeqStopped, DeqPop, Spurious
  <2>2. CASE DeqWait(c)
    BY <2>2 DEF DeqWait, SleepSawEmpty, ItemWakesSomeone
  <2>3. CASE DeqPop(c)
    <3>1. c \notin Waiting'
      BY <2>3 DEF DeqPop, Waiting
    <3>2. QED
      BY <3>1 DEF ItemWakesSomeone
  <2>4. CASE DeqLock(c) \/ DeqTest(c) \/ DeqRelock(c) \/ DeqLeave(c)
             \/ DeqStopped(c) \/ Spurious(c)
    <3>1. queue' = queue /\ c \notin Waiting'
      BY <2>4 DEF DeqLock, DeqTest, DeqRelock, DeqLeave, DeqStopped, Spurious, Waiting
    <3>2. QED
      BY <3>1 DEF ItemWakesSomeone
  <2>5. QED
    BY <1>1, <2>2, <2>3, <2>4 DEF DeQueue
<1>2. ASSUME NEW p \in Producers, EnQueue(p)
      PROVE  ItemWakesSomeone'
  <2>1. ASSUME NEW x \in Items, EnqLock(p, x) PROVE ItemWakesSomeone'
    <3>1. queue' = queue /\ Waiting' = Waiting /\ Notifying' = Notifying
      BY <2>1 DEF EnqLock, Waiting, Notifying
    <3>2. QED
      BY <3>1 DEF ItemWakesSomeone
  <2>2. CASE EnqPush(p)
    <3>1. p \in Notifying'
      BY <2>2 DEF EnqPush, Notifying
    <3>2. QED
      BY <3>1 DEF ItemWakesSomeone
  <2>3. CASE EnqNotify(p)
    <3>1. Waiting' # Consumers
      BY <2>3 DEF EnqNotify, NotifyOne, Waiting
    <3>2. QED
      BY <3>1 DEF ItemWakesSomeone
  <2>4. QED
    BY <1>2, <2>1, <2>2, <2>3 DEF EnQueue
<1>3. ASSUME NEW s \in Stoppers, Stop(s)
      PROVE  ItemWakesSomeone'
  <2>1. queue' = queue /\ Waiting' \subseteq Waiting /\ Notifying' = Notifying
    BY <1>3 DEF Stop, StopSet, StopNotify, NotifyOne, Waiting, Notifying
  <2>2. QED
    BY <2>1 DEF ItemWakesSomeone, Waiting
<1>4. QED
  BY <1>1, <1>2, <1>3 DEF Next

-----------------------------------------------------------------------------
(***************************************************************************)
(* The invariant of EventQueue: DeQueue, EnQueue and Stop of any number of *)
(* threads keep the mutex exclusive, pop only what is there, and lose no   *)
(* wake-up of an item.                                                     *)
(***************************************************************************)
THEOREM Invariance == Spec => []IInv
<1>1. Init => IInv
  <2>1. Init => NoLostWakeup /\ ItemWakesSomeone
    BY ThreadsAssumption DEF Init, NoLostWakeup, ItemWakesSomeone, Waiting, Threads
  <2>2. QED
    BY <2>1, InitCore DEF IInv, Core
<1>2. IInv /\ [Next]_vars => IInv'
  <2>1. IInv /\ UNCHANGED vars => ItemWakesSomeone'
    BY DEF IInv, vars, ItemWakesSomeone, Waiting, Notifying
  <2>2. QED
    BY <2>1, NextCore, NextWakeup, NextWakesSomeone DEF IInv, Core
<1>3. QED
  BY <1>1, <1>2, PTL DEF Spec

(* Type correctness of EventQueue: in particular only items are delivered. *)
THEOREM TypeCorrect == Spec => []TypeOK
<1>1. IInv => TypeOK
  BY DEF IInv
<1>2. QED
  BY <1>1, Invariance, PTL

(***************************************************************************)
(* notify_one in EnQueue is enough: while a consumer sleeps, each queued   *)
(* item has an awake consumer or a notification of its own.                *)
(***************************************************************************)
THEOREM WakeupNotLost == Spec => []NoLostWakeup
<1>1. IInv => NoLostWakeup
  BY DEF IInv
<1>2. QED
  BY <1>1, Invariance, PTL

(* An item never lies in the queue with every consumer asleep.             *)
THEOREM ItemNotOverslept == Spec => []ItemWakesSomeone
<1>1. IInv => ItemWakesSomeone
  BY DEF IInv
<1>2. QED
  BY <1>1, Invariance, PTL

-----------------------------------------------------------------------------
(* Pushing at the back and popping at the front keep delivered \o queue.   *)
LEMMA PushFifo ==
    ASSUME NEW S, NEW d \in Seq(S), NEW q \in Seq(S), NEW x \in S
    PROVE  d \o Append(q, x) = Append(d \o q, x)
<1>1. Append(d \o q, x) = (d \o q) \o <<x>>
  BY ConcatProperties, AppendIsConcat
<1>2. <<x>> \in Seq(S)
  OBVIOUS
<1>3. (d \o q) \o <<x>> = d \o (q \o <<x>>)
  BY <1>2, ConcatAssociative
<1>4. q \o <<x>> = Append(q, x)
  BY AppendIsConcat
<1>5. QED
  BY <1>1, <1>3, <1>4

LEMMA PopFifo ==
    ASSUME NEW S, NEW d \in Seq(S), NEW q \in Seq(S), q # <<>>
    PROVE  Append(d, Head(q)) \o Tail(q) = d \o q
<1>1. /\ Head(q) \in S
      /\ Tail(q) \in Seq(S)
      /\ <<Head(q)>> \in Seq(S)
  BY HeadTailProperties
<1>2. q = <<Head(q)>> \o Tail(q)
  OBVIOUS
<1>3. Append(d, Head(q)) = d \o <<Head(q)>>
  BY <1>1, AppendIsConcat
<1>4. (d \o <<Head(q)>>) \o Tail(q) = d \o (<<Head(q)>> \o Tail(q))
  BY <1>1, ConcatAssociative
<1>5. QED
  BY <1>2, <1>3, <1>4

(***************************************************************************)
(* FIFO order: the items DeQueue returned, followed by those still queued, *)
(* are the items EnQueue pushed, whatever the threads' interleaving.       *)
(***************************************************************************)
THEOREM DeliversInOrder == Spec => []FifoOrder
<1> DEFINE Inv == IInv /\ FifoOrder
<1>1. Init => Inv
  <2>1. Init => FifoOrder
    BY DEF Init, FifoOrder, Abstract!Fifo
  <2>2. Init => IInv
    BY Invariance, InitCore, ThreadsAssumption
       DEF Init, IInv, Core, NoLostWakeup, ItemWakesSomeone, Waiting, Threads
  <2>3. QED
    BY <2>1, <2>2
<1>2. FifoOrder /\ IInv /\ [Next]_vars => FifoOrder'
  <2> SUFFICES ASSUME FifoOrder, IInv, [Next]_vars PROVE FifoOrder'
    OBVIOUS
  <2> USE DEF FifoOrder, Abstract!Fifo
  <2>1. ASSUME NEW p \in Producers, EnqPush(p) PROVE FifoOrder'
    <3>1. delivered \o Append(queue, item[p]) = Append(delivered \o queue, item[p])
      BY PushFifo DEF IInv, TypeOK
    <3>2. QED
      BY <2>1, <3>1 DEF EnqPush
  <2>2. ASSUME NEW c \in Consumers, DeqPop(c) PROVE FifoOrder'
    BY <2>2, PopFifo DEF DeqPop, IInv, TypeOK, PopHasItem
  <2>3. CASE UNCHANGED <<queue, enqueued, delivered>>
    BY <2>3
  <2>4. QED
    BY <2>1, <2>2, <2>3 DEF Next, vars, DeQueue, EnQueue, Stop, DeqLock, DeqTest,
       DeqWait, DeqRelock, DeqLeave, DeqStopped, Spurious, EnqLock, EnqNotify,
       StopSet, StopNotify
<1>3. QED
  BY <1>1, <1>2, Invariance, PTL DEF Spec

(***************************************************************************)
(* Refinement: every step of a thread is a step of the abstract queue or   *)
(* changes nothing the abstract queue knows.  EnqPush is Put, DeqPop is    *)
(* Take and StopSet is Close; that Take needs late = 0 once the queue is   *)
(* closed is the part that depends on the mutex.                           *)
(***************************************************************************)
THEOREM Refinement == Spec => ImplementsFifo
<1>1. Init => Abstract!Init
  BY DEF Init, Abstract!Init
<1>2. IInv /\ [Next]_vars => [Abstract!Next]_(Abstract!vars)
  <2> SUFFICES ASSUME IInv, [Next]_vars PROVE [Abstract!Next]_(Abstract!vars)
    OBVIOUS
  <2>1. ASSUME NEW p \in Producers, EnqPush(p) PROVE Abstract!Next
    BY <2>1 DEF EnqPush, IInv, TypeOK, Abstract!Next, Abstract!Put
  <2>2. ASSUME NEW c \in Consumers, DeqPop(c) PROVE Abstract!Next
    BY <2>2 DEF DeqPop, IInv, PopHasItem, LateInv, TypeOK, Abstract!Next, Abstract!Take
  <2>3. ASSUME NEW s \in Stoppers, StopSet(s) PROVE Abstract!Next
    BY <2>3 DEF StopSet, Abstract!Next, Abstract!Close
  <2>4. CASE UNCHANGED <<queue, isStop, enqueued, delivered, late>>
    BY <2>4 DEF Abstract!vars
  <2>5. QED
    BY <2>1, <2>2, <2>3, <2>4 DEF Next, vars, DeQueue, EnQueue, Stop, DeqLock, DeqTest,
       DeqWait, DeqRelock, DeqLeave, DeqStopped, Spurious, EnqLock, EnqNotify,
       StopNotify
<1>3. QED
  BY <1>1, <1>2, Invariance, PTL DEF Spec, ImplementsFifo, Abstract!Spec

=============================================================================
