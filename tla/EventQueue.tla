----------------------------- MODULE EventQueue -----------------------------
(***************************************************************************)
(* Ext::Queue::eventQueue (Util/ExDataStruct.hpp): a std::queue guarded by *)
(* a mutex, with a condition variable for the consumers and a stop flag.   *)
(*                                                                         *)
(* The condition variable is the set of threads whose pc is "waiting":     *)
(* wait() releases the mutex and sleeps in one step, but the test of the   *)
(* loop condition and the call of wait() are two steps, because Stop()     *)
(* writes _isStop WITHOUT taking the mutex and can therefore run between   *)
(* them.  A wake-up may also be spurious.                                  *)
(***************************************************************************)
EXTENDS Naturals, Sequences, FiniteSets

CONSTANTS Consumers,    \* threads that call DeQueue, again and again
          Producers,    \* threads that call EnQueue
          Stoppers,     \* threads that call Stop (the destructor is one)
          Items,        \* the values that may be queued
          NoThread,     \* _lck is free
          MaxEnq        \* bound: how many items are ever enqueued

Threads == Consumers \cup Producers \cup Stoppers

ASSUME ThreadsAssumption ==
    /\ IsFiniteSet(Consumers) /\ Consumers # {}
    /\ Consumers \cap Producers = {}
    /\ Consumers \cap Stoppers = {}
    /\ Producers \cap Stoppers = {}
    /\ NoThread \notin Threads

ASSUME MaxEnqAssumption == MaxEnq \in Nat

VARIABLES queue,        \* _queue
          isStop,       \* _isStop
          lck,          \* _lck: the thread that holds it, or NoThread
          pc,           \* where each thread is in its operation
          item,         \* the argument of each producer's EnQueue
          enqueued,     \* history: items pushed, in order
          delivered,    \* history: items popped, in order
          late          \* history: how many were popped once _isStop was set

vars == <<queue, isStop, lck, pc, item, enqueued, delivered, late>>

Init ==
    /\ queue = <<>>
    /\ isStop = FALSE
    /\ lck = NoThread
    /\ pc = [t \in Threads |-> "idle"]
    /\ item \in [Producers -> Items]
    /\ enqueued = <<>>
    /\ delivered = <<>>
    /\ late = 0

Goto(t, where) == pc' = [pc EXCEPT ![t] = where]

Acquire(t) == lck = NoThread /\ lck' = t
Release(t) == lck = t /\ lck' = NoThread

(* The threads asleep in _cvQueue.wait( lck ). *)
Waiting == {c \in Consumers : pc[c] = "waiting"}

(***************************************************************************)
(* _cvQueue.notify_one() by thread t, which then continues at `where': it  *)
(* wakes one sleeping thread, any one, or is lost when none sleeps.        *)
(***************************************************************************)
NotifyOne(t, where) ==
    \/ Waiting = {} /\ Goto(t, where)
    \/ \E c \in Waiting : pc' = [pc EXCEPT ![c] = "woken", ![t] = where]

-----------------------------------------------------------------------------
(* DeQueue *)

(* unique_lock lck( _lck ) *)
DeqLock(c) ==
    /\ pc[c] = "idle"
    /\ Acquire(c)
    /\ Goto(c, "test")
    /\ UNCHANGED <<queue, isStop, item, enqueued, delivered, late>>

(* Mutant: a loop test that ignores _isStop. *)
DeqTest_IgnoresStop(c) ==
    /\ pc[c] = "test"
    /\ Goto(c, IF queue = <<>> THEN "sleep" ELSE "leave")
    /\ UNCHANGED <<queue, isStop, lck, item, enqueued, delivered, late>>

(* while( _queue.empty() == true && _isStop == false ) *)
DeqTest(c) ==
    /\ pc[c] = "test"
    /\ Goto(c, IF queue = <<>> /\ ~isStop THEN "sleep" ELSE "leave")
    /\ UNCHANGED <<queue, isStop, lck, item, enqueued, delivered, late>>

(* _cvQueue.wait( lck ): go to sleep and give the mutex back *)
DeqWait(c) ==
    /\ pc[c] = "sleep"
    /\ Release(c)
    /\ Goto(c, "waiting")
    /\ UNCHANGED <<queue, isStop, item, enqueued, delivered, late>>

(* a wake-up nobody sent *)
Spurious(c) ==
    /\ pc[c] = "waiting"
    /\ Goto(c, "woken")
    /\ UNCHANGED <<queue, isStop, lck, item, enqueued, delivered, late>>

(* wait() takes the mutex again before it returns to the loop test *)
DeqRelock(c) ==
    /\ pc[c] = "woken"
    /\ Acquire(c)
    /\ Goto(c, "test")
    /\ UNCHANGED <<queue, isStop, item, enqueued, delivered, late>>

(* Mutant: a stopped queue is drained before DeQueue gives up. *)
DeqLeave_Drains(c) ==
    /\ pc[c] = "leave"
    /\ Goto(c, IF isStop /\ queue = <<>> THEN "stopped" ELSE "pop")
    /\ UNCHANGED <<queue, isStop, lck, item, enqueued, delivered, late>>

(* if( _isStop == true ): the second, separate read of the flag *)
DeqLeave(c) ==
    /\ pc[c] = "leave"
    /\ Goto(c, IF isStop THEN "stopped" ELSE "pop")
    /\ UNCHANGED <<queue, isStop, lck, item, enqueued, delivered, late>>

(* Mutant: the T() of a stopped DeQueue is handled like an item. *)
DeqStopped_DeliversDefault(c) ==
    /\ pc[c] = "stopped"
    /\ Release(c)
    /\ delivered' = Append(delivered, "T()")
    /\ Goto(c, "idle")
    /\ UNCHANGED <<queue, isStop, item, enqueued, late>>

(* return T(): no item, whatever the queue still holds *)
DeqStopped(c) ==
    /\ pc[c] = "stopped"
    /\ Release(c)
    /\ Goto(c, "idle")
    /\ UNCHANGED <<queue, isStop, item, enqueued, delivered, late>>

(* T ret = _queue.front(); _queue.pop(); return ret *)
DeqPop(c) ==
    /\ pc[c] = "pop"
    /\ Release(c)
    /\ delivered' = Append(delivered, Head(queue))
    /\ queue' = Tail(queue)
    /\ late' = IF isStop THEN late + 1 ELSE late
    /\ Goto(c, "idle")
    /\ UNCHANGED <<isStop, item, enqueued>>

-----------------------------------------------------------------------------
(* EnQueue *)

EnqLock(p, x) ==
    /\ pc[p] = "idle"
    /\ Len(enqueued) < MaxEnq
    /\ Acquire(p)
    /\ item' = [item EXCEPT ![p] = x]
    /\ Goto(p, "push")
    /\ UNCHANGED <<queue, isStop, enqueued, delivered, late>>

EnqPush(p) ==
    /\ pc[p] = "push"
    /\ queue' = Append(queue, item[p])
    /\ enqueued' = Append(enqueued, item[p])
    /\ Goto(p, "notify")
    /\ UNCHANGED <<isStop, lck, item, delivered, late>>

(* Mutant: EnQueue notifies nobody. *)
EnqNotify_Silent(p) ==
    /\ pc[p] = "notify"
    /\ Release(p)
    /\ Goto(p, "idle")
    /\ UNCHANGED <<queue, isStop, item, enqueued, delivered, late>>

(* Mutant: EnQueue notifies only when the queue was empty before. *)
EnqNotify_FirstOnly(p) ==
    /\ pc[p] = "notify"
    /\ Release(p)
    /\ IF Len(queue) = 1 THEN NotifyOne(p, "idle") ELSE Goto(p, "idle")
    /\ UNCHANGED <<queue, isStop, item, enqueued, delivered, late>>

(* notify_one under the mutex, which the end of the scope gives back *)
EnqNotify(p) ==
    /\ pc[p] = "notify"
    /\ Release(p)
    /\ NotifyOne(p, "idle")
    /\ UNCHANGED <<queue, isStop, item, enqueued, delivered, late>>

-----------------------------------------------------------------------------
(* Stop: neither step takes the mutex *)

StopSet(s) ==
    /\ pc[s] = "idle"
    /\ isStop' = TRUE
    /\ Goto(s, "notify")
    /\ UNCHANGED <<queue, lck, item, enqueued, delivered, late>>

StopNotify(s) ==
    /\ pc[s] = "notify"
    /\ NotifyOne(s, "done")
    /\ UNCHANGED <<queue, isStop, lck, item, enqueued, delivered, late>>

-----------------------------------------------------------------------------
DeQueue(c) == \/ DeqLock(c) \/ DeqTest(c) \/ DeqWait(c) \/ DeqRelock(c)
              \/ DeqLeave(c) \/ DeqStopped(c) \/ DeqPop(c)

EnQueue(p) == (\E x \in Items : EnqLock(p, x)) \/ EnqPush(p) \/ EnqNotify(p)

Stop(s) == StopSet(s) \/ StopNotify(s)

Next ==
    \/ \E c \in Consumers : DeQueue(c) \/ Spurious(c)
    \/ \E p \in Producers : EnQueue(p)
    \/ \E s \in Stoppers : Stop(s)

Spec == Init /\ [][Next]_vars

(***************************************************************************)
(* Every thread runs on while it can.  The consumers of the library loop   *)
(* over DeQueue (cNetworkServerReceiveHandler::serverListenThread, the     *)
(* notify thread of ModuleManager), so a consumer also comes back; a mutex *)
(* that is free again and again is granted eventually, hence strong        *)
(* fairness for the two lock steps.  Nobody is obliged to call EnQueue or  *)
(* Stop, and a spurious wake-up is never owed.                             *)
(***************************************************************************)
Fairness ==
    /\ \A c \in Consumers : /\ SF_vars(DeqLock(c) \/ DeqRelock(c))
                            /\ WF_vars(DeQueue(c))
    /\ \A p \in Producers : WF_vars(EnqPush(p) \/ EnqNotify(p))
    /\ \A s \in Stoppers : WF_vars(StopNotify(s))

FairSpec == Spec /\ Fairness

-----------------------------------------------------------------------------
ConsumerPC == {"idle", "test", "sleep", "waiting", "woken", "leave",
               "stopped", "pop"}
ProducerPC == {"idle", "push", "notify"}
StopperPC  == {"idle", "notify", "done"}

(* The type invariant; `delivered' holds items only: the T() that a        *)
(* stopped DeQueue returns is never taken for one.                         *)
TypeOK ==
    /\ queue \in Seq(Items)
    /\ isStop \in BOOLEAN
    /\ lck \in Threads \cup {NoThread}
    /\ pc \in [Threads -> ConsumerPC \cup ProducerPC \cup StopperPC]
    /\ \A c \in Consumers : pc[c] \in ConsumerPC
    /\ \A p \in Producers : pc[p] \in ProducerPC
    /\ \A s \in Stoppers : pc[s] \in StopperPC
    /\ item \in [Producers -> Items]
    /\ enqueued \in Seq(Items)
    /\ delivered \in Seq(Items)
    /\ late \in Nat

(* The threads between lck( _lck ) and the release of the mutex. *)
InCS == {c \in Consumers : pc[c] \in {"test", "sleep", "leave", "stopped", "pop"}}
        \cup {p \in Producers : pc[p] \in {"push", "notify"}}

(* The consumers that will look at the queue again before they sleep. *)
Looking == {c \in Consumers : pc[c] \in {"woken", "test", "leave", "pop"}}

(* The producers that have pushed and not yet notified. *)
Notifying == {p \in Producers : pc[p] = "notify"}

(***************************************************************************)
(* No lost wake-up of an item: while a consumer sleeps, every queued item  *)
(* has a consumer of its own that is awake and bound to look, or the       *)
(* notification still to be sent by the producer that holds the mutex.     *)
(* notify_one in EnQueue (line 46) is therefore enough for any number of   *)
(* consumers, until Stop makes awake consumers leave without popping.      *)
(***************************************************************************)
NoLostWakeup ==
    ~isStop /\ Waiting # {} =>
        Len(queue) <= Cardinality(Looking) + (IF Notifying = {} THEN 0 ELSE 1)

(***************************************************************************)
(* Even after Stop, an item never lies in the queue with every consumer    *)
(* asleep and no notification on its way: a late EnQueue gets a sleeper    *)
(* out that Stop missed.                                                   *)
(***************************************************************************)
ItemWakesSomeone ==
    queue # <<>> => Waiting # Consumers \/ Notifying # {}

-----------------------------------------------------------------------------
(* What the queue promises: see FifoQueue. *)
Abstract == INSTANCE FifoQueue WITH closed <- isStop

(* Every behaviour of the threads is a behaviour of the abstract queue.    *)
ImplementsFifo == Abstract!Spec

(* FIFO without loss or duplication, as a predicate on EventQueue's state. *)
FifoOrder == Abstract!Fifo

(***************************************************************************)
(* Every item enqueued is delivered, unless the queue is stopped (items    *)
(* left at Stop are dropped).                                              *)
(***************************************************************************)
Delivery ==
    \A n \in 1..MaxEnq :
        Len(enqueued) >= n ~> Len(delivered) >= n \/ isStop

(***************************************************************************)
(* A consumer that is awake in DeQueue when Stop is called gets out.  (One *)
(* that sleeps, or is about to, is not promised anything: Stop notifies    *)
(* one sleeper only, and misses one that is between its test and wait().)  *)
(***************************************************************************)
StopFreesAwake ==
    \A c \in Consumers :
        isStop /\ pc[c] \in {"woken", "test", "leave", "pop"} ~> pc[c] = "idle"

=============================================================================
