--------------------------- MODULE ModuleManager ---------------------------
(***************************************************************************)
(* cModuleManager, the registry of modules by name, with the life cycle of *)
(* the modules (cModuleBase) and the thread that notifies them of jobs.    *)
(*                                                                         *)
(* Any thread may call RegisterModule, UnRegisterModule, NotifyAllModule   *)
(* and NotifyGroupModule; users also find modules with GetModule, to       *)
(* initialise, start, stop and finalise them.  The registry is guarded by  *)
(* _lckModule, a std::shared_mutex, which RegisterModule holds exclusively *)
(* while it runs moduleInit; but the notify thread walks without it.       *)
(***************************************************************************)
EXTENDS Naturals, Sequences, FiniteSets

CONSTANTS Names,            \* module names: numbers, for their order in the map
          Objects,          \* the modules to be registered
          NoObject,
          Threads,          \* the application's threads
          Users,            \* those of them that find modules, to start and stop them
          WriterPriority,   \* a waiting writer holds up new readers of _lckModule
          MaxJobs           \* bound: how many notifications are sent

ASSUME ManagerAssumption ==
    /\ Names \subseteq Nat \ {0} /\ IsFiniteSet(Names)
    /\ NoObject \notin Objects
    /\ "none" \notin Threads /\ "notify" \notin Threads
    /\ Users \subseteq Threads
    /\ WriterPriority \in BOOLEAN
    /\ MaxJobs \in Nat

VARIABLES map,          \* _mapModuleNameToModule
          writer,       \* who holds _lckModule exclusively, or "none"
          readers,      \* who holds it shared (GetModuleBase twice over)
          state,        \* _eState of each module
          running,      \* its _isRunning
          used,         \* the objects that have been passed to RegisterModule
          pc,           \* where each thread is
          name,         \* the name it is working on
          obj,          \* the module it is working on
          hook,         \* the life cycle operation it has begun
          queue,        \* the notify thread's queue of jobs, numbered as sent
          jobs,         \* how many were sent
          job,          \* the last job the notify thread took from it
          at,           \* the last name it came to
          walk,         \* where it is: "idle", on its way to the "next" entry,
                        \* "at" one, or in "notify", NotifyModule of its module
          notified,     \* history: the last job each module was notified of
          strayed,      \* history: the walk for this job raced with an insertion
          raced         \* history: the modules of which a life cycle operation
                        \* began while another had tested _isRunning

lckVars == <<writer, readers>>
modVars == <<state, running, raced>>
threadVars == <<pc, name, obj, hook>>
notifyVars == <<queue, jobs, job, at, walk, notified, strayed>>
vars == <<map, lckVars, modVars, used, threadVars, notifyVars>>

Init ==
    /\ map = [n \in Names |-> NoObject]
    /\ writer = "none"
    /\ readers = {}
    /\ state = [o \in Objects |-> "none"]
    /\ running = [o \in Objects |-> FALSE]
    /\ used = {}
    /\ pc = [t \in Threads |-> "idle"]
    /\ name = [t \in Threads |-> 0]
    /\ obj = [t \in Threads |-> NoObject]
    /\ hook = [t \in Threads |-> "none"]
    /\ queue = <<>>
    /\ jobs = 0
    /\ job = 0
    /\ at = 0
    /\ walk = "idle"
    /\ notified = [o \in Objects |-> 0]
    /\ strayed = FALSE
    /\ raced = {}

Goto(t, where) == pc' = [pc EXCEPT ![t] = where]

(* A call returns; its variables are gone.                                 *)
Return(t) ==
    /\ Goto(t, "idle")
    /\ name' = [name EXCEPT ![t] = 0]
    /\ obj' = [obj EXCEPT ![t] = NoObject]
    /\ hook' = [hook EXCEPT ![t] = "none"]

CanRead ==
    /\ writer = "none"
    /\ WriterPriority => \A t \in Threads : pc[t] \notin {"insert", "delete"}
CanWrite == writer = "none" /\ readers = {}

-----------------------------------------------------------------------------
(* A module that was not registered before: they are all alike.            *)
NewModule == CHOOSE o \in Objects : o \notin used

(* RegisterModule: IsExistModule, under a lock of its own, and if the name *)
(* is free ... (if not, nothing happens)                                   *)
RegisterModule(t, n) ==
    /\ pc[t] = "idle"
    /\ used # Objects
    /\ CanRead
    /\ map[n] = NoObject
    /\ used' = used \cup {NewModule}
    /\ name' = [name EXCEPT ![t] = n]
    /\ obj' = [obj EXCEPT ![t] = NewModule]
    /\ Goto(t, "insert")
    /\ UNCHANGED <<map, lckVars, modVars, hook, notifyVars>>

(* ... insertModule: operator[] changes the tree, the lock held, ...       *)
insertModule(t) ==
    /\ pc[t] = "insert"
    /\ CanWrite
    /\ writer' = t
    /\ Goto(t, "inserting")
    /\ UNCHANGED <<map, readers, modVars, used, name, obj, hook, notifyVars>>

(* Mutant: the lock is released before moduleInit. *)
insertModuleInits_Unlocked(t) ==
    /\ pc[t] = "inserting"
    /\ writer' = "none"
    /\ map' = [map EXCEPT ![name[t]] = obj[t]]
    /\ running' = [running EXCEPT ![obj[t]] = TRUE]
    /\ hook' = [hook EXCEPT ![t] = "init"]
    /\ Goto(t, "init")
    /\ UNCHANGED <<readers, state, raced, used, name, obj, notifyVars>>

(* ... whatever the name stands for by now is replaced, and ModuleInit     *)
(* enters moduleInit of the new module, ...                                *)
insertModuleInits(t) ==
    /\ pc[t] = "inserting"
    /\ map' = [map EXCEPT ![name[t]] = obj[t]]
    /\ running' = [running EXCEPT ![obj[t]] = TRUE]
    /\ hook' = [hook EXCEPT ![t] = "init"]
    /\ Goto(t, "init")
    /\ UNCHANGED <<lckVars, state, raced, used, name, obj, notifyVars>>

(* ... which returns; only then is the lock released.  (Nobody else knows  *)
(* the module, so ModuleInit's last steps may be one.)                     *)
insertModuleReturns(t) ==
    /\ pc[t] = "init"
    /\ state' = [state EXCEPT ![obj[t]] = "init"]
    /\ running' = [running EXCEPT ![obj[t]] = FALSE]
    /\ writer' = "none"
    /\ Return(t)
    /\ UNCHANGED <<map, readers, raced, used, notifyVars>>

(* UnRegisterModule: IsExistModule, and if the name is known ...           *)
UnRegisterModule(t, n) ==
    /\ pc[t] = "idle"
    /\ CanRead
    /\ map[n] # NoObject
    /\ Goto(t, "delete")
    /\ UNCHANGED <<map, lckVars, modVars, used, name, obj, hook, notifyVars>>

(***************************************************************************)
(* ... deleteModule locks _lckModule, and GetModuleBase locks it again,    *)
(* shared.  That is undefined: std::shared_mutex throws resource_deadlock_ *)
(* would_occur with one standard library, leaving UnRegisterModule, and    *)
(* blocks for ever with another.  What deleteModule would do next,         *)
(* ModuleStop, ModuleFinal and the erasing, is not reached in either case. *)
(***************************************************************************)
deleteModule(t) ==
    /\ pc[t] = "delete"
    /\ CanWrite
    /\ \/ Return(t) /\ UNCHANGED writer
       \/ /\ Goto(t, "stuck")
          /\ writer' = t
          /\ UNCHANGED <<name, obj, hook>>
    /\ UNCHANGED <<map, readers, modVars, used, notifyVars>>

NotifyAllModule(t) ==
    /\ pc[t] = "idle"
    /\ jobs < MaxJobs
    /\ jobs' = jobs + 1
    /\ queue' = Append(queue, jobs + 1)
    /\ UNCHANGED <<map, lckVars, modVars, used, threadVars, job, at, walk, notified, strayed>>

(* It queues the jobs, not the info that has the group: the group is lost. *)
NotifyGroupModule(t) == NotifyAllModule(t)

-----------------------------------------------------------------------------
(* Mutant: without IsExistModule. *)
GetModule_NoTest(t, n) ==
    /\ t \in Users
    /\ pc[t] = "idle"
    /\ CanRead
    /\ name' = [name EXCEPT ![t] = n]
    /\ Goto(t, "get")
    /\ UNCHANGED <<map, lckVars, modVars, used, obj, hook, notifyVars>>

(* GetModule: IsExistModule, then ...                                      *)
GetModule(t, n) ==
    /\ t \in Users
    /\ pc[t] = "idle"
    /\ CanRead
    /\ map[n] # NoObject
    /\ name' = [name EXCEPT ![t] = n]
    /\ Goto(t, "get")
    /\ UNCHANGED <<map, lckVars, modVars, used, obj, hook, notifyVars>>

(* ... GetModuleBase, which locks shared ...                               *)
GetModuleBase(t) ==
    /\ pc[t] = "get"
    /\ CanRead
    /\ readers' = readers \cup {t}
    /\ Goto(t, "get again")
    /\ UNCHANGED <<map, writer, modVars, used, name, obj, hook, notifyVars>>

(* ... and calls IsExistModule, which locks shared again.                  *)
GetModuleBaseRelocks(t) ==
    /\ pc[t] = "get again"
    /\ CanRead
    /\ obj' = [obj EXCEPT ![t] = map[name[t]]]
    /\ readers' = readers \ {t}
    /\ name' = [name EXCEPT ![t] = 0]
    /\ Goto(t, "got")
    /\ UNCHANGED <<map, writer, modVars, used, hook, notifyVars>>

LetGo(t) ==
    /\ pc[t] = "got"
    /\ Return(t)
    /\ UNCHANGED <<map, lckVars, modVars, used, notifyVars>>

-----------------------------------------------------------------------------
(* The life cycle operations: ModuleInit, ModuleStart, ModuleStop and      *)
(* ModuleFinal.                                                            *)

Allowed(h) ==
    CASE h = "init"  -> {"none", "final"}
      [] h = "start" -> {"init", "stop"}
      [] h = "stop"  -> {"start", "stop"}
      [] h = "final" -> {"stop"}

Hooks == {"init", "start", "stop", "final"}

(* Mutant: _isRunning is not tested. *)
TestRunning_Not(t) ==
    /\ pc[t] = "got"
    /\ Goto(t, "tested")
    /\ UNCHANGED <<map, lckVars, modVars, used, name, obj, hook, notifyVars>>

(* They test _isRunning, ...                                               *)
TestRunning(t) ==
    /\ pc[t] = "got"
    /\ ~running[obj[t]]
    /\ Goto(t, "tested")
    /\ UNCHANGED <<map, lckVars, modVars, used, name, obj, hook, notifyVars>>

(* ... read the state, which admits an operation or not, ...               *)
TestState(t, h) ==
    /\ pc[t] = "tested"
    /\ IF state[obj[t]] \in Allowed(h)
       THEN Goto(t, "call") /\ hook' = [hook EXCEPT ![t] = h]
       ELSE Goto(t, "got") /\ UNCHANGED hook
    /\ UNCHANGED <<map, lckVars, modVars, used, name, obj, notifyVars>>

Entering(o) == {t \in Threads : obj[t] = o /\ pc[t] \in {"tested", "call"}}

(* ... set _isRunning and run the hook, ...                                *)
EnterHook(t) ==
    /\ pc[t] = "call"
    /\ running' = [running EXCEPT ![obj[t]] = TRUE]
    /\ raced' = IF Entering(obj[t]) = {t} THEN raced ELSE raced \cup {obj[t]}
    /\ Goto(t, "hook")
    /\ UNCHANGED <<map, lckVars, state, used, name, obj, hook, notifyVars>>

(* ... set the new state, whether or not the hook succeeded, ...           *)
LeaveHook(t) ==
    /\ pc[t] = "hook"
    /\ state' = [state EXCEPT ![obj[t]] = hook[t]]
    /\ hook' = [hook EXCEPT ![t] = "none"]
    /\ Goto(t, "leave")
    /\ UNCHANGED <<map, lckVars, running, raced, used, name, obj, notifyVars>>

(* ... and clear _isRunning.                                               *)
ClearRunning(t) ==
    /\ pc[t] = "leave"
    /\ running' = [running EXCEPT ![obj[t]] = FALSE]
    /\ Goto(t, "got")
    /\ UNCHANGED <<map, lckVars, state, raced, used, name, obj, hook, notifyVars>>

-----------------------------------------------------------------------------
(* The notify thread. *)

(* Mutant: the newest job is taken first. *)
DeQueueJob_Newest ==
    /\ walk = "idle"
    /\ queue # <<>>
    /\ job' = queue[Len(queue)]
    /\ queue' = SubSeq(queue, 1, Len(queue) - 1)
    /\ walk' = "next"
    /\ strayed' = FALSE
    /\ UNCHANGED <<map, lckVars, modVars, used, threadVars, jobs, at, notified>>

DeQueueJob ==
    /\ walk = "idle"
    /\ queue # <<>>
    /\ job' = Head(queue)
    /\ queue' = Tail(queue)
    /\ walk' = "next"
    /\ strayed' = FALSE
    /\ UNCHANGED <<map, lckVars, modVars, used, threadVars, jobs, at, notified>>

(* The entries from the last one on.                                       *)
Ahead == {n \in Names : n > at /\ map[n] # NoObject}

(* Insertions that rebuild the tree at this moment. *)
Growing == {name[t] : t \in {s \in Threads : pc[s] = "inserting" /\ map[name[s]] = NoObject}}

(* The iterator is moved without the lock.  While an entry is inserted     *)
(* that is a data race: it may skip entries, or climb back to one that it  *)
(* has passed (nothing worse is followed here).                            *)
NextEntry(n) ==
    /\ walk = "next"
    /\ \/ /\ Growing = {}
          /\ n \in Ahead /\ \A m \in Ahead : n <= m
          /\ UNCHANGED strayed
       \/ /\ Growing # {}
          /\ map[n] # NoObject \/ n \in Growing
          /\ strayed' = TRUE
    /\ at' = n
    /\ walk' = "at"
    /\ UNCHANGED <<map, lckVars, modVars, used, threadVars, queue, jobs, job, notified>>

(* Mutant: the loop is left at the first module that is not started. *)
EndOfMap_First ==
    /\ walk = "next"
    /\ Ahead = {} \/ (at # 0 /\ state[map[at]] # "start")
    /\ walk' = "idle"
    /\ at' = 0
    /\ UNCHANGED <<map, lckVars, modVars, used, threadVars, queue, jobs, job, notified, strayed>>

EndOfMap ==
    /\ walk = "next"
    /\ \/ Growing = {} /\ Ahead = {} /\ UNCHANGED strayed
       \/ Growing # {} /\ strayed' = TRUE
    /\ walk' = "idle"
    /\ at' = 0
    /\ UNCHANGED <<map, lckVars, modVars, used, threadVars, queue, jobs, job, notified>>

(* Under the lock, the state of the module is tested ...  (No job in the   *)
(* queue has a group, see NotifyGroupModule, so no group is compared.)     *)
VisitModule ==
    /\ walk = "at"
    /\ CanRead
    /\ IF state[map[at]] = "start"
       THEN walk' = "notify" /\ readers' = readers \cup {"notify"}
       ELSE walk' = "next" /\ UNCHANGED readers
    /\ UNCHANGED <<map, writer, modVars, used, threadVars, queue, jobs, job, at, notified,
                   strayed>>

(* ... and if it is started it is notified, the lock still held.           *)
NotifyModule ==
    /\ walk = "notify"
    /\ walk' = "next"
    /\ readers' = readers \ {"notify"}
    /\ notified' = [notified EXCEPT ![map[at]] = job]
    /\ UNCHANGED <<map, writer, modVars, used, threadVars, queue, jobs, job, at, strayed>>

-----------------------------------------------------------------------------
Begin(t) ==
    \/ \E n \in Names : RegisterModule(t, n) \/ UnRegisterModule(t, n) \/ GetModule(t, n)
    \/ NotifyAllModule(t) \/ NotifyGroupModule(t)
    \/ TestRunning(t)

Continue(t) ==
    \/ insertModule(t) \/ insertModuleInits(t) \/ insertModuleReturns(t)
    \/ deleteModule(t)
    \/ GetModuleBase(t) \/ GetModuleBaseRelocks(t) \/ LetGo(t)
    \/ (\E h \in Hooks : TestState(t, h)) \/ EnterHook(t) \/ LeaveHook(t) \/ ClearRunning(t)

notifyAllModule ==
    \/ DeQueueJob \/ (\E n \in Names : NextEntry(n)) \/ EndOfMap
    \/ VisitModule \/ NotifyModule

Next == (\E t \in Threads : Begin(t) \/ Continue(t)) \/ notifyAllModule

Spec == Init /\ [][Next]_vars

(* Every thread finishes what it began, hooks and NotifyModule return, and *)
(* _lckModule is fair.                                                     *)
Fairness ==
    /\ \A t \in Threads : SF_vars(Continue(t))
    /\ SF_vars(notifyAllModule)

FairSpec == Spec /\ Fairness

-----------------------------------------------------------------------------
FinderPC == {"got", "tested", "call", "hook", "leave"}
PC == {"idle", "insert", "inserting", "init", "delete", "stuck",
       "get", "get again"} \cup FinderPC

TypeOK ==
    /\ map \in [Names -> Objects \cup {NoObject}]
    /\ writer \in Threads \cup {"none"}
    /\ readers \subseteq Threads \cup {"notify"}
    /\ state \in [Objects -> Hooks \cup {"none"}]
    /\ running \in [Objects -> BOOLEAN]
    /\ raced \subseteq Objects
    /\ used \subseteq Objects
    /\ pc \in [Threads -> PC]
    /\ name \in [Threads -> Names \cup {0}]
    /\ obj \in [Threads -> Objects \cup {NoObject}]
    /\ \A t \in Threads : pc[t] \in FinderPC => obj[t] # NoObject
    /\ hook \in [Threads -> Hooks \cup {"none"}]
    /\ job \in 0..jobs /\ jobs \in 0..MaxJobs
    /\ at \in Names \cup {0}
    /\ walk \in {"idle", "next", "at", "notify"}
    /\ notified \in [Objects -> 0..jobs]
    /\ strayed \in BOOLEAN

(***************************************************************************)
(* A module that GetModule returns has been through moduleInit: it is not  *)
(* to be found while RegisterModule is still initialising it.              *)
(***************************************************************************)
FoundIsInitialised ==
    \A t \in Threads : pc[t] \in FinderPC => state[obj[t]] # "none"

(***************************************************************************)
(* The hooks of a module run one at a time and in the order of its life    *)
(* cycle, whoever starts, stops and finalises it and whoever registers,    *)
(* until two threads pass the test of _isRunning before either has set it: *)
(* from then on nothing is promised of that module, nor kept.              *)
(***************************************************************************)
HookOf(o) ==
    IF \E t \in Threads : pc[t] \in {"init", "hook"} /\ obj[t] = o
    THEN hook[CHOOSE t \in Threads : pc[t] \in {"init", "hook"} /\ obj[t] = o]
    ELSE "none"

Lifecycle == INSTANCE ModuleLifecycle
    WITH state <- [o \in Objects |-> IF o \in raced THEN "lost" ELSE state[o]],
         hook <- [o \in Objects |-> IF o \in raced THEN "none" ELSE HookOf(o)],
         entering <- [o \in Objects |-> IF o \in raced THEN {} ELSE Entering(o)]

ImplementsLifecycle == Lifecycle!Spec

(***************************************************************************)
(* A module is notified of jobs in the order they were sent, and of each   *)
(* at most once, but for a job whose walk races with an insertion, which   *)
(* it may be told of again: however many modules are registered, or put in *)
(* its place, while the notify thread is between two.                      *)
(***************************************************************************)
NotifiedInOrder ==
    walk = "notify" => \/ notified[map[at]] < job
                       \/ notified[map[at]] = job /\ strayed

(***************************************************************************)
(* A module that is started while the last job waits, behind the others,   *)
(* is notified of it, of which group ever it is and whichever the job was  *)
(* sent to, unless it is stopped or replaced first, the walk for that job  *)
(* races with an insertion, or UnRegisterModule hangs.                     *)
(***************************************************************************)
Waits(j) == \E i \in 1..Len(queue) : queue[i] = j

IsRegistered(o) == \E n \in Names : map[n] = o

Hung == \E t \in Threads : pc[t] = "stuck"

JobReachesModule ==
    \A o \in Objects :
        Waits(MaxJobs) /\ IsRegistered(o) /\ state[o] = "start"
            ~> \/ notified[o] = MaxJobs
               \/ ~IsRegistered(o)
               \/ state[o] # "start"
               \/ job = MaxJobs /\ strayed
               \/ Hung

=============================================================================
