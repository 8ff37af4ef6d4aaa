------------------------ MODULE ModuleManagerProofs ------------------------
(***************************************************************************)
(* Proofs about ModuleManager, for any number of names, modules, threads   *)
(* and jobs: the types, that GetModule finds only initialised modules,     *)
(* that modules are notified of jobs in order, that the manager implements *)
(* ModuleLifecycle, and that neither the registry's lock nor a module's    *)
(* flag stays set for good.  Each of the first lemmas shows that one       *)
(* action keeps the inductive invariant IInv: <1>a is what the action      *)
(* does, and then there is a step for each part of IInv it can disturb and *)
(* one for the others.                                                     *)
(***************************************************************************)
EXTENDS ModuleManager, TLAPS

-----------------------------------------------------------------------------
(* The inductive invariant behind the three invariants of ModuleManager.   *)

NewPC == {"insert", "inserting"}

(* What a thread knows of the name and the module it works on.             *)
ThreadInv ==
    \A t \in Threads :
        /\ pc[t] \in NewPC \cup {"get", "get again"} => name[t] \in Names
        /\ pc[t] \in {"get", "get again"} => map[name[t]] # NoObject
        /\ pc[t] \in NewPC \cup {"init"} \cup FinderPC => obj[t] \in used
        /\ pc[t] \in {"init", "call", "hook"} => hook[t] \in Hooks

(* _lckModule excludes readers from writers, and is held where it should   *)
(* be: by RegisterModule from the insertion on, and in NotifyModule.       *)
LockInv ==
    /\ \A t \in Threads : writer = t <=> pc[t] \in {"inserting", "init", "stuck"}
    /\ \A t \in Threads : t \in readers <=> pc[t] = "get again"
    /\ "notify" \in readers <=> walk = "notify"
    /\ writer # "none" => readers = {}

(* A module has one name at most, and RegisterModule is still in its       *)
(* moduleInit as long as it is not initialised.                            *)
InInit(o) == \E t \in Threads : pc[t] = "init" /\ obj[t] = o

MapInv ==
    /\ \A m, n \in Names : map[m] # NoObject /\ map[m] = map[n] => m = n
    /\ \A n \in Names : map[n] # NoObject =>
        map[n] \in used /\ (state[map[n]] = "none" => InInit(map[n]))
    /\ \A t \in Threads : pc[t] = "init" =>
        hook[t] = "init" /\ state[obj[t]] = "none" /\ IsRegistered(obj[t])

(* A module is unknown to all but its registrar until it is in the map.    *)
New(o) == state[o] = "none" /\ notified[o] = 0 /\ \A n \in Names : map[n] # o

FreshInv ==
    /\ \A o \in Objects \ used : New(o)
    /\ \A t \in Threads : pc[t] \in NewPC =>
        /\ New(obj[t])
        /\ \A s \in Threads \ {t} : pc[s] \in NewPC => obj[s] # obj[t]

(* The jobs are numbered as they are taken from the queue.                 *)
JobInv ==
    /\ queue \in Seq(Nat)
    /\ job + Len(queue) = jobs
    /\ \A i \in 1..Len(queue) : queue[i] = job + i
    /\ walk # "idle" => job # 0

(* The notify thread comes to no entry but one of the map, or one that is  *)
(* just being inserted.                                                    *)
WalkInv ==
    walk \in {"at", "notify"} =>
        /\ at \in Names
        /\ map[at] # NoObject \/ \E t \in Threads : pc[t] = "inserting" /\ name[t] = at

(* No module was notified of a job not yet taken, nor one that a walk that *)
(* did not stray has still to come to of the present one.                  *)
NotifiedInv ==
    /\ \A o \in Objects : notified[o] <= job
    /\ walk # "idle" /\ ~strayed =>
        \A n \in Names :
            map[n] # NoObject /\ (n > at \/ (walk # "next" /\ n = at)) =>
                notified[map[n]] < job

IInv ==
    /\ TypeOK
    /\ ThreadInv
    /\ LockInv
    /\ MapInv
    /\ FreshInv
    /\ JobInv
    /\ WalkInv
    /\ NotifiedInv
    /\ FoundIsInitialised

-----------------------------------------------------------------------------
LEMMA Numbers ==
    TypeOK => /\ jobs \in Nat /\ job \in 0..jobs /\ job \in Nat
              /\ notified \in [Objects -> Nat]
              /\ at \in Nat /\ Names \subseteq Nat
<1> SUFFICES ASSUME TypeOK
             PROVE  /\ jobs \in Nat /\ job \in 0..jobs /\ job \in Nat
                    /\ notified \in [Objects -> Nat]
                    /\ at \in Nat /\ Names \subseteq Nat
  OBVIOUS
<1>1. jobs \in 0..MaxJobs /\ job \in 0..jobs /\ Names \subseteq Nat /\ at \in Names \cup {0}
  BY ManagerAssumption DEF TypeOK
<1>2. jobs \in Nat
  BY <1>1, ManagerAssumption
<1>3. notified \in [Objects -> 0..jobs]
  BY DEF TypeOK
<1>4. QED
  BY <1>1, <1>2, <1>3

LEMMA InitInv == Init => IInv
<1> SUFFICES ASSUME Init PROVE IInv
  OBVIOUS
<1>1. TypeOK
  <2>1. 0 \in 0..MaxJobs /\ 0 \in 0..0
    BY ManagerAssumption
  <2>2. QED
    BY <2>1 DEF Init, TypeOK, PC, FinderPC
<1>2. ThreadInv /\ FoundIsInitialised
  BY DEF Init, ThreadInv, FoundIsInitialised, FinderPC, NewPC
<1>3. LockInv
  BY ManagerAssumption DEF Init, LockInv
<1>4. MapInv
  BY DEF Init, MapInv
<1>5. FreshInv
  BY ManagerAssumption DEF Init, FreshInv, New, NewPC
<1>6. JobInv /\ WalkInv /\ NotifiedInv
  <2>1. /\ queue = <<>> /\ jobs = 0 /\ job = 0 /\ walk = "idle"
        /\ notified = [o \in Objects |-> 0]
    BY DEF Init
  <2>2. <<>> \in Seq(Nat) /\ Len(<<>>) = 0
    OBVIOUS
  <2>3. JobInv
    BY <2>1, <2>2 DEF JobInv
  <2>4. QED
    BY <2>1, <2>3 DEF WalkInv, NotifiedInv
<1>7. QED
  BY <1>1, <1>2, <1>3, <1>4, <1>5, <1>6 DEF IInv

(* A step of one thread that changes no more than its own variables, and   *)
(* at most gives the lock up: the parts of IInv about the map, the modules *)
(* and the jobs are kept.                                                  *)
LEMMA ThreadOnly ==
    ASSUME IInv, NEW t \in Threads,
           UNCHANGED <<map, modVars, used, notifyVars>>,
           \A s \in Threads \ {t} : UNCHANGED <<pc[s], name[s], obj[s], hook[s]>>,
           pc[t] \notin {"inserting", "init"}, pc'[t] \notin NewPC \cup {"init"}
    PROVE  MapInv' /\ FreshInv' /\ JobInv' /\ WalkInv' /\ NotifiedInv'
<1> USE DEF IInv, modVars, notifyVars
<1>1. MapInv'
  <2>1. \A o : InInit(o)' <=> InInit(o)
    BY DEF InInit
  <2>2. \A s \in Threads : pc'[s] = "init" => UNCHANGED <<pc[s], obj[s], hook[s]>>
    OBVIOUS
  <2>3. UNCHANGED <<map, state, used>>
    OBVIOUS
  <2>4. QED
    BY <2>1, <2>2, <2>3 DEF MapInv, IsRegistered
<1>2. FreshInv'
  <2>1. \A o : New(o)' <=> New(o)
    BY DEF New
  <2>2. \A s \in Threads : pc'[s] \in NewPC => UNCHANGED <<pc[s], obj[s]>>
    OBVIOUS
  <2>3. QED
    BY <2>1, <2>2 DEF FreshInv
<1>3. JobInv' /\ NotifiedInv'
  BY DEF JobInv, NotifiedInv
<1>4. WalkInv'
  BY DEF WalkInv
<1>5. QED
  BY <1>1, <1>2, <1>3, <1>4

-----------------------------------------------------------------------------
(* Registering. *)

LEMMA RegisterModuleInv ==
    ASSUME IInv, NEW t \in Threads, NEW n \in Names, RegisterModule(t, n)
    PROVE  IInv'
<1> USE DEF IInv, PC, FinderPC, NewPC, Goto, lckVars, modVars, threadVars, notifyVars
<1>b. NewModule \in Objects /\ NewModule \notin used
  <2>1. \E o \in Objects : o \notin used
    BY DEF RegisterModule, TypeOK
  <2>2. QED
    BY <2>1 DEF NewModule
<1>a. /\ pc[t] = "idle"
      /\ used' = used \cup {NewModule}
      /\ pc' = [pc EXCEPT ![t] = "insert"]
      /\ name' = [name EXCEPT ![t] = n]
      /\ obj' = [obj EXCEPT ![t] = NewModule]
      /\ UNCHANGED <<hook, map, lckVars, modVars, notifyVars>>
  BY DEF RegisterModule
<1>t. /\ pc \in [Threads -> PC]
      /\ name \in [Threads -> Names \cup {0}]
      /\ obj \in [Threads -> Objects \cup {NoObject}]
  BY DEF TypeOK
<1>c. /\ pc'[t] = "insert" /\ obj'[t] = NewModule /\ name'[t] = n
      /\ \A s \in Threads \ {t} : UNCHANGED <<pc[s], name[s], obj[s], hook[s]>>
  BY <1>a, <1>t
<1>f. \A o : New(o)' <=> New(o)
  BY <1>a DEF New
<1>i. \A o : InInit(o)' <=> InInit(o)
  BY <1>a, <1>c DEF InInit
<1>1. TypeOK'
  <2>1. /\ pc' \in [Threads -> PC]
        /\ name' \in [Threads -> Names \cup {0}]
        /\ obj' \in [Threads -> Objects \cup {NoObject}]
    BY <1>a, <1>b, <1>t
  <2>2. used' \subseteq Objects
    BY <1>a, <1>b DEF TypeOK
  <2>3. \A s \in Threads : pc'[s] \in FinderPC => obj'[s] # NoObject
    BY <1>c DEF TypeOK
  <2>4. QED
    BY <1>a, <2>1, <2>2, <2>3 DEF TypeOK
<1>2. ThreadInv'
  <2> SUFFICES ASSUME NEW s \in Threads
               PROVE  /\ pc'[s] \in NewPC \cup {"get", "get again"} => name'[s] \in Names
                      /\ pc'[s] \in {"get", "get again"} => map'[name'[s]] # NoObject
                      /\ pc'[s] \in NewPC \cup {"init"} \cup FinderPC => obj'[s] \in used'
                      /\ pc'[s] \in {"init", "call", "hook"} => hook'[s] \in Hooks
    BY DEF ThreadInv
  <2>1. CASE s = t
    <3>1. pc'[s] = "insert" /\ name'[s] \in Names /\ obj'[s] \in used'
      BY <1>a, <1>c, <2>1
    <3>2. QED
      BY <3>1
  <2>2. CASE s # t
    <3>1. UNCHANGED <<pc[s], name[s], obj[s], hook[s], map>> /\ used \subseteq used'
      BY <1>a, <1>c, <2>2
    <3>2. QED
      BY <3>1 DEF ThreadInv
  <2>3. QED
    BY <2>1, <2>2
<1>3. LockInv'
  BY <1>a, <1>c DEF LockInv
<1>4. MapInv'
  <2>1. \A s \in Threads : pc'[s] = "init" => UNCHANGED <<pc[s], obj[s], hook[s]>>
    BY <1>a, <1>c
  <2>2. UNCHANGED <<map, state>> /\ used \subseteq used'
    BY <1>a
  <2>3. QED
    BY <1>i, <2>1, <2>2 DEF MapInv, IsRegistered
<1>5. FreshInv'
  <2>1. \A s \in Threads : pc[s] \in NewPC => obj[s] # NewModule
    BY <1>b DEF ThreadInv
  <2>2. New(NewModule)
    BY <1>b DEF FreshInv
  <2>3. QED
    BY <1>a, <1>c, <1>f, <2>1, <2>2 DEF FreshInv
<1>6. FoundIsInitialised'
  BY <1>a, <1>c DEF FoundIsInitialised
<1>7. WalkInv'
  BY <1>a, <1>c DEF WalkInv
<1>8. JobInv' /\ NotifiedInv'
  BY <1>a DEF JobInv, NotifiedInv
<1>9. QED
  BY <1>1, <1>2, <1>3, <1>4, <1>5, <1>6, <1>7, <1>8

LEMMA insertModuleInv ==
    ASSUME IInv, NEW t \in Threads, insertModule(t)
    PROVE  IInv'
<1> USE DEF IInv, PC, FinderPC, NewPC, Goto, lckVars, modVars, threadVars, notifyVars
<1>a. /\ pc[t] = "insert" /\ writer = "none" /\ readers = {}
      /\ writer' = t
      /\ pc' = [pc EXCEPT ![t] = "inserting"]
      /\ UNCHANGED <<map, readers, modVars, used, name, obj, hook, notifyVars>>
  BY DEF insertModule, CanWrite
<1>t. pc \in [Threads -> PC]
  BY DEF TypeOK
<1>c. /\ pc'[t] = "inserting"
      /\ \A s \in Threads \ {t} : pc'[s] = pc[s]
  BY <1>a, <1>t
<1>f. \A o : New(o)' <=> New(o)
  BY <1>a DEF New
<1>i. \A o : InInit(o)' <=> InInit(o)
  BY <1>a, <1>c DEF InInit
<1>1. TypeOK'
  BY <1>a, <1>t DEF TypeOK
<1>2. ThreadInv'
  BY <1>a, <1>c DEF ThreadInv
<1>3. LockInv'
  BY <1>a, <1>c, ManagerAssumption DEF LockInv
<1>4. MapInv'
  BY <1>a, <1>c, <1>i DEF MapInv, IsRegistered
<1>5. FreshInv'
  BY <1>a, <1>c, <1>f DEF FreshInv
<1>6. FoundIsInitialised'
  BY <1>a, <1>c DEF FoundIsInitialised
<1>7. WalkInv'
  BY <1>a, <1>c DEF WalkInv
<1>8. JobInv' /\ NotifiedInv'
  BY <1>a DEF JobInv, NotifiedInv
<1>9. QED
  BY <1>1, <1>2, <1>3, <1>4, <1>5, <1>6, <1>7, <1>8

LEMMA insertModuleInitsInv ==
    ASSUME IInv, NEW t \in Threads, insertModuleInits(t)
    PROVE  IInv'
<1> USE DEF IInv, PC, FinderPC, NewPC, Goto, lckVars, modVars, threadVars, notifyVars
<1>a. /\ pc[t] = "inserting"
      /\ map' = [map EXCEPT ![name[t]] = obj[t]]
      /\ running' = [running EXCEPT ![obj[t]] = TRUE]
      /\ hook' = [hook EXCEPT ![t] = "init"]
      /\ pc' = [pc EXCEPT ![t] = "init"]
      /\ UNCHANGED <<lckVars, state, raced, used, name, obj, notifyVars>>
  BY DEF insertModuleInits
<1>t. /\ pc \in [Threads -> PC]
      /\ hook \in [Threads -> Hooks \cup {"none"}]
      /\ map \in [Names -> Objects \cup {NoObject}]
      /\ used \subseteq Objects
      /\ obj \in [Threads -> Objects \cup {NoObject}]
  BY DEF TypeOK
<1>b. /\ name[t] \in Names /\ writer = t
      /\ obj[t] \in used /\ obj[t] \in Objects /\ New(obj[t])
  BY <1>a, <1>t DEF ThreadInv, FreshInv, LockInv
<1>c. /\ pc'[t] = "init" /\ hook'[t] = "init"
      /\ \A s \in Threads \ {t} : UNCHANGED <<pc[s], hook[s]>>
  BY <1>a, <1>t
<1>o. \A s \in Threads \ {t} : pc[s] \notin {"inserting", "init"}
  BY <1>b DEF LockInv
<1>m. \A n \in Names : map'[n] = IF n = name[t] THEN obj[t] ELSE map[n]
  BY <1>a, <1>t
<1>1. TypeOK'
  <2>1. /\ map' \in [Names -> Objects \cup {NoObject}]
        /\ running' \in [Objects -> BOOLEAN]
        /\ hook' \in [Threads -> Hooks \cup {"none"}]
        /\ pc' \in [Threads -> PC]
    BY <1>a, <1>b, <1>t DEF TypeOK, Hooks
  <2>2. \A s \in Threads : pc'[s] \in FinderPC => obj'[s] # NoObject
    <3>1. \A s \in Threads : pc'[s] \in FinderPC => s # t
      BY <1>c
    <3>2. QED
      BY <1>a, <1>c, <3>1 DEF TypeOK
  <2>3. QED
    BY <1>a, <2>1, <2>2 DEF TypeOK
<1>2. ThreadInv'
  <2> SUFFICES ASSUME NEW s \in Threads
               PROVE  /\ pc'[s] \in NewPC \cup {"get", "get again"} => name'[s] \in Names
                      /\ pc'[s] \in {"get", "get again"} => map'[name'[s]] # NoObject
                      /\ pc'[s] \in NewPC \cup {"init"} \cup FinderPC => obj'[s] \in used'
                      /\ pc'[s] \in {"init", "call", "hook"} => hook'[s] \in Hooks
    BY DEF ThreadInv
  <2>0. obj[t] # NoObject
    BY <1>b, ManagerAssumption
  <2>1. CASE s = t
    BY <1>a, <1>b, <1>c, <2>1 DEF Hooks
  <2>2. CASE s # t
    <3>1. UNCHANGED <<pc[s], name[s], obj[s], hook[s], used>>
      BY <1>a, <1>c, <2>2
    <3>2. \A n \in Names : map[n] # NoObject => map'[n] # NoObject
      BY <1>m, <2>0
    <3>3. QED
      BY <3>1, <3>2 DEF ThreadInv
  <2>3. QED
    BY <2>1, <2>2
<1>3. LockInv'
  BY <1>a, <1>c DEF LockInv
<1>4. MapInv'
  <2>1. \A n \in Names : map[n] # NoObject => map[n] # obj[t] /\ state[map[n]] # "none"
    BY <1>a, <1>b, <1>o DEF MapInv, InInit, New
  <2>2. state[obj[t]] = "none"
    BY <1>b DEF New
  <2>3. QED
    BY <1>a, <1>b, <1>c, <1>m, <1>o, <2>1, <2>2 DEF MapInv, InInit, IsRegistered
<1>5. FreshInv'
  <2>1. \A o : New(o) /\ o # obj[t] => New(o)'
    BY <1>a, <1>m DEF New
  <2>2. \A s \in Threads : pc'[s] \in NewPC => s # t /\ pc[s] \in NewPC
    BY <1>c
  <2>3. UNCHANGED <<used, obj>>
    BY <1>a
  <2>4. \A s \in Threads : pc'[s] \in NewPC => New(obj[s])'
    BY <1>a, <2>1, <2>2, <2>3 DEF FreshInv
  <2>5. \A o \in Objects \ used : New(o)'
    BY <1>b, <2>1 DEF FreshInv
  <2>6. QED
    BY <2>2, <2>3, <2>4, <2>5 DEF FreshInv
<1>6. FoundIsInitialised'
  BY <1>a, <1>c DEF FoundIsInitialised
<1>7. WalkInv'
  <2>1. obj[t] # NoObject
    BY <1>b, ManagerAssumption
  <2>2. QED
    BY <1>a, <1>c, <1>m, <2>1 DEF WalkInv
<1>8. NotifiedInv'
  <2>1. notified[obj[t]] = 0
    BY <1>b DEF New
  <2>2. walk # "idle" => 0 < job
    BY Numbers DEF JobInv
  <2>3. QED
    BY <1>a, <1>m, <2>1, <2>2 DEF NotifiedInv
<1>9. JobInv'
  BY <1>a DEF JobInv
<1>10. QED
  BY <1>1, <1>2, <1>3, <1>4, <1>5, <1>6, <1>7, <1>8, <1>9

(* moduleInit has returned: the module is known, and the lock is free.     *)
LEMMA insertModuleReturnsInv ==
    ASSUME IInv, NEW t \in Threads, insertModuleReturns(t)
    PROVE  IInv'
<1> USE DEF IInv, PC, FinderPC, NewPC, Goto, Return, lckVars, modVars, threadVars, notifyVars
<1>a. /\ pc[t] = "init"
      /\ state' = [state EXCEPT ![obj[t]] = "init"]
      /\ running' = [running EXCEPT ![obj[t]] = FALSE]
      /\ writer' = "none"
      /\ pc' = [pc EXCEPT ![t] = "idle"]
      /\ name' = [name EXCEPT ![t] = 0]
      /\ obj' = [obj EXCEPT ![t] = NoObject]
      /\ hook' = [hook EXCEPT ![t] = "none"]
      /\ UNCHANGED <<map, readers, raced, used, notifyVars>>
  BY DEF insertModuleReturns
<1>t. /\ pc \in [Threads -> PC]
      /\ name \in [Threads -> Names \cup {0}]
      /\ obj \in [Threads -> Objects \cup {NoObject}]
      /\ hook \in [Threads -> Hooks \cup {"none"}]
      /\ state \in [Objects -> Hooks \cup {"none"}]
      /\ used \subseteq Objects
  BY DEF TypeOK
<1>b. obj[t] \in Objects /\ writer = t /\ state[obj[t]] = "none" /\ IsRegistered(obj[t])
  BY <1>a, <1>t DEF ThreadInv, LockInv, MapInv
<1>c. /\ pc'[t] = "idle"
      /\ \A s \in Threads \ {t} : UNCHANGED <<pc[s], name[s], obj[s], hook[s]>>
  BY <1>a, <1>t
<1>d. /\ state'[obj[t]] = "init"
      /\ \A o \in Objects \ {obj[t]} : state'[o] = state[o]
  BY <1>a, <1>b, <1>t
<1>o. \A s \in Threads \ {t} : pc[s] \notin {"inserting", "init", "stuck"}
  BY <1>b DEF LockInv
<1>f. \A o \in Objects : New(o) => New(o)'
  BY <1>a, <1>b, <1>d DEF New, IsRegistered
<1>1. TypeOK'
  <2>1. /\ state' \in [Objects -> Hooks \cup {"none"}]
        /\ running' \in [Objects -> BOOLEAN]
        /\ writer' \in Threads \cup {"none"}
    BY <1>a, <1>b, <1>t DEF TypeOK, Hooks
  <2>2. /\ pc' \in [Threads -> PC]
        /\ name' \in [Threads -> Names \cup {0}]
        /\ obj' \in [Threads -> Objects \cup {NoObject}]
        /\ hook' \in [Threads -> Hooks \cup {"none"}]
    BY <1>a, <1>t
  <2>3. \A s \in Threads : pc'[s] \in FinderPC => obj'[s] # NoObject
    <3>1. \A s \in Threads : pc'[s] \in FinderPC => s # t
      BY <1>c
    <3>2. QED
      BY <1>c, <3>1 DEF TypeOK
  <2>4. QED
    BY <1>a, <2>1, <2>2, <2>3 DEF TypeOK
<1>2. ThreadInv'
  <2> SUFFICES ASSUME NEW s \in Threads
               PROVE  /\ pc'[s] \in NewPC \cup {"get", "get again"} => name'[s] \in Names
                      /\ pc'[s] \in {"get", "get again"} => map'[name'[s]] # NoObject
                      /\ pc'[s] \in NewPC \cup {"init"} \cup FinderPC => obj'[s] \in used'
                      /\ pc'[s] \in {"init", "call", "hook"} => hook'[s] \in Hooks
    BY DEF ThreadInv
  <2>1. CASE s = t
    BY <1>c, <2>1
  <2>2. CASE s # t
    <3>1. UNCHANGED <<pc[s], name[s], obj[s], hook[s], map>> /\ used \subseteq used'
      BY <1>a, <1>c, <2>2
    <3>2. QED
      BY <3>1 DEF ThreadInv
  <2>3. QED
    BY <2>1, <2>2
<1>3. LockInv'
  BY <1>a, <1>b, <1>c, <1>o, ManagerAssumption DEF LockInv
<1>4. MapInv'
  <2>1. ASSUME NEW n \in Names, map[n] # NoObject
        PROVE  map[n] \in used /\ (state'[map[n]] = "none" => InInit(map[n])')
    <3>1. map[n] \in used /\ map[n] \in Objects
      BY <1>t, <2>1 DEF MapInv
    <3>2. CASE map[n] = obj[t]
      BY <1>d, <3>1, <3>2, Zenon
    <3>3. CASE map[n] # obj[t]
      BY <1>d, <1>o, <2>1, <3>1, <3>3 DEF MapInv, InInit
    <3>4. QED
      BY <3>2, <3>3
  <2>2. \A s \in Threads : pc'[s] # "init"
    BY <1>c, <1>o
  <2>3. QED
    BY <1>a, <2>1, <2>2 DEF MapInv
<1>5. FreshInv'
  <2>1. \A s \in Threads : pc'[s] \in NewPC => pc[s] \in NewPC /\ obj'[s] = obj[s]
    BY <1>c
  <2>2. \A s \in Threads : pc[s] \in NewPC => obj[s] \in Objects
    BY <1>t DEF ThreadInv
  <2>3. QED
    BY <1>a, <1>f, <2>1, <2>2 DEF FreshInv
<1>6. FoundIsInitialised'
  <2> SUFFICES ASSUME NEW u \in Threads, pc'[u] \in FinderPC
               PROVE  state'[obj'[u]] # "none"
    BY DEF FoundIsInitialised
  <2>1. pc[u] \in FinderPC /\ obj'[u] = obj[u] /\ obj[u] \in Objects
    BY <1>c, <1>t DEF ThreadInv
  <2>2. QED
    BY <1>d, <2>1 DEF FoundIsInitialised
<1>7. WalkInv'
  BY <1>a, <1>c DEF WalkInv
<1>8. JobInv' /\ NotifiedInv'
  BY <1>a DEF JobInv, NotifiedInv
<1>9. QED
  BY <1>1, <1>2, <1>3, <1>4, <1>5, <1>6, <1>7, <1>8

LEMMA UnRegisterModuleInv ==
    ASSUME IInv, NEW t \in Threads, NEW n \in Names, UnRegisterModule(t, n)
    PROVE  IInv'
<1> USE DEF IInv, PC, FinderPC, NewPC, Goto, Return, lckVars, modVars, threadVars, notifyVars
<1>a. /\ pc[t] = "idle"
      /\ pc' = [pc EXCEPT ![t] = "delete"]
      /\ UNCHANGED <<map, lckVars, modVars, used, name, obj, hook, notifyVars>>
  BY DEF UnRegisterModule
<1>t. /\ pc \in [Threads -> PC]
  BY DEF TypeOK
<1>c. \A s \in Threads \ {t} : UNCHANGED <<pc[s], name[s], obj[s], hook[s]>>
  BY <1>a, <1>t
<1>1. TypeOK'
  BY <1>a, <1>t DEF TypeOK
<1>2. ThreadInv'
  BY <1>a, <1>c, <1>t DEF ThreadInv
<1>3. LockInv'
  BY <1>a, <1>c, <1>t, ManagerAssumption DEF LockInv
<1>4. FoundIsInitialised'
  BY <1>a, <1>c, <1>t DEF FoundIsInitialised
<1>5. MapInv' /\ FreshInv' /\ JobInv' /\ WalkInv' /\ NotifiedInv'
  <2>1. pc[t] \notin {"inserting", "init"} /\ pc'[t] \notin NewPC \cup {"init"}
    BY <1>a, <1>t
  <2>2. QED
    BY <1>a, <1>c, <2>1, ThreadOnly
<1>6. QED
  BY <1>1, <1>2, <1>3, <1>4, <1>5

LEMMA deleteModuleInv ==
    ASSUME IInv, NEW t \in Threads, deleteModule(t)
    PROVE  IInv'
<1> USE DEF IInv, PC, FinderPC, NewPC, Goto, Return, lckVars, modVars, threadVars, notifyVars
<1>a. /\ pc[t] = "delete" /\ writer = "none" /\ readers = {}
      /\ \/ /\ writer' = writer
            /\ pc' = [pc EXCEPT ![t] = "idle"]
            /\ name' = [name EXCEPT ![t] = 0]
            /\ obj' = [obj EXCEPT ![t] = NoObject]
            /\ hook' = [hook EXCEPT ![t] = "none"]
         \/ /\ writer' = t
            /\ pc' = [pc EXCEPT ![t] = "stuck"]
            /\ UNCHANGED <<name, obj, hook>>
      /\ UNCHANGED <<map, readers, modVars, used, notifyVars>>
  BY DEF deleteModule, CanWrite
<1>t. /\ pc \in [Threads -> PC]
      /\ name \in [Threads -> Names \cup {0}]
      /\ obj \in [Threads -> Objects \cup {NoObject}]
      /\ hook \in [Threads -> Hooks \cup {"none"}]
  BY DEF TypeOK
<1>b. /\ \/ pc'[t] = "idle" /\ writer' = "none"
         \/ pc'[t] = "stuck" /\ writer' = t
      /\ \A s \in Threads : pc[s] \notin {"inserting", "init", "stuck"}
      /\ readers' = {} /\ walk # "notify" /\ \A s \in Threads : pc[s] # "get again"
  BY <1>a, <1>t, ManagerAssumption DEF LockInv
<1>c. \A s \in Threads \ {t} : UNCHANGED <<pc[s], name[s], obj[s], hook[s]>>
  BY <1>a, <1>t
<1>1. TypeOK'
  <2>1. /\ pc' \in [Threads -> PC]
        /\ name' \in [Threads -> Names \cup {0}]
        /\ obj' \in [Threads -> Objects \cup {NoObject}]
        /\ hook' \in [Threads -> Hooks \cup {"none"}]
        /\ writer' \in Threads \cup {"none"}
    BY <1>a, <1>t
  <2>2. \A s \in Threads : pc'[s] \in FinderPC => obj'[s] # NoObject
    BY <1>b, <1>c DEF TypeOK
  <2>3. QED
    BY <1>a, <2>1, <2>2 DEF TypeOK
<1>2. ThreadInv'
  BY <1>a, <1>b, <1>c, <1>t DEF ThreadInv
<1>3. LockInv'
  <2>1. UNCHANGED <<readers, walk>>
    BY <1>a
  <2>2. \A s \in Threads \ {t} : pc'[s] = pc[s]
    BY <1>c
  <2>3. QED
    BY <1>b, <2>1, <2>2, ManagerAssumption DEF LockInv
<1>4. FoundIsInitialised'
  BY <1>a, <1>b, <1>c, <1>t DEF FoundIsInitialised
<1>5. MapInv' /\ FreshInv' /\ JobInv' /\ WalkInv' /\ NotifiedInv'
  <2>1. pc[t] \notin {"inserting", "init"} /\ pc'[t] \notin NewPC \cup {"init"}
    BY <1>a, <1>t
  <2>2. QED
    BY <1>a, <1>c, <2>1, ThreadOnly
<1>6. QED
  BY <1>1, <1>2, <1>3, <1>4, <1>5

LEMMA NotifyAllModuleInv ==
    ASSUME IInv, NEW t \in Threads, NotifyAllModule(t)
    PROVE  IInv'
<1> USE DEF IInv, lckVars, modVars, threadVars, notifyVars
<1>a. /\ jobs < MaxJobs
      /\ jobs' = jobs + 1
      /\ queue' = Append(queue, jobs + 1)
      /\ UNCHANGED <<map, lckVars, modVars, used, threadVars, job, at, walk, notified, strayed>>
  BY DEF NotifyAllModule
<1>t. /\ jobs \in 0..MaxJobs /\ job \in 0..jobs /\ jobs \in Nat /\ job \in Nat
      /\ notified \in [Objects -> 0..jobs]
  BY Numbers DEF TypeOK
<1>b. jobs' \in 0..MaxJobs /\ job \in 0..jobs' /\ 0..jobs \subseteq 0..jobs'
  BY <1>a, <1>t, ManagerAssumption
<1>1. TypeOK'
  <2>1. notified' \in [Objects -> 0..jobs']
    BY <1>a, <1>b, <1>t
  <2>2. QED
    BY <1>a, <1>b, <2>1 DEF TypeOK
<1>2. JobInv'
  <2>1. /\ queue' \in Seq(Nat) /\ Len(queue') = Len(queue) + 1 /\ Len(queue) \in Nat
        /\ \A i \in 1..Len(queue) : queue'[i] = queue[i]
        /\ queue'[Len(queue) + 1] = jobs + 1
    BY <1>a, <1>t DEF JobInv
  <2>2. job + Len(queue) = jobs
    BY DEF JobInv
  <2>3. ASSUME NEW i \in 1..Len(queue') PROVE queue'[i] = job + i
    <3>1. CASE i = Len(queue) + 1
      BY <1>t, <2>1, <2>2, <3>1
    <3>2. CASE i \in 1..Len(queue)
      BY <2>1, <3>2 DEF JobInv
    <3>3. QED
      BY <2>1, <3>1, <3>2
  <2>4. job' + Len(queue') = jobs'
    BY <1>a, <1>t, <2>1, <2>2
  <2>5. QED
    BY <1>a, <2>1, <2>3, <2>4 DEF JobInv
<1>3. NotifiedInv' /\ WalkInv'
  BY <1>a DEF NotifiedInv, WalkInv
<1>4. FreshInv'
  BY <1>a DEF FreshInv, New, NewPC
<1>5. MapInv'
  BY <1>a DEF MapInv, InInit, IsRegistered
<1>6. ThreadInv' /\ LockInv' /\ FoundIsInitialised'
  BY <1>a DEF ThreadInv, LockInv, FoundIsInitialised
<1>7. QED
  BY <1>1, <1>2, <1>3, <1>4, <1>5, <1>6

-----------------------------------------------------------------------------
(* Finding. *)

LEMMA GetModuleInv ==
    ASSUME IInv, NEW t \in Threads, NEW n \in Names, GetModule(t, n)
    PROVE  IInv'
<1> USE DEF IInv, PC, FinderPC, NewPC, Goto, Return, lckVars, modVars, threadVars, notifyVars
<1>a. /\ pc[t] = "idle" /\ map[n] # NoObject
      /\ name' = [name EXCEPT ![t] = n]
      /\ pc' = [pc EXCEPT ![t] = "get"]
      /\ UNCHANGED <<map, lckVars, modVars, used, obj, hook, notifyVars>>
  BY DEF GetModule
<1>t. /\ pc \in [Threads -> PC]
      /\ name \in [Threads -> Names \cup {0}]
  BY DEF TypeOK
<1>c. \A s \in Threads \ {t} : UNCHANGED <<pc[s], name[s], obj[s], hook[s]>>
  BY <1>a, <1>t
<1>1. TypeOK'
  BY <1>a, <1>t DEF TypeOK
<1>2. ThreadInv'
  BY <1>a, <1>c, <1>t DEF ThreadInv
<1>3. LockInv'
  BY <1>a, <1>c, <1>t, ManagerAssumption DEF LockInv
<1>4. FoundIsInitialised'
  BY <1>a, <1>c, <1>t DEF FoundIsInitialised
<1>5. MapInv' /\ FreshInv' /\ JobInv' /\ WalkInv' /\ NotifiedInv'
  <2>1. pc[t] \notin {"inserting", "init"} /\ pc'[t] \notin NewPC \cup {"init"}
    BY <1>a, <1>t
  <2>2. QED
    BY <1>a, <1>c, <2>1, ThreadOnly
<1>6. QED
  BY <1>1, <1>2, <1>3, <1>4, <1>5

LEMMA GetModuleBaseInv ==
    ASSUME IInv, NEW t \in Threads, GetModuleBase(t)
    PROVE  IInv'
<1> USE DEF IInv, PC, FinderPC, NewPC, Goto, Return, lckVars, modVars, threadVars, notifyVars
<1>a. /\ pc[t] = "get" /\ writer = "none"
      /\ readers' = readers \cup {t}
      /\ pc' = [pc EXCEPT ![t] = "get again"]
      /\ UNCHANGED <<map, writer, modVars, used, name, obj, hook, notifyVars>>
  BY DEF GetModuleBase, CanRead
<1>t. /\ pc \in [Threads -> PC]
  BY DEF TypeOK
<1>c. \A s \in Threads \ {t} : UNCHANGED <<pc[s], name[s], obj[s], hook[s]>>
  BY <1>a, <1>t
<1>1. TypeOK'
  BY <1>a, <1>t DEF TypeOK
<1>2. ThreadInv'
  BY <1>a, <1>c, <1>t DEF ThreadInv
<1>3. LockInv'
  BY <1>a, <1>c, <1>t, ManagerAssumption DEF LockInv
<1>4. FoundIsInitialised'
  BY <1>a, <1>c, <1>t DEF FoundIsInitialised
<1>5. MapInv' /\ FreshInv' /\ JobInv' /\ WalkInv' /\ NotifiedInv'
  <2>1. pc[t] \notin {"inserting", "init"} /\ pc'[t] \notin NewPC \cup {"init"}
    BY <1>a, <1>t
  <2>2. QED
    BY <1>a, <1>c, <2>1, ThreadOnly
<1>6. QED
  BY <1>1, <1>2, <1>3, <1>4, <1>5

LEMMA GetModuleBaseRelocksInv ==
    ASSUME IInv, NEW t \in Threads, GetModuleBaseRelocks(t)
    PROVE  IInv'
<1> USE DEF IInv, PC, FinderPC, NewPC, Goto, Return, lckVars, modVars, threadVars, notifyVars
<1>a. /\ pc[t] = "get again" /\ writer = "none"
      /\ obj' = [obj EXCEPT ![t] = map[name[t]]]
      /\ readers' = readers \ {t}
      /\ name' = [name EXCEPT ![t] = 0]
      /\ pc' = [pc EXCEPT ![t] = "got"]
      /\ UNCHANGED <<map, writer, modVars, used, hook, notifyVars>>
  BY DEF GetModuleBaseRelocks, CanRead
<1>t. /\ pc \in [Threads -> PC]
      /\ name \in [Threads -> Names \cup {0}]
      /\ obj \in [Threads -> Objects \cup {NoObject}]
      /\ map \in [Names -> Objects \cup {NoObject}]
      /\ used \subseteq Objects
  BY DEF TypeOK
<1>b. map[name[t]] \in used /\ map[name[t]] \in Objects /\ state[map[name[t]]] # "none"
  <2>1. name[t] \in Names /\ map[name[t]] # NoObject
    BY <1>a DEF ThreadInv
  <2>2. \A s \in Threads : pc[s] # "init"
    BY <1>a, ManagerAssumption DEF LockInv
  <2>3. QED
    BY <1>t, <2>1, <2>2 DEF MapInv, InInit
<1>c. \A s \in Threads \ {t} : UNCHANGED <<pc[s], name[s], obj[s], hook[s]>>
  BY <1>a, <1>t
<1>1. TypeOK'
  <2>1. obj' \in [Threads -> Objects \cup {NoObject}] /\ name' \in [Threads -> Names \cup {0}]
        /\ pc' \in [Threads -> PC]
    BY <1>a, <1>b, <1>t
  <2>2. \A s \in Threads : pc'[s] \in FinderPC => obj'[s] # NoObject
    BY <1>a, <1>b, <1>c, <1>t, ManagerAssumption DEF TypeOK
  <2>3. QED
    BY <1>a, <2>1, <2>2 DEF TypeOK
<1>2. ThreadInv'
  BY <1>a, <1>b, <1>c, <1>t DEF ThreadInv
<1>3. LockInv'
  BY <1>a, <1>b, <1>c, <1>t, ManagerAssumption DEF LockInv
<1>4. FoundIsInitialised'
  BY <1>a, <1>b, <1>c, <1>t DEF FoundIsInitialised
<1>5. MapInv' /\ FreshInv' /\ JobInv' /\ WalkInv' /\ NotifiedInv'
  <2>1. pc[t] \notin {"inserting", "init"} /\ pc'[t] \notin NewPC \cup {"init"}
    BY <1>a, <1>t
  <2>2. QED
    BY <1>a, <1>c, <2>1, ThreadOnly
<1>6. QED
  BY <1>1, <1>2, <1>3, <1>4, <1>5

LEMMA LetGoInv ==
    ASSUME IInv, NEW t \in Threads, LetGo(t)
    PROVE  IInv'
<1> USE DEF IInv, PC, FinderPC, NewPC, Goto, Return, lckVars, modVars, threadVars, notifyVars
<1>a. /\ pc[t] = "got"
      /\ pc' = [pc EXCEPT ![t] = "idle"]
      /\ name' = [name EXCEPT ![t] = 0]
      /\ obj' = [obj EXCEPT ![t] = NoObject]
      /\ hook' = [hook EXCEPT ![t] = "none"]
      /\ UNCHANGED <<map, lckVars, modVars, used, notifyVars>>
  BY DEF LetGo
<1>t. /\ pc \in [Threads -> PC]
      /\ name \in [Threads -> Names \cup {0}]
      /\ obj \in [Threads -> Objects \cup {NoObject}]
      /\ hook \in [Threads -> Hooks \cup {"none"}]
  BY DEF TypeOK
<1>c. \A s \in Threads \ {t} : UNCHANGED <<pc[s], name[s], obj[s], hook[s]>>
  BY <1>a, <1>t
<1>1. TypeOK'
  BY <1>a, <1>t DEF TypeOK
<1>2. ThreadInv'
  BY <1>a, <1>c, <1>t DEF ThreadInv
<1>3. LockInv'
  BY <1>a, <1>c, <1>t, ManagerAssumption DEF LockInv
<1>4. FoundIsInitialised'
  BY <1>a, <1>c, <1>t DEF FoundIsInitialised
<1>5. MapInv' /\ FreshInv' /\ JobInv' /\ WalkInv' /\ NotifiedInv'
  <2>1. pc[t] \notin {"inserting", "init"} /\ pc'[t] \notin NewPC \cup {"init"}
    BY <1>a, <1>t
  <2>2. QED
    BY <1>a, <1>c, <2>1, ThreadOnly
<1>6. QED
  BY <1>1, <1>2, <1>3, <1>4, <1>5

-----------------------------------------------------------------------------
(* The life cycle. *)

LEMMA TestRunningInv ==
    ASSUME IInv, NEW t \in Threads, TestRunning(t)
    PROVE  IInv'
<1> USE DEF IInv, PC, FinderPC, NewPC, Goto, Return, lckVars, modVars, threadVars, notifyVars
<1>a. /\ pc[t] = "got"
      /\ pc' = [pc EXCEPT ![t] = "tested"]
      /\ UNCHANGED <<map, lckVars, modVars, used, name, obj, hook, notifyVars>>
  BY DEF TestRunning
<1>t. /\ pc \in [Threads -> PC]
  BY DEF TypeOK
<1>c. \A s \in Threads \ {t} : UNCHANGED <<pc[s], name[s], obj[s], hook[s]>>
  BY <1>a, <1>t
<1>1. TypeOK'
  BY <1>a, <1>t DEF TypeOK
<1>2. ThreadInv'
  BY <1>a, <1>c, <1>t DEF ThreadInv
<1>3. LockInv'
  BY <1>a, <1>c, <1>t, ManagerAssumption DEF LockInv
<1>4. FoundIsInitialised'
  BY <1>a, <1>c, <1>t DEF FoundIsInitialised
<1>5. MapInv' /\ FreshInv' /\ JobInv' /\ WalkInv' /\ NotifiedInv'
  <2>1. pc[t] \notin {"inserting", "init"} /\ pc'[t] \notin NewPC \cup {"init"}
    BY <1>a, <1>t
  <2>2. QED
    BY <1>a, <1>c, <2>1, ThreadOnly
<1>6. QED
  BY <1>1, <1>2, <1>3, <1>4, <1>5

LEMMA TestStateInv ==
    ASSUME IInv, NEW t \in Threads, NEW h \in Hooks, TestState(t, h)
    PROVE  IInv'
<1> USE DEF IInv, PC, FinderPC, NewPC, Goto, Return, lckVars, modVars, threadVars, notifyVars
<1>a. /\ pc[t] = "tested"
      /\ \/ /\ pc' = [pc EXCEPT ![t] = "call"]
            /\ hook' = [hook EXCEPT ![t] = h]
         \/ /\ pc' = [pc EXCEPT ![t] = "got"]
            /\ UNCHANGED hook
      /\ UNCHANGED <<map, lckVars, modVars, used, name, obj, notifyVars>>
  BY DEF TestState
<1>t. /\ pc \in [Threads -> PC]
      /\ hook \in [Threads -> Hooks \cup {"none"}]
  BY DEF TypeOK
<1>c. \A s \in Threads \ {t} : UNCHANGED <<pc[s], name[s], obj[s], hook[s]>>
  BY <1>a, <1>t
<1>1. TypeOK'
  <2>1. pc' \in [Threads -> PC] /\ hook' \in [Threads -> Hooks \cup {"none"}]
    BY <1>a, <1>t
  <2>2. \A s \in Threads : pc'[s] \in FinderPC => pc[s] \in FinderPC
    BY <1>a, <1>c
  <2>3. QED
    BY <1>a, <2>1, <2>2 DEF TypeOK
<1>2. ThreadInv'
  BY <1>a, <1>c, <1>t DEF ThreadInv
<1>3. LockInv'
  BY <1>a, <1>c, <1>t, ManagerAssumption DEF LockInv
<1>4. FoundIsInitialised'
  BY <1>a, <1>c, <1>t DEF FoundIsInitialised
<1>5. MapInv' /\ FreshInv' /\ JobInv' /\ WalkInv' /\ NotifiedInv'
  <2>1. pc[t] \notin {"inserting", "init"} /\ pc'[t] \notin NewPC \cup {"init"}
    BY <1>a, <1>t
  <2>2. QED
    BY <1>a, <1>c, <2>1, ThreadOnly
<1>6. QED
  BY <1>1, <1>2, <1>3, <1>4, <1>5

(* A hook begins or ends: of what IInv speaks of, only _eState may change. *)
LEMMA HookStepInv ==
    ASSUME IInv, NEW t \in Threads, pc[t] \in {"call", "hook", "leave"},
           pc' = [pc EXCEPT ![t] = CHOOSE p \in {"hook", "leave", "got"} : pc'[t] = p],
           pc'[t] \in {"hook", "leave", "got"},
           hook' = [hook EXCEPT ![t] = hook'[t]],
           hook'[t] \in Hooks \cup {"none"}, pc'[t] = "hook" => hook'[t] \in Hooks,
           state' = [state EXCEPT ![obj[t]] = state'[obj[t]]],
           state'[obj[t]] \in Hooks,
           running' \in [Objects -> BOOLEAN], raced' \subseteq Objects,
           UNCHANGED <<map, lckVars, used, name, obj, notifyVars>>
    PROVE  IInv'
<1> USE DEF IInv, PC, FinderPC, NewPC, lckVars, modVars, notifyVars
<1>t. /\ pc \in [Threads -> PC]
      /\ obj \in [Threads -> Objects \cup {NoObject}]
      /\ hook \in [Threads -> Hooks \cup {"none"}]
      /\ state \in [Objects -> Hooks \cup {"none"}]
      /\ used \subseteq Objects
  BY DEF TypeOK
<1>b. obj[t] \in Objects /\ obj[t] \in used /\ state[obj[t]] # "none"
  BY <1>t DEF ThreadInv, FoundIsInitialised
<1>c. \A s \in Threads \ {t} : UNCHANGED <<pc[s], hook[s]>>
  BY <1>t
<1>d. /\ state'[obj[t]] # "none"
      /\ \A o \in Objects : o # obj[t] => state'[o] = state[o]
  BY <1>b, <1>t DEF Hooks
<1>f. \A o \in Objects : New(o) => New(o)'
  BY <1>b, <1>d DEF New
<1>1. TypeOK'
  <2>1. state' \in [Objects -> Hooks \cup {"none"}]
    BY <1>b, <1>t
  <2>2. pc' \in [Threads -> PC]
    BY <1>t
  <2>3. hook' \in [Threads -> Hooks \cup {"none"}]
    BY <1>t
  <2>4. \A s \in Threads : pc'[s] \in FinderPC => obj[s] # NoObject
    BY <1>b, <1>c, ManagerAssumption DEF TypeOK
  <2>5. QED
    BY <2>1, <2>2, <2>3, <2>4 DEF TypeOK
<1>2. ThreadInv'
  BY <1>b, <1>c DEF ThreadInv
<1>3. LockInv'
  BY <1>c DEF LockInv
<1>4. MapInv'
  <2>1. \A o : InInit(o)' <=> InInit(o)
    BY <1>c DEF InInit
  <2>2. \A n \in Names : map[n] # NoObject =>
            map[n] \in Objects /\ (state'[map[n]] = "none" => state[map[n]] = "none")
    BY <1>d, <1>t DEF MapInv
  <2>3. \A s \in Threads : pc'[s] = "init" =>
            /\ UNCHANGED <<pc[s], hook[s]>> /\ obj[s] # obj[t] /\ obj[s] \in Objects
            /\ state'[obj[s]] = state[obj[s]]
    <3> SUFFICES ASSUME NEW s \in Threads, pc'[s] = "init"
                 PROVE  /\ UNCHANGED <<pc[s], hook[s]>> /\ obj[s] # obj[t] /\ obj[s] \in Objects
                        /\ state'[obj[s]] = state[obj[s]]
      OBVIOUS
    <3>1. s # t
      OBVIOUS
    <3>2. UNCHANGED <<pc[s], hook[s]>> /\ pc[s] = "init"
      BY <1>c, <3>1
    <3>3. obj[s] \in Objects /\ state[obj[s]] = "none"
      BY <1>t, <3>2 DEF MapInv, ThreadInv
    <3>4. QED
      BY <1>b, <1>d, <3>2, <3>3
  <2>4. QED
    BY <2>1, <2>2, <2>3 DEF MapInv, IsRegistered
<1>5. FreshInv'
  <2>1. \A s \in Threads : pc'[s] \in NewPC => pc[s] \in NewPC
    BY <1>c
  <2>2. \A s \in Threads : pc[s] \in NewPC => obj[s] \in Objects
    BY <1>t DEF ThreadInv
  <2>3. QED
    BY <1>f, <2>1, <2>2 DEF FreshInv
<1>6. FoundIsInitialised'
  <2>1. \A s \in Threads : pc'[s] \in FinderPC => pc[s] \in FinderPC /\ obj[s] \in Objects
    BY <1>c, <1>t DEF ThreadInv
  <2>2. QED
    BY <1>d, <2>1 DEF FoundIsInitialised
<1>7. WalkInv'
  BY <1>c DEF WalkInv
<1>8. JobInv' /\ NotifiedInv'
  BY DEF JobInv, NotifiedInv
<1>9. QED
  BY <1>1, <1>2, <1>3, <1>4, <1>5, <1>6, <1>7, <1>8

LEMMA EnterHookInv ==
    ASSUME IInv, NEW t \in Threads, EnterHook(t)
    PROVE  IInv'
<1>t. /\ pc \in [Threads -> PC]
      /\ obj \in [Threads -> Objects \cup {NoObject}]
      /\ hook \in [Threads -> Hooks \cup {"none"}]
      /\ state \in [Objects -> Hooks \cup {"none"}]
      /\ running \in [Objects -> BOOLEAN]
      /\ raced \subseteq Objects
  BY DEF IInv, TypeOK
<1>a. /\ pc[t] = "call" /\ pc' = [pc EXCEPT ![t] = "hook"]
      /\ running' = [running EXCEPT ![obj[t]] = TRUE]
      /\ raced' \in {raced, raced \cup {obj[t]}}
      /\ UNCHANGED <<map, lckVars, state, used, name, obj, hook, notifyVars>>
  BY DEF EnterHook, Goto
<1>b. /\ obj[t] \in Objects /\ hook[t] \in Hooks
      /\ state[obj[t]] \in Hooks
  BY <1>a, <1>t DEF IInv, ThreadInv, FoundIsInitialised, TypeOK, FinderPC
<1>c. pc'[t] = "hook" /\ pc' = [pc EXCEPT ![t] = pc'[t]]
  BY <1>a, <1>t
<1>2. /\ hook' = [hook EXCEPT ![t] = hook'[t]]
      /\ state' = [state EXCEPT ![obj[t]] = state'[obj[t]]]
  BY <1>a, <1>t
<1>3. running' \in [Objects -> BOOLEAN] /\ raced' \subseteq Objects
  BY <1>a, <1>b, <1>t
<1>4. QED
  BY <1>a, <1>b, <1>c, <1>2, <1>3, HookStepInv

LEMMA LeaveHookInv ==
    ASSUME IInv, NEW t \in Threads, LeaveHook(t)
    PROVE  IInv'
<1>t. /\ pc \in [Threads -> PC]
      /\ obj \in [Threads -> Objects \cup {NoObject}]
      /\ hook \in [Threads -> Hooks \cup {"none"}]
      /\ state \in [Objects -> Hooks \cup {"none"}]
      /\ running \in [Objects -> BOOLEAN]
      /\ raced \subseteq Objects
  BY DEF IInv, TypeOK
<1>a. /\ pc[t] = "hook" /\ pc' = [pc EXCEPT ![t] = "leave"]
      /\ state' = [state EXCEPT ![obj[t]] = hook[t]]
      /\ hook' = [hook EXCEPT ![t] = "none"]
      /\ UNCHANGED <<map, lckVars, running, raced, used, name, obj, notifyVars>>
  BY DEF LeaveHook, Goto
<1>b. obj[t] \in Objects /\ hook[t] \in Hooks
  BY <1>a, <1>t DEF IInv, ThreadInv, TypeOK, FinderPC
<1>c. /\ pc'[t] = "leave" /\ pc' = [pc EXCEPT ![t] = pc'[t]]
      /\ hook'[t] = "none" /\ hook' = [hook EXCEPT ![t] = hook'[t]]
  BY <1>a, <1>t
<1>2. /\ state'[obj[t]] \in Hooks
      /\ state' = [state EXCEPT ![obj[t]] = state'[obj[t]]]
  BY <1>a, <1>b, <1>t
<1>3. QED
  BY <1>a, <1>b, <1>c, <1>t, <1>2, HookStepInv

LEMMA ClearRunningInv ==
    ASSUME IInv, NEW t \in Threads, ClearRunning(t)
    PROVE  IInv'
<1>t. /\ pc \in [Threads -> PC]
      /\ obj \in [Threads -> Objects \cup {NoObject}]
      /\ hook \in [Threads -> Hooks \cup {"none"}]
      /\ state \in [Objects -> Hooks \cup {"none"}]
      /\ running \in [Objects -> BOOLEAN]
      /\ raced \subseteq Objects
  BY DEF IInv, TypeOK
<1>a. /\ pc[t] = "leave" /\ pc' = [pc EXCEPT ![t] = "got"]
      /\ running' = [running EXCEPT ![obj[t]] = FALSE]
      /\ UNCHANGED <<map, lckVars, state, raced, used, name, obj, hook, notifyVars>>
  BY DEF ClearRunning, Goto
<1>b. obj[t] \in Objects /\ state[obj[t]] \in Hooks
  BY <1>a, <1>t DEF IInv, ThreadInv, FoundIsInitialised, TypeOK, FinderPC
<1>c. pc'[t] = "got" /\ pc' = [pc EXCEPT ![t] = pc'[t]]
  BY <1>a, <1>t
<1>2. /\ hook' = [hook EXCEPT ![t] = hook'[t]] /\ hook'[t] \in Hooks \cup {"none"}
      /\ state' = [state EXCEPT ![obj[t]] = state'[obj[t]]]
  BY <1>a, <1>t
<1>3. running' \in [Objects -> BOOLEAN]
  BY <1>a, <1>b, <1>t
<1>4. QED
  BY <1>a, <1>b, <1>c, <1>t, <1>2, <1>3, HookStepInv

-----------------------------------------------------------------------------
(* The notify thread. *)

LEMMA DeQueueJobInv ==
    ASSUME IInv, DeQueueJob
    PROVE  IInv'
<1> USE DEF IInv, lckVars, modVars, threadVars, notifyVars
<1>a. /\ walk = "idle" /\ queue # <<>>
      /\ job' = Head(queue)
      /\ queue' = Tail(queue)
      /\ walk' = "next"
      /\ strayed' = FALSE
      /\ UNCHANGED <<map, lckVars, modVars, used, threadVars, jobs, at, notified>>
  BY DEF DeQueueJob
<1>t. jobs \in Nat /\ job \in Nat /\ notified \in [Objects -> Nat] /\ Names \subseteq Nat
  BY Numbers
<1>q. queue \in Seq(Nat) /\ job + Len(queue) = jobs
  BY DEF JobInv
<1>b. /\ queue' \in Seq(Nat) /\ Len(queue') = Len(queue) - 1 /\ Len(queue) >= 1
      /\ \A i \in 1..Len(queue') : queue'[i] = queue[i + 1]
      /\ job' = queue[1]
  BY <1>a, <1>q
<1>c. job' = job + 1 /\ job' \in 0..jobs
  <2>1. queue[1] = job + 1
    BY <1>b, <1>q DEF JobInv
  <2>2. QED
    BY <1>b, <1>q, <1>t, <2>1
<1>1. TypeOK'
  BY <1>a, <1>c DEF TypeOK
<1>2. JobInv'
  <2>1. ASSUME NEW i \in 1..Len(queue') PROVE queue'[i] = job' + i
    <3>1. i + 1 \in 1..Len(queue)
      BY <1>b, <1>q
    <3>2. queue[i + 1] = job + (i + 1)
      BY <3>1 DEF JobInv
    <3>3. QED
      BY <1>b, <1>c, <1>t, <3>2
  <2>2. job' + Len(queue') = jobs'
    BY <1>a, <1>b, <1>c, <1>q, <1>t
  <2>3. job' # 0
    BY <1>c, <1>t
  <2>4. QED
    BY <1>b, <2>1, <2>2, <2>3 DEF JobInv
<1>3. NotifiedInv'
  <2>1. \A o \in Objects : notified[o] < job' /\ notified[o] <= job'
    BY <1>c, <1>t DEF NotifiedInv
  <2>2. \A n \in Names : map[n] # NoObject => map[n] \in Objects
    BY DEF TypeOK
  <2>3. QED
    BY <1>a, <2>1, <2>2 DEF NotifiedInv
<1>4. FreshInv'
  BY <1>a DEF FreshInv, New, NewPC
<1>5. MapInv'
  BY <1>a DEF MapInv, InInit, IsRegistered
<1>6. ThreadInv' /\ LockInv' /\ WalkInv' /\ FoundIsInitialised'
  BY <1>a DEF ThreadInv, LockInv, WalkInv, FoundIsInitialised
<1>7. QED
  BY <1>1, <1>2, <1>3, <1>4, <1>5, <1>6

LEMMA NextEntryInv ==
    ASSUME IInv, NEW n \in Names, NextEntry(n)
    PROVE  IInv'
<1> USE DEF IInv, lckVars, modVars, threadVars, notifyVars
<1>a. /\ walk = "next"
      /\ map[n] # NoObject \/ n \in Growing
      /\ \/ n > at /\ strayed' = strayed
         \/ strayed' = TRUE
      /\ at' = n
      /\ walk' = "at"
      /\ UNCHANGED <<map, lckVars, modVars, used, threadVars, queue, jobs, job, notified>>
  BY DEF NextEntry, Ahead
<1>t. at \in Nat /\ Names \subseteq Nat
  BY Numbers
<1>1. TypeOK'
  BY <1>a DEF TypeOK
<1>2. WalkInv'
  BY <1>a DEF WalkInv, Growing
<1>3. NotifiedInv'
  <2>1. \A m \in Names : m >= n /\ n > at => m > at
    BY <1>t
  <2>2. \A m \in Names : m > n => m >= n
    BY <1>t
  <2>3. \A o \in Objects : notified'[o] <= job'
    BY <1>a DEF NotifiedInv
  <2>4. ASSUME ~strayed', NEW m \in Names, map[m] # NoObject, m > n \/ m = n
        PROVE  notified[map[m]] < job
    <3>1. m > at
      BY <1>a, <1>t, <2>1, <2>2, <2>4
    <3>2. QED
      BY <1>a, <2>4, <3>1 DEF NotifiedInv
  <2>5. QED
    BY <1>a, <2>3, <2>4 DEF NotifiedInv
<1>4. JobInv'
  BY <1>a DEF JobInv
<1>5. FreshInv'
  BY <1>a DEF FreshInv, New, NewPC
<1>6. MapInv'
  BY <1>a DEF MapInv, InInit, IsRegistered
<1>7. ThreadInv' /\ LockInv' /\ FoundIsInitialised'
  BY <1>a DEF ThreadInv, LockInv, FoundIsInitialised
<1>8. QED
  BY <1>1, <1>2, <1>3, <1>4, <1>5, <1>6, <1>7

LEMMA EndOfMapInv ==
    ASSUME IInv, EndOfMap
    PROVE  IInv'
<1> USE DEF IInv, lckVars, modVars, threadVars, notifyVars
<1>a. /\ walk = "next"
      /\ strayed' \in BOOLEAN
      /\ walk' = "idle"
      /\ at' = 0
      /\ UNCHANGED <<map, lckVars, modVars, used, threadVars, queue, jobs, job, notified>>
  BY DEF EndOfMap, TypeOK
<1>1. TypeOK'
  BY <1>a DEF TypeOK
<1>2. JobInv' /\ NotifiedInv' /\ WalkInv'
  BY <1>a DEF JobInv, NotifiedInv, WalkInv
<1>3. FreshInv'
  BY <1>a DEF FreshInv, New, NewPC
<1>4. MapInv'
  BY <1>a DEF MapInv, InInit, IsRegistered
<1>5. ThreadInv' /\ LockInv' /\ FoundIsInitialised'
  BY <1>a DEF ThreadInv, LockInv, FoundIsInitialised
<1>6. QED
  BY <1>1, <1>2, <1>3, <1>4, <1>5

LEMMA VisitModuleInv ==
    ASSUME IInv, VisitModule
    PROVE  IInv'
<1> USE DEF IInv, lckVars, modVars, threadVars, notifyVars
<1>a. /\ walk = "at" /\ writer = "none"
      /\ \/ walk' = "notify" /\ readers' = readers \cup {"notify"}
         \/ walk' = "next" /\ UNCHANGED readers
      /\ UNCHANGED <<map, writer, modVars, used, threadVars, queue, jobs, job, at, notified,
                     strayed>>
  BY DEF VisitModule, CanRead
<1>1. TypeOK'
  BY <1>a DEF TypeOK
<1>2. LockInv'
  BY <1>a, ManagerAssumption DEF LockInv
<1>3. JobInv' /\ NotifiedInv' /\ WalkInv'
  BY <1>a DEF JobInv, NotifiedInv, WalkInv
<1>4. FreshInv'
  BY <1>a DEF FreshInv, New, NewPC
<1>5. MapInv'
  BY <1>a DEF MapInv, InInit, IsRegistered
<1>6. ThreadInv' /\ FoundIsInitialised'
  BY <1>a DEF ThreadInv, FoundIsInitialised
<1>7. QED
  BY <1>1, <1>2, <1>3, <1>4, <1>5, <1>6

(* The module that is notified is in the map: while NotifyModule runs, the *)
(* lock keeps insertions out.                                              *)
LEMMA NotifiesModule ==
    IInv /\ walk = "notify" => at \in Names /\ map[at] \in Objects
<1> SUFFICES ASSUME IInv, walk = "notify"
             PROVE  at \in Names /\ map[at] \in Objects
  OBVIOUS
<1>1. \A t \in Threads : pc[t] # "inserting"
  BY ManagerAssumption DEF IInv, LockInv
<1>2. QED
  BY <1>1 DEF IInv, WalkInv, TypeOK

LEMMA NotifyModuleInv ==
    ASSUME IInv, NotifyModule
    PROVE  IInv'
<1>b. at \in Names /\ map[at] \in Objects
  BY NotifiesModule DEF NotifyModule
<1> USE DEF IInv, lckVars, modVars, threadVars, notifyVars
<1>a. /\ walk = "notify"
      /\ walk' = "next"
      /\ readers' = readers \ {"notify"}
      /\ notified' = [notified EXCEPT ![map[at]] = job]
      /\ UNCHANGED <<map, writer, modVars, used, threadVars, queue, jobs, job, at, strayed>>
  BY DEF NotifyModule
<1>t. /\ jobs \in Nat /\ job \in Nat /\ job \in 0..jobs /\ Names \subseteq Nat
      /\ notified \in [Objects -> 0..jobs] /\ at \in Nat
  BY Numbers DEF TypeOK
<1>c. /\ notified'[map[at]] = job
      /\ \A o \in Objects \ {map[at]} : notified'[o] = notified[o]
  BY <1>a, <1>b, <1>t
<1>1. TypeOK'
  <2>1. notified' \in [Objects -> 0..jobs]
    BY <1>a, <1>b, <1>t
  <2>2. QED
    BY <1>a, <2>1 DEF TypeOK
<1>2. LockInv'
  BY <1>a, ManagerAssumption DEF LockInv
<1>3. FreshInv'
  <2>1. \A o \in Objects : New(o) => New(o)'
    BY <1>a, <1>b, <1>c DEF New
  <2>2. \A s \in Threads : pc[s] \in NewPC => obj[s] \in Objects
    BY DEF ThreadInv, TypeOK
  <2>3. QED
    BY <1>a, <2>1, <2>2 DEF FreshInv, NewPC
<1>4. NotifiedInv'
  <2>1. \A o \in Objects : notified'[o] <= job
    BY <1>c, <1>t DEF NotifiedInv
  <2>2. ASSUME NEW n \in Names, map[n] # NoObject, n > at, ~strayed
        PROVE  notified'[map[n]] < job
    <3>1. map[n] # map[at] /\ map[n] \in Objects
      BY <1>b, <1>t, <2>2 DEF MapInv, TypeOK
    <3>2. QED
      BY <1>a, <1>c, <2>2, <3>1 DEF NotifiedInv
  <2>3. QED
    BY <1>a, <2>1, <2>2 DEF NotifiedInv
<1>5. JobInv' /\ WalkInv'
  BY <1>a DEF JobInv, WalkInv
<1>6. MapInv'
  BY <1>a DEF MapInv, InInit, IsRegistered
<1>7. ThreadInv' /\ FoundIsInitialised'
  BY <1>a DEF ThreadInv, FoundIsInitialised
<1>8. QED
  BY <1>1, <1>2, <1>3, <1>4, <1>5, <1>6, <1>7

-----------------------------------------------------------------------------
LEMMA NextInv == IInv /\ [Next]_vars => IInv'
<1> SUFFICES ASSUME IInv, [Next]_vars PROVE IInv'
  OBVIOUS
<1>1. ASSUME NEW t \in Threads, Begin(t) PROVE IInv'
  BY <1>1, RegisterModuleInv, UnRegisterModuleInv, GetModuleInv, NotifyAllModuleInv,
     TestRunningInv DEF Begin, NotifyGroupModule
<1>2. ASSUME NEW t \in Threads, Continue(t) PROVE IInv'
  BY <1>2, insertModuleInv, insertModuleInitsInv, insertModuleReturnsInv, deleteModuleInv,
     GetModuleBaseInv, GetModuleBaseRelocksInv, LetGoInv, TestStateInv, EnterHookInv,
     LeaveHookInv, ClearRunningInv DEF Continue
<1>3. ASSUME notifyAllModule PROVE IInv'
  BY <1>3, DeQueueJobInv, NextEntryInv, EndOfMapInv, VisitModuleInv, NotifyModuleInv
     DEF notifyAllModule
<1>4. ASSUME UNCHANGED vars PROVE IInv'
  <2> USE <1>4 DEF vars, lckVars, modVars, threadVars, notifyVars
  <2>1. TypeOK' /\ ThreadInv' /\ LockInv'
    BY DEF IInv, TypeOK, ThreadInv, LockInv
  <2>2. MapInv' /\ WalkInv'
    BY DEF IInv, MapInv, InInit, IsRegistered, WalkInv
  <2>3. FreshInv' /\ FoundIsInitialised'
    BY DEF IInv, FreshInv, New, FoundIsInitialised
  <2>4. JobInv' /\ NotifiedInv'
    BY DEF IInv, JobInv, NotifiedInv
  <2>5. QED
    BY <2>1, <2>2, <2>3, <2>4 DEF IInv
<1>5. QED
  BY <1>1, <1>2, <1>3, <1>4 DEF Next

-----------------------------------------------------------------------------
(* The inductive invariant of the manager holds in every reachable state:  *)
(* what the lock, the registry, the threads and the jobs know of one       *)
(* another.                                                                *)
THEOREM Invariance == Spec => []IInv
BY InitInv, NextInv, PTL DEF Spec

(* Every variable keeps its type; in particular a thread that has found a  *)
(* module has one, and the job that is delivered is one that was sent.     *)
THEOREM TypeCorrect == Spec => []TypeOK
<1>1. IInv => TypeOK
  BY DEF IInv
<1>2. QED
  BY <1>1, Invariance, PTL

(* GetModule never hands out a module that RegisterModule has entered into *)
(* the map and is still initialising.                                      *)
THEOREM FoundInitialised == Spec => []FoundIsInitialised
<1>1. IInv => FoundIsInitialised
  BY DEF IInv
<1>2. QED
  BY <1>1, Invariance, PTL

(* notifyAllModule walks the map without its lock, while modules are added *)
(* and replaced; it notifies no module of a job after a later one, and a   *)
(* module twice of a job only if the walk raced with an insertion.         *)
THEOREM JobsInOrder == Spec => []NotifiedInOrder
<1>1. IInv => NotifiedInOrder
  <2> SUFFICES ASSUME IInv, walk = "notify"
               PROVE  notified[map[at]] < job \/ (notified[map[at]] = job /\ strayed)
    BY DEF NotifiedInOrder
  <2>1. at \in Names /\ map[at] \in Objects /\ map[at] # NoObject
    BY NotifiesModule, ManagerAssumption
  <2>2. notified[map[at]] \in Nat /\ job \in Nat /\ strayed \in BOOLEAN
    BY <2>1, Numbers DEF IInv, TypeOK
  <2>3. notified[map[at]] <= job
    BY <2>1 DEF IInv, NotifiedInv
  <2>4. ~strayed => notified[map[at]] < job
    BY <2>1 DEF IInv, NotifiedInv
  <2>5. QED
    BY <2>2, <2>3, <2>4
<1>2. QED
  BY <1>1, Invariance, PTL

-----------------------------------------------------------------------------
(* The life cycle.  As long as no two threads have raced for a module, one *)
(* thread at most is in a hook of it, _isRunning is set then, and nobody   *)
(* is about to enter; whoever is has found a state that admits its hook.   *)
InHook(t) == pc[t] \in {"init", "hook", "leave"}

CycleOf(o) ==
    /\ \A s, t \in Threads : obj[s] = o /\ obj[t] = o /\ InHook(s) /\ InHook(t) => s = t
    /\ \A t \in Threads : obj[t] = o /\ InHook(t) => running[o] /\ Entering(o) = {}
    /\ \A t \in Threads : obj[t] = o /\ pc[t] = "call" => state[o] \in Allowed(hook[t])

CycleInv == \A o \in Objects \ raced : CycleOf(o)

(* No other thread has to do with a module that is being inserted.         *)
LEMMA InsertsAlone ==
    ASSUME IInv, NEW t \in Threads, pc[t] = "inserting"
    PROVE  /\ obj[t] \in Objects /\ state[obj[t]] = "none"
           /\ \A s \in Threads : InHook(s) => obj[s] # obj[t]
           /\ Entering(obj[t]) = {}
<1>1. obj[t] \in Objects /\ New(obj[t])
  BY DEF IInv, ThreadInv, FreshInv, TypeOK, NewPC
<1>2. state[obj[t]] = "none" /\ ~IsRegistered(obj[t])
  BY <1>1 DEF New, IsRegistered
<1>3. \A s \in Threads : pc[s] \in FinderPC \/ pc[s] = "init" => obj[s] # obj[t]
  BY <1>2 DEF IInv, FoundIsInitialised, MapInv
<1>4. QED
  BY <1>1, <1>2, <1>3 DEF InHook, Entering, FinderPC

(* What a step of thread t may do to the module o.                         *)
LEMMA CycleSame ==
    ASSUME NEW t \in Threads, NEW o \in Objects, CycleOf(o),
           \A s \in Threads \ {t} : UNCHANGED <<pc[s], obj[s], hook[s]>>,
           state'[o] = state[o], running'[o] = running[o],
           pc'[t] \in {"tested", "call"} /\ obj'[t] = o =>
               obj[t] = o /\ (pc[t] = "tested" \/ ~running[o]),
           pc'[t] = "call" /\ obj'[t] = o => state[o] \in Allowed(hook'[t]),
           InHook(t)' /\ obj'[t] = o => InHook(t) /\ obj[t] = o
    PROVE  CycleOf(o)'
<1>1. \A s \in Threads : InHook(s)' /\ obj'[s] = o => InHook(s) /\ obj[s] = o
  BY DEF InHook
<1>2. ASSUME NEW s \in Threads, InHook(s)', obj'[s] = o
      PROVE  running'[o] /\ Entering(o)' = {}
  <2>1. running[o] /\ Entering(o) = {}
    BY <1>1, <1>2 DEF CycleOf
  <2>2. \A u \in Threads : obj'[u] = o /\ pc'[u] \in {"tested", "call"} =>
            obj[u] = o /\ pc[u] \in {"tested", "call"}
    BY <2>1
  <2>3. QED
    BY <2>1, <2>2 DEF Entering
<1>3. ASSUME NEW s \in Threads, obj'[s] = o, pc'[s] = "call"
      PROVE  state'[o] \in Allowed(hook'[s])
  <2>1. CASE s = t
    BY <1>3, <2>1
  <2>2. CASE s # t
    <3>1. obj[s] = o /\ pc[s] = "call" /\ hook'[s] = hook[s]
      BY <1>3, <2>2
    <3>2. QED
      BY <3>1 DEF CycleOf
  <2>3. QED
    BY <2>1, <2>2
<1>4. \A s, u \in Threads :
          obj'[s] = o /\ obj'[u] = o /\ InHook(s)' /\ InHook(u)' => s = u
  BY <1>1 DEF CycleOf
<1>5. QED
  BY <1>2, <1>3, <1>4 DEF CycleOf

(* A thread enters a hook of o.                                            *)
LEMMA CycleEnter ==
    ASSUME NEW t \in Threads, NEW o \in Objects,
           \A s \in Threads \ {t} : UNCHANGED <<pc[s], obj[s], hook[s]>>,
           \A s \in Threads \ {t} : InHook(s) => obj[s] # o,
           Entering(o) \subseteq {t}, running'[o],
           pc'[t] \in {"init", "hook"}
    PROVE  CycleOf(o)'
<1>1. \A s \in Threads \ {t} : obj'[s] = o => ~InHook(s)' /\ pc'[s] \notin {"tested", "call"}
  BY DEF InHook, Entering
<1>2. Entering(o)' = {}
  BY <1>1 DEF Entering
<1>3. QED
  BY <1>1, <1>2 DEF CycleOf

(* The thread that is in a hook of o goes on, or leaves.                   *)
LEMMA CycleLeave ==
    ASSUME NEW t \in Threads, NEW o \in Objects, CycleOf(o),
           \A s \in Threads \ {t} : UNCHANGED <<pc[s], obj[s], hook[s]>>,
           InHook(t), obj[t] = o, pc'[t] \notin {"tested", "call"},
           InHook(t)' => running'[o] /\ obj'[t] = o
    PROVE  CycleOf(o)'
<1>1. Entering(o) = {}
  BY DEF CycleOf
<1>2. \A s \in Threads \ {t} : obj'[s] = o => ~InHook(s)' /\ pc'[s] \notin {"tested", "call"}
  BY <1>1 DEF CycleOf, InHook, Entering
<1>3. Entering(o)' = {}
  BY <1>2 DEF Entering
<1>4. QED
  BY <1>2, <1>3 DEF CycleOf

LEMMA CycleStep == IInv /\ CycleInv /\ [Next]_vars => CycleInv'
<1> SUFFICES ASSUME IInv, CycleInv, [Next]_vars, NEW o \in Objects, o \notin raced'
             PROVE  CycleOf(o)'
  BY DEF CycleInv
<1>t. /\ pc \in [Threads -> PC]
      /\ obj \in [Threads -> Objects \cup {NoObject}]
      /\ hook \in [Threads -> Hooks \cup {"none"}]
      /\ state \in [Objects -> Hooks \cup {"none"}]
      /\ running \in [Objects -> BOOLEAN]
      /\ used \subseteq Objects
  BY DEF IInv, TypeOK
<1> USE DEF Goto, Return, modVars, threadVars
<1>1. ASSUME NEW t \in Threads, insertModuleInits(t) PROVE CycleOf(o)'
  <2>1. /\ pc[t] = "inserting" /\ pc'[t] = "init" /\ obj' = obj
        /\ \A s \in Threads \ {t} : UNCHANGED <<pc[s], obj[s], hook[s]>>
        /\ running' = [running EXCEPT ![obj[t]] = TRUE] /\ state' = state /\ o \notin raced
    BY <1>1, <1>t DEF insertModuleInits
  <2>2. CASE o = obj[t]
    BY <1>t, <2>1, <2>2, InsertsAlone, CycleEnter
  <2>3. CASE o # obj[t]
    BY <1>t, <2>1, <2>3, CycleSame DEF CycleInv, InHook
  <2>4. QED
    BY <2>2, <2>3
<1>2. ASSUME NEW t \in Threads, EnterHook(t) PROVE CycleOf(o)'
  <2>1. /\ pc[t] = "call" /\ pc'[t] = "hook" /\ UNCHANGED <<obj, hook, state>>
        /\ \A s \in Threads \ {t} : UNCHANGED <<pc[s], obj[s], hook[s]>>
        /\ running' = [running EXCEPT ![obj[t]] = TRUE]
        /\ o \notin raced /\ (o = obj[t] => Entering(o) = {t})
    BY <1>2, <1>t DEF EnterHook
  <2>2. CASE o = obj[t]
    <3>1. \A s \in Threads : InHook(s) => obj[s] # o
      BY <2>1, <2>2 DEF CycleInv, CycleOf
    <3>2. QED
      BY <1>t, <2>1, <2>2, <3>1, CycleEnter
  <2>3. CASE o # obj[t]
    BY <1>t, <2>1, <2>3, CycleSame DEF CycleInv, InHook
  <2>4. QED
    BY <2>2, <2>3
<1>3. ASSUME NEW t \in Threads, insertModuleReturns(t) \/ LeaveHook(t) \/ ClearRunning(t)
      PROVE  CycleOf(o)'
  <2>1. /\ InHook(t) /\ pc'[t] \in {"idle", "leave", "got"}
        /\ obj'[t] \in {obj[t], NoObject} /\ (pc'[t] = "leave" => obj' = obj /\ running' = running)
        /\ \A s \in Threads \ {t} : UNCHANGED <<pc[s], obj[s], hook[s]>>
        /\ o \notin raced /\ obj[t] \in Objects
        /\ o # obj[t] => running'[o] = running[o] /\ state'[o] = state[o]
    <3>1. InHook(t)
      BY <1>3 DEF InHook, insertModuleReturns, LeaveHook, ClearRunning
    <3>2. obj[t] \in Objects
      BY <1>t, <3>1 DEF InHook, IInv, ThreadInv, FinderPC
    <3>3. CASE insertModuleReturns(t)
      BY <1>t, <3>1, <3>2, <3>3 DEF insertModuleReturns
    <3>4. CASE LeaveHook(t)
      BY <1>t, <3>1, <3>2, <3>4 DEF LeaveHook
    <3>5. CASE ClearRunning(t)
      BY <1>t, <3>1, <3>2, <3>5 DEF ClearRunning
    <3>6. QED
      BY <1>3, <3>3, <3>4, <3>5
  <2>2. CASE o = obj[t]
    <3>1. CycleOf(o)
      BY <2>1 DEF CycleInv
    <3>2. InHook(t)' => running'[o] /\ obj'[t] = o
      BY <2>1, <2>2, <3>1 DEF CycleOf, InHook
    <3>3. QED
      BY <2>1, <2>2, <3>1, <3>2, CycleLeave
  <2>3. CASE o # obj[t]
    <3>1. obj'[t] # o
      BY <2>1, <2>3, ManagerAssumption
    <3>2. QED
      BY <2>1, <2>3, <3>1, CycleSame DEF CycleInv
  <2>4. QED
    BY <2>2, <2>3
<1>4. ASSUME NEW t \in Threads, Begin(t) \/ Continue(t), ~insertModuleInits(t),
             ~EnterHook(t), ~insertModuleReturns(t), ~LeaveHook(t), ~ClearRunning(t)
      PROVE  CycleOf(o)'
  <2>1. CASE TestRunning(t)
    BY <1>t, <2>1, CycleSame DEF TestRunning, CycleInv, InHook
  <2>2. CASE \E h \in Hooks : TestState(t, h)
    BY <1>t, <2>2, CycleSame DEF TestState, CycleInv, InHook
  <2>3. CASE UNCHANGED <<modVars, threadVars>>
    BY <2>3 DEF CycleInv, CycleOf, InHook, Entering
  <2>4. CASE pc'[t] \notin {"tested", "call", "init", "hook", "leave"} /\ UNCHANGED modVars
             /\ \A s \in Threads \ {t} : UNCHANGED <<pc[s], obj[s], hook[s]>>
    BY <2>4, CycleSame DEF CycleInv, InHook
  <2>5. Begin(t) /\ ~TestRunning(t) =>
            \/ UNCHANGED <<modVars, threadVars>>
            \/ /\ pc'[t] \in {"insert", "delete", "get"} /\ UNCHANGED modVars
               /\ \A s \in Threads \ {t} : UNCHANGED <<pc[s], obj[s], hook[s]>>
    BY <1>t DEF Begin, RegisterModule, UnRegisterModule, GetModule, NotifyAllModule,
       NotifyGroupModule
  <2>6. Continue(t) /\ ~(\E h \in Hooks : TestState(t, h)) =>
            pc'[t] \in {"inserting", "idle", "stuck", "get again", "got"} /\ UNCHANGED modVars
            /\ \A s \in Threads \ {t} : UNCHANGED <<pc[s], obj[s], hook[s]>>
    BY <1>4, <1>t DEF Continue, insertModule, deleteModule, GetModuleBase,
       GetModuleBaseRelocks, LetGo
  <2>7. QED
    BY <1>4, <2>1, <2>2, <2>3, <2>4, <2>5, <2>6
<1>5. ASSUME notifyAllModule \/ UNCHANGED vars PROVE CycleOf(o)'
  <2>1. UNCHANGED <<modVars, threadVars>>
    BY <1>5 DEF notifyAllModule, DeQueueJob, NextEntry, EndOfMap, VisitModule, NotifyModule, vars
  <2>2. QED
    BY <2>1 DEF CycleInv, CycleOf, InHook, Entering
<1>6. QED
  BY <1>1, <1>2, <1>3, <1>4, <1>5 DEF Next

-----------------------------------------------------------------------------
(* The three variables of ModuleLifecycle.                                 *)
stateOf == [o \in Objects |-> IF o \in raced THEN "lost" ELSE state[o]]
hookOf == [o \in Objects |-> IF o \in raced THEN "none" ELSE HookOf(o)]
enteringOf == [o \in Objects |-> IF o \in raced THEN {} ELSE Entering(o)]

LEMMA HookOfIs ==
    ASSUME NEW o \in Objects, CycleOf(o), NEW t \in Threads,
           pc[t] \in {"init", "hook"}, obj[t] = o
    PROVE  HookOf(o) = hook[t]
<1>1. \E s \in Threads : pc[s] \in {"init", "hook"} /\ obj[s] = o
  OBVIOUS
<1>2. (CHOOSE s \in Threads : pc[s] \in {"init", "hook"} /\ obj[s] = o) = t
  BY <1>1 DEF CycleOf, InHook
<1>3. QED
  BY <1>1, <1>2 DEF HookOf

LEMMA HookOfWillBe ==
    ASSUME NEW o \in Objects, CycleOf(o)', NEW t \in Threads,
           pc'[t] \in {"init", "hook"}, obj'[t] = o
    PROVE  HookOf(o)' = hook'[t]
<1>1. \E s \in Threads : pc'[s] \in {"init", "hook"} /\ obj'[s] = o
  OBVIOUS
<1>2. (CHOOSE s \in Threads : pc'[s] \in {"init", "hook"} /\ obj'[s] = o) = t
  BY <1>1 DEF CycleOf, InHook
<1>3. QED
  BY <1>1, <1>2 DEF HookOf

LEMMA HookOfNone ==
    ASSUME NEW o \in Objects
    PROVE  (\A t \in Threads : InHook(t) => obj[t] # o) => HookOf(o) = "none"
BY DEF HookOf, InHook

(* A step of thread t that has to do with no hook of o.                    *)
LEMMA HookOfSame ==
    ASSUME NEW o \in Objects, NEW t \in Threads, CycleOf(o), CycleOf(o)',
           \A s \in Threads \ {t} : UNCHANGED <<pc[s], obj[s], hook[s]>>,
           pc[t] \in {"init", "hook"} => obj[t] # o,
           pc'[t] \in {"init", "hook"} => obj'[t] # o
    PROVE  HookOf(o)' = HookOf(o)
<1>1. ASSUME NEW s \in Threads, pc[s] \in {"init", "hook"}, obj[s] = o
      PROVE  HookOf(o)' = HookOf(o)
  <2>1. s # t
    BY <1>1
  <2>2. HookOf(o) = hook[s]
    BY <1>1, HookOfIs
  <2>3. HookOf(o)' = hook'[s]
    BY <1>1, <2>1, HookOfWillBe
  <2>4. QED
    BY <2>1, <2>2, <2>3
<1>2. ASSUME \A s \in Threads : pc[s] \in {"init", "hook"} => obj[s] # o
      PROVE  HookOf(o)' = HookOf(o)
  <2>1. \A s \in Threads : pc'[s] \in {"init", "hook"} => obj'[s] # o
    BY <1>2
  <2>2. QED
    BY <1>2, <2>1 DEF HookOf
<1>3. QED
  BY <1>1, <1>2

LEMMA EnteringSame ==
    ASSUME NEW o \in Objects, NEW t \in Threads,
           \A s \in Threads \ {t} : UNCHANGED <<pc[s], obj[s]>>,
           (t \in Entering(o))' <=> t \in Entering(o)
    PROVE  Entering(o)' = Entering(o)
BY DEF Entering

(* The step of t is no step of any module but o.                           *)
LEMMA OthersSame ==
    ASSUME NEW t \in Threads, NEW o, IInv, CycleInv, CycleInv',
           \A s \in Threads \ {t} : UNCHANGED <<pc[s], obj[s], hook[s]>>,
           obj[t] \in {o, NoObject}, obj'[t] \in {o, NoObject},
           raced' \ {o} = raced \ {o},
           \A p \in Objects \ {o} : state'[p] = state[p]
    PROVE  \A p \in Objects \ {o} :
               UNCHANGED <<stateOf[p], hookOf[p], enteringOf[p]>>
<1> SUFFICES ASSUME NEW p \in Objects \ {o}
             PROVE  UNCHANGED <<stateOf[p], hookOf[p], enteringOf[p]>>
  OBVIOUS
<1>1. obj[t] # p /\ obj'[t] # p /\ (p \in raced' <=> p \in raced)
  BY ManagerAssumption
<1>2. Entering(p)' = Entering(p)
  BY <1>1, EnteringSame DEF Entering
<1>3. p \notin raced => HookOf(p)' = HookOf(p)
  BY <1>1, HookOfSame DEF CycleInv
<1>4. QED
  BY <1>1, <1>2, <1>3 DEF stateOf, hookOf, enteringOf

(* Nor of o itself, if it is lost.                                         *)
LEMMA LostSame ==
    ASSUME NEW o \in Objects, o \in raced, o \in raced'
    PROVE  UNCHANGED <<stateOf[o], hookOf[o], enteringOf[o]>>
BY DEF stateOf, hookOf, enteringOf

CycleVars == <<stateOf, hookOf, enteringOf>>
CycleNext == [Lifecycle!Next]_CycleVars

LEMMA AllSame ==
    (\A p \in Objects : UNCHANGED <<stateOf[p], hookOf[p], enteringOf[p]>>) => CycleNext
<1>1. (\A p \in Objects : stateOf'[p] = stateOf[p]) => stateOf' = stateOf
  BY DEF stateOf
<1>2. (\A p \in Objects : hookOf'[p] = hookOf[p]) => hookOf' = hookOf
  BY DEF hookOf
<1>3. (\A p \in Objects : enteringOf'[p] = enteringOf[p]) => enteringOf' = enteringOf
  BY DEF enteringOf
<1>4. QED
  BY <1>1, <1>2, <1>3 DEF CycleNext, CycleVars

(* The variables of ModuleLifecycle after a step of o alone.               *)
LEMMA OneChanged ==
    ASSUME NEW o \in Objects,
           \A p \in Objects \ {o} : UNCHANGED <<stateOf[p], hookOf[p], enteringOf[p]>>
    PROVE  /\ stateOf' = [stateOf EXCEPT ![o] = stateOf'[o]]
           /\ hookOf' = [hookOf EXCEPT ![o] = hookOf'[o]]
           /\ enteringOf' = [enteringOf EXCEPT ![o] = enteringOf'[o]]
<1>1. stateOf' = [stateOf EXCEPT ![o] = stateOf'[o]]
  BY DEF stateOf
<1>2. hookOf' = [hookOf EXCEPT ![o] = hookOf'[o]]
  BY DEF hookOf
<1>3. enteringOf' = [enteringOf EXCEPT ![o] = enteringOf'[o]]
  BY DEF enteringOf
<1>4. QED
  BY <1>1, <1>2, <1>3

LEMMA CycleSteps ==
    ASSUME NEW o \in Objects, NEW t \in Threads, NEW h \in Hooks
    PROVE  /\ Lifecycle!Begin(o, t) => CycleNext
           /\ Lifecycle!Withdraw(o, t) => CycleNext
           /\ Lifecycle!Enter(o, t, h) => CycleNext
           /\ Lifecycle!Leave(o) => CycleNext
           /\ Lifecycle!Lose(o) => CycleNext
<1>1. h \in Lifecycle!Hooks
  BY DEF Hooks, Lifecycle!Hooks
<1>2. QED
  BY <1>1, Zenon DEF CycleNext, Lifecycle!Next

LEMMA LifecycleStep ==
    ASSUME IInv, CycleInv, CycleInv', [Next]_vars
    PROVE  CycleNext
<1>t. /\ pc \in [Threads -> PC]
      /\ obj \in [Threads -> Objects \cup {NoObject}]
      /\ hook \in [Threads -> Hooks \cup {"none"}]
      /\ state \in [Objects -> Hooks \cup {"none"}]
      /\ running \in [Objects -> BOOLEAN]
      /\ raced \subseteq Objects
      /\ used \subseteq Objects
  BY DEF IInv, TypeOK
<1>o. ASSUME NEW t \in Threads, pc[t] \in NewPC \cup {"init"} \cup FinderPC
      PROVE  obj[t] \in Objects
  BY <1>o, <1>t DEF IInv, ThreadInv
<1> USE DEF Goto, Return, modVars, threadVars
<1>1. ASSUME NEW t \in Threads, NEW o \in Objects, o = obj[t], insertModuleInits(t)
      PROVE  CycleNext
  <2>1. /\ pc[t] = "inserting" /\ pc'[t] = "init" /\ hook'[t] = "init" /\ obj' = obj
        /\ \A s \in Threads \ {t} : UNCHANGED <<pc[s], obj[s], hook[s]>>
        /\ UNCHANGED <<state, raced>> /\ o = obj[t] /\ state[o] = "none"
        /\ \A s \in Threads : InHook(s) => obj[s] # o
        /\ Entering(o) = {}
    BY <1>1, <1>t, InsertsAlone DEF insertModuleInits
  <2>2. \A p \in Objects \ {o} : UNCHANGED <<stateOf[p], hookOf[p], enteringOf[p]>>
    BY <2>1, OthersSame
  <2>3. CASE o \in raced
    BY <2>1, <2>2, <2>3, LostSame, AllSame
  <2>4. CASE o \notin raced
    <3>1. HookOf(o) = "none" /\ HookOf(o)' = "init"
      BY <2>1, <2>4, HookOfNone, HookOfWillBe DEF CycleInv
    <3>2. Entering(o)' = {}
      BY <2>1 DEF Entering
    <3>3. /\ hookOf[o] = "none" /\ hookOf'[o] = "init"
          /\ stateOf[o] = "none" /\ stateOf'[o] = "none"
          /\ enteringOf[o] = {} /\ enteringOf'[o] = {}
      BY <2>1, <2>4, <3>1, <3>2 DEF hookOf, stateOf, enteringOf
    <3>4. stateOf' = stateOf
      <4>1. \A p \in Objects : stateOf'[p] = stateOf[p]
        BY <2>2, <3>3
      <4>2. QED
        BY <4>1 DEF stateOf
    <3>5. /\ hookOf' = [hookOf EXCEPT ![o] = "init"]
          /\ enteringOf' = [enteringOf EXCEPT ![o] = {}]
      BY <2>2, <3>3, OneChanged
    <3>6. stateOf[o] \in Lifecycle!From("init")
      BY <3>3 DEF Lifecycle!From
    <3>7. Lifecycle!Enter(o, t, "init")
      BY <3>3, <3>4, <3>5, <3>6 DEF Lifecycle!Enter, stateOf, hookOf, enteringOf
    <3>8. QED
      BY <3>7, CycleSteps DEF Hooks
  <2>5. QED
    BY <2>3, <2>4
<1>2. ASSUME NEW t \in Threads, NEW o \in Objects, o = obj[t], EnterHook(t)
      PROVE  CycleNext
  <2>1. /\ pc[t] = "call" /\ pc'[t] = "hook" /\ UNCHANGED <<obj, hook, state>>
        /\ \A s \in Threads \ {t} : UNCHANGED <<pc[s], obj[s], hook[s]>>
        /\ o = obj[t] /\ hook[t] \in Hooks
        /\ raced' = IF Entering(o) = {t} THEN raced ELSE raced \cup {o}
    BY <1>2, <1>o, <1>t DEF EnterHook, FinderPC, IInv, ThreadInv
  <2>2. \A p \in Objects \ {o} : UNCHANGED <<stateOf[p], hookOf[p], enteringOf[p]>>
    BY <2>1, OthersSame
  <2>3. CASE o \in raced
    BY <2>1, <2>2, <2>3, LostSame, AllSame
  <2>4. CASE o \notin raced /\ Entering(o) = {t}
    <3>1. /\ \A s \in Threads : InHook(s) => obj[s] # o
          /\ state[o] \in Allowed(hook[t])
      BY <2>1, <2>4 DEF CycleInv, CycleOf
    <3>2. HookOf(o) = "none" /\ HookOf(o)' = hook[t] /\ o \notin raced'
      BY <2>1, <2>4, <3>1, HookOfNone, HookOfWillBe DEF CycleInv
    <3>3. Entering(o)' = {}
      BY <2>1, <2>4 DEF Entering
    <3>4. /\ hookOf[o] = "none" /\ hookOf'[o] = hook[t]
          /\ stateOf[o] = state[o] /\ stateOf'[o] = state[o]
          /\ enteringOf[o] = {t} /\ enteringOf'[o] = {}
      BY <2>1, <2>4, <3>2, <3>3 DEF hookOf, stateOf, enteringOf
    <3>5. stateOf' = stateOf
      <4>1. \A p \in Objects : stateOf'[p] = stateOf[p]
        BY <2>2, <3>4
      <4>2. QED
        BY <4>1 DEF stateOf
    <3>6. stateOf[o] \in Lifecycle!From(hook[t])
      BY <2>1, <3>1, <3>4 DEF Allowed, Lifecycle!From, Hooks
    <3>7. /\ hookOf' = [hookOf EXCEPT ![o] = hook[t]]
          /\ enteringOf' = [enteringOf EXCEPT ![o] = {}]
      BY <2>1, <2>2, <3>4, OneChanged
    <3>8. PICK h \in Hooks : h = hook[t]
      BY <2>1
    <3>9. Lifecycle!Enter(o, t, h)
      BY <3>4, <3>5, <3>6, <3>7, <3>8 DEF Lifecycle!Enter, stateOf, hookOf, enteringOf
    <3>10. QED
      BY <3>9, CycleSteps
  <2>5. CASE o \notin raced /\ Entering(o) # {t}
    <3>1. t \in Entering(o) /\ \E u \in Entering(o) : t # u
      BY <2>1, <2>5 DEF Entering
    <3>2. /\ stateOf'[o] = "lost" /\ hookOf'[o] = "none" /\ enteringOf'[o] = {}
          /\ enteringOf[o] = Entering(o)
      BY <2>1, <2>5 DEF stateOf, hookOf, enteringOf
    <3>3. /\ stateOf' = [stateOf EXCEPT ![o] = "lost"]
          /\ hookOf' = [hookOf EXCEPT ![o] = "none"]
          /\ enteringOf' = [enteringOf EXCEPT ![o] = {}]
      BY <2>1, <2>2, <3>2, OneChanged
    <3>4. \E u, v \in enteringOf[o] : u # v
      BY <3>1, <3>2
    <3>5. Lifecycle!Lose(o)
      BY <3>3, <3>4 DEF Lifecycle!Lose, stateOf, hookOf, enteringOf
    <3>6. QED
      BY <2>1, <3>5, CycleSteps DEF Hooks
  <2>6. QED
    BY <2>3, <2>4, <2>5
<1>3. ASSUME NEW t \in Threads, NEW o \in Objects, o = obj[t],
             insertModuleReturns(t) \/ LeaveHook(t)
      PROVE  CycleNext
  <2>1. /\ pc[t] \in {"init", "hook"} /\ pc'[t] \in {"idle", "leave"}
        /\ obj'[t] \in {o, NoObject}
        /\ \A s \in Threads \ {t} : UNCHANGED <<pc[s], obj[s], hook[s]>>
        /\ state' = [state EXCEPT ![o] = hook[t]]
        /\ UNCHANGED raced /\ o = obj[t] /\ hook[t] \in Hooks
    <3>1. CASE insertModuleReturns(t)
      BY <1>3, <1>t, <3>1 DEF insertModuleReturns, IInv, MapInv, Hooks
    <3>2. CASE LeaveHook(t)
      BY <1>3, <1>t, <3>2 DEF LeaveHook, FinderPC, IInv, ThreadInv
    <3>3. QED
      BY <1>3, <3>1, <3>2
  <2>2. \A p \in Objects \ {o} : UNCHANGED <<stateOf[p], hookOf[p], enteringOf[p]>>
    BY <1>t, <2>1, OthersSame
  <2>3. CASE o \in raced
    BY <2>1, <2>2, <2>3, LostSame, AllSame
  <2>4. CASE o \notin raced
    <3>1. CycleOf(o) /\ CycleOf(o)'
      BY <2>1, <2>4 DEF CycleInv
    <3>2. HookOf(o) = hook[t]
      BY <2>1, <3>1, HookOfIs
    <3>3. HookOf(o)' = "none"
      <4>1. \A s \in Threads : pc'[s] \in {"init", "hook"} => obj'[s] # o
        BY <2>1, <3>1 DEF CycleOf, InHook
      <4>2. QED
        BY <4>1 DEF HookOf
    <3>4. Entering(o)' = Entering(o)
      BY <2>1, EnteringSame DEF Entering
    <3>5. /\ hookOf[o] = hook[t] /\ hookOf'[o] = "none"
          /\ stateOf'[o] = hook[t]
          /\ enteringOf'[o] = enteringOf[o]
      BY <1>t, <2>1, <2>4, <3>2, <3>3, <3>4 DEF hookOf, stateOf, enteringOf
    <3>6. enteringOf' = enteringOf
      <4>1. \A p \in Objects : enteringOf'[p] = enteringOf[p]
        BY <2>2, <3>5
      <4>2. QED
        BY <4>1 DEF enteringOf
    <3>7. /\ stateOf' = [stateOf EXCEPT ![o] = hook[t]]
          /\ hookOf' = [hookOf EXCEPT ![o] = "none"]
      BY <2>1, <2>2, <3>5, OneChanged
    <3>8. hookOf[o] # "none"
      BY <2>1, <3>5 DEF Hooks
    <3>9. Lifecycle!Leave(o)
      BY <3>5, <3>6, <3>7, <3>8 DEF Lifecycle!Leave, stateOf, hookOf, enteringOf
    <3>10. QED
      BY <2>1, <3>9, CycleSteps DEF Hooks
  <2>5. QED
    BY <2>3, <2>4
<1>4. ASSUME NEW t \in Threads, NEW o \in Objects, o = obj[t], TestRunning(t)
      PROVE  CycleNext
  <2>1. /\ pc[t] = "got" /\ pc'[t] = "tested" /\ ~running[o]
        /\ \A s \in Threads \ {t} : UNCHANGED <<pc[s], obj[s], hook[s]>>
        /\ UNCHANGED <<obj, state, raced>> /\ o = obj[t]
    BY <1>4, <1>o, <1>t DEF TestRunning, FinderPC
  <2>2. \A p \in Objects \ {o} : UNCHANGED <<stateOf[p], hookOf[p], enteringOf[p]>>
    BY <2>1, OthersSame
  <2>3. CASE o \in raced
    BY <2>1, <2>2, <2>3, LostSame, AllSame
  <2>4. CASE o \notin raced
    <3>1. \A s \in Threads : InHook(s) => obj[s] # o
      BY <2>1, <2>4 DEF CycleInv, CycleOf
    <3>2. HookOf(o) = "none" /\ HookOf(o)' = "none"
      <4>1. \A s \in Threads : pc'[s] \in {"init", "hook"} => obj'[s] # o
        BY <2>1, <3>1 DEF InHook
      <4>2. QED
        BY <3>1, <4>1, HookOfNone DEF HookOf
    <3>3. Entering(o)' = Entering(o) \cup {t}
      BY <2>1 DEF Entering
    <3>4. /\ hookOf[o] = "none" /\ hookOf'[o] = "none"
          /\ stateOf[o] = state[o] /\ stateOf'[o] = state[o]
          /\ enteringOf'[o] = enteringOf[o] \cup {t}
      BY <2>1, <2>4, <3>2, <3>3 DEF hookOf, stateOf, enteringOf
    <3>5. stateOf' = stateOf /\ hookOf' = hookOf
      <4>1. \A p \in Objects : stateOf'[p] = stateOf[p] /\ hookOf'[p] = hookOf[p]
        BY <2>2, <3>4
      <4>2. QED
        BY <4>1 DEF stateOf, hookOf
    <3>6. enteringOf' = [enteringOf EXCEPT ![o] = enteringOf[o] \cup {t}]
      BY <2>1, <2>2, <3>4, OneChanged
    <3>7. stateOf[o] # "lost"
      BY <1>t, <2>1, <3>4 DEF Hooks
    <3>8. Lifecycle!Begin(o, t)
      BY <3>4, <3>5, <3>6, <3>7 DEF Lifecycle!Begin, stateOf, hookOf, enteringOf
    <3>9. QED
      BY <2>1, <3>8, CycleSteps DEF Hooks
  <2>5. QED
    BY <2>3, <2>4
<1>5. ASSUME NEW t \in Threads, NEW o \in Objects, o = obj[t], NEW h \in Hooks,
             TestState(t, h)
      PROVE  CycleNext
  <2>1. /\ pc[t] = "tested" /\ pc'[t] \in {"call", "got"}
        /\ \A s \in Threads \ {t} : UNCHANGED <<pc[s], obj[s], hook[s]>>
        /\ UNCHANGED <<obj, state, raced>> /\ o = obj[t]
    BY <1>5, <1>o, <1>t DEF TestState, FinderPC
  <2>2. \A p \in Objects \ {o} : UNCHANGED <<stateOf[p], hookOf[p], enteringOf[p]>>
    BY <2>1, OthersSame
  <2>3. CASE o \in raced
    BY <2>1, <2>2, <2>3, LostSame, AllSame
  <2>4. CASE o \notin raced
    <3>1. HookOf(o)' = HookOf(o)
      BY <2>1, <2>4, HookOfSame DEF CycleInv
    <3>2. stateOf'[o] = stateOf[o] /\ hookOf'[o] = hookOf[o]
      BY <2>1, <3>1 DEF stateOf, hookOf
    <3>3. stateOf' = stateOf /\ hookOf' = hookOf
      <4>1. \A p \in Objects : stateOf'[p] = stateOf[p] /\ hookOf'[p] = hookOf[p]
        BY <2>2, <3>2
      <4>2. QED
        BY <4>1 DEF stateOf, hookOf
    <3>4. CASE pc'[t] = "call"
      <4>1. Entering(o)' = Entering(o)
        BY <2>1, <3>4, EnteringSame DEF Entering
      <4>2. enteringOf'[o] = enteringOf[o]
        BY <2>1, <4>1 DEF enteringOf
      <4>3. QED
        BY <2>2, <3>2, <4>2, AllSame
    <3>5. CASE pc'[t] = "got"
      <4>1. Entering(o)' = Entering(o) \ {t}
        BY <2>1, <3>5 DEF Entering
      <4>2. enteringOf'[o] = enteringOf[o] \ {t}
        BY <2>1, <2>4, <4>1 DEF enteringOf
      <4>3. enteringOf' = [enteringOf EXCEPT ![o] = enteringOf[o] \ {t}]
        BY <2>1, <2>2, <4>2, OneChanged
      <4>4. Lifecycle!Withdraw(o, t)
        BY <3>3, <4>3 DEF Lifecycle!Withdraw, stateOf, hookOf, enteringOf
      <4>5. QED
        BY <2>1, <4>4, CycleSteps DEF Hooks
    <3>6. QED
      BY <2>1, <3>4, <3>5
  <2>5. QED
    BY <2>3, <2>4
(* The other steps change neither a state nor where a thread is in a hook. *)
<1>6. ASSUME NEW t \in Threads, NEW o \in Objects, UNCHANGED <<state, raced>>,
             \A s \in Threads \ {t} : UNCHANGED <<pc[s], obj[s], hook[s]>>,
             pc[t] \notin {"tested", "call", "init", "hook"},
             pc'[t] \notin {"tested", "call", "init", "hook"}
      PROVE  UNCHANGED <<stateOf[o], hookOf[o], enteringOf[o]>>
  <2>1. Entering(o)' = Entering(o)
    BY <1>6, EnteringSame DEF Entering
  <2>2. o \notin raced => HookOf(o)' = HookOf(o)
    BY <1>6, HookOfSame DEF CycleInv
  <2>3. QED
    BY <1>6, <2>1, <2>2 DEF stateOf, hookOf, enteringOf
<1>7. ASSUME NEW t \in Threads, Begin(t) \/ Continue(t), ~insertModuleInits(t),
             ~EnterHook(t), ~insertModuleReturns(t), ~LeaveHook(t), ~TestRunning(t),
             ~(\E h \in Hooks : TestState(t, h))
      PROVE  CycleNext
  <2>1. \/ UNCHANGED <<modVars, threadVars>>
        \/ /\ UNCHANGED <<state, raced>>
           /\ \A s \in Threads \ {t} : UNCHANGED <<pc[s], obj[s], hook[s]>>
           /\ pc[t] \notin {"tested", "call", "init", "hook"}
           /\ pc'[t] \notin {"tested", "call", "init", "hook"}
    <3>1. CASE Begin(t)
      BY <1>7, <1>t, <3>1 DEF Begin, RegisterModule, UnRegisterModule, GetModule,
         NotifyAllModule, NotifyGroupModule
    <3>2. CASE Continue(t)
      BY <1>7, <1>t, <3>2 DEF Continue, insertModule, deleteModule, GetModuleBase,
         GetModuleBaseRelocks, LetGo, ClearRunning
    <3>3. QED
      BY <1>7, <3>1, <3>2
  <2>2. CASE UNCHANGED <<modVars, threadVars>>
    BY <2>2, AllSame DEF stateOf, hookOf, enteringOf, HookOf, Entering
  <2>3. QED
    BY <1>6, <2>1, <2>2, AllSame
<1>8. ASSUME notifyAllModule \/ UNCHANGED vars PROVE CycleNext
  <2>1. UNCHANGED <<modVars, threadVars>>
    BY <1>8 DEF notifyAllModule, DeQueueJob, NextEntry, EndOfMap, VisitModule, NotifyModule, vars
  <2>2. QED
    BY <2>1, AllSame DEF stateOf, hookOf, enteringOf, HookOf, Entering
<1>9. ASSUME NEW t \in Threads,
             \/ insertModuleInits(t) \/ EnterHook(t) \/ insertModuleReturns(t) \/ LeaveHook(t)
             \/ TestRunning(t) \/ \E h \in Hooks : TestState(t, h)
      PROVE  CycleNext
  <2>1. obj[t] \in Objects
    BY <1>9, <1>o DEF insertModuleInits, EnterHook, insertModuleReturns, LeaveHook, TestRunning,
       TestState, FinderPC, NewPC
  <2>2. QED
    BY <1>1, <1>2, <1>3, <1>4, <1>5, <1>9, <2>1
<1>10. QED
  BY <1>7, <1>8, <1>9 DEF Next

LEMMA InitCycle == Init => CycleInv /\ Lifecycle!Init
<1> SUFFICES ASSUME Init PROVE CycleInv /\ Lifecycle!Init
  OBVIOUS
<1>1. \A t \in Threads : pc[t] = "idle"
  BY DEF Init
<1>2. CycleInv
  BY <1>1 DEF CycleInv, CycleOf, InHook
<1>3. \A o \in Objects : HookOf(o) = "none" /\ Entering(o) = {} /\ state[o] = "none" /\ o \notin raced
  BY <1>1 DEF HookOf, Entering, Init
<1>4. QED
  BY <1>2, <1>3 DEF Lifecycle!Init

(* Whoever registers modules and whoever starts, stops and finalises them: *)
(* the split test and set of _isRunning and the registry's lock make       *)
(* cModuleBase keep its promise to a module's author, that the hooks run   *)
(* one at a time and in the order of the life cycle, until two threads     *)
(* have both tested the flag before either sets it.                        *)
THEOREM Refinement == Spec => ImplementsLifecycle
<1>1. IInv /\ CycleInv /\ CycleInv' /\ [Next]_vars => CycleNext
  BY LifecycleStep
<1>2. CycleNext <=> [Lifecycle!Next]_<<stateOf, hookOf, enteringOf>>
  BY DEF CycleNext, CycleVars
<1>3. QED
  BY <1>1, <1>2, InitCycle, CycleStep, Invariance, PTL
     DEF Spec, Lifecycle!Spec, ImplementsLifecycle, stateOf, hookOf, enteringOf

-----------------------------------------------------------------------------
(* The locks. *)

(* Of those who hold _lckModule, a reader can lock it again, as            *)
(* GetModuleBase does, and a writer inserts a module or is in moduleInit.  *)
LockGoesOn ==
    /\ ~WriterPriority /\ readers # {} => CanRead
    /\ writer # "none" => writer \in Threads /\ (pc[writer] \in {"inserting", "init"} \/ Hung)

(* The second shared lock of GetModuleBase, taken by a thread that has one *)
(* already, never waits for a writer which waits for that thread, if       *)
(* waiting writers do not go first; and nobody keeps the registry locked   *)
(* but for the time of an insertion, unless UnRegisterModule hangs.        *)
THEOREM LockNotHeldUp == Spec => []LockGoesOn
<1>1. IInv => LockGoesOn
  <2> SUFFICES ASSUME IInv PROVE LockGoesOn
    OBVIOUS
  <2>1. ~WriterPriority /\ readers # {} => CanRead
    BY DEF IInv, LockInv, CanRead
  <2>2. ASSUME writer # "none"
        PROVE  writer \in Threads /\ (pc[writer] \in {"inserting", "init"} \/ Hung)
    <3>1. writer \in Threads
      BY <2>2 DEF IInv, TypeOK
    <3>2. pc[writer] \in {"inserting", "init", "stuck"}
      BY <3>1 DEF IInv, LockInv
    <3>3. QED
      BY <3>1, <3>2 DEF Hung
  <2>3. QED
    BY <2>1, <2>2 DEF LockGoesOn
<1>2. QED
  BY <1>1, Invariance, PTL

(* _isRunning of a module is set only while a thread is in a hook of it.   *)
RunningHasHook ==
    \A o \in Objects : running[o] => \E t \in Threads : InHook(t) /\ obj[t] = o

LEMMA RunningStep == IInv /\ RunningHasHook /\ [Next]_vars => RunningHasHook'
<1> SUFFICES ASSUME IInv, RunningHasHook, [Next]_vars,
                    NEW o \in Objects, running'[o]
             PROVE  \E t \in Threads : InHook(t)' /\ obj'[t] = o
  BY DEF RunningHasHook
<1>t. /\ pc \in [Threads -> PC]
      /\ obj \in [Threads -> Objects \cup {NoObject}]
      /\ running \in [Objects -> BOOLEAN]
  BY DEF IInv, TypeOK
<1> USE DEF Goto, Return, modVars, threadVars
<1>1. ASSUME NEW t \in Threads, insertModuleReturns(t) \/ ClearRunning(t)
      PROVE  \E s \in Threads : InHook(s)' /\ obj'[s] = o
  <2>1. /\ running' = [running EXCEPT ![obj[t]] = FALSE]
        /\ \A s \in Threads \ {t} : UNCHANGED <<pc[s], obj[s]>>
    BY <1>1, <1>t DEF insertModuleReturns, ClearRunning
  <2>2. o # obj[t] /\ running[o]
    BY <1>t, <2>1
  <2>3. PICK s \in Threads : InHook(s) /\ obj[s] = o
    BY <2>2 DEF RunningHasHook
  <2>4. QED
    BY <2>1, <2>2, <2>3 DEF InHook
<1>2. ASSUME NEW t \in Threads, insertModuleInits(t) \/ EnterHook(t)
      PROVE  \E s \in Threads : InHook(s)' /\ obj'[s] = o
  <2>1. /\ running' = [running EXCEPT ![obj[t]] = TRUE]
        /\ pc'[t] \in {"init", "hook"} /\ obj' = obj
        /\ \A s \in Threads \ {t} : pc'[s] = pc[s]
    BY <1>2, <1>t DEF insertModuleInits, EnterHook
  <2>2. CASE o = obj[t]
    BY <2>1, <2>2 DEF InHook
  <2>3. CASE o # obj[t]
    <3>1. running[o]
      BY <1>t, <2>1, <2>3
    <3>2. PICK s \in Threads : InHook(s) /\ obj[s] = o
      BY <3>1 DEF RunningHasHook
    <3>3. QED
      BY <2>1, <3>2 DEF InHook
  <2>4. QED
    BY <2>2, <2>3
<1>3. ASSUME NEW t \in Threads, Begin(t) \/ Continue(t), ~insertModuleReturns(t),
             ~ClearRunning(t), ~insertModuleInits(t), ~EnterHook(t)
      PROVE  \E s \in Threads : InHook(s)' /\ obj'[s] = o
  <2>1. /\ running' = running
        /\ ~InHook(t) \/ UNCHANGED <<pc, obj>> \/ (InHook(t)' /\ obj' = obj)
        /\ \A s \in Threads \ {t} : UNCHANGED <<pc[s], obj[s]>>
    <3>1. CASE Begin(t)
      BY <1>t, <3>1 DEF Begin, RegisterModule, UnRegisterModule, GetModule, NotifyAllModule,
         NotifyGroupModule, TestRunning, InHook
    <3>2. CASE Continue(t)
      BY <1>3, <1>t, <3>2 DEF Continue, insertModule, deleteModule, GetModuleBase,
         GetModuleBaseRelocks, LetGo, TestState, LeaveHook, InHook
    <3>3. QED
      BY <1>3, <3>1, <3>2
  <2>2. PICK s \in Threads : InHook(s) /\ obj[s] = o
    BY <2>1 DEF RunningHasHook
  <2>3. QED
    BY <2>1, <2>2 DEF InHook
<1>4. ASSUME notifyAllModule \/ UNCHANGED vars
      PROVE  \E s \in Threads : InHook(s)' /\ obj'[s] = o
  <2>1. UNCHANGED <<running, pc, obj>>
    BY <1>4 DEF notifyAllModule, DeQueueJob, NextEntry, EndOfMap, VisitModule, NotifyModule, vars
  <2>2. QED
    BY <2>1 DEF RunningHasHook, InHook
<1>5. QED
  BY <1>1, <1>2, <1>3, <1>4 DEF Next

(* No module is locked out: however many users enter hooks of one module   *)
(* between each other's test and set of _isRunning, the flag is clear when *)
(* the last of them has left.                                              *)
THEOREM FlagNotLeftSet == Spec => []RunningHasHook
<1>1. Init => RunningHasHook
  BY DEF Init, RunningHasHook
<1>2. QED
  BY <1>1, RunningStep, Invariance, PTL DEF Spec

=============================================================================
