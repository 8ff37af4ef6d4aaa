-------------------------- MODULE ModuleLifecycle --------------------------
(***************************************************************************)
(* What cModuleBase promises the author of a module: its four hooks,       *)
(* moduleInit, moduleStart, moduleStop and moduleFinal, run one at a time, *)
(* and each only after the hook it builds on - until two threads are about *)
(* to enter a hook of it at the same time, which loses the module.         *)
(***************************************************************************)
CONSTANTS Objects,      \* the modules
          Threads       \* those that call its functions

VARIABLES state,        \* the last hook each has completed, "none" or "lost"
          hook,         \* the hook each is in, or "none"
          entering      \* the threads that are about to enter one

Hooks == {"init", "start", "stop", "final"}

(* The states from which a hook may be entered.  A module that was stopped *)
(* may be stopped again, and one that was finalised initialised again.     *)
From(h) == CASE h = "init"  -> {"none", "final"}
             [] h = "start" -> {"init", "stop"}
             [] h = "stop"  -> {"start", "stop"}
             [] h = "final" -> {"stop"}

Init ==
    /\ state = [o \in Objects |-> "none"]
    /\ hook = [o \in Objects |-> "none"]
    /\ entering = [o \in Objects |-> {}]

(* No thread comes as far while a hook runs.                               *)
Begin(o, t) ==
    /\ state[o] # "lost" /\ hook[o] = "none"
    /\ entering' = [entering EXCEPT ![o] = @ \cup {t}]
    /\ UNCHANGED <<state, hook>>

Withdraw(o, t) ==
    /\ entering' = [entering EXCEPT ![o] = @ \ {t}]
    /\ UNCHANGED <<state, hook>>

(* A thread enters a hook, and no other was about to.                      *)
Enter(o, t, h) ==
    /\ hook[o] = "none"
    /\ entering[o] \subseteq {t}
    /\ state[o] \in From(h)
    /\ hook' = [hook EXCEPT ![o] = h]
    /\ entering' = [entering EXCEPT ![o] = {}]
    /\ UNCHANGED state

Leave(o) ==
    /\ hook[o] # "none"
    /\ state' = [state EXCEPT ![o] = hook[o]]
    /\ hook' = [hook EXCEPT ![o] = "none"]
    /\ UNCHANGED entering

Lose(o) ==
    /\ \E t, u \in entering[o] : t # u
    /\ state' = [state EXCEPT ![o] = "lost"]
    /\ hook' = [hook EXCEPT ![o] = "none"]
    /\ entering' = [entering EXCEPT ![o] = {}]

Next == \E o \in Objects :
    \/ Leave(o) \/ Lose(o)
    \/ \E t \in Threads : \/ Begin(o, t) \/ Withdraw(o, t)
                          \/ \E h \in Hooks : Enter(o, t, h)

Spec == Init /\ [][Next]_<<state, hook, entering>>

=============================================================================
