----------------------------- MODULE RequestBox -----------------------------
(***************************************************************************)
(* What the request side of the Unix IPC promises, without shared memory,  *)
(* semaphores and threads: requests are handed to the server's workers in  *)
(* the order they were posted, each at most once, and none is invented;    *)
(* the newest may be withdrawn, when its sender has died, before it is     *)
(* handed over.  IpcUnix implements this specification.                    *)
(***************************************************************************)
EXTENDS Sequences, SequencesExt

CONSTANT Requests       \* the requests that may be posted

VARIABLES waiting,      \* posted and not handed over, oldest first
          posted,       \* history: all that were ever posted, in order
          taken         \* those handed to a worker

vars == <<waiting, posted, taken>>

Init == waiting = <<>> /\ posted = <<>> /\ taken = {}

Post(r) ==
    /\ r \notin ToSet(posted)
    /\ waiting' = Append(waiting, r)
    /\ posted' = Append(posted, r)
    /\ UNCHANGED taken

Take ==
    /\ waiting # <<>>
    /\ Head(waiting) \notin taken
    /\ taken' = taken \cup {Head(waiting)}
    /\ waiting' = Tail(waiting)
    /\ UNCHANGED posted

Withdraw ==
    /\ waiting # <<>>
    /\ waiting' = Front(waiting)
    /\ UNCHANGED <<posted, taken>>

Next == (\E r \in Requests : Post(r)) \/ Take \/ Withdraw

Spec == Init /\ [][Next]_vars

=============================================================================
