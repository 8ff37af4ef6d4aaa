------------------------------ MODULE IpcUnix ------------------------------
(***************************************************************************)
(* The Unix IPC (IPC/EXIPC_unix.cpp).  A server (CreateIPC) owns a slot in *)
(* shared memory, a semaphore for it, and a second segment, DATA, with a   *)
(* semaphore of its own, for requests too large for the slot.  SendIPC     *)
(* puts a request into the slot and waits for the answer in a segment of   *)
(* its own.  The server's main thread copies the slot into a queue, gives  *)
(* the slot free, and worker threads serve the queue.                      *)
(*                                                                         *)
(* What makes it hard: the names of a sender's segment and semaphore are   *)
(* made from its process id, so every call of a process, and every thread  *)
(* of it, uses the same names; workers open them by name, when the call    *)
(* they answer may be over; DATA is copied after the slot was given free;  *)
(* a sender, or the server, may die with a semaphore in its hands; and     *)
(* DestroyIPC closes its descriptors twice, by then perhaps a worker's.    *)
(*                                                                         *)
(* The slot holds a std::string, the sender's name.  The model is of a     *)
(* build whose strings keep such short names inline (libc++ up to 22       *)
(* characters), which the comparison of ftruncate's errno with EINVAL at   *)
(* EXIPC_unix.cpp:131 shows to be the intended one (macOS).                *)
(*                                                                         *)
(* A segment or semaphore that SendIPC created is named by that call.      *)
(* Opening a segment and then its semaphore is one step: when the call     *)
(* ends between the two, either the semaphore is missing, and the worker   *)
(* gives up as it does when both are, or the segment is one that no name   *)
(* leads to any more, and no later call sees it.                           *)
(***************************************************************************)
EXTENDS Naturals, Sequences, FiniteSets, SequencesExt

CONSTANTS Callers,      \* threads that call SendIPC
          Procs,        \* processes
          Placements,   \* which thread may be in which process
          Workers,      \* the server's nMaxThreadCount - 1 worker threads
          Kinds,        \* which requests are sent, see below
          MaxCalls,     \* bound: calls of SendIPC
          MaxCrashes,   \* bound: sending processes that die
          ServerMayDie, \* bound: whether the server's process may die
          DestroyAt     \* bound: DestroyIPC begins when so many calls were made

(* "small": reqData of the slot is large enough; "large": it is not;       *)
(* "check": CheckIPC( name, 1 ), which takes the DATA segments both ways.  *)
ASSUME IpcAssumption ==
    /\ Kinds \subseteq {"small", "large", "check"}
    /\ MaxCalls \in Nat /\ MaxCrashes \in Nat
    /\ Callers \cap Workers = {}
    /\ ServerMayDie \in BOOLEAN
    /\ {"free", "server"} \cap (Callers \cup Workers) = {}
    /\ DestroyAt \subseteq Nat
    /\ IsFiniteSet(Procs)
    /\ Placements \subseteq [Callers -> Procs]

Calls == 1..MaxCalls
None == 0

VARIABLES
    proc,           \* the process of each caller
    dead,           \* the processes that have died
    pc, call,       \* per caller: where it is, and in which call
    calls,          \* how many calls were made (names the calls)
    of, kind,       \* per call: its caller (a set, for "none"), and what it sends
    outcome, got,   \* per call: what it returned, and whose answer it took
    up,             \* the server's names exist
    slot, reqData,  \* the slot: the call whose request it holds (hasRequest),
                    \* and the body in it
    serverSem,      \* its semaphore: "free" or who holds it
    data, dataSem,  \* the DATA segment and its semaphore
    shmName, semName,   \* per process: what its names lead to
    shm,            \* per call: the segment it has opened
    answer, whole,  \* per segment: [from, size] of the answer in it, and
                    \* whether the DATA segment beside it has been written
    sem,            \* per semaphore: "free" or who holds it
    queue,          \* _queue: requests, [call, body]
    dpc,            \* DestroyIPC, and _isStop of server and queue; or "dead"
    mainEnded,      \* the main thread has ended
    wpc, wreq, wseg,    \* per worker: where it is, the request it serves,
                    \* and what it has opened, see Open
    posted, taken,  \* history: calls posted, in order; calls dequeued
    body            \* history, per call: the body its worker fetched

callerVars == <<proc, dead, pc, call, calls, of, kind, outcome, got>>
slotVars == <<slot, reqData, serverSem, data, dataSem>>
nameVars == <<shmName, semName, shm>>
segVars == <<answer, whole, sem>>
serverVars == <<up, queue, dpc, mainEnded>>
workerVars == <<wpc, wreq, wseg>>
history == <<posted, taken, body>>
vars == <<callerVars, slotVars, nameVars, segVars, serverVars, workerVars, history>>

NoAnswer == [from |-> None, size |-> 0]
NoRequest == [call |-> None, body |-> None]
NoSegment == [shm |-> None, sem |-> None, late |-> FALSE, lost |-> {}]
Free == "free"
Server == "server"      \* holds what the server's process had in its hands when it died

(* CreateIPC has returned and its main thread has started the workers and  *)
(* opened the slot.                                                        *)
Init ==
    /\ proc \in Placements
    /\ dead = {}
    /\ pc = [c \in Callers |-> "idle"]
    /\ call = [c \in Callers |-> None]
    /\ calls = 0
    /\ of = [k \in Calls |-> {}]
    /\ kind = [k \in Calls |-> "none"]
    /\ outcome = [k \in Calls |-> "open"]
    /\ got = [k \in Calls |-> None]
    /\ up = TRUE
    /\ slot = None /\ reqData = None
    /\ serverSem = Free
    /\ data = None /\ dataSem = Free
    /\ shmName = [p \in Procs |-> None]
    /\ semName = [p \in Procs |-> None]
    /\ shm = [k \in Calls |-> None]
    /\ answer = [k \in Calls |-> NoAnswer]
    /\ whole = [k \in Calls |-> FALSE]
    /\ sem = [k \in Calls |-> Free]
    /\ queue = <<>>
    /\ dpc = "created"
    /\ mainEnded = FALSE
    /\ wpc = [w \in Workers |-> "top"]
    /\ wreq = [w \in Workers |-> NoRequest]
    /\ wseg = [w \in Workers |-> NoSegment]
    /\ posted = <<>>
    /\ taken = {}
    /\ body = [k \in Calls |-> None]

Goto(c, where) == pc' = [pc EXCEPT ![c] = where]
WGoto(w, where) == wpc' = [wpc EXCEPT ![w] = where]

(* Back to the top of the loop: data and the opened segments go.           *)
Continue(w) ==
    /\ WGoto(w, "top")
    /\ wreq' = [wreq EXCEPT ![w] = NoRequest]
    /\ wseg' = [wseg EXCEPT ![w] = NoSegment]

(* isUsingMmap || nCheckIPC == 1: the request goes through DATA *)
ThroughData(k) == kind[k] \in {"large", "check"}

IsStop == dpc \in {"stopped", "destroyed"}

Alive(h) == h # Server /\ (h \in Callers => proc[h] \notin dead)

-----------------------------------------------------------------------------
(* SendIPC *)

Return(c, result) ==
    /\ Goto(c, "return")
    /\ outcome' = [outcome EXCEPT ![call[c]] = result]

(* The process's segment and semaphore are created: the segment unless its *)
(* name exists, the semaphore always anew.  Then the server's are opened.  *)
Begin(c) ==
    /\ pc[c] = "idle" /\ calls < MaxCalls
    /\ LET k == calls + 1
           p == proc[c]
           seg == IF shmName[p] = None THEN k ELSE shmName[p]
       IN /\ calls' = k
          /\ call' = [call EXCEPT ![c] = k]
          /\ of' = [of EXCEPT ![k] = {c}]
          /\ \E d \in Kinds : kind' = [kind EXCEPT ![k] = d]
          /\ shm' = [shm EXCEPT ![k] = seg]
          /\ shmName' = [shmName EXCEPT ![p] = seg]
          /\ semName' = [semName EXCEPT ![p] = k]
          /\ IF up THEN Goto(c, "post") /\ UNCHANGED outcome
             ELSE Goto(c, "return") /\ outcome' = [outcome EXCEPT ![k] = "false"]
    /\ UNCHANGED <<proc, dead, got, slotVars, segVars, serverVars, workerVars, history>>

LockSlot(c) ==
    /\ pc[c] = "post" /\ serverSem = Free
    /\ serverSem' = c
    /\ Goto(c, "locked")
    /\ UNCHANGED <<proc, dead, call, calls, of, kind, outcome, got, slot, reqData,
                   data, dataSem, nameVars, segVars, serverVars, workerVars, history>>

(* hasRequest is set, or DATA has no name any more: try again later        *)
Busy(c) ==
    /\ pc[c] = "locked"
    /\ slot # None \/ (ThroughData(call[c]) /\ ~up)
    /\ serverSem' = Free
    /\ Goto(c, "post")
    /\ UNCHANGED <<proc, dead, call, calls, of, kind, outcome, got, slot, reqData,
                   data, dataSem, nameVars, segVars, serverVars, workerVars, history>>

(* A small request is copied into the slot ... *)
FillSlot(c) ==
    /\ pc[c] = "locked" /\ slot = None
    /\ ~ThroughData(call[c])
    /\ reqData' = call[c]
    /\ Goto(c, "filled")
    /\ UNCHANGED <<proc, dead, call, calls, of, kind, outcome, got, slot, serverSem,
                   data, dataSem, nameVars, segVars, serverVars, workerVars, history>>

(* ... any other into DATA, under its own semaphore too. *)
LockData(c) ==
    /\ pc[c] = "locked" /\ slot = None
    /\ ThroughData(call[c]) /\ up
    /\ dataSem = Free
    /\ dataSem' = c
    /\ Goto(c, "copying")
    /\ UNCHANGED <<proc, dead, call, calls, of, kind, outcome, got, slot, reqData, serverSem,
                   data, nameVars, segVars, serverVars, workerVars, history>>

FillData(c) ==
    /\ pc[c] = "copying"
    /\ data' = call[c]
    /\ dataSem' = Free
    /\ Goto(c, "filled")
    /\ UNCHANGED <<proc, dead, call, calls, of, kind, outcome, got, slot, reqData, serverSem,
                   nameVars, segVars, serverVars, workerVars, history>>

(* hasRequest = true *)
Post(c) ==
    /\ pc[c] = "filled"
    /\ slot' = call[c]
    /\ posted' = Append(posted, call[c])
    /\ serverSem' = Free
    /\ Goto(c, "wait")
    /\ UNCHANGED <<proc, dead, call, calls, of, kind, outcome, got, reqData, data, dataSem,
                   nameVars, segVars, serverVars, workerVars, taken, body>>

LockOwn(c) ==
    /\ pc[c] = "wait" /\ sem[call[c]] = Free
    /\ sem' = [sem EXCEPT ![call[c]] = c]
    /\ Goto(c, "look")
    /\ UNCHANGED <<proc, dead, call, calls, of, kind, outcome, got, slotVars, nameVars,
                   answer, whole, serverVars, workerVars, history>>

(* hasResponse; a check's answer is mapped with its size, which must not   *)
(* be 0 for that                                                           *)
Answered(k) == /\ answer[shm[k]].from # None
               /\ kind[k] = "check" => answer[shm[k]].size # 0

(* The answer is copied, from DATA in the case of a check, which CheckIPC  *)
(* compares with what it expects.                                          *)
Receive(c) ==
    LET k == call[c] IN
    /\ pc[c] = "look" /\ Answered(k)
    /\ sem' = [sem EXCEPT ![k] = Free]
    /\ got' = [got EXCEPT ![k] = answer[shm[k]].from]
    /\ Return(c, IF kind[k] = "check" /\ ~whole[shm[k]] THEN "bad" ELSE "ok")
    /\ UNCHANGED <<proc, dead, call, calls, of, kind, slotVars, nameVars,
                   answer, whole, serverVars, workerVars, history>>

NotYet(c) ==
    /\ pc[c] = "look" /\ ~Answered(call[c])
    /\ sem' = [sem EXCEPT ![call[c]] = Free]
    /\ Goto(c, "wait")
    /\ UNCHANGED <<proc, dead, call, calls, of, kind, outcome, got, slotVars, nameVars,
                   answer, whole, serverVars, workerVars, history>>

(* Mutant: the second loop does not count its rounds. *)
TimeOut_PostOnly(c) ==
    /\ pc[c] = "post"
    /\ Return(c, "false")
    /\ UNCHANGED <<proc, dead, call, calls, of, kind, got, slotVars, nameVars, segVars,
                   serverVars, workerVars, history>>

(* timeOutSec * 100 rounds of 10 ms have passed, in either loop            *)
TimeOut(c) ==
    /\ pc[c] \in {"post", "wait"}
    /\ Return(c, "false")
    /\ UNCHANGED <<proc, dead, call, calls, of, kind, got, slotVars, nameVars, segVars,
                   serverVars, workerVars, history>>

(* Mutant: the segments are not deleted on close. *)
End_NoUnlink(c) ==
    /\ pc[c] = "return"
    /\ Goto(c, "idle")
    /\ call' = [call EXCEPT ![c] = None]
    /\ UNCHANGED <<proc, dead, calls, of, kind, outcome, got, slotVars, nameVars, segVars,
                   serverVars, workerVars, history>>

(* Mutant: the semaphore is closed but not unlinked. *)
End_KeepsSem(c) ==
    /\ pc[c] = "return"
    /\ Goto(c, "idle")
    /\ call' = [call EXCEPT ![c] = None]
    /\ shmName' = [shmName EXCEPT ![proc[c]] = None]
    /\ UNCHANGED <<proc, dead, calls, of, kind, outcome, got, slotVars, semName, shm, segVars,
                   serverVars, workerVars, history>>

(* The destructors close and unlink: whatever the names lead to by now.    *)
End(c) ==
    /\ pc[c] = "return"
    /\ Goto(c, "idle")
    /\ call' = [call EXCEPT ![c] = None]
    /\ shmName' = [shmName EXCEPT ![proc[c]] = None]
    /\ semName' = [semName EXCEPT ![proc[c]] = None]
    /\ UNCHANGED <<proc, dead, calls, of, kind, outcome, got, slotVars, shm, segVars,
                   serverVars, workerVars, history>>

(* A process dies; what its threads hold stays held, its names stay.       *)
Crash(p) ==
    /\ p \notin dead /\ Cardinality(dead) < MaxCrashes
    /\ \E c \in Callers : proc[c] = p /\ pc[c] # "idle"
    /\ dead' = dead \cup {p}
    /\ pc' = [c \in Callers |-> IF proc[c] = p THEN "dead" ELSE pc[c]]
    /\ UNCHANGED <<proc, call, calls, of, kind, outcome, got, slotVars, nameVars, segVars,
                   serverVars, workerVars, history>>

-----------------------------------------------------------------------------
(* The server's main thread *)

(* Mutant: hasRequest is not reset. *)
MainTake_KeepsRequest ==
    /\ ~mainEnded /\ serverSem = Free
    /\ slot # None
    /\ queue' = Append(queue, [call |-> slot, body |-> reqData])
    /\ Len(queue) < 2
    /\ UNCHANGED <<callerVars, slotVars, nameVars, segVars, up, dpc, mainEnded,
                   workerVars, history>>

(* A request whose sender has died is dropped, any other is queued, and    *)
(* the slot is free for the next.                                          *)
MainTake ==
    /\ ~mainEnded /\ serverSem = Free
    /\ slot # None
    /\ queue' = IF \E c \in of[slot] : proc[c] \in dead THEN queue
                ELSE Append(queue, [call |-> slot, body |-> reqData])
    /\ slot' = None
    /\ UNCHANGED <<callerVars, reqData, serverSem, data, dataSem, nameVars, segVars,
                   up, dpc, mainEnded, workerVars, history>>

(* Mutant: the main thread loops for ever. *)
MainEnd_Never == FALSE /\ UNCHANGED vars

MainEnd ==
    /\ ~mainEnded /\ IsStop
    /\ mainEnded' = TRUE
    /\ UNCHANGED <<callerVars, slotVars, nameVars, segVars, up, queue, dpc, workerVars, history>>

-----------------------------------------------------------------------------
(* Its workers *)

(* The loop's test; DeQueue waits as long as the queue is empty.           *)
Loop(w) ==
    /\ wpc[w] = "top"
    /\ WGoto(w, IF IsStop THEN "ended" ELSE "wait")
    /\ UNCHANGED <<callerVars, slotVars, nameVars, segVars, serverVars, wreq, wseg, history>>

DeQueue(w) ==
    /\ wpc[w] = "wait" /\ queue # <<>>
    /\ IF IsStop
       THEN WGoto(w, "ended") /\ UNCHANGED <<queue, wreq, taken>>
       ELSE /\ WGoto(w, "serve")
            /\ queue' = Tail(queue)
            /\ wreq' = [wreq EXCEPT ![w] = Head(queue)]
            /\ taken' = taken \cup {Head(queue).call}
    /\ UNCHANGED <<callerVars, slotVars, nameVars, segVars, up, dpc, mainEnded, wseg,
                   posted, body>>

(* _isStop was set after the request had been dequeued *)
Stopped(w) ==
    /\ wpc[w] = "serve" /\ IsStop
    /\ WGoto(w, "ended")
    /\ UNCHANGED <<callerVars, slotVars, nameVars, segVars, serverVars, wreq, wseg, history>>

(* Mutant: the queue holds no copy of the slot's body. *)
Serve_FromSlot(w) ==
    LET k == wreq[w].call IN
    /\ wpc[w] = "serve"
    /\ IF ThroughData(k)
       THEN /\ up /\ dataSem = Free
            /\ body' = [body EXCEPT ![k] = data]
       ELSE body' = [body EXCEPT ![k] = reqData]
    /\ \/ WGoto(w, "open") /\ UNCHANGED <<wreq, wseg>>
       \/ kind[k] # "check" /\ Continue(w)
    /\ UNCHANGED <<callerVars, slotVars, nameVars, segVars, serverVars, posted, taken>>

(* The body is fetched and the callback called.  It gets responseData by   *)
(* value, so resData stays null: an answer with data cannot be sent.  A    *)
(* check is answered without a callback.                                   *)
Serve(w) ==
    LET k == wreq[w].call IN
    /\ wpc[w] = "serve"
    /\ IF ThroughData(k)
       THEN /\ up /\ dataSem = Free
            /\ body' = [body EXCEPT ![k] = data]
       ELSE body' = [body EXCEPT ![k] = wreq[w].body]
    /\ \/ WGoto(w, "open") /\ UNCHANGED <<wreq, wseg>>  \* responseSize = 0, or a check
       \/ kind[k] # "check" /\ Continue(w)             \* responseSize # 0
    /\ UNCHANGED <<callerVars, slotVars, nameVars, segVars, serverVars, posted, taken>>

(* DATA cannot be opened any more *)
ServeFails(w) ==
    /\ wpc[w] = "serve" /\ ThroughData(wreq[w].call) /\ ~up
    /\ Continue(w)
    /\ UNCHANGED <<callerVars, slotVars, nameVars, segVars, serverVars, history>>

Sender(k) == proc[CHOOSE c \in Callers : c \in of[k]]

(* The sender's segment and semaphore, by name: those of the call that     *)
(* waits under this name now, if any.  late: DestroyIPC had closed its own *)
(* by then, and may close their numbers again; lost: what that did.        *)
Opened(p) == [shm |-> shmName[p], sem |-> semName[p], late |-> ~up, lost |-> {}]

(* Mutant: a worker that does not find its sender leaves the loop. *)
Open_Breaks(w) ==
    LET p == Sender(wreq[w].call) IN
    /\ wpc[w] = "open"
    /\ IF shmName[p] = None
       THEN WGoto(w, "ended") /\ UNCHANGED <<wreq, wseg>>
       ELSE /\ WGoto(w, "respond")
            /\ wseg' = [wseg EXCEPT ![w] = Opened(p)]
            /\ UNCHANGED wreq
    /\ UNCHANGED <<callerVars, slotVars, nameVars, segVars, serverVars, history>>

Open(w) ==
    LET p == Sender(wreq[w].call) IN
    /\ wpc[w] = "open"
    /\ IF shmName[p] = None
       THEN Continue(w)
       ELSE /\ WGoto(w, "respond")
            /\ wseg' = [wseg EXCEPT ![w] = Opened(p)]
            /\ UNCHANGED wreq
    /\ UNCHANGED <<callerVars, slotVars, nameVars, segVars, serverVars, history>>

(* The guard of the sender's semaphore.  On one that is closed sem_wait    *)
(* and sem_post fail, which nobody looks at.                               *)
Lost(w, what) == what \in wseg[w].lost
Enters(w) == Lost(w, "wait") \/ sem[wseg[w].sem] = Free
Acquired(w) == IF Lost(w, "wait") THEN sem ELSE [sem EXCEPT ![wseg[w].sem] = w]
Released(w) == IF Lost(w, "post") THEN sem ELSE [sem EXCEPT ![wseg[w].sem] = Free]

(* Mutant: the sender's semaphore is given back before the data is written. *)
Respond_Unlocks(w) ==
    LET k == wreq[w].call  check == kind[k] = "check" IN
    /\ wpc[w] = "respond" /\ Enters(w) /\ ~Lost(w, "shm")
    /\ answer' = [answer EXCEPT ![wseg[w].shm] =
                        [from |-> k, size |-> IF check THEN 8 ELSE 0]]
    /\ IF check THEN WGoto(w, "fill") /\ UNCHANGED <<wreq, wseg>> ELSE Continue(w)
    /\ UNCHANGED <<callerVars, slotVars, nameVars, whole, sem, serverVars, history>>

(* hasResponse and responseSize, and for a check, with the semaphore still *)
(* held, ...                                                               *)
Respond(w) ==
    LET k == wreq[w].call  check == kind[k] = "check" IN
    /\ wpc[w] = "respond" /\ Enters(w) /\ ~Lost(w, "shm")
    /\ answer' = [answer EXCEPT ![wseg[w].shm] =
                        [from |-> k, size |-> IF check THEN 8 ELSE 0]]
    /\ IF check
       THEN WGoto(w, "fill") /\ UNCHANGED <<wreq, wseg>>
       ELSE Continue(w)
    /\ sem' = IF check \/ Lost(w, "post") THEN Acquired(w) ELSE sem
    /\ UNCHANGED <<callerVars, slotVars, nameVars, whole, serverVars, history>>

(* The segment's descriptor is closed: it cannot be mapped.                *)
RespondFails(w) ==
    /\ wpc[w] = "respond" /\ Enters(w) /\ Lost(w, "shm")
    /\ sem' = IF Lost(w, "post") THEN Acquired(w) ELSE sem
    /\ Continue(w)
    /\ UNCHANGED <<callerVars, slotVars, nameVars, answer, whole, serverVars, history>>

(* ... the data, into the DATA segment the name leads to, unless that      *)
(* cannot be opened, or mapped because its descriptor is closed as well.   *)
RespondData(w) ==
    LET p == Sender(wreq[w].call) IN
    /\ wpc[w] = "fill"
    /\ \/ whole' = IF shmName[p] = None THEN whole ELSE [whole EXCEPT ![shmName[p]] = TRUE]
       \/ ~up /\ UNCHANGED whole
    /\ sem' = Released(w)
    /\ Continue(w)
    /\ UNCHANGED <<callerVars, slotVars, nameVars, answer, serverVars, history>>

-----------------------------------------------------------------------------
(* DestroyIPC *)

(* cleanupIPC unlinks the names; who has opened them goes on using them.   *)
Unlink ==
    /\ dpc = "created" /\ calls \in DestroyAt
    /\ dpc' = "unlinked"
    /\ up' = FALSE
    /\ UNCHANGED <<callerVars, slotVars, nameVars, segVars, queue, mainEnded, workerVars, history>>

(* The destructors of DestroyIPC close again what cleanupIPC has closed.   *)
(* A worker that got one of the numbers since then loses its segment's or  *)
(* its semaphore's descriptor, that one before its sem_wait, or in it, or  *)
(* after it.  Its own destructors will close the number once more, so this *)
(* does not end with DestroyIPC.                                           *)
ClosedTwice(w) ==
    /\ ~up /\ wseg[w].late
    /\ \E what \in {{"shm"}, {"wait", "post"}, {"post"}} :
        /\ wpc[w] = "respond" \/ (wpc[w] = "fill" /\ what = {"post"})
        /\ ~(what \subseteq wseg[w].lost) /\ ~("post" \in what /\ Lost(w, "post"))
        /\ wseg' = [wseg EXCEPT ![w].lost = @ \cup what]
    /\ UNCHANGED <<callerVars, slotVars, nameVars, segVars, serverVars, wpc, wreq, history>>

(* ~CIPCServer: _isStop and _queue.Stop, ... *)
StopServer ==
    /\ dpc = "unlinked"
    /\ dpc' = "stopped"
    /\ UNCHANGED <<callerVars, slotVars, nameVars, segVars, up, queue, mainEnded, workerVars, history>>

(* ... and every thread joined. *)
Destroyed ==
    /\ dpc = "stopped"
    /\ mainEnded /\ \A w \in Workers : wpc[w] = "ended"
    /\ dpc' = "destroyed"
    /\ UNCHANGED <<callerVars, slotVars, nameVars, segVars, up, queue, mainEnded, workerVars, history>>

-----------------------------------------------------------------------------
(* The server's process dies, its names stay.  What its threads hold stays *)
(* held: what a worker does in "fill", and what the main thread, a worker  *)
(* at DATA or one about to respond may just have taken.                    *)
ServerDies ==
    /\ dpc \in {"created", "unlinked", "stopped"} /\ ServerMayDie
    /\ dpc' = "dead"
    /\ mainEnded' = TRUE
    /\ wpc' = [w \in Workers |-> "dead"]
    /\ wreq' = [w \in Workers |-> NoRequest]
    /\ wseg' = [w \in Workers |-> NoSegment]
    /\ \/ UNCHANGED serverSem
       \/ ~mainEnded /\ serverSem = Free /\ serverSem' = Server
    /\ \/ UNCHANGED dataSem
       \/ /\ dataSem = Free /\ dataSem' = Server
          /\ \E w \in Workers : wpc[w] = "serve" /\ ThroughData(wreq[w].call)
    /\ \E T \in SUBSET {k \in Calls : sem[k] = Free /\
                            \E w \in Workers : wpc[w] = "respond" /\ wseg[w].sem = k} :
           sem' = [k \in Calls |-> IF k \in T THEN Server ELSE sem[k]]
    /\ UNCHANGED <<callerVars, slot, reqData, data, nameVars, answer, whole, up, queue,
                   history>>

-----------------------------------------------------------------------------
SendIPC(c) == \/ Begin(c) \/ LockSlot(c) \/ Busy(c) \/ FillSlot(c) \/ LockData(c)
              \/ FillData(c) \/ Post(c) \/ LockOwn(c) \/ Receive(c) \/ NotYet(c)
              \/ TimeOut(c) \/ End(c)

Worker(w) == \/ Loop(w) \/ DeQueue(w) \/ Stopped(w) \/ Serve(w) \/ ServeFails(w)
             \/ Open(w) \/ Respond(w) \/ RespondFails(w) \/ RespondData(w)

DestroyIPC == Unlink \/ (\E w \in Workers : ClosedTwice(w)) \/ StopServer \/ Destroyed

Next ==
    \/ \E c \in Callers : SendIPC(c)
    \/ \E p \in Procs : Crash(p)
    \/ MainTake \/ MainEnd
    \/ \E w \in Workers : Worker(w)
    \/ DestroyIPC
    \/ ServerDies

Spec == Init /\ [][Next]_vars

(***************************************************************************)
(* Threads run, and callbacks return.  Semaphores are not fair, but every  *)
(* loop that takes one sleeps 10 ms between two rounds, so who waits for a *)
(* semaphore that a live thread holds gets it (SF).  A loop that has done  *)
(* its timeOutSec * 100 rounds ends; a round does not end while its        *)
(* semaphore is held by a process that has died, or by a worker that could *)
(* not give it back.                                                       *)
(***************************************************************************)
Abandoned(k) ==
    \/ ~Alive(sem[k])
    \/ sem[k] \in Workers /\ LET w == sem[k] IN
            ~(wpc[w] = "fill" /\ wseg[w].sem = k /\ ~Lost(w, "post"))

Fairness ==
    /\ \A c \in Callers :
        /\ WF_vars(Busy(c) \/ FillSlot(c) \/ FillData(c) \/ Post(c)
                   \/ Receive(c) \/ NotYet(c) \/ End(c))
        /\ SF_vars(LockData(c))
        /\ SF_vars(TimeOut(c) /\ (pc[c] = "post" => Alive(serverSem))
                              /\ (pc[c] = "wait" => ~Abandoned(call[c])))
    /\ SF_vars(MainTake)
    /\ WF_vars(MainEnd /\ Alive(serverSem))
    /\ \A w \in Workers :
        /\ WF_vars(Loop(w) \/ DeQueue(w) \/ Stopped(w) \/ ServeFails(w)
                   \/ Open(w) \/ RespondData(w))
        /\ SF_vars(Serve(w))
        /\ SF_vars(Respond(w) \/ RespondFails(w))
    /\ WF_vars(StopServer \/ Destroyed)

FairSpec == Spec /\ Fairness

-----------------------------------------------------------------------------
Holders == Callers \cup Workers \cup {Free, Server}
CallOrNone == Calls \cup {None}
Segment == [shm : CallOrNone, sem : CallOrNone, late : BOOLEAN,
            lost : SUBSET {"shm", "wait", "post"}]

PC == {"idle", "post", "locked", "filled", "copying", "wait", "look", "return", "dead"}
WPC == {"top", "wait", "serve", "open", "respond", "fill", "ended", "dead"}

(* The type invariant. *)
TypeOK ==
    /\ proc \in [Callers -> Procs]
    /\ dead \subseteq Procs
    /\ pc \in [Callers -> PC]
    /\ call \in [Callers -> CallOrNone]
    /\ calls \in 0..MaxCalls
    /\ of \in [Calls -> SUBSET Callers]
    /\ kind \in [Calls -> Kinds \cup {"none"}]
    /\ outcome \in [Calls -> {"open", "ok", "bad", "false"}]
    /\ got \in [Calls -> CallOrNone]
    /\ {slot, reqData, data} \subseteq CallOrNone
    /\ {serverSem, dataSem} \subseteq Callers \cup {Free, Server}
    /\ shmName \in [Procs -> CallOrNone] /\ semName \in [Procs -> CallOrNone]
    /\ \A p \in Procs : shmName[p] = None <=> semName[p] = None
    /\ shm \in [Calls -> CallOrNone]
    /\ answer \in [Calls -> [from : CallOrNone, size : {0, 8}]]
    /\ whole \in [Calls -> BOOLEAN]
    /\ sem \in [Calls -> Holders]
    /\ queue \in Seq([call : Calls, body : CallOrNone])
    /\ dpc \in {"created", "unlinked", "stopped", "destroyed", "dead"}
    /\ up \in BOOLEAN /\ mainEnded \in BOOLEAN
    /\ wpc \in [Workers -> WPC]
    /\ wreq \in [Workers -> [call : CallOrNone, body : CallOrNone]]
    /\ wseg \in [Workers -> Segment]
    /\ posted \in Seq(Calls)
    /\ taken \subseteq Calls
    /\ body \in [Calls -> CallOrNone]

(***************************************************************************)
(* The slot and the server's queue together are one queue of requests:     *)
(* posted by SendIPC, taken by DeQueue, in order and at most once;         *)
(* the main thread's copy from one to the other is a stutter, or, when the *)
(* sender has died, a withdrawal.                                          *)
(***************************************************************************)
Box == INSTANCE RequestBox WITH
    Requests <- Calls,
    waiting <- [n \in 1..Len(queue) |-> queue[n].call]
               \o (IF slot = None THEN <<>> ELSE <<slot>>)

BoxSpec == Box!Spec

SameProcess(j, k) == Sender(j) = Sender(k)

(* Two threads of one process, and so of one name. *)
Shared(k) == \E c \in Callers : c \notin of[k] /\ proc[c] = Sender(k)

(* The process of k has given a call up. *)
GaveUp(k) == \E j \in 1..calls : SameProcess(j, k) /\ outcome[j] = "false"

(***************************************************************************)
(* The answer SendIPC returns is to a request that was served, and to its  *)
(* own, unless the process has given a call up, whose late answer then     *)
(* goes to its next one (SendIPC opens segments and workers open them by   *)
(* the process id alone), or has two threads in SendIPC.  One call given   *)
(* up may shift all answers after it, each by one call; but no two calls   *)
(* of a thread get the same answer in a row.                               *)
(***************************************************************************)
AnswerIsOwn ==
    \A k \in Calls : got[k] # None =>
        /\ body[got[k]] # None
        /\ got[k] # k =>
            /\ SameProcess(got[k], k)
            /\ got[got[k]] # got[k] \/ of[got[k]] # of[k]
            /\ GaveUp(k) \/ Shared(k)

PostedBefore(j, k) ==
    \E m, n \in DOMAIN posted : m < n /\ posted[m] = j /\ posted[n] = k

(***************************************************************************)
(* A worker serves the body that was sent with the request.  A small one   *)
(* always: it is copied with the slot.  One in DATA only as long as no     *)
(* other is copied there, and the slot is free for the next long before    *)
(* the worker looks; but never one that is older.                          *)
(***************************************************************************)
BodyIntact ==
    \A k \in Calls : body[k] \notin {None, k} =>
        /\ ThroughData(k) /\ ThroughData(body[k])
        /\ ~PostedBefore(body[k], k)

(***************************************************************************)
(* CheckIPC fails for no other reason than that no answer came: the data   *)
(* of an answer is there when hasResponse is seen, because both are        *)
(* written, and read, under one semaphore.  Two threads of a process hold  *)
(* two semaphores of one name, and lose that; and so does a worker whose   *)
(* descriptors DestroyIPC has closed.                                      *)
(***************************************************************************)
CheckAnswerWhole ==
    \A k \in Calls : outcome[k] = "bad" => Shared(k) \/ ~up

-----------------------------------------------------------------------------
(* A semaphore the dead hold on to stops everyone who comes to it. *)
Orphaned == ~Alive(serverSem) \/ ~Alive(dataSem)
Stuck(w) == wpc[w] = "respond" /\ Abandoned(wseg[w].sem)

(***************************************************************************)
(* SendIPC returns, whatever happens to the server and to other senders:   *)
(* its time-out ends both loops.  But sem_wait knows no time-out: a caller *)
(* stays in the first loop when a process has died with a semaphore of the *)
(* server in its hands, and in the second when a worker never gives back   *)
(* the caller's own: the server's process died with it, or DestroyIPC      *)
(* closed it under the worker.  Nothing else holds a caller.               *)
(***************************************************************************)
CallsReturn ==
    \A c \in Callers : pc[c] # "idle" ~> \/ pc[c] \in {"idle", "dead"}
                                         \/ pc[c] \in {"post", "locked"} /\ Orphaned
                                         \/ pc[c] = "wait" /\ Abandoned(call[c])

(***************************************************************************)
(* A request that was posted is served, if its sender lives until it is    *)
(* queued and the server neither dies nor is destroyed, unless a semaphore *)
(* is orphaned: one of the server's, or, for every worker, that of a       *)
(* sender which died while it looked for its answer.                       *)
(***************************************************************************)
PostedIsServed ==
    \A k \in Calls :
        k \in ToSet(posted) ~> \/ body[k] # None
                               \/ \E c \in of[k] : proc[c] \in dead
                               \/ Orphaned \/ \A w \in Workers : Stuck(w)
                               \/ ~up \/ dpc = "dead"

(***************************************************************************)
(* DestroyIPC returns, unless the process dies, or a worker is waiting in  *)
(* DeQueue, which does not look at _isStop before the queue has an item    *)
(* (EXIPC_unix.h:47), or a thread is stuck at a semaphore that nobody      *)
(* gives back.                                                             *)
(***************************************************************************)
DestroyReturns ==
    dpc = "stopped" ~> \/ dpc \in {"destroyed", "dead"}
                       \/ \E w \in Workers : wpc[w] = "wait" \/ Stuck(w)
                       \/ Orphaned

=============================================================================
