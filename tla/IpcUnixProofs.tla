--------------------------- MODULE IpcUnixProofs ---------------------------
(***************************************************************************)
(* Proofs about IpcUnix, for any number of callers, processes, workers,    *)
(* calls and deaths, and any placement of the callers in processes: the    *)
(* types; that a worker serves the body that was sent with the request;    *)
(* that an answer goes to the call it is for, and a check fails only for   *)
(* want of one, each with its exact exceptions; that slot and queue        *)
(* together implement RequestBox, and lose no request; and what no step    *)
(* changes: the body a worker has fetched, the result of a call.           *)
(*                                                                         *)
(* Each lemma XKeeps shows that action X keeps the inductive invariant     *)
(* IInv: <1>a is what X does, <1>s and <1>o say which operators it leaves  *)
(* as they are, and then there is a step for each part of IInv it can      *)
(* disturb and a few for the others.                                       *)
(***************************************************************************)
EXTENDS IpcUnix, SequenceTheorems, TLAPS

-----------------------------------------------------------------------------
(***************************************************************************)
(* What the safety properties rest on: the inductive invariant, in parts.  *)
(***************************************************************************)
InCall(c) == pc[c] \notin {"idle", "dead"}
NotPosted(c) == pc[c] \in {"post", "locked", "filled", "copying"}
Serving(w) == wpc[w] \in {"serve", "open", "respond"}
Responding(w) == wpc[w] \in {"respond", "fill"}

(* A call has one caller, which is in one call at a time. *)
CallInv ==
    /\ \A k \in Calls : IF k > calls THEN of[k] = {}
                        ELSE \E c \in Callers : of[k] = {c}
    /\ \A k \in 1..calls : shm[k] \in 1..k
    /\ \A c \in Callers :
        /\ pc[c] = "dead" <=> proc[c] \in dead
        /\ InCall(c) => call[c] \in 1..calls /\ of[call[c]] = {c}

(* The names of a process lead to what its own calls created, and so does  *)
(* what a worker has opened.                                               *)
NameInv ==
    /\ \A k \in 1..calls : SameProcess(shm[k], k)
    /\ \A p \in Procs : shmName[p] # None =>
        /\ {shmName[p], semName[p]} \subseteq 1..calls
        /\ Sender(shmName[p]) = p /\ Sender(semName[p]) = p
    /\ \A w \in Workers : Responding(w) =>
        /\ {wseg[w].shm, wseg[w].sem} \subseteq 1..calls
        /\ SameProcess(wseg[w].shm, wreq[w].call)
        /\ SameProcess(wseg[w].sem, wreq[w].call)
        /\ up => wseg[w].lost = {} /\ ~wseg[w].late

(* Who writes the slot holds its semaphore, and finds it empty.            *)
SlotInv ==
    /\ \A c \in Callers :
        /\ pc[c] \in {"locked", "filled", "copying"} => serverSem = c
        /\ pc[c] = "copying" => ThroughData(call[c])
        /\ pc[c] \in {"copying", "filled"} => slot = None
        /\ pc[c] = "filled" =>
              IF ThroughData(call[c]) THEN data = call[c] ELSE reqData = call[c]
    /\ slot # None /\ ~ThroughData(slot) => reqData = slot

(* A request is in one place: not posted, in the slot, in the queue, taken *)
(* by one worker.                                                          *)
BoxInv ==
    /\ ToSet(posted) \subseteq 1..calls
    /\ \A m, n \in 1..Len(posted) : posted[m] = posted[n] => m = n
    /\ \A c \in Callers : NotPosted(c) => call[c] \notin ToSet(posted)
    /\ taken \subseteq ToSet(posted)
    /\ slot # None => slot \in ToSet(posted) \ taken
    /\ \A n \in 1..Len(queue) :
        /\ queue[n].call \in ToSet(posted) \ taken
        /\ queue[n].call # slot
        /\ \A m \in 1..Len(queue) : queue[m].call = queue[n].call => m = n

(* A worker has its request alone, and has called back before it answers.  *)
TakenInv ==
    /\ \A k \in Calls : body[k] # None => k \in taken /\ body[k] <= calls
    /\ \A w \in Workers :
        /\ wpc[w] \in {"serve", "open", "respond", "fill"} => wreq[w].call \in taken
        /\ wpc[w] \in {"open", "respond", "fill"} => body[wreq[w].call] # None
        /\ wpc[w] = "serve" => body[wreq[w].call] = None
        /\ \A v \in Workers : Serving(v) /\ Serving(w) /\ v # w =>
                                    wreq[v].call # wreq[w].call

(* The body of a small request travels with it; DATA holds the latest.     *)
DataInv ==
    /\ \A n \in 1..Len(queue) :
        ThroughData(queue[n].call) \/ queue[n].body = queue[n].call
    /\ \A w \in Workers : wpc[w] = "serve" =>
        ThroughData(wreq[w].call) \/ wreq[w].body = wreq[w].call
    /\ data # None => data \in 1..calls /\ ThroughData(data)
    /\ \A k \in ToSet(posted) : ThroughData(k) => data # None /\ ~PostedBefore(data, k)

(* A request is answered once, in a segment of its process.                *)
AnswerInv ==
    \A s \in Calls :
        /\ s > calls => answer[s] = NoAnswer
        /\ answer[s].from # None =>
            /\ body[answer[s].from] # None
            /\ SameProcess(s, answer[s].from)
            /\ \A w \in Workers : Serving(w) => wreq[w].call # answer[s].from
            /\ \A t \in Calls : answer[t].from = answer[s].from => t = s

(* A call opens a segment newer than all earlier calls of its thread.      *)
FreshInv ==
    \A c \in Callers, j \in 1..calls : of[j] = {c} =>
        /\ InCall(c) => j = call[c] \/ (j < call[c] /\ j < shm[call[c]])
        /\ pc[c] = "idle" /\ shmName[proc[c]] # None => j < shmName[proc[c]]

(* A call that is under way, or was not made, has no result. *)
OpenInv ==
    /\ \A k \in Calls : k > calls => outcome[k] = "open"
    /\ \A c \in Callers : InCall(c) /\ pc[c] # "return" =>
        got[call[c]] = None /\ outcome[call[c]] = "open"

(* An answer that was taken is to a served request of the same process.    *)
GotInv ==
    \A k \in Calls : got[k] # None =>
        /\ k <= calls
        /\ body[got[k]] # None
        /\ SameProcess(got[k], k)
        /\ of[got[k]] = of[k] => got[k] <= k
        /\ \A w \in Workers : Serving(w) => wreq[w].call # got[k]

(* A call that took its own answer leaves nothing of it to later ones.     *)
OwnInv ==
    \A k \in Calls : got[k] = k =>
        /\ \A s \in Calls : answer[s].from = k => s = shm[k]
        /\ \A j \in Calls : got[j] = k /\ j # k => of[j] # of[k]

Alone(c) == pc[c] # "dead" /\ \A d \in Callers : proc[d] = proc[c] => d = c

(* The names of c's process lead to its call's segment and semaphore.      *)
OwnNames(c) ==
    IF InCall(c)
    THEN /\ shmName[proc[c]] = call[c] /\ semName[proc[c]] = call[c]
         /\ shm[call[c]] = call[c]
    ELSE shmName[proc[c]] = None

(* Either c or a worker that writes an answer has the semaphore.           *)
OwnSem(c) ==
    /\ pc[c] = "look" => sem[call[c]] = c
    /\ \A w \in Workers : Responding(w) /\ Sender(wreq[w].call) = proc[c] =>
        /\ wseg[w].shm = wseg[w].sem
        /\ wpc[w] = "fill" => sem[wseg[w].sem] = w

(* The data of an answer is there, or a worker is about to write it, or    *)
(* has died with the semaphore.                                            *)
WholeOrFilling(c) ==
    InCall(c) /\ answer[call[c]].size # 0 =>
        \/ whole[call[c]]
        \/ \E w \in Workers : \/ wpc[w] = "fill" /\ wseg[w].shm = call[c]
                              \/ wpc[w] = "dead" /\ sem[call[c]] = w

(* The only thread of a process is in nobody's way but the workers', as    *)
(* long as DestroyIPC has not closed a descriptor under one of these.      *)
AloneInv ==
    \A c \in Callers : Alone(c) =>
        /\ OwnNames(c)
        /\ up => OwnSem(c) /\ WholeOrFilling(c)

(* A request that may still be answered. *)
Pending(k) == \/ k = slot
              \/ \E n \in 1..Len(queue) : queue[n].call = k
              \/ \E w \in Workers : Serving(w) /\ wreq[w].call = k

Patient(c) == \A j \in 1..calls : of[j] = {c} => outcome[j] # "false"

(* It has given no call up: nothing of an earlier call is under way.       *)
PatientInv ==
    \A c \in Callers : Alone(c) /\ Patient(c) =>
        /\ \A k \in 1..calls : of[k] = {c} =>
            /\ answer[k].from \in {None, k}
            /\ Pending(k) => k = call[c] /\ pc[c] \in {"wait", "look"}
        /\ \A w \in Workers : wpc[w] = "respond" /\ of[wreq[w].call] = {c} =>
            wseg[w].shm = wreq[w].call

Excused == \A k \in Calls : got[k] \notin {None, k} => GaveUp(k) \/ Shared(k)

IInv == /\ TypeOK /\ CallInv /\ NameInv /\ SlotInv /\ BoxInv /\ TakenInv
        /\ DataInv /\ AnswerInv /\ FreshInv /\ OpenInv /\ GotInv /\ OwnInv
        /\ AloneInv /\ PatientInv
        /\ BodyIntact /\ CheckAnswerWhole /\ Excused

-----------------------------------------------------------------------------
(* Calls are numbers, and those made are the first of them. *)
LEMMA NatFacts ==
    TypeOK => calls \in Nat /\ 1..calls \subseteq Calls /\ 1..calls \subseteq Nat
<1>1. TypeOK => calls \in 0..MaxCalls
  BY DEF TypeOK
<1>2. QED
  BY <1>1, IpcAssumption DEF Calls

(* Who is in a call has opened a segment for it. *)
LEMMA InCallFacts ==
    ASSUME IInv, NEW c \in Callers, InCall(c)
    PROVE  /\ call[c] \in 1..calls /\ call[c] \in Calls /\ of[call[c]] = {c}
           /\ shm[call[c]] \in 1..call[c] /\ shm[call[c]] \in Calls
<1>1. call[c] \in 1..calls /\ of[call[c]] = {c} /\ shm[call[c]] \in 1..call[c]
  BY DEF IInv, CallInv
<1>2. QED
  BY <1>1, NatFacts DEF IInv, Calls

(* The sender of a call is the process of its caller. *)
LEMMA SenderOf ==
    ASSUME NEW c \in Callers, NEW k, of[k] = {c}
    PROVE  Sender(k) = proc[c]
BY DEF Sender

LEMMA SenderType == IInv => \A k \in 1..calls : Sender(k) \in Procs
<1> SUFFICES ASSUME IInv, NEW k \in 1..calls PROVE Sender(k) \in Procs
  OBVIOUS
<1>1. PICK c \in Callers : of[k] = {c}
  BY NatFacts DEF IInv, CallInv
<1>2. proc \in [Callers -> Procs]
  BY DEF IInv, TypeOK
<1>3. QED
  BY <1>1, <1>2, SenderOf

(* Two callers are never in one call. *)
LEMMA CallApart ==
    IInv => \A c, d \in Callers : InCall(c) /\ InCall(d) /\ c # d => call[c] # call[d]
BY DEF IInv, CallInv

(* The calls of a process with one thread are that thread's. *)
LEMMA OwnCalls ==
    ASSUME IInv, NEW c \in Callers, Alone(c), NEW k \in 1..calls
    PROVE  of[k] = {c} <=> Sender(k) = proc[c]
<1>1. PICK d \in Callers : of[k] = {d}
  BY NatFacts DEF IInv, CallInv
<1>2. Sender(k) = proc[d]
  BY <1>1, SenderOf
<1>3. QED
  BY <1>1, <1>2 DEF Alone

(* What makes Shared and GaveUp false. *)
LEMMA NotExcused ==
    ASSUME IInv, NEW c \in Callers, pc[c] # "dead", NEW k \in 1..calls, of[k] = {c}
    PROVE  /\ Shared(k) \/ Alone(c)
           /\ Shared(k) \/ GaveUp(k) \/ (Alone(c) /\ Patient(c))
<1>1. Sender(k) = proc[c]
  BY SenderOf
<1>2. Shared(k) \/ Alone(c)
  BY <1>1 DEF Shared, Alone
<1>3. GaveUp(k) \/ Patient(c)
  <2> SUFFICES ASSUME NEW j \in 1..calls, of[j] = {c}, outcome[j] = "false"
               PROVE  GaveUp(k)
    BY DEF Patient
  <2>1. Sender(j) = proc[c]
    BY SenderOf
  <2>2. QED
    BY <1>1, <2>1 DEF GaveUp, SameProcess
<1>4. QED
  BY <1>2, <1>3

(* A call that has been answered is pending nowhere. *)
LEMMA AnsweredNotPending ==
    ASSUME IInv, NEW s \in Calls, answer[s].from # None
    PROVE  ~Pending(answer[s].from)
<1>1. answer[s].from \in Calls
  BY DEF IInv, TypeOK, CallOrNone
<1>2. answer[s].from \in taken
  BY <1>1 DEF IInv, TakenInv, AnswerInv
<1>3. \A w \in Workers : Serving(w) => wreq[w].call # answer[s].from
  BY DEF IInv, AnswerInv
<1>4. answer[s].from # slot /\ \A n \in 1..Len(queue) : queue[n].call # answer[s].from
  BY <1>2 DEF IInv, BoxInv
<1>5. QED
  BY <1>3, <1>4 DEF Pending

(* Append adds a last element, Tail takes the first one away. *)
LEMMA AppendProps ==
    ASSUME NEW S, NEW s \in Seq(S), NEW x \in S
    PROVE  /\ Append(s, x) \in Seq(S)
           /\ Len(Append(s, x)) = Len(s) + 1 /\ Len(s) \in Nat
           /\ \A i \in 1..Len(s) : Append(s, x)[i] = s[i]
           /\ Append(s, x)[Len(s) + 1] = x
           /\ \A i \in 1..Len(Append(s, x)) : i \in 1..Len(s) \/ i = Len(s) + 1
           /\ ToSet(Append(s, x)) = ToSet(s) \cup {x}
<1>1. /\ Append(s, x) \in Seq(S)
      /\ Len(Append(s, x)) = Len(s) + 1 /\ Len(s) \in Nat
      /\ \A i \in 1..Len(s) : Append(s, x)[i] = s[i]
      /\ Append(s, x)[Len(s) + 1] = x
      /\ \A i \in 1..Len(Append(s, x)) : i \in 1..Len(s) \/ i = Len(s) + 1
  OBVIOUS
<1>2. DOMAIN s = 1..Len(s) /\ DOMAIN Append(s, x) = 1..Len(Append(s, x))
  OBVIOUS
<1>3. ToSet(Append(s, x)) = ToSet(s) \cup {x}
  BY <1>1, <1>2 DEF ToSet
<1>4. QED
  BY <1>1, <1>3

LEMMA TailProps ==
    ASSUME NEW S, NEW s \in Seq(S), s # <<>>
    PROVE  /\ Tail(s) \in Seq(S) /\ Head(s) \in S /\ Head(s) = s[1]
           /\ Len(s) \in Nat /\ Len(s) >= 1 /\ Len(Tail(s)) = Len(s) - 1
           /\ \A i \in 1..Len(Tail(s)) : i + 1 \in 1..Len(s) /\ Tail(s)[i] = s[i + 1]
OBVIOUS

-----------------------------------------------------------------------------
(* SendIPC. *)

LEMMA BeginKeeps ==
    ASSUME IInv, NEW c \in Callers, Begin(c)
    PROVE  IInv'
<1> USE DEF IInv, InCall, NotPosted, Serving, Responding, SameProcess, Goto, WGoto,
           callerVars, slotVars, nameVars, segVars, serverVars, workerVars, history
<1> SUFFICES ASSUME NEW n, n = calls + 1,
                    NEW p, p = proc[c],
                    NEW seg, seg = IF shmName[p] = None THEN n ELSE shmName[p]
             PROVE  IInv'
  OBVIOUS
<1>m. /\ n = calls + 1 /\ p = proc[c]
      /\ seg = IF shmName[p] = None THEN n ELSE shmName[p]
  OBVIOUS
<1>a. /\ pc[c] = "idle" /\ calls < MaxCalls
      /\ calls' = n
      /\ call' = [call EXCEPT ![c] = n]
      /\ of' = [of EXCEPT ![n] = {c}]
      /\ \E d \in Kinds : kind' = [kind EXCEPT ![n] = d]
      /\ shm' = [shm EXCEPT ![n] = seg]
      /\ shmName' = [shmName EXCEPT ![p] = seg]
      /\ semName' = [semName EXCEPT ![p] = n]
      /\ \/ pc' = [pc EXCEPT ![c] = "post"] /\ UNCHANGED outcome
         \/ /\ pc' = [pc EXCEPT ![c] = "return"]
            /\ outcome' = [outcome EXCEPT ![n] = "false"]
  BY DEF Begin
<1>c. UNCHANGED <<proc, dead, got, slotVars, segVars, serverVars, workerVars,
                  history>>
  BY DEF Begin
<1>t. /\ proc \in [Callers -> Procs]
      /\ pc \in [Callers -> PC]
      /\ call \in [Callers -> CallOrNone]
      /\ of \in [Calls -> SUBSET Callers]
      /\ kind \in [Calls -> Kinds \cup {"none"}]
      /\ outcome \in [Calls -> {"open", "ok", "bad", "false"}]
      /\ shm \in [Calls -> CallOrNone]
      /\ shmName \in [Procs -> CallOrNone]
      /\ semName \in [Procs -> CallOrNone]
  BY DEF TypeOK
<1>n. /\ calls \in Nat /\ n \in Nat /\ n \in Calls /\ n # None /\ n \notin 1..calls
      /\ 1..calls \subseteq Calls /\ 1..n = 1..calls \cup {n}
      /\ \A k \in Calls : k \in 1..calls \/ k = n \/ k > n
      /\ \A k \in Calls : k # None /\ k \in Nat
      /\ \A k \in 1..calls : k < n
  BY <1>a, NatFacts, IpcAssumption DEF Calls, None
<1>d. /\ p \in Procs /\ seg \in 1..n /\ seg \in Calls
      /\ shmName[p] # None => shmName[p] \in 1..calls /\ Sender(shmName[p]) = p
  <2>1. p \in Procs
    BY <1>t
  <2>2. shmName[p] # None => shmName[p] \in 1..calls /\ Sender(shmName[p]) = p
    BY <2>1 DEF NameInv
  <2>3. QED
    BY <1>n, <2>1, <2>2
<1>e. /\ \A k \in Calls : k # n => of'[k] = of[k] /\ kind'[k] = kind[k] /\ shm'[k] = shm[k]
      /\ of'[n] = {c} /\ kind'[n] \in Kinds /\ shm'[n] = seg
      /\ shmName'[p] = seg /\ semName'[p] = n
      /\ \A q \in Procs : q # p => shmName'[q] = shmName[q] /\ semName'[q] = semName[q]
      /\ call'[c] = n /\ \A d \in Callers : d # c => call'[d] = call[d]
      /\ pc'[c] \in {"post", "return"} /\ \A d \in Callers : d # c => pc'[d] = pc[d]
  BY <1>a, <1>d, <1>n, <1>t
<1>f. /\ \A k \in Calls : k # n => outcome'[k] = outcome[k]
      /\ outcome'[n] \in {"open", "false"} /\ (pc'[c] = "post" => outcome'[n] = "open")
  <2>1. outcome[n] = "open"
    BY <1>a, <1>n DEF OpenInv
  <2>2. QED
    BY <1>a, <1>n, <1>t, <2>1
<1>g. /\ n \notin ToSet(posted) /\ answer[n] = NoAnswer /\ got[n] = None
      /\ ToSet(posted) \subseteq 1..calls /\ taken \subseteq 1..calls
      /\ \A k \in Calls : body[k] # None => k \in 1..calls /\ body[k] \in 1..calls
      /\ ~Pending(n)
  <2>1. n > calls
    BY <1>n
  <2>2. ToSet(posted) \subseteq 1..calls /\ taken \subseteq 1..calls
    BY DEF BoxInv
  <2>3. \A k \in Calls : body[k] # None => k \in 1..calls /\ body[k] \in 1..calls
    <3>1. \A k \in Calls : body[k] \in Calls \cup {None}
      BY DEF TypeOK, CallOrNone
    <3>2. QED
      BY <1>n, <2>2, <3>1 DEF TakenInv, Calls
  <2>4. answer[n] = NoAnswer
    BY <1>n, <2>1 DEF AnswerInv
  <2>5. got[n] = None
    BY <1>n, <2>1 DEF GotInv
  <2>6. slot # n /\ \A i \in 1..Len(queue) : queue[i].call # n
    BY <1>n, <2>2 DEF BoxInv
  <2>7. \A w \in Workers : Serving(w) => wreq[w].call # n
    BY <1>n, <2>2 DEF TakenInv
  <2>8. QED
    BY <1>n, <2>2, <2>3, <2>4, <2>5, <2>6, <2>7 DEF Pending
<1>h. /\ \A k \in 1..calls : of'[k] = of[k] /\ kind'[k] = kind[k] /\ shm'[k] = shm[k]
                             /\ outcome'[k] = outcome[k]
      /\ \A k \in 1..calls : \E d \in Callers : of[k] = {d}
      /\ \A k \in 1..calls : shm[k] \in 1..calls /\ shm[k] \in 1..k
  BY <1>e, <1>f, <1>n DEF CallInv
<1>s. /\ \A k \in 1..calls : Sender(k)' = Sender(k)
      /\ Sender(n)' = p
      /\ \A k \in 1..calls : ThroughData(k)' <=> ThroughData(k)
      /\ \A j, k : PostedBefore(j, k)' <=> PostedBefore(j, k)
      /\ \A k : Pending(k)' <=> Pending(k)
  <2>1. \A k \in 1..calls : Sender(k)' = Sender(k)
    BY <1>c, <1>h DEF Sender
  <2>2. Sender(n)' = p
    <3>1. (CHOOSE d \in Callers : d \in of'[n]) = c
      BY <1>e
    <3>2. Sender(n)' = proc'[CHOOSE d \in Callers : d \in of'[n]]
      BY DEF Sender
    <3>3. QED
      BY <1>c, <3>1, <3>2
  <2>3. \A k \in 1..calls : ThroughData(k)' <=> ThroughData(k)
    BY <1>h DEF ThroughData
  <2>4. QED
    BY <1>c, <2>1, <2>2, <2>3 DEF PostedBefore, Pending
<1>o. /\ \A k \in 1..calls : Shared(k)' <=> Shared(k)
      /\ \A k \in 1..calls : GaveUp(k) => GaveUp(k)'
      /\ \A d \in Callers : Patient(d)' => Patient(d)
      /\ \A d \in Callers : Alone(d)' <=> Alone(d)
  <2>1. \A k \in 1..calls : Shared(k)' <=> Shared(k)
    BY <1>c, <1>h, <1>s DEF Shared
  <2>2. \A k \in 1..calls : GaveUp(k) => GaveUp(k)'
    BY <1>a, <1>h, <1>n, <1>s DEF GaveUp
  <2>3. \A d \in Callers : Patient(d)' => Patient(d)
    BY <1>a, <1>h, <1>n DEF Patient
  <2>4. \A d \in Callers : Alone(d)' <=> Alone(d)
    BY <1>a, <1>c, <1>e DEF Alone
  <2>5. QED
    BY <2>1, <2>2, <2>3, <2>4
<1>1. TypeOK'
  <2>1. /\ call' \in [Callers -> CallOrNone]
        /\ of' \in [Calls -> SUBSET Callers]
        /\ kind' \in [Calls -> Kinds \cup {"none"}]
        /\ shm' \in [Calls -> CallOrNone]
        /\ shmName' \in [Procs -> CallOrNone]
        /\ semName' \in [Procs -> CallOrNone]
    BY <1>a, <1>d, <1>n, <1>t DEF CallOrNone
  <2>2. pc' \in [Callers -> PC] /\ outcome' \in [Calls -> {"open", "ok", "bad", "false"}]
    BY <1>a, <1>n, <1>t DEF PC
  <2>3. calls' \in 0..MaxCalls
    BY <1>a, <1>n, IpcAssumption DEF Calls
  <2>4. \A q \in Procs : shmName'[q] = None <=> semName'[q] = None
    <3>1. \A q \in Procs : shmName[q] = None <=> semName[q] = None
      BY DEF TypeOK
    <3>2. QED
      BY <1>d, <1>e, <1>n, <3>1
  <2>5. QED
    BY <1>c, <2>1, <2>2, <2>3, <2>4 DEF TypeOK
<1>2. CallInv'
  <2>1. \A k \in Calls : IF k > n THEN of'[k] = {} ELSE \E d \in Callers : of'[k] = {d}
    <3> SUFFICES ASSUME NEW k \in Calls
                 PROVE  IF k > n THEN of'[k] = {} ELSE \E d \in Callers : of'[k] = {d}
      OBVIOUS
    <3>1. CASE k = n
      BY <1>e, <1>n, <3>1
    <3>2. CASE k # n
      BY <1>e, <1>n, <3>2 DEF CallInv
    <3>3. QED
      BY <3>1, <3>2
  <2>2. \A k \in 1..n : shm'[k] \in 1..k
    BY <1>d, <1>e, <1>h, <1>n
  <2>3. \A d \in Callers : pc'[d] = "dead" <=> proc[d] \in dead
    BY <1>a, <1>e DEF CallInv
  <2>4. ASSUME NEW d \in Callers, InCall(d)'
        PROVE  call'[d] \in 1..n /\ of'[call'[d]] = {d}
    <3>1. CASE d = c
      BY <1>e, <1>n, <3>1
    <3>2. CASE d # c
      <4>1. call[d] \in 1..calls /\ of[call[d]] = {d}
        BY <1>e, <2>4, <3>2 DEF CallInv
      <4>2. QED
        BY <1>e, <1>h, <1>n, <3>2, <4>1
    <3>3. QED
      BY <3>1, <3>2
  <2>5. QED
    BY <1>a, <1>c, <2>1, <2>2, <2>3, <2>4 DEF CallInv
<1>3. NameInv'
  <2>1. ASSUME NEW k \in 1..n PROVE Sender(shm[k])' = Sender(k)'
    <3> SUFFICES ASSUME NEW j, j = shm'[k] PROVE Sender(j)' = Sender(k)'
      BY DEF Sender
    <3>1. CASE k = n
      <4>1. j = seg /\ (j = n \/ (j \in 1..calls /\ Sender(j) = p))
        BY <1>d, <1>e, <1>m, <1>n, <3>1
      <4>2. QED
        BY <1>s, <3>1, <4>1
    <3>2. CASE k \in 1..calls
      <4>1. j = shm[k] /\ j \in 1..calls /\ Sender(j) = Sender(k)
        BY <1>h, <3>2 DEF NameInv
      <4>2. QED
        BY <1>s, <3>2, <4>1
    <3>3. QED
      BY <1>n, <3>1, <3>2
  <2>2. ASSUME NEW q \in Procs, shmName'[q] # None
        PROVE  /\ {shmName'[q], semName'[q]} \subseteq 1..n
               /\ Sender(shmName[q])' = q /\ Sender(semName[q])' = q
    <3> SUFFICES ASSUME NEW i, NEW j, i = shmName'[q], j = semName'[q]
                 PROVE  {i, j} \subseteq 1..n /\ Sender(i)' = q /\ Sender(j)' = q
      BY DEF Sender
    <3>1. CASE q = p
      <4>1. j = n /\ i = seg /\ (i = n \/ (i \in 1..calls /\ Sender(i) = p))
        BY <1>d, <1>e, <1>m, <1>n, <3>1
      <4>2. QED
        BY <1>n, <1>s, <3>1, <4>1
    <3>2. CASE q # p
      <4>1. i = shmName[q] /\ j = semName[q] /\ i # None
        BY <1>e, <2>2, <3>2
      <4>2. i \in 1..calls /\ j \in 1..calls /\ Sender(i) = q /\ Sender(j) = q
        BY <4>1 DEF NameInv
      <4>3. QED
        BY <1>n, <1>s, <4>2
    <3>3. QED
      BY <3>1, <3>2
  <2>3. ASSUME NEW w \in Workers, Responding(w)
        PROVE  /\ {wseg[w].shm, wseg[w].sem} \subseteq 1..n
               /\ Sender(wseg[w].shm)' = Sender(wreq[w].call)'
               /\ Sender(wseg[w].sem)' = Sender(wreq[w].call)'
               /\ up => wseg[w].lost = {} /\ ~wseg[w].late
    <3>1. wreq[w].call \in 1..calls
      BY <1>g, <2>3 DEF TakenInv
    <3>2. QED
      BY <1>c, <1>n, <1>s, <2>3, <3>1 DEF NameInv
  <2>4. calls' = n /\ UNCHANGED <<wpc, wreq, wseg, up>>
    BY <1>a, <1>c, <1>m
  <2>5. ASSUME NEW w \in Workers, Responding(w)'
        PROVE  /\ {wseg'[w].shm, wseg'[w].sem} \subseteq 1..n
               /\ Sender(wseg[w].shm)' = Sender(wreq[w].call)'
               /\ Sender(wseg[w].sem)' = Sender(wreq[w].call)'
               /\ up' => wseg'[w].lost = {} /\ ~wseg'[w].late
    BY <2>3, <2>4, <2>5
  <2>6. QED
    BY <2>1, <2>2, <2>4, <2>5 DEF NameInv
<1>4. SlotInv'
  <2>1. slot # None => slot \in 1..calls
    BY <1>g DEF BoxInv
  <2>2. \A d \in Callers : InCall(d) => call[d] \in 1..calls /\ d # c
    BY <1>a DEF CallInv
  <2>3. QED
    BY <1>c, <1>e, <1>s, <2>1, <2>2 DEF SlotInv
<1>5. BoxInv'
  <2>1. UNCHANGED <<slot, queue, posted, taken>> /\ calls' = n /\ 1..calls \subseteq 1..n
    BY <1>a, <1>c, <1>g, <1>n
  <2>2. ToSet(posted) \subseteq 1..calls
    BY DEF BoxInv
  <2>3. ASSUME NEW d \in Callers, NotPosted(d)' PROVE call'[d] \notin ToSet(posted)
    <3>1. CASE d = c
      BY <1>e, <1>n, <2>2, <3>1
    <3>2. CASE d # c
      BY <1>e, <2>3, <3>2 DEF BoxInv
    <3>3. QED
      BY <3>1, <3>2
  <2>4. QED
    BY <1>g, <2>1, <2>2, <2>3 DEF BoxInv
<1>6. TakenInv'
  BY <1>a, <1>c, <1>g, <1>n DEF TakenInv
<1>7. DataInv'
  <2>1. \A i \in 1..Len(queue) : queue[i].call \in 1..calls
    BY <1>g DEF BoxInv
  <2>2. \A w \in Workers : wpc[w] = "serve" => wreq[w].call \in 1..calls
    BY <1>g DEF TakenInv
  <2>3. QED
    BY <1>a, <1>c, <1>g, <1>n, <1>s, <2>1, <2>2 DEF DataInv
<1>8. AnswerInv'
  <2>1. \A s \in Calls : answer[s].from # None => s \in 1..calls /\ answer[s].from \in 1..calls
    <3> SUFFICES ASSUME NEW s \in Calls, answer[s].from # None
                 PROVE  s \in 1..calls /\ answer[s].from \in 1..calls
      OBVIOUS
    <3>1. ~(s > calls)
      BY DEF AnswerInv, NoAnswer
    <3>2. answer[s].from \in Calls
      BY DEF TypeOK, CallOrNone
    <3>3. QED
      BY <1>g, <1>n, <3>1, <3>2 DEF AnswerInv, Calls
  <2>2. \A s \in Calls : s > n => s > calls
    BY <1>n
  <2>3. QED
    BY <1>a, <1>c, <1>n, <1>s, <2>1, <2>2 DEF AnswerInv
<1>9. FreshInv'
  <2> SUFFICES ASSUME NEW d \in Callers, NEW j \in 1..n, of'[j] = {d}
               PROVE  /\ InCall(d)' => j = call'[d] \/ (j < call'[d] /\ j < shm'[call'[d]])
                      /\ pc'[d] = "idle" /\ shmName'[proc[d]] # None => j < shmName'[proc[d]]
    BY <1>a, <1>c DEF FreshInv
  <2>1. CASE d = c
    <3>1. j \in 1..calls => j < n /\ j < seg
      BY <1>a, <1>h, <1>n, <2>1 DEF FreshInv
    <3>2. QED
      BY <1>e, <1>n, <2>1, <3>1
  <2>2. CASE d # c
    <3>1. j \in 1..calls /\ of[j] = {d}
      BY <1>e, <1>h, <1>n, <2>2
    <3>2. InCall(d)' => j = call'[d] \/ (j < call'[d] /\ j < shm'[call'[d]])
      BY <1>e, <1>h, <2>2, <3>1 DEF FreshInv, CallInv
    <3>3. ASSUME pc'[d] = "idle", shmName'[proc[d]] # None
          PROVE  j < shmName'[proc[d]]
      <4>1. CASE proc[d] = p
        <5>1. shmName[p] # None => j < shmName[p]
          BY <1>e, <2>2, <3>1, <3>3, <4>1 DEF FreshInv
        <5>2. QED
          BY <1>e, <1>n, <3>1, <4>1, <5>1
      <4>2. CASE proc[d] # p
        BY <1>e, <1>t, <2>2, <3>1, <3>3, <4>2 DEF FreshInv
      <4>3. QED
        BY <4>1, <4>2
    <3>4. QED
      BY <3>2, <3>3
  <2>3. QED
    BY <2>1, <2>2
<1>10. OpenInv'
  <2>1. \A k \in Calls : k > n => outcome'[k] = "open"
    <3> SUFFICES ASSUME NEW k \in Calls, k > n PROVE outcome'[k] = "open"
      OBVIOUS
    <3>1. k > calls /\ k # n
      BY <1>m, <1>n
    <3>2. QED
      BY <1>f, <3>1 DEF OpenInv
  <2>2. ASSUME NEW d \in Callers, InCall(d)', pc'[d] # "return"
        PROVE  got[call'[d]] = None /\ outcome'[call'[d]] = "open"
    <3>1. CASE d = c
      BY <1>e, <1>f, <1>g, <2>2, <3>1
    <3>2. CASE d # c
      <4>1. InCall(d) /\ pc[d] # "return" /\ call[d] \in 1..calls
        BY <1>e, <2>2, <3>2 DEF CallInv
      <4>2. QED
        BY <1>e, <1>h, <3>2, <4>1 DEF OpenInv
    <3>3. QED
      BY <3>1, <3>2
  <2>3. QED
    BY <1>a, <1>c, <2>1, <2>2 DEF OpenInv
<1>11. GotInv'
  <2> SUFFICES ASSUME NEW k \in Calls, got[k] # None
               PROVE  /\ k <= n
                      /\ Sender(got[k])' = Sender(k)'
                      /\ of'[got[k]] = of'[k] => got[k] <= k
    BY <1>a, <1>c DEF GotInv
  <2>1. k \in 1..calls /\ got[k] \in 1..calls
    <3>1. k <= calls /\ body[got[k]] # None
      BY DEF GotInv
    <3>2. got[k] \in Calls
      BY DEF TypeOK, CallOrNone
    <3>3. QED
      BY <1>g, <1>n, <3>1, <3>2 DEF Calls
  <2>2. of'[got[k]] = of'[k] => got[k] <= k
    BY <1>h, <2>1 DEF GotInv
  <2>3. Sender(got[k])' = Sender(k)'
    <3> SUFFICES ASSUME NEW j, j = got[k] PROVE Sender(j)' = Sender(k)'
      BY <1>c DEF Sender
    <3>1. Sender(j) = Sender(k)
      BY DEF GotInv
    <3>2. QED
      BY <1>s, <2>1, <3>1
  <2>4. QED
    BY <1>n, <2>1, <2>2, <2>3
<1>12. OwnInv'
  <2>1. \A k \in Calls : got[k] # None => k \in 1..calls
    BY <1>n DEF GotInv, Calls
  <2>2. QED
    BY <1>c, <1>h, <1>n, <2>1 DEF OwnInv
<1>13. AloneInv'
  <2> SUFFICES ASSUME NEW d \in Callers, Alone(d)
               PROVE  OwnNames(d)' /\ (up => OwnSem(d)' /\ WholeOrFilling(d)')
    BY <1>c, <1>o DEF AloneInv
  <2>1. OwnNames(d) /\ (up => OwnSem(d) /\ WholeOrFilling(d))
    BY DEF AloneInv
  <2>2. \A w \in Workers : Responding(w) => wreq[w].call \in 1..calls
    BY <1>g DEF TakenInv
  <2>3. CASE d = c
    <3>1. shmName[p] = None
      BY <1>a, <2>1, <2>3 DEF OwnNames
    <3>2. OwnNames(d)'
      BY <1>c, <1>e, <2>3, <3>1 DEF OwnNames
    <3>3. up => OwnSem(d)'
      BY <1>c, <1>e, <1>s, <2>1, <2>2, <2>3 DEF OwnSem
    <3>4. up => WholeOrFilling(d)'
      BY <1>c, <1>e, <1>g, <2>3 DEF WholeOrFilling, NoAnswer
    <3>5. QED
      BY <3>2, <3>3, <3>4
  <2>4. CASE d # c
    <3>1. proc[d] # p /\ proc[d] \in Procs
      BY <1>t, <2>4 DEF Alone
    <3>2. InCall(d) => call[d] \in 1..calls
      BY DEF CallInv
    <3>3. OwnNames(d)'
      BY <1>c, <1>e, <1>h, <2>1, <2>4, <3>1, <3>2 DEF OwnNames
    <3>4. up => OwnSem(d)'
      BY <1>c, <1>e, <1>s, <2>1, <2>2, <2>4 DEF OwnSem
    <3>5. up => WholeOrFilling(d)'
      BY <1>c, <1>e, <2>1, <2>4 DEF WholeOrFilling
    <3>6. QED
      BY <3>3, <3>4, <3>5
  <2>5. QED
    BY <2>3, <2>4
<1>14. PatientInv'
  <2> SUFFICES ASSUME NEW d \in Callers, Alone(d), Patient(d)
               PROVE  /\ \A k \in 1..n : of'[k] = {d} =>
                          /\ answer[k].from \in {None, k}
                          /\ Pending(k) => k = call'[d] /\ pc'[d] \in {"wait", "look"}
                      /\ \A w \in Workers : wpc[w] = "respond" /\ of'[wreq[w].call] = {d} =>
                          wseg[w].shm = wreq[w].call
    BY <1>a, <1>c, <1>o, <1>s DEF PatientInv
  <2>1. ASSUME NEW k \in 1..n, of'[k] = {d}
        PROVE  /\ answer[k].from \in {None, k}
               /\ Pending(k) => k = call'[d] /\ pc'[d] \in {"wait", "look"}
    <3>1. CASE k = n
      BY <1>g, <3>1 DEF NoAnswer
    <3>2. CASE k \in 1..calls
      <4>1. of[k] = {d}
        BY <1>h, <2>1, <3>2
      <4>2. /\ answer[k].from \in {None, k}
            /\ Pending(k) => k = call[d] /\ pc[d] \in {"wait", "look"}
        BY <3>2, <4>1 DEF PatientInv
      <4>3. QED
        BY <1>a, <1>e, <4>2
    <3>3. QED
      BY <1>n, <3>1, <3>2
  <2>2. \A w \in Workers : wpc[w] = "respond" /\ of'[wreq[w].call] = {d} =>
                          wseg[w].shm = wreq[w].call
    <3>1. \A w \in Workers : wpc[w] = "respond" => wreq[w].call \in 1..calls
      BY <1>g DEF TakenInv
    <3>2. QED
      BY <1>h, <3>1 DEF PatientInv
  <2>3. QED
    BY <2>1, <2>2
<1>15. BodyIntact'
  BY <1>c, <1>g, <1>s DEF BodyIntact
<1>16. CheckAnswerWhole'
  <2>1. ASSUME NEW k \in Calls, outcome'[k] = "bad"
        PROVE  k \in 1..calls /\ outcome[k] = "bad"
    <3>1. k # n
      BY <1>f, <2>1
    <3>2. outcome[k] = "bad"
      BY <1>f, <2>1, <3>1
    <3>3. ~(k > calls)
      BY <3>2 DEF OpenInv
    <3>4. QED
      BY <1>n, <3>1, <3>2, <3>3
  <2>2. QED
    BY <1>c, <1>o, <2>1 DEF CheckAnswerWhole
<1>17. Excused'
  <2>1. \A k \in Calls : got[k] # None => k \in 1..calls
    BY <1>n DEF GotInv, Calls
  <2>2. QED
    BY <1>c, <1>o, <2>1 DEF Excused
<1>18. QED
  BY <1>1, <1>2, <1>3, <1>4, <1>5, <1>6, <1>7, <1>8, <1>9, <1>10, <1>11, <1>12,
     <1>13, <1>14, <1>15, <1>16, <1>17

LEMMA LockSlotKeeps ==
    ASSUME IInv, NEW c \in Callers, LockSlot(c)
    PROVE  IInv'
<1> USE DEF IInv, InCall, NotPosted, Serving, Responding, SameProcess, Goto, WGoto,
           callerVars, slotVars, nameVars, segVars, serverVars, workerVars, history
<1>a. /\ pc[c] = "post" /\ serverSem = Free
      /\ serverSem' = c
      /\ pc' = [pc EXCEPT ![c] = "locked"]
      /\ UNCHANGED <<proc, dead, call, calls, of, kind, outcome, got, slot,
                     reqData, data, dataSem, nameVars, segVars, serverVars,
                     workerVars, history>>
  BY DEF LockSlot
<1>t. pc \in [Callers -> PC]
  BY DEF TypeOK
<1>s. /\ \A k : Sender(k)' = Sender(k)
      /\ \A k : Shared(k)' <=> Shared(k)
      /\ \A k : ThroughData(k)' <=> ThroughData(k)
      /\ \A j, k : PostedBefore(j, k)' <=> PostedBefore(j, k)
      /\ \A d : Patient(d)' <=> Patient(d)
      /\ \A k : GaveUp(k)' <=> GaveUp(k)
      /\ \A k : Pending(k)' <=> Pending(k)
  BY <1>a DEF Sender, Shared, ThroughData, PostedBefore, Patient, GaveUp,
     Pending
<1>o. /\ \A d \in Callers : Alone(d)' <=> Alone(d)
      /\ \A d \in Callers : OwnNames(d)' <=> OwnNames(d)
      /\ \A d \in Callers : OwnSem(d)' <=> OwnSem(d)
      /\ \A d \in Callers : WholeOrFilling(d)' <=> WholeOrFilling(d)
  BY <1>a, <1>t, <1>s DEF Alone, OwnNames, OwnSem, WholeOrFilling
<1>1. TypeOK'
  BY <1>a DEF TypeOK, PC, WPC
<1>2. CallInv'
  BY <1>a, <1>t, <1>s, <1>o DEF CallInv
<1>3. SlotInv'
  BY <1>a, <1>t, <1>s, <1>o, IpcAssumption DEF SlotInv, Free
<1>4. BoxInv'
  BY <1>a, <1>t, <1>s, <1>o DEF BoxInv
<1>5. FreshInv'
  BY <1>a, <1>t, <1>s, <1>o DEF FreshInv
<1>6. OpenInv'
  BY <1>a, <1>t, <1>s, <1>o DEF OpenInv
<1>7. AloneInv'
  BY <1>a, <1>t, <1>s, <1>o DEF AloneInv
<1>8. PatientInv'
  BY <1>a, <1>t, <1>s, <1>o DEF PatientInv
<1>9. NameInv' /\ TakenInv' /\ DataInv'
  BY <1>a, <1>s, <1>o DEF NameInv, TakenInv, DataInv
<1>10. AnswerInv' /\ GotInv' /\ OwnInv'
  BY <1>a, <1>s, <1>o DEF AnswerInv, NoAnswer, GotInv, OwnInv
<1>11. BodyIntact' /\ CheckAnswerWhole' /\ Excused'
  BY <1>a, <1>s, <1>o DEF BodyIntact, CheckAnswerWhole, Excused
<1>12. QED
  BY <1>1, <1>2, <1>3, <1>4, <1>5, <1>6, <1>7, <1>8, <1>9, <1>10, <1>11

LEMMA BusyKeeps ==
    ASSUME IInv, NEW c \in Callers, Busy(c)
    PROVE  IInv'
<1> USE DEF IInv, InCall, NotPosted, Serving, Responding, SameProcess, Goto, WGoto,
           callerVars, slotVars, nameVars, segVars, serverVars, workerVars, history
<1>a. /\ pc[c] = "locked"
      /\ serverSem' = Free
      /\ pc' = [pc EXCEPT ![c] = "post"]
      /\ UNCHANGED <<proc, dead, call, calls, of, kind, outcome, got, slot,
                     reqData, data, dataSem, nameVars, segVars, serverVars,
                     workerVars, history>>
  BY DEF Busy
<1>t. pc \in [Callers -> PC]
  BY DEF TypeOK
<1>s. /\ \A k : Sender(k)' = Sender(k)
      /\ \A k : Shared(k)' <=> Shared(k)
      /\ \A k : ThroughData(k)' <=> ThroughData(k)
      /\ \A j, k : PostedBefore(j, k)' <=> PostedBefore(j, k)
      /\ \A d : Patient(d)' <=> Patient(d)
      /\ \A k : GaveUp(k)' <=> GaveUp(k)
      /\ \A k : Pending(k)' <=> Pending(k)
  BY <1>a DEF Sender, Shared, ThroughData, PostedBefore, Patient, GaveUp,
     Pending
<1>o. /\ \A d \in Callers : Alone(d)' <=> Alone(d)
      /\ \A d \in Callers : OwnNames(d)' <=> OwnNames(d)
      /\ \A d \in Callers : OwnSem(d)' <=> OwnSem(d)
      /\ \A d \in Callers : WholeOrFilling(d)' <=> WholeOrFilling(d)
  BY <1>a, <1>t, <1>s DEF Alone, OwnNames, OwnSem, WholeOrFilling
<1>1. TypeOK'
  BY <1>a DEF TypeOK, PC, WPC
<1>2. CallInv'
  BY <1>a, <1>t, <1>s, <1>o DEF CallInv
<1>3. SlotInv'
  BY <1>a, <1>t, <1>s, <1>o DEF SlotInv
<1>4. BoxInv'
  BY <1>a, <1>t, <1>s, <1>o DEF BoxInv
<1>5. FreshInv'
  BY <1>a, <1>t, <1>s, <1>o DEF FreshInv
<1>6. OpenInv'
  BY <1>a, <1>t, <1>s, <1>o DEF OpenInv
<1>7. AloneInv'
  BY <1>a, <1>t, <1>s, <1>o DEF AloneInv
<1>8. PatientInv'
  BY <1>a, <1>t, <1>s, <1>o DEF PatientInv
<1>9. NameInv' /\ TakenInv' /\ DataInv'
  BY <1>a, <1>s, <1>o DEF NameInv, TakenInv, DataInv
<1>10. AnswerInv' /\ GotInv' /\ OwnInv'
  BY <1>a, <1>s, <1>o DEF AnswerInv, NoAnswer, GotInv, OwnInv
<1>11. BodyIntact' /\ CheckAnswerWhole' /\ Excused'
  BY <1>a, <1>s, <1>o DEF BodyIntact, CheckAnswerWhole, Excused
<1>12. QED
  BY <1>1, <1>2, <1>3, <1>4, <1>5, <1>6, <1>7, <1>8, <1>9, <1>10, <1>11

LEMMA FillSlotKeeps ==
    ASSUME IInv, NEW c \in Callers, FillSlot(c)
    PROVE  IInv'
<1> USE DEF IInv, InCall, NotPosted, Serving, Responding, SameProcess, Goto, WGoto,
           callerVars, slotVars, nameVars, segVars, serverVars, workerVars, history
<1>a. /\ pc[c] = "locked" /\ slot = None /\ ~ThroughData(call[c])
      /\ reqData' = call[c]
      /\ pc' = [pc EXCEPT ![c] = "filled"]
      /\ UNCHANGED <<proc, dead, call, calls, of, kind, outcome, got, slot,
                     serverSem, data, dataSem, nameVars, segVars, serverVars,
                     workerVars, history>>
  BY DEF FillSlot
<1>t. /\ pc \in [Callers -> PC]
      /\ call \in [Callers -> CallOrNone]
  BY DEF TypeOK
<1>s. /\ \A k : Sender(k)' = Sender(k)
      /\ \A k : Shared(k)' <=> Shared(k)
      /\ \A k : ThroughData(k)' <=> ThroughData(k)
      /\ \A j, k : PostedBefore(j, k)' <=> PostedBefore(j, k)
      /\ \A d : Patient(d)' <=> Patient(d)
      /\ \A k : GaveUp(k)' <=> GaveUp(k)
      /\ \A k : Pending(k)' <=> Pending(k)
  BY <1>a DEF Sender, Shared, ThroughData, PostedBefore, Patient, GaveUp,
     Pending
<1>o. /\ \A d \in Callers : Alone(d)' <=> Alone(d)
      /\ \A d \in Callers : OwnNames(d)' <=> OwnNames(d)
      /\ \A d \in Callers : OwnSem(d)' <=> OwnSem(d)
      /\ \A d \in Callers : WholeOrFilling(d)' <=> WholeOrFilling(d)
  BY <1>a, <1>t, <1>s DEF Alone, OwnNames, OwnSem, WholeOrFilling
<1>1. TypeOK'
  BY <1>a DEF TypeOK, PC, WPC
<1>2. CallInv'
  BY <1>a, <1>t, <1>s, <1>o DEF CallInv
<1>3. SlotInv'
  BY <1>a, <1>t, <1>s, <1>o DEF SlotInv
<1>4. BoxInv'
  BY <1>a, <1>t, <1>s, <1>o DEF BoxInv
<1>5. FreshInv'
  BY <1>a, <1>t, <1>s, <1>o DEF FreshInv
<1>6. OpenInv'
  BY <1>a, <1>t, <1>s, <1>o DEF OpenInv
<1>7. AloneInv'
  BY <1>a, <1>t, <1>s, <1>o DEF AloneInv
<1>8. PatientInv'
  BY <1>a, <1>t, <1>s, <1>o DEF PatientInv
<1>9. NameInv' /\ TakenInv' /\ DataInv'
  BY <1>a, <1>s, <1>o DEF NameInv, TakenInv, DataInv
<1>10. AnswerInv' /\ GotInv' /\ OwnInv'
  BY <1>a, <1>s, <1>o DEF AnswerInv, NoAnswer, GotInv, OwnInv
<1>11. BodyIntact' /\ CheckAnswerWhole' /\ Excused'
  BY <1>a, <1>s, <1>o DEF BodyIntact, CheckAnswerWhole, Excused
<1>12. QED
  BY <1>1, <1>2, <1>3, <1>4, <1>5, <1>6, <1>7, <1>8, <1>9, <1>10, <1>11

LEMMA LockDataKeeps ==
    ASSUME IInv, NEW c \in Callers, LockData(c)
    PROVE  IInv'
<1> USE DEF IInv, InCall, NotPosted, Serving, Responding, SameProcess, Goto, WGoto,
           callerVars, slotVars, nameVars, segVars, serverVars, workerVars, history
<1>a. /\ pc[c] = "locked" /\ slot = None /\ ThroughData(call[c])
      /\ dataSem' = c
      /\ pc' = [pc EXCEPT ![c] = "copying"]
      /\ UNCHANGED <<proc, dead, call, calls, of, kind, outcome, got, slot,
                     reqData, serverSem, data, nameVars, segVars, serverVars,
                     workerVars, history>>
  BY DEF LockData
<1>t. pc \in [Callers -> PC]
  BY DEF TypeOK
<1>s. /\ \A k : Sender(k)' = Sender(k)
      /\ \A k : Shared(k)' <=> Shared(k)
      /\ \A k : ThroughData(k)' <=> ThroughData(k)
      /\ \A j, k : PostedBefore(j, k)' <=> PostedBefore(j, k)
      /\ \A d : Patient(d)' <=> Patient(d)
      /\ \A k : GaveUp(k)' <=> GaveUp(k)
      /\ \A k : Pending(k)' <=> Pending(k)
  BY <1>a DEF Sender, Shared, ThroughData, PostedBefore, Patient, GaveUp,
     Pending
<1>o. /\ \A d \in Callers : Alone(d)' <=> Alone(d)
      /\ \A d \in Callers : OwnNames(d)' <=> OwnNames(d)
      /\ \A d \in Callers : OwnSem(d)' <=> OwnSem(d)
      /\ \A d \in Callers : WholeOrFilling(d)' <=> WholeOrFilling(d)
  BY <1>a, <1>t, <1>s DEF Alone, OwnNames, OwnSem, WholeOrFilling
<1>1. TypeOK'
  BY <1>a DEF TypeOK, PC, WPC
<1>2. CallInv'
  BY <1>a, <1>t, <1>s, <1>o DEF CallInv
<1>3. SlotInv'
  BY <1>a, <1>t, <1>s, <1>o, IpcAssumption DEF SlotInv, Free
<1>4. BoxInv'
  BY <1>a, <1>t, <1>s, <1>o DEF BoxInv
<1>5. FreshInv'
  BY <1>a, <1>t, <1>s, <1>o DEF FreshInv
<1>6. OpenInv'
  BY <1>a, <1>t, <1>s, <1>o DEF OpenInv
<1>7. AloneInv'
  BY <1>a, <1>t, <1>s, <1>o DEF AloneInv
<1>8. PatientInv'
  BY <1>a, <1>t, <1>s, <1>o DEF PatientInv
<1>9. NameInv' /\ TakenInv' /\ DataInv'
  BY <1>a, <1>s, <1>o DEF NameInv, TakenInv, DataInv
<1>10. AnswerInv' /\ GotInv' /\ OwnInv'
  BY <1>a, <1>s, <1>o DEF AnswerInv, NoAnswer, GotInv, OwnInv
<1>11. BodyIntact' /\ CheckAnswerWhole' /\ Excused'
  BY <1>a, <1>s, <1>o DEF BodyIntact, CheckAnswerWhole, Excused
<1>12. QED
  BY <1>1, <1>2, <1>3, <1>4, <1>5, <1>6, <1>7, <1>8, <1>9, <1>10, <1>11

LEMMA FillDataKeeps ==
    ASSUME IInv, NEW c \in Callers, FillData(c)
    PROVE  IInv'
<1> USE DEF IInv, InCall, NotPosted, Serving, Responding, SameProcess, Goto, WGoto,
           callerVars, slotVars, nameVars, segVars, serverVars, workerVars, history
<1>a. /\ pc[c] = "copying"
      /\ data' = call[c]
      /\ dataSem' = Free
      /\ pc' = [pc EXCEPT ![c] = "filled"]
      /\ UNCHANGED <<proc, dead, call, calls, of, kind, outcome, got, slot,
                     reqData, serverSem, nameVars, segVars, serverVars,
                     workerVars, history>>
  BY DEF FillData
<1>t. /\ pc \in [Callers -> PC]
      /\ call \in [Callers -> CallOrNone]
  BY DEF TypeOK
<1>b. /\ call[c] \in 1..calls /\ call[c] \in Calls /\ of[call[c]] = {c}
      /\ shm[call[c]] \in 1..call[c] /\ shm[call[c]] \in Calls
  BY <1>a, InCallFacts
<1>c. ThroughData(call[c]) /\ call[c] \notin ToSet(posted)
  BY <1>a DEF SlotInv, BoxInv
<1>s. /\ \A k : Sender(k)' = Sender(k)
      /\ \A k : Shared(k)' <=> Shared(k)
      /\ \A k : ThroughData(k)' <=> ThroughData(k)
      /\ \A j, k : PostedBefore(j, k)' <=> PostedBefore(j, k)
      /\ \A d : Patient(d)' <=> Patient(d)
      /\ \A k : GaveUp(k)' <=> GaveUp(k)
      /\ \A k : Pending(k)' <=> Pending(k)
  BY <1>a DEF Sender, Shared, ThroughData, PostedBefore, Patient, GaveUp,
     Pending
<1>o. /\ \A d \in Callers : Alone(d)' <=> Alone(d)
      /\ \A d \in Callers : OwnNames(d)' <=> OwnNames(d)
      /\ \A d \in Callers : OwnSem(d)' <=> OwnSem(d)
      /\ \A d \in Callers : WholeOrFilling(d)' <=> WholeOrFilling(d)
  BY <1>a, <1>t, <1>s DEF Alone, OwnNames, OwnSem, WholeOrFilling
<1>1. TypeOK'
  BY <1>a, <1>t DEF TypeOK, PC, WPC
<1>2. CallInv'
  BY <1>a, <1>t, <1>s, <1>o DEF CallInv
<1>3. SlotInv'
  BY <1>a, <1>t, <1>s, <1>o, <1>c DEF SlotInv
<1>4. BoxInv'
  BY <1>a, <1>t, <1>s, <1>o DEF BoxInv
<1>5. DataInv'
  BY <1>a, <1>t, <1>s, <1>o, <1>b, <1>c DEF DataInv, PostedBefore, ToSet, None
<1>6. FreshInv'
  BY <1>a, <1>t, <1>s, <1>o DEF FreshInv
<1>7. OpenInv'
  BY <1>a, <1>t, <1>s, <1>o DEF OpenInv
<1>8. AloneInv'
  BY <1>a, <1>t, <1>s, <1>o DEF AloneInv
<1>9. PatientInv'
  BY <1>a, <1>t, <1>s, <1>o DEF PatientInv
<1>10. NameInv' /\ TakenInv' /\ AnswerInv'
  BY <1>a, <1>s, <1>o DEF NameInv, TakenInv, AnswerInv, NoAnswer
<1>11. GotInv' /\ OwnInv' /\ BodyIntact'
  BY <1>a, <1>s, <1>o DEF GotInv, OwnInv, BodyIntact
<1>12. CheckAnswerWhole' /\ Excused'
  BY <1>a, <1>s, <1>o DEF CheckAnswerWhole, Excused
<1>13. QED
  BY <1>1, <1>2, <1>3, <1>4, <1>5, <1>6, <1>7, <1>8, <1>9, <1>10, <1>11, <1>12

LEMMA LockOwnKeeps ==
    ASSUME IInv, NEW c \in Callers, LockOwn(c)
    PROVE  IInv'
<1> USE DEF IInv, InCall, NotPosted, Serving, Responding, SameProcess, Goto, WGoto,
           callerVars, slotVars, nameVars, segVars, serverVars, workerVars, history
<1>a. /\ pc[c] = "wait" /\ sem[call[c]] = Free
      /\ sem' = [sem EXCEPT ![call[c]] = c]
      /\ pc' = [pc EXCEPT ![c] = "look"]
      /\ UNCHANGED <<proc, dead, call, calls, of, kind, outcome, got, slotVars,
                     nameVars, answer, whole, serverVars, workerVars, history>>
  BY DEF LockOwn
<1>t. /\ pc \in [Callers -> PC]
      /\ sem \in [Calls -> Holders]
      /\ call \in [Callers -> CallOrNone]
  BY DEF TypeOK
<1>b. /\ call[c] \in 1..calls /\ call[c] \in Calls /\ of[call[c]] = {c}
      /\ shm[call[c]] \in 1..call[c] /\ shm[call[c]] \in Calls
  BY <1>a, InCallFacts
<1>s. /\ \A k : Sender(k)' = Sender(k)
      /\ \A k : Shared(k)' <=> Shared(k)
      /\ \A k : ThroughData(k)' <=> ThroughData(k)
      /\ \A j, k : PostedBefore(j, k)' <=> PostedBefore(j, k)
      /\ \A d : Patient(d)' <=> Patient(d)
      /\ \A k : GaveUp(k)' <=> GaveUp(k)
      /\ \A k : Pending(k)' <=> Pending(k)
  BY <1>a DEF Sender, Shared, ThroughData, PostedBefore, Patient, GaveUp,
     Pending
<1>o. /\ \A d \in Callers : Alone(d)' <=> Alone(d)
      /\ \A d \in Callers : OwnNames(d)' <=> OwnNames(d)
  BY <1>a, <1>t, <1>s DEF Alone, OwnNames
<1>w. \A d \in Callers : WholeOrFilling(d) => WholeOrFilling(d)'
  <2> SUFFICES ASSUME NEW d \in Callers, WholeOrFilling(d), InCall(d),
                      answer[call[d]].size # 0, ~whole[call[d]]
               PROVE  WholeOrFilling(d)'
    BY <1>a, <1>t DEF WholeOrFilling
  <2>1. PICK w \in Workers : \/ wpc[w] = "fill" /\ wseg[w].shm = call[d]
                             \/ wpc[w] = "dead" /\ sem[call[d]] = w
    BY DEF WholeOrFilling
  <2>2. sem[call[d]] = w => sem'[call[d]] = w
    BY <1>a, <1>b, <1>t, IpcAssumption DEF Free
  <2>3. QED
    BY <1>a, <2>1, <2>2 DEF WholeOrFilling
<1>1. TypeOK'
  BY <1>a, <1>b, <1>t DEF TypeOK, PC, WPC, Holders
<1>2. CallInv'
  BY <1>a, <1>t, <1>s, <1>o DEF CallInv
<1>3. SlotInv'
  BY <1>a, <1>t, <1>s, <1>o DEF SlotInv
<1>4. BoxInv'
  BY <1>a, <1>t, <1>s, <1>o DEF BoxInv
<1>5. FreshInv'
  BY <1>a, <1>t, <1>s, <1>o DEF FreshInv
<1>6. OpenInv'
  BY <1>a, <1>t, <1>s, <1>o DEF OpenInv
<1>7. AloneInv'
  BY <1>a, <1>t, <1>s, <1>o, <1>w, <1>b, CallApart, IpcAssumption DEF AloneInv,
     OwnSem, Free
<1>8. PatientInv'
  BY <1>a, <1>t, <1>s, <1>o DEF PatientInv
<1>9. NameInv' /\ TakenInv' /\ DataInv'
  BY <1>a, <1>s, <1>o DEF NameInv, TakenInv, DataInv
<1>10. AnswerInv' /\ GotInv' /\ OwnInv'
  BY <1>a, <1>s, <1>o DEF AnswerInv, NoAnswer, GotInv, OwnInv
<1>11. BodyIntact' /\ CheckAnswerWhole' /\ Excused'
  BY <1>a, <1>s, <1>o DEF BodyIntact, CheckAnswerWhole, Excused
<1>12. QED
  BY <1>1, <1>2, <1>3, <1>4, <1>5, <1>6, <1>7, <1>8, <1>9, <1>10, <1>11

LEMMA ReceiveKeeps ==
    ASSUME IInv, NEW c \in Callers, Receive(c)
    PROVE  IInv'
<1> USE DEF IInv, InCall, NotPosted, Serving, Responding, SameProcess, Goto, WGoto,
           callerVars, slotVars, nameVars, segVars, serverVars, workerVars, history
<1>a. /\ pc[c] = "look" /\ Answered(call[c])
      /\ sem' = [sem EXCEPT ![call[c]] = Free]
      /\ got' = [got EXCEPT ![call[c]] = answer[shm[call[c]]].from]
      /\ outcome' = [outcome EXCEPT ![call[c]] =
                        IF kind[call[c]] = "check" /\ ~whole[shm[call[c]]] THEN "bad" ELSE "ok"]
      /\ pc' = [pc EXCEPT ![c] = "return"]
      /\ UNCHANGED <<proc, dead, call, calls, of, kind, slotVars, nameVars,
                     answer, whole, serverVars, workerVars, history>>
  BY DEF Receive, Return
<1>t. /\ pc \in [Callers -> PC]
      /\ sem \in [Calls -> Holders]
      /\ got \in [Calls -> CallOrNone]
      /\ outcome \in [Calls -> {"open", "ok", "bad", "false"}]
      /\ call \in [Callers -> CallOrNone]
  BY DEF TypeOK
<1>b. /\ call[c] \in 1..calls /\ call[c] \in Calls /\ of[call[c]] = {c}
      /\ shm[call[c]] \in 1..call[c] /\ shm[call[c]] \in Calls
  BY <1>a, InCallFacts
<1>d. outcome[call[c]] = "open" /\ got[call[c]] = None
  BY <1>a DEF OpenInv
<1>e. \A m \in Calls : /\ m # call[c] => got'[m] = got[m] /\ outcome'[m] = outcome[m]
                       /\ m = call[c] => got'[m] = answer[shm[call[c]]].from
  BY <1>a, <1>b, <1>t
<1>f. /\ answer[shm[call[c]]].from \in Calls
      /\ answer[shm[call[c]]].from # None
      /\ body[answer[shm[call[c]]].from] # None
      /\ SameProcess(answer[shm[call[c]]].from, call[c])
      /\ \A w \in Workers : Serving(w) => wreq[w].call # answer[shm[call[c]]].from
  <2>1. answer[shm[call[c]]].from \in CallOrNone /\ answer[shm[call[c]]].from # None
    BY <1>a, <1>b DEF TypeOK, Answered
  <2>2. /\ body[answer[shm[call[c]]].from] # None
        /\ SameProcess(shm[call[c]], answer[shm[call[c]]].from)
        /\ \A w \in Workers : Serving(w) => wreq[w].call # answer[shm[call[c]]].from
    BY <1>b, <2>1 DEF AnswerInv
  <2>3. SameProcess(shm[call[c]], call[c])
    BY <1>b DEF NameInv
  <2>4. QED
    BY <2>1, <2>2, <2>3 DEF CallOrNone
<1>s. /\ \A k : Sender(k)' = Sender(k)
      /\ \A k : Shared(k)' <=> Shared(k)
      /\ \A k : ThroughData(k)' <=> ThroughData(k)
      /\ \A j, k : PostedBefore(j, k)' <=> PostedBefore(j, k)
      /\ \A k : Pending(k)' <=> Pending(k)
  BY <1>a DEF Sender, Shared, ThroughData, PostedBefore, Pending
<1>o. /\ \A d \in Callers : Alone(d)' <=> Alone(d)
      /\ \A d \in Callers : OwnNames(d)' <=> OwnNames(d)
  BY <1>a, <1>t, <1>s DEF Alone, OwnNames
<1>w. ASSUME NEW d \in Callers, OwnSem(d), WholeOrFilling(d)
      PROVE  WholeOrFilling(d)'
  <2> SUFFICES ASSUME InCall(d)', answer[call[d]].size # 0, ~whole[call[d]]
               PROVE  WholeOrFilling(d)'
    BY <1>a, <1>t DEF WholeOrFilling
  <2>0. InCall(d) /\ call'[d] = call[d]
    BY <1>a, <1>t
  <2>1. PICK w \in Workers : \/ wpc[w] = "fill" /\ wseg[w].shm = call[d]
                             \/ wpc[w] = "dead" /\ sem[call[d]] = w
    BY <2>0, <1>w DEF WholeOrFilling
  <2>2. sem[call[d]] = w => sem'[call[d]] = w
    <3>1. CASE d = c
      BY <1>a, <1>w, <3>1, IpcAssumption DEF OwnSem
    <3>2. CASE d # c
      BY <1>a, <1>t, <2>0, <3>2, CallApart
    <3>3. QED
      BY <3>1, <3>2
  <2>3. QED
    BY <1>a, <2>0, <2>1, <2>2 DEF WholeOrFilling
<1>u. /\ \A d : Patient(d)' <=> Patient(d)
      /\ \A k : GaveUp(k)' <=> GaveUp(k)
  BY <1>a, <1>b, <1>d, <1>e, <1>s, NatFacts DEF Patient, GaveUp
<1>1. TypeOK'
  BY <1>a, <1>b, <1>f, <1>t DEF TypeOK, PC, WPC, Holders, Free, CallOrNone
<1>2. CallInv'
  BY <1>a, <1>t, <1>s, <1>o DEF CallInv
<1>3. SlotInv'
  BY <1>a, <1>t, <1>s, <1>o DEF SlotInv
<1>4. BoxInv'
  BY <1>a, <1>t, <1>s, <1>o DEF BoxInv
<1>5. FreshInv'
  BY <1>a, <1>t, <1>s, <1>o DEF FreshInv
<1>6. OpenInv'
  <2>1. ASSUME NEW k \in Calls, k > calls
        PROVE  outcome'[k] = "open"
    <3>1. k # call[c]
      BY <1>b, <2>1, NatFacts
    <3>2. QED
      BY <1>a, <1>b, <1>t, <2>1, <3>1 DEF OpenInv
  <2>2. ASSUME NEW d \in Callers, InCall(d)', pc'[d] # "return"
        PROVE  got'[call[d]] = None /\ outcome'[call[d]] = "open"
    <3>1. d # c /\ pc'[d] = pc[d] /\ InCall(d)
      BY <1>a, <1>t, <2>2
    <3>2. call[d] # call[c] /\ call[d] \in Calls
      BY <1>a, <3>1, CallApart, InCallFacts
    <3>3. QED
      BY <1>a, <1>b, <1>t, <2>2, <3>1, <3>2 DEF OpenInv
  <2>3. QED
    BY <1>a, <2>1, <2>2 DEF OpenInv
<1>7. GotInv'
  <2>1. ASSUME of[answer[shm[call[c]]].from] = of[call[c]]
        PROVE  answer[shm[call[c]]].from <= call[c]
    <3>1. answer[shm[call[c]]].from \in 1..calls
      <4>1. of[answer[shm[call[c]]].from] # {}
        BY <1>b, <2>1
      <4>2. ~(answer[shm[call[c]]].from > calls)
        BY <1>f, <4>1 DEF CallInv
      <4>3. QED
        BY <1>f, <4>2, NatFacts DEF Calls
    <3>2. QED
      BY <1>a, <1>b, <2>1, <3>1, NatFacts DEF FreshInv
  <2>2. QED
    BY <1>a, <1>b, <1>e, <1>f, <1>s, <2>1, NatFacts DEF GotInv
<1>8. OwnInv'
  <2>1. ASSUME answer[shm[call[c]]].from = call[c]
        PROVE  /\ \A s \in Calls : answer[s].from = call[c] => s = shm[call[c]]
               /\ \A j \in Calls : got[j] = call[c] /\ j # call[c] => of[j] # of[call[c]]
    <3>1. \A s \in Calls : answer[s].from = call[c] => s = shm[call[c]]
      BY <1>b, <1>f, <2>1 DEF AnswerInv
    <3>2. ASSUME NEW j \in Calls, got[j] = call[c], j # call[c], of[j] = of[call[c]]
          PROVE  FALSE
      <4>1. j \in 1..calls /\ call[c] <= j
        <5>1. call[c] # None
        BY <1>b, NatFacts DEF None
      <5>2. j <= calls /\ call[c] <= j
        BY <1>b, <3>2, <5>1 DEF GotInv
      <5>3. QED
        BY <5>2, NatFacts DEF Calls
      <4>2. j < call[c]
        BY <1>a, <1>b, <3>2, <4>1 DEF FreshInv
      <4>3. QED
        BY <1>b, <4>1, <4>2, NatFacts
    <3>3. QED
      BY <3>1, <3>2
  <2>2. ASSUME NEW k \in Calls, got[k] = k, answer[shm[call[c]]].from = k, k # call[c], of[call[c]] = of[k]
        PROVE  FALSE
    <3>1. shm[call[c]] = shm[k] /\ k \in 1..calls
      BY <1>b, <2>2, NatFacts DEF OwnInv, GotInv, None, Calls
    <3>2. k < shm[call[c]] /\ shm[k] \in 1..k
      BY <1>a, <1>b, <2>2, <3>1 DEF FreshInv, CallInv
    <3>3. QED
      BY <3>1, <3>2, NatFacts
  <2>3. QED
    BY <1>a, <1>e, <2>1, <2>2 DEF OwnInv
<1>9. AloneInv'
  <2> SUFFICES ASSUME NEW d \in Callers, Alone(d), up
               PROVE  OwnSem(d)'
    BY <1>a, <1>o, <1>w DEF AloneInv
  <2>1. OwnSem(d)
    BY DEF AloneInv
  <2>2. \A w \in Workers :
            wpc[w] = "fill" /\ Sender(wreq[w].call) = proc[d] => wseg[w].sem # call[c]
    <3> SUFFICES ASSUME NEW w \in Workers, wpc[w] = "fill", Sender(wreq[w].call) = proc[d],
                        wseg[w].sem = call[c]
                 PROVE  FALSE
      OBVIOUS
    <3>1. Sender(call[c]) = proc[d]
      BY DEF NameInv
    <3>2. d = c
      BY <1>b, <3>1, SenderOf DEF Alone
    <3>3. sem[call[c]] = c /\ sem[call[c]] = w
      BY <1>a, <2>1, <3>2 DEF OwnSem
    <3>4. QED
      BY <3>3, IpcAssumption
  <2>3. pc'[d] = "look" => d # c /\ call[d] # call[c] /\ pc[d] = "look"
    BY <1>a, <1>t, CallApart
  <2>4. QED
    BY <1>a, <1>s, <1>t, <2>1, <2>2, <2>3 DEF OwnSem
<1>10. PatientInv'
  <2>1. ASSUME Alone(c), Patient(c)
        PROVE  ~Pending(call[c])
    <3>1. answer[shm[call[c]]].from = call[c]
      BY <1>a, <1>b, <1>f, <2>1 DEF AloneInv, OwnNames, PatientInv
    <3>2. QED
      BY <1>b, <1>f, <3>1, AnsweredNotPending
  <2>2. QED
    BY <1>a, <1>o, <1>s, <1>t, <1>u, <2>1 DEF PatientInv
<1>11. CheckAnswerWhole'
  <2>1. ASSUME up, Alone(c), kind[call[c]] = "check", ~whole[shm[call[c]]]
        PROVE  FALSE
    <3>1. OwnNames(c) /\ OwnSem(c) /\ WholeOrFilling(c)
      BY <2>1 DEF AloneInv
    <3>2. shm[call[c]] = call[c] /\ sem[call[c]] = c
      BY <1>a, <3>1 DEF OwnNames, OwnSem
    <3>3. PICK w \in Workers : wpc[w] = "fill" /\ wseg[w].shm = call[c]
      BY <1>a, <2>1, <3>1, <3>2, IpcAssumption DEF WholeOrFilling, Answered
    <3>4. Sender(wreq[w].call) = proc[c]
      BY <1>b, <3>3, SenderOf DEF NameInv
    <3>5. sem[call[c]] = w
      BY <3>1, <3>3, <3>4 DEF OwnSem
    <3>6. QED
      BY <3>2, <3>5, IpcAssumption
  <2>2. Shared(call[c]) \/ Alone(c)
    BY <1>a, <1>b, NotExcused
  <2>3. QED
    BY <1>a, <1>b, <1>s, <1>t, <2>1, <2>2 DEF CheckAnswerWhole
<1>12. Excused'
  <2>1. ASSUME Alone(c), Patient(c)
        PROVE  answer[shm[call[c]]].from = call[c]
    BY <1>a, <1>b, <1>f, <2>1 DEF AloneInv, OwnNames, PatientInv
  <2>2. Shared(call[c]) \/ GaveUp(call[c]) \/ (Alone(c) /\ Patient(c))
    BY <1>a, <1>b, NotExcused
  <2>3. QED
    <3> SUFFICES ASSUME NEW k \in Calls, got'[k] \notin {None, k}
                 PROVE  GaveUp(k) \/ Shared(k)
      BY <1>s, <1>u DEF Excused
    <3>1. CASE k = call[c]
      BY <1>e, <2>1, <2>2, <3>1
    <3>2. CASE k # call[c]
      BY <1>e, <3>2 DEF Excused
    <3>3. QED
      BY <3>1, <3>2
<1>13. NameInv' /\ TakenInv' /\ DataInv'
  BY <1>a, <1>s, <1>o DEF NameInv, TakenInv, DataInv
<1>14. AnswerInv' /\ BodyIntact'
  BY <1>a, <1>s, <1>o DEF AnswerInv, NoAnswer, BodyIntact
<1>15. QED
  BY <1>1, <1>2, <1>3, <1>4, <1>5, <1>6, <1>7, <1>8, <1>9, <1>10, <1>11, <1>12,
     <1>13, <1>14

LEMMA NotYetKeeps ==
    ASSUME IInv, NEW c \in Callers, NotYet(c)
    PROVE  IInv'
<1> USE DEF IInv, InCall, NotPosted, Serving, Responding, SameProcess, Goto, WGoto,
           callerVars, slotVars, nameVars, segVars, serverVars, workerVars, history
<1>a. /\ pc[c] = "look"
      /\ sem' = [sem EXCEPT ![call[c]] = Free]
      /\ pc' = [pc EXCEPT ![c] = "wait"]
      /\ UNCHANGED <<proc, dead, call, calls, of, kind, outcome, got, slotVars,
                     nameVars, answer, whole, serverVars, workerVars, history>>
  BY DEF NotYet
<1>t. /\ pc \in [Callers -> PC]
      /\ sem \in [Calls -> Holders]
      /\ call \in [Callers -> CallOrNone]
  BY DEF TypeOK
<1>b. /\ call[c] \in 1..calls /\ call[c] \in Calls /\ of[call[c]] = {c}
      /\ shm[call[c]] \in 1..call[c] /\ shm[call[c]] \in Calls
  BY <1>a, InCallFacts
<1>s. /\ \A k : Sender(k)' = Sender(k)
      /\ \A k : Shared(k)' <=> Shared(k)
      /\ \A k : ThroughData(k)' <=> ThroughData(k)
      /\ \A j, k : PostedBefore(j, k)' <=> PostedBefore(j, k)
      /\ \A d : Patient(d)' <=> Patient(d)
      /\ \A k : GaveUp(k)' <=> GaveUp(k)
      /\ \A k : Pending(k)' <=> Pending(k)
  BY <1>a DEF Sender, Shared, ThroughData, PostedBefore, Patient, GaveUp,
     Pending
<1>o. /\ \A d \in Callers : Alone(d)' <=> Alone(d)
      /\ \A d \in Callers : OwnNames(d)' <=> OwnNames(d)
  BY <1>a, <1>t, <1>s DEF Alone, OwnNames
<1>w. ASSUME NEW d \in Callers, OwnSem(d), WholeOrFilling(d)
      PROVE  WholeOrFilling(d)'
  <2> SUFFICES ASSUME InCall(d)', answer[call[d]].size # 0, ~whole[call[d]]
               PROVE  WholeOrFilling(d)'
    BY <1>a, <1>t DEF WholeOrFilling
  <2>0. InCall(d) /\ call'[d] = call[d]
    BY <1>a, <1>t
  <2>1. PICK w \in Workers : \/ wpc[w] = "fill" /\ wseg[w].shm = call[d]
                             \/ wpc[w] = "dead" /\ sem[call[d]] = w
    BY <2>0, <1>w DEF WholeOrFilling
  <2>2. sem[call[d]] = w => sem'[call[d]] = w
    <3>1. CASE d = c
      BY <1>a, <1>w, <3>1, IpcAssumption DEF OwnSem
    <3>2. CASE d # c
      BY <1>a, <1>t, <2>0, <3>2, CallApart
    <3>3. QED
      BY <3>1, <3>2
  <2>3. QED
    BY <1>a, <2>0, <2>1, <2>2 DEF WholeOrFilling
<1>1. TypeOK'
  BY <1>a, <1>b DEF TypeOK, PC, WPC, Holders, Free
<1>2. CallInv'
  BY <1>a, <1>t, <1>s, <1>o DEF CallInv
<1>3. SlotInv'
  BY <1>a, <1>t, <1>s, <1>o DEF SlotInv
<1>4. BoxInv'
  BY <1>a, <1>t, <1>s, <1>o DEF BoxInv
<1>5. FreshInv'
  BY <1>a, <1>t, <1>s, <1>o DEF FreshInv
<1>6. OpenInv'
  BY <1>a, <1>t, <1>s, <1>o DEF OpenInv
<1>7. AloneInv'
  <2> SUFFICES ASSUME NEW d \in Callers, Alone(d), up
               PROVE  OwnSem(d)'
    BY <1>a, <1>o, <1>w DEF AloneInv
  <2>1. OwnSem(d)
    BY DEF AloneInv
  <2>2. \A w \in Workers :
            wpc[w] = "fill" /\ Sender(wreq[w].call) = proc[d] => wseg[w].sem # call[c]
    <3> SUFFICES ASSUME NEW w \in Workers, wpc[w] = "fill", Sender(wreq[w].call) = proc[d],
                        wseg[w].sem = call[c]
                 PROVE  FALSE
      OBVIOUS
    <3>1. Sender(call[c]) = proc[d]
      BY DEF NameInv
    <3>2. d = c
      BY <1>b, <3>1, SenderOf DEF Alone
    <3>3. sem[call[c]] = c /\ sem[call[c]] = w
      BY <1>a, <2>1, <3>2 DEF OwnSem
    <3>4. QED
      BY <3>3, IpcAssumption
  <2>3. pc'[d] = "look" => d # c /\ call[d] # call[c] /\ pc[d] = "look"
    BY <1>a, <1>t, CallApart
  <2>4. QED
    BY <1>a, <1>s, <1>t, <2>1, <2>2, <2>3 DEF OwnSem
<1>8. PatientInv'
  BY <1>a, <1>t, <1>s, <1>o DEF PatientInv
<1>9. NameInv' /\ TakenInv' /\ DataInv'
  BY <1>a, <1>s, <1>o DEF NameInv, TakenInv, DataInv
<1>10. AnswerInv' /\ GotInv' /\ OwnInv'
  BY <1>a, <1>s, <1>o DEF AnswerInv, NoAnswer, GotInv, OwnInv
<1>11. BodyIntact' /\ CheckAnswerWhole' /\ Excused'
  BY <1>a, <1>s, <1>o DEF BodyIntact, CheckAnswerWhole, Excused
<1>12. QED
  BY <1>1, <1>2, <1>3, <1>4, <1>5, <1>6, <1>7, <1>8, <1>9, <1>10, <1>11

LEMMA TimeOutKeeps ==
    ASSUME IInv, NEW c \in Callers, TimeOut(c)
    PROVE  IInv'
<1> USE DEF IInv, InCall, NotPosted, Serving, Responding, SameProcess, Goto, WGoto,
           callerVars, slotVars, nameVars, segVars, serverVars, workerVars, history
<1>a. /\ pc[c] \in {"post", "wait"}
      /\ outcome' = [outcome EXCEPT ![call[c]] = "false"]
      /\ pc' = [pc EXCEPT ![c] = "return"]
      /\ UNCHANGED <<proc, dead, call, calls, of, kind, got, slotVars, nameVars,
                     segVars, serverVars, workerVars, history>>
  BY DEF TimeOut, Return
<1>t. /\ pc \in [Callers -> PC]
      /\ outcome \in [Calls -> {"open", "ok", "bad", "false"}]
  BY DEF TypeOK
<1>b. /\ call[c] \in 1..calls /\ call[c] \in Calls /\ of[call[c]] = {c}
      /\ shm[call[c]] \in 1..call[c] /\ shm[call[c]] \in Calls
  BY <1>a, InCallFacts
<1>d. outcome[call[c]] = "open"
  BY <1>a DEF OpenInv
<1>e. /\ outcome'[call[c]] = "false" /\ 1..calls \subseteq Calls
      /\ \A k \in Calls : outcome[k] = "false" => outcome'[k] = "false"
  BY <1>a, <1>b, <1>t, NatFacts
<1>s. /\ \A k : Sender(k)' = Sender(k)
      /\ \A k : Shared(k)' <=> Shared(k)
      /\ \A k : ThroughData(k)' <=> ThroughData(k)
      /\ \A j, k : PostedBefore(j, k)' <=> PostedBefore(j, k)
      /\ \A k : Pending(k)' <=> Pending(k)
  BY <1>a DEF Sender, Shared, ThroughData, PostedBefore, Pending
<1>o. /\ \A d \in Callers : Alone(d)' <=> Alone(d)
      /\ \A d \in Callers : OwnNames(d)' <=> OwnNames(d)
      /\ \A d \in Callers : OwnSem(d)' <=> OwnSem(d)
      /\ \A d \in Callers : WholeOrFilling(d)' <=> WholeOrFilling(d)
  BY <1>a, <1>t, <1>s DEF Alone, OwnNames, OwnSem, WholeOrFilling
<1>u. /\ ~Patient(c)'
      /\ \A d \in Callers : Patient(d)' => Patient(d)
      /\ \A k : GaveUp(k) => GaveUp(k)'
  <2>1. ~Patient(c)'
    BY <1>a, <1>b, <1>e DEF Patient
  <2>2. \A d \in Callers : Patient(d)' => Patient(d)
    BY <1>a, <1>e DEF Patient
  <2>3. \A k : GaveUp(k) => GaveUp(k)'
    BY <1>a, <1>e, <1>s DEF GaveUp
  <2>4. QED
    BY <2>1, <2>2, <2>3
<1>1. TypeOK'
  BY <1>a DEF TypeOK, PC, WPC
<1>2. CallInv'
  BY <1>a, <1>t, <1>s, <1>o DEF CallInv
<1>3. SlotInv'
  BY <1>a, <1>t, <1>s, <1>o DEF SlotInv
<1>4. BoxInv'
  BY <1>a, <1>t, <1>s, <1>o DEF BoxInv
<1>5. FreshInv'
  BY <1>a, <1>t, <1>s, <1>o DEF FreshInv
<1>6. OpenInv'
  <2>1. ASSUME NEW k \in Calls, k > calls
        PROVE  outcome'[k] = "open"
    <3>1. k # call[c]
      BY <1>b, <2>1, NatFacts
    <3>2. QED
      BY <1>a, <1>b, <1>t, <2>1, <3>1 DEF OpenInv
  <2>2. ASSUME NEW d \in Callers, InCall(d)', pc'[d] # "return"
        PROVE  got'[call[d]] = None /\ outcome'[call[d]] = "open"
    <3>1. d # c /\ pc'[d] = pc[d] /\ InCall(d)
      BY <1>a, <1>t, <2>2
    <3>2. call[d] # call[c] /\ call[d] \in Calls
      BY <1>a, <3>1, CallApart, InCallFacts
    <3>3. QED
      BY <1>a, <1>b, <1>t, <2>2, <3>1, <3>2 DEF OpenInv
  <2>3. QED
    BY <1>a, <2>1, <2>2 DEF OpenInv
<1>7. AloneInv'
  BY <1>a, <1>t, <1>s, <1>o DEF AloneInv
<1>8. PatientInv'
  BY <1>a, <1>t, <1>s, <1>o, <1>u DEF PatientInv
<1>9. CheckAnswerWhole'
  BY <1>a, <1>t, <1>s, <1>o DEF CheckAnswerWhole
<1>10. Excused'
  BY <1>a, <1>t, <1>s, <1>o, <1>u DEF Excused
<1>11. NameInv' /\ TakenInv' /\ DataInv'
  BY <1>a, <1>s, <1>o DEF NameInv, TakenInv, DataInv
<1>12. AnswerInv' /\ GotInv' /\ OwnInv'
  BY <1>a, <1>s, <1>o DEF AnswerInv, NoAnswer, GotInv, OwnInv
<1>13. BodyIntact'
  BY <1>a, <1>s, <1>o DEF BodyIntact
<1>14. QED
  BY <1>1, <1>2, <1>3, <1>4, <1>5, <1>6, <1>7, <1>8, <1>9, <1>10, <1>11, <1>12,
     <1>13

LEMMA EndKeeps ==
    ASSUME IInv, NEW c \in Callers, End(c)
    PROVE  IInv'
<1> USE DEF IInv, InCall, NotPosted, Serving, Responding, SameProcess, Goto, WGoto,
           callerVars, slotVars, nameVars, segVars, serverVars, workerVars, history
<1>a. /\ pc[c] = "return"
      /\ pc' = [pc EXCEPT ![c] = "idle"]
      /\ call' = [call EXCEPT ![c] = None]
      /\ shmName' = [shmName EXCEPT ![proc[c]] = None]
      /\ semName' = [semName EXCEPT ![proc[c]] = None]
      /\ UNCHANGED <<proc, dead, calls, of, kind, outcome, got, slotVars, shm,
                     segVars, serverVars, workerVars, history>>
  BY DEF End
<1>t. /\ pc \in [Callers -> PC]
      /\ call \in [Callers -> CallOrNone]
      /\ shmName \in [Procs -> CallOrNone]
      /\ semName \in [Procs -> CallOrNone]
      /\ proc \in [Callers -> Procs]
  BY DEF TypeOK
<1>b. /\ call[c] \in 1..calls /\ call[c] \in Calls /\ of[call[c]] = {c}
      /\ shm[call[c]] \in 1..call[c] /\ shm[call[c]] \in Calls
  BY <1>a, InCallFacts
<1>s. /\ \A k : Sender(k)' = Sender(k)
      /\ \A k : Shared(k)' <=> Shared(k)
      /\ \A k : ThroughData(k)' <=> ThroughData(k)
      /\ \A j, k : PostedBefore(j, k)' <=> PostedBefore(j, k)
      /\ \A d : Patient(d)' <=> Patient(d)
      /\ \A k : GaveUp(k)' <=> GaveUp(k)
      /\ \A k : Pending(k)' <=> Pending(k)
  BY <1>a DEF Sender, Shared, ThroughData, PostedBefore, Patient, GaveUp,
     Pending
<1>o. \A d \in Callers : Alone(d)' <=> Alone(d)
  BY <1>a, <1>t, <1>s DEF Alone
<1>1. TypeOK'
  BY <1>a, <1>t DEF TypeOK, PC, WPC, CallOrNone
<1>2. CallInv'
  BY <1>a, <1>t, <1>s, <1>o DEF CallInv
<1>3. NameInv'
  BY <1>a, <1>t, <1>s, <1>o DEF NameInv
<1>4. SlotInv'
  BY <1>a, <1>t, <1>s, <1>o DEF SlotInv
<1>5. BoxInv'
  BY <1>a, <1>t, <1>s, <1>o DEF BoxInv
<1>6. FreshInv'
  BY <1>a, <1>t, <1>s, <1>o DEF FreshInv
<1>7. OpenInv'
  BY <1>a, <1>t, <1>s, <1>o DEF OpenInv
<1>8. AloneInv'
  BY <1>a, <1>t, <1>s, <1>o DEF AloneInv, Alone, OwnNames, OwnSem,
     WholeOrFilling
<1>9. PatientInv'
  BY <1>a, <1>t, <1>s, <1>o DEF PatientInv
<1>10. TakenInv' /\ DataInv' /\ AnswerInv'
  BY <1>a, <1>s, <1>o DEF TakenInv, DataInv, AnswerInv, NoAnswer
<1>11. GotInv' /\ OwnInv' /\ BodyIntact'
  BY <1>a, <1>s, <1>o DEF GotInv, OwnInv, BodyIntact
<1>12. CheckAnswerWhole' /\ Excused'
  BY <1>a, <1>s, <1>o DEF CheckAnswerWhole, Excused
<1>13. QED
  BY <1>1, <1>2, <1>3, <1>4, <1>5, <1>6, <1>7, <1>8, <1>9, <1>10, <1>11, <1>12

LEMMA PostKeeps ==
    ASSUME IInv, NEW c \in Callers, Post(c)
    PROVE  IInv'
<1> USE DEF IInv, InCall, NotPosted, Serving, Responding, SameProcess, Goto, WGoto,
           callerVars, slotVars, nameVars, segVars, serverVars, workerVars, history
<1>a. /\ pc[c] = "filled"
      /\ slot' = call[c]
      /\ posted' = Append(posted, call[c])
      /\ serverSem' = Free
      /\ pc' = [pc EXCEPT ![c] = "wait"]
      /\ UNCHANGED <<proc, dead, call, calls, of, kind, outcome, got, reqData,
                     data, dataSem, nameVars, segVars, serverVars, workerVars,
                     taken, body>>
  BY DEF Post
<1>t. /\ pc \in [Callers -> PC]
      /\ posted \in Seq(Calls)
  BY DEF TypeOK
<1>b. /\ call[c] \in 1..calls /\ call[c] \in Calls /\ of[call[c]] = {c}
      /\ shm[call[c]] \in 1..call[c] /\ shm[call[c]] \in Calls
  BY <1>a, InCallFacts
<1>d. /\ slot = None /\ call[c] # None /\ call[c] \notin ToSet(posted)
      /\ IF ThroughData(call[c]) THEN data = call[c] ELSE reqData = call[c]
  BY <1>a, <1>b, NatFacts DEF SlotInv, BoxInv, None
<1>e. /\ posted' \in Seq(Calls) /\ Len(posted) \in Nat /\ Len(posted') = Len(posted) + 1
      /\ \A i \in 1..Len(posted) : posted'[i] = posted[i]
      /\ posted'[Len(posted) + 1] = call[c]
      /\ \A i \in 1..Len(posted') : i \in 1..Len(posted) \/ i = Len(posted) + 1
      /\ ToSet(posted') = ToSet(posted) \cup {call[c]}
      /\ \A i \in 1..Len(posted) : posted[i] \in ToSet(posted)
  <2>1. \A i \in 1..Len(posted) : posted[i] \in ToSet(posted)
    BY <1>t DEF ToSet
  <2>2. QED
    BY <1>a, <1>b, <1>t, <2>1, AppendProps
<1>f. \A j, k : PostedBefore(j, k)' => IF k = call[c] THEN j # k ELSE PostedBefore(j, k)
  <2> SUFFICES ASSUME NEW j, NEW k, NEW m \in DOMAIN posted', NEW n \in DOMAIN posted',
                      m < n, posted'[m] = j, posted'[n] = k
               PROVE  IF k = call[c] THEN j # k ELSE PostedBefore(j, k)
    BY DEF PostedBefore
  <2>1. /\ DOMAIN posted = 1..Len(posted)
        /\ m \in 1..Len(posted') /\ n \in 1..Len(posted')
    BY <1>e, <1>t
  <2>2. m \in 1..Len(posted) /\ j = posted[m] /\ j \in ToSet(posted)
    BY <1>e, <2>1
  <2>3. CASE n = Len(posted) + 1
    BY <1>d, <1>e, <2>2, <2>3
  <2>4. CASE n \in 1..Len(posted)
    BY <1>d, <1>e, <2>1, <2>2, <2>4 DEF PostedBefore
  <2>5. QED
    BY <1>e, <2>1, <2>3, <2>4
<1>s. /\ \A k : Sender(k)' = Sender(k)
      /\ \A k : Shared(k)' <=> Shared(k)
      /\ \A k : ThroughData(k)' <=> ThroughData(k)
      /\ \A d : Patient(d)' <=> Patient(d)
      /\ \A k : GaveUp(k)' <=> GaveUp(k)
  BY <1>a DEF Sender, Shared, ThroughData, Patient, GaveUp
<1>o. /\ \A d \in Callers : Alone(d)' <=> Alone(d)
      /\ \A d \in Callers : OwnNames(d)' <=> OwnNames(d)
      /\ \A d \in Callers : OwnSem(d)' <=> OwnSem(d)
      /\ \A d \in Callers : WholeOrFilling(d)' <=> WholeOrFilling(d)
  BY <1>a, <1>t, <1>s DEF Alone, OwnNames, OwnSem, WholeOrFilling
<1>u. \A k : Pending(k)' => Pending(k) \/ k = call[c]
  BY <1>a DEF Pending
<1>1. TypeOK'
  BY <1>a, <1>b, <1>e DEF TypeOK, PC, WPC, CallOrNone
<1>2. CallInv'
  BY <1>a, <1>t, <1>s, <1>o DEF CallInv
<1>3. SlotInv'
  BY <1>a, <1>t, <1>s, <1>o, <1>d, CallApart DEF SlotInv
<1>4. BoxInv'
  <2>1. ToSet(posted') \subseteq 1..calls
    BY <1>b, <1>e DEF BoxInv
  <2>2. \A m, n \in 1..Len(posted') : posted'[m] = posted'[n] => m = n
    BY <1>d, <1>e DEF BoxInv
  <2>3. \A d \in Callers : NotPosted(d)' => call[d] \notin ToSet(posted')
    BY <1>a, <1>b, <1>e, <1>t, CallApart DEF BoxInv
  <2>4. call[c] \notin taken /\ \A n \in 1..Len(queue) : queue[n].call # call[c]
    BY <1>d DEF BoxInv
  <2>5. QED
    BY <1>a, <1>e, <2>1, <2>2, <2>3, <2>4 DEF BoxInv
<1>5. DataInv'
  <2>1. call[c] \notin ToSet(posted)
    BY <1>d
  <2>2. ASSUME NEW k \in ToSet(posted'), ThroughData(k)
        PROVE  data # None /\ ~PostedBefore(data, k)'
    <3>1. CASE k = call[c]
      <4>1. data = k
        BY <1>d, <2>2, <3>1
      <4>2. QED
        BY <1>a, <1>d, <1>f, <3>1, <4>1
    <3>2. CASE k \in ToSet(posted)
      BY <1>a, <1>d, <1>f, <2>2, <3>2 DEF DataInv
    <3>3. QED
      BY <1>e, <3>1, <3>2
  <2>3. QED
    BY <1>a, <1>s, <2>2 DEF DataInv
<1>6. FreshInv'
  BY <1>a, <1>t, <1>s, <1>o DEF FreshInv
<1>7. OpenInv'
  BY <1>a, <1>t, <1>s, <1>o DEF OpenInv
<1>8. AloneInv'
  BY <1>a, <1>t, <1>s, <1>o DEF AloneInv
<1>9. PatientInv'
  <2> SUFFICES ASSUME NEW d \in Callers, Alone(d), Patient(d)
               PROVE  /\ \A k \in 1..calls : of[k] = {d} =>
                          /\ answer[k].from \in {None, k}
                          /\ Pending(k)' => k = call[d] /\ pc'[d] \in {"wait", "look"}
                      /\ \A w \in Workers : wpc[w] = "respond" /\ of[wreq[w].call] = {d} =>
                          wseg[w].shm = wreq[w].call
    BY <1>a, <1>s, <1>o DEF PatientInv
  <2>1. ASSUME NEW k \in 1..calls, of[k] = {d}, Pending(k)'
        PROVE  k = call[d] /\ pc'[d] \in {"wait", "look"}
    <3>1. CASE k = call[c]
      <4>1. d = c
        BY <1>b, <2>1, <3>1
      <4>2. QED
        BY <1>a, <1>t, <3>1, <4>1
    <3>2. CASE k # call[c]
      <4>1. Pending(k)
        BY <1>u, <2>1, <3>2
      <4>2. k = call[d] /\ pc[d] \in {"wait", "look"}
        BY <2>1, <4>1 DEF PatientInv
      <4>3. QED
        BY <1>a, <1>t, <4>2
    <3>3. QED
      BY <3>1, <3>2
  <2>2. QED
    BY <2>1 DEF PatientInv
<1>10. BodyIntact'
  <2>1. \A k \in Calls : body[k] # None => k # call[c]
    BY <1>d DEF TakenInv, BoxInv
  <2>2. QED
    BY <1>a, <1>f, <1>s, <2>1 DEF BodyIntact
<1>11. NameInv' /\ TakenInv' /\ AnswerInv'
  BY <1>a, <1>s, <1>o DEF NameInv, TakenInv, AnswerInv, NoAnswer
<1>12. GotInv' /\ OwnInv' /\ CheckAnswerWhole'
  BY <1>a, <1>s, <1>o DEF GotInv, OwnInv, CheckAnswerWhole
<1>13. Excused'
  BY <1>a, <1>s, <1>o DEF Excused
<1>14. QED
  BY <1>1, <1>2, <1>3, <1>4, <1>5, <1>6, <1>7, <1>8, <1>9, <1>10, <1>11, <1>12,
     <1>13

LEMMA CrashKeeps ==
    ASSUME IInv, NEW p \in Procs, Crash(p)
    PROVE  IInv'
<1> USE DEF IInv, InCall, NotPosted, Serving, Responding, SameProcess, Goto, WGoto,
           callerVars, slotVars, nameVars, segVars, serverVars, workerVars, history
<1>a. /\ dead' = dead \cup {p}
      /\ pc' = [d \in Callers |-> IF proc[d] = p THEN "dead" ELSE pc[d]]
      /\ UNCHANGED <<proc, call, calls, of, kind, outcome, got, slotVars,
                     nameVars, segVars, serverVars, workerVars, history>>
  BY DEF Crash
<1>t. pc \in [Callers -> PC]
  BY DEF TypeOK
<1>e. \A d \in Callers : pc'[d] = IF proc[d] = p THEN "dead" ELSE pc[d]
  BY <1>a
<1>s. /\ \A k : Sender(k)' = Sender(k)
      /\ \A k : Shared(k)' <=> Shared(k)
      /\ \A k : ThroughData(k)' <=> ThroughData(k)
      /\ \A j, k : PostedBefore(j, k)' <=> PostedBefore(j, k)
      /\ \A d : Patient(d)' <=> Patient(d)
      /\ \A k : GaveUp(k)' <=> GaveUp(k)
      /\ \A k : Pending(k)' <=> Pending(k)
  BY <1>a DEF Sender, Shared, ThroughData, PostedBefore, Patient, GaveUp,
     Pending
<1>u. \A d \in Callers : Alone(d)' => Alone(d) /\ pc'[d] = pc[d]
  BY <1>a, <1>e DEF Alone
<1>v. /\ \A d \in Callers : pc'[d] = pc[d] => (OwnNames(d) => OwnNames(d)')
      /\ \A d \in Callers : pc'[d] = pc[d] => (OwnSem(d) => OwnSem(d)')
      /\ \A d \in Callers : pc'[d] = pc[d] => (WholeOrFilling(d) => WholeOrFilling(d)')
  BY <1>a, <1>s DEF OwnNames, OwnSem, WholeOrFilling
<1>1. TypeOK'
  BY <1>a DEF TypeOK, PC, WPC
<1>2. CallInv'
  BY <1>a, <1>t, <1>s, <1>e DEF CallInv
<1>3. SlotInv'
  BY <1>a, <1>t, <1>s, <1>e DEF SlotInv
<1>4. BoxInv'
  BY <1>a, <1>t, <1>s, <1>e DEF BoxInv
<1>5. FreshInv'
  BY <1>a, <1>t, <1>s, <1>e DEF FreshInv
<1>6. OpenInv'
  BY <1>a, <1>t, <1>s, <1>e DEF OpenInv
<1>7. AloneInv'
  BY <1>a, <1>t, <1>s, <1>e, <1>u, <1>v DEF AloneInv
<1>8. PatientInv'
  BY <1>a, <1>t, <1>s, <1>e, <1>u DEF PatientInv
<1>9. NameInv' /\ TakenInv' /\ DataInv'
  BY <1>a, <1>s DEF NameInv, TakenInv, DataInv
<1>10. AnswerInv' /\ GotInv' /\ OwnInv'
  BY <1>a, <1>s DEF AnswerInv, NoAnswer, GotInv, OwnInv
<1>11. BodyIntact' /\ CheckAnswerWhole' /\ Excused'
  BY <1>a, <1>s DEF BodyIntact, CheckAnswerWhole, Excused
<1>12. QED
  BY <1>1, <1>2, <1>3, <1>4, <1>5, <1>6, <1>7, <1>8, <1>9, <1>10, <1>11

-----------------------------------------------------------------------------
(* The server's main thread, and DestroyIPC. *)

LEMMA MainTakeKeeps ==
    ASSUME IInv, MainTake
    PROVE  IInv'
<1> USE DEF IInv, InCall, NotPosted, Serving, Responding, SameProcess, Goto, WGoto,
           callerVars, slotVars, nameVars, segVars, serverVars, workerVars, history
<1>a. /\ slot # None /\ serverSem = Free
      /\ slot' = None
      /\ \/ queue' = queue
         \/ queue' = Append(queue, [call |-> slot, body |-> reqData])
      /\ UNCHANGED <<callerVars, reqData, serverSem, data, dataSem, nameVars,
                     segVars, up, dpc, mainEnded, workerVars, history>>
  BY DEF MainTake
<1>t. /\ queue \in Seq([call : Calls, body : CallOrNone])
      /\ {slot, reqData} \subseteq CallOrNone
  BY DEF TypeOK
<1>b. [call |-> slot, body |-> reqData] \in [call : Calls, body : CallOrNone]
  BY <1>a, <1>t DEF CallOrNone
<1>e. /\ queue' \in Seq([call : Calls, body : CallOrNone])
      /\ Len(queue) \in Nat
      /\ \A n \in 1..Len(queue') :
            \/ n \in 1..Len(queue) /\ queue'[n] = queue[n]
            \/ /\ n = Len(queue) + 1
               /\ queue'[n].call = slot /\ queue'[n].body = reqData
  <2>1. CASE queue' = queue
    BY <1>t, <2>1
  <2>2. CASE queue' = Append(queue, [call |-> slot, body |-> reqData])
    BY <1>b, <1>t, <2>2, AppendProps
  <2>3. QED
    BY <1>a, <2>1, <2>2
<1>f. slot \in ToSet(posted) \ taken /\ \A n \in 1..Len(queue) : queue[n].call # slot
  BY <1>a DEF BoxInv
<1>g. slot # None /\ ~ThroughData(slot) => reqData = slot
  BY DEF SlotInv
<1>s. /\ \A k : Sender(k)' = Sender(k)
      /\ \A k : Shared(k)' <=> Shared(k)
      /\ \A k : ThroughData(k)' <=> ThroughData(k)
      /\ \A j, k : PostedBefore(j, k)' <=> PostedBefore(j, k)
      /\ \A d : Patient(d)' <=> Patient(d)
      /\ \A k : GaveUp(k)' <=> GaveUp(k)
  BY <1>a DEF Sender, Shared, ThroughData, PostedBefore, Patient, GaveUp
<1>o. /\ \A d \in Callers : Alone(d)' <=> Alone(d)
      /\ \A d \in Callers : OwnNames(d)' <=> OwnNames(d)
      /\ \A d \in Callers : OwnSem(d)' <=> OwnSem(d)
      /\ \A d \in Callers : WholeOrFilling(d)' <=> WholeOrFilling(d)
  BY <1>a, <1>s DEF Alone, OwnNames, OwnSem, WholeOrFilling
<1>u. \A k : k # None /\ Pending(k)' => Pending(k)
  BY <1>a, <1>e DEF Pending
<1>1. TypeOK'
  BY <1>a, <1>e DEF TypeOK, CallOrNone
<1>2. SlotInv'
  BY <1>a, <1>t, <1>s, <1>o, IpcAssumption DEF SlotInv, Free
<1>3. BoxInv'
  <2>1. \A n \in 1..Len(queue') : queue'[n].call \in ToSet(posted) \ taken
    BY <1>e, <1>f DEF BoxInv
  <2>2. ASSUME NEW n \in 1..Len(queue'), NEW m \in 1..Len(queue'),
               queue'[m].call = queue'[n].call
        PROVE  m = n
    <3>1. CASE n \in 1..Len(queue) /\ m \in 1..Len(queue)
      <4>1. queue'[m] = queue[m] /\ queue'[n] = queue[n]
        BY <1>e, <3>1
      <4>2. QED
        BY <2>2, <3>1, <4>1 DEF BoxInv
    <3>2. QED
      BY <1>e, <1>f, <2>2, <3>1
  <2>3. \A n \in 1..Len(queue') : queue'[n].call # None
    BY <2>1, NatFacts DEF BoxInv, None
  <2>4. QED
    BY <1>a, <2>1, <2>2, <2>3 DEF BoxInv
<1>4. DataInv'
  BY <1>a, <1>t, <1>s, <1>o, <1>e, <1>g DEF DataInv
<1>5. PatientInv'
  BY <1>a, <1>t, <1>s, <1>o, <1>u, NatFacts DEF PatientInv, None
<1>6. CallInv' /\ NameInv' /\ TakenInv'
  BY <1>a, <1>s, <1>o DEF CallInv, NameInv, TakenInv
<1>7. AnswerInv' /\ FreshInv' /\ OpenInv'
  BY <1>a, <1>s, <1>o DEF AnswerInv, NoAnswer, FreshInv, OpenInv
<1>8. GotInv' /\ OwnInv' /\ AloneInv'
  BY <1>a, <1>s, <1>o DEF GotInv, OwnInv, AloneInv
<1>9. BodyIntact' /\ CheckAnswerWhole' /\ Excused'
  BY <1>a, <1>s, <1>o DEF BodyIntact, CheckAnswerWhole, Excused
<1>10. QED
  BY <1>1, <1>2, <1>3, <1>4, <1>5, <1>6, <1>7, <1>8, <1>9

LEMMA MainEndKeeps ==
    ASSUME IInv, MainEnd
    PROVE  IInv'
<1> USE DEF IInv, InCall, NotPosted, Serving, Responding, SameProcess, Goto, WGoto,
           callerVars, slotVars, nameVars, segVars, serverVars, workerVars, history
<1>a. /\ mainEnded' = TRUE
      /\ UNCHANGED <<callerVars, slotVars, nameVars, segVars, up, queue, dpc,
                     workerVars, history>>
  BY DEF MainEnd
<1>t. mainEnded \in BOOLEAN
  BY DEF TypeOK
<1>s. /\ \A k : Sender(k)' = Sender(k)
      /\ \A k : Shared(k)' <=> Shared(k)
      /\ \A k : ThroughData(k)' <=> ThroughData(k)
      /\ \A j, k : PostedBefore(j, k)' <=> PostedBefore(j, k)
      /\ \A d : Patient(d)' <=> Patient(d)
      /\ \A k : GaveUp(k)' <=> GaveUp(k)
      /\ \A k : Pending(k)' <=> Pending(k)
  BY <1>a DEF Sender, Shared, ThroughData, PostedBefore, Patient, GaveUp,
     Pending
<1>o. /\ \A d \in Callers : Alone(d)' <=> Alone(d)
      /\ \A d \in Callers : OwnNames(d)' <=> OwnNames(d)
      /\ \A d \in Callers : OwnSem(d)' <=> OwnSem(d)
      /\ \A d \in Callers : WholeOrFilling(d)' <=> WholeOrFilling(d)
  BY <1>a, <1>s DEF Alone, OwnNames, OwnSem, WholeOrFilling
<1>1. TypeOK'
  BY <1>a DEF TypeOK, PC, WPC
<1>2. CallInv' /\ NameInv' /\ SlotInv'
  BY <1>a, <1>s, <1>o DEF CallInv, NameInv, SlotInv
<1>3. BoxInv' /\ TakenInv' /\ DataInv'
  BY <1>a, <1>s, <1>o DEF BoxInv, TakenInv, DataInv
<1>4. AnswerInv' /\ FreshInv' /\ OpenInv'
  BY <1>a, <1>s, <1>o DEF AnswerInv, NoAnswer, FreshInv, OpenInv
<1>5. GotInv' /\ OwnInv' /\ AloneInv'
  BY <1>a, <1>s, <1>o DEF GotInv, OwnInv, AloneInv
<1>6. PatientInv' /\ BodyIntact' /\ CheckAnswerWhole'
  BY <1>a, <1>s, <1>o DEF PatientInv, BodyIntact, CheckAnswerWhole
<1>7. Excused'
  BY <1>a, <1>s, <1>o DEF Excused
<1>8. QED
  BY <1>1, <1>2, <1>3, <1>4, <1>5, <1>6, <1>7

LEMMA UnlinkKeeps ==
    ASSUME IInv, Unlink
    PROVE  IInv'
<1> USE DEF IInv, InCall, NotPosted, Serving, Responding, SameProcess, Goto, WGoto,
           callerVars, slotVars, nameVars, segVars, serverVars, workerVars, history
<1>a. /\ dpc' = "unlinked"
      /\ up' = FALSE
      /\ UNCHANGED <<callerVars, slotVars, nameVars, segVars, queue, mainEnded,
                     workerVars, history>>
  BY DEF Unlink
<1>s. /\ \A k : Sender(k)' = Sender(k)
      /\ \A k : Shared(k)' <=> Shared(k)
      /\ \A k : ThroughData(k)' <=> ThroughData(k)
      /\ \A j, k : PostedBefore(j, k)' <=> PostedBefore(j, k)
      /\ \A d : Patient(d)' <=> Patient(d)
      /\ \A k : GaveUp(k)' <=> GaveUp(k)
      /\ \A k : Pending(k)' <=> Pending(k)
  BY <1>a DEF Sender, Shared, ThroughData, PostedBefore, Patient, GaveUp,
     Pending
<1>o. /\ \A d \in Callers : Alone(d)' <=> Alone(d)
      /\ \A d \in Callers : OwnNames(d)' <=> OwnNames(d)
      /\ \A d \in Callers : OwnSem(d)' <=> OwnSem(d)
      /\ \A d \in Callers : WholeOrFilling(d)' <=> WholeOrFilling(d)
  BY <1>a, <1>s DEF Alone, OwnNames, OwnSem, WholeOrFilling
<1>1. TypeOK'
  BY <1>a DEF TypeOK, PC, WPC
<1>2. CallInv' /\ NameInv' /\ SlotInv'
  BY <1>a, <1>s, <1>o DEF CallInv, NameInv, SlotInv
<1>3. BoxInv' /\ TakenInv' /\ DataInv'
  BY <1>a, <1>s, <1>o DEF BoxInv, TakenInv, DataInv
<1>4. AnswerInv' /\ FreshInv' /\ OpenInv'
  BY <1>a, <1>s, <1>o DEF AnswerInv, NoAnswer, FreshInv, OpenInv
<1>5. GotInv' /\ OwnInv' /\ AloneInv'
  BY <1>a, <1>s, <1>o DEF GotInv, OwnInv, AloneInv
<1>6. PatientInv' /\ BodyIntact' /\ CheckAnswerWhole'
  BY <1>a, <1>s, <1>o DEF PatientInv, BodyIntact, CheckAnswerWhole
<1>7. Excused'
  BY <1>a, <1>s, <1>o DEF Excused
<1>8. QED
  BY <1>1, <1>2, <1>3, <1>4, <1>5, <1>6, <1>7

LEMMA StopServerKeeps ==
    ASSUME IInv, StopServer
    PROVE  IInv'
<1> USE DEF IInv, InCall, NotPosted, Serving, Responding, SameProcess, Goto, WGoto,
           callerVars, slotVars, nameVars, segVars, serverVars, workerVars, history
<1>a. /\ dpc' = "stopped"
      /\ UNCHANGED <<callerVars, slotVars, nameVars, segVars, up, queue,
                     mainEnded, workerVars, history>>
  BY DEF StopServer
<1>s. /\ \A k : Sender(k)' = Sender(k)
      /\ \A k : Shared(k)' <=> Shared(k)
      /\ \A k : ThroughData(k)' <=> ThroughData(k)
      /\ \A j, k : PostedBefore(j, k)' <=> PostedBefore(j, k)
      /\ \A d : Patient(d)' <=> Patient(d)
      /\ \A k : GaveUp(k)' <=> GaveUp(k)
      /\ \A k : Pending(k)' <=> Pending(k)
  BY <1>a DEF Sender, Shared, ThroughData, PostedBefore, Patient, GaveUp,
     Pending
<1>o. /\ \A d \in Callers : Alone(d)' <=> Alone(d)
      /\ \A d \in Callers : OwnNames(d)' <=> OwnNames(d)
      /\ \A d \in Callers : OwnSem(d)' <=> OwnSem(d)
      /\ \A d \in Callers : WholeOrFilling(d)' <=> WholeOrFilling(d)
  BY <1>a, <1>s DEF Alone, OwnNames, OwnSem, WholeOrFilling
<1>1. TypeOK'
  BY <1>a DEF TypeOK, PC, WPC
<1>2. CallInv' /\ NameInv' /\ SlotInv'
  BY <1>a, <1>s, <1>o DEF CallInv, NameInv, SlotInv
<1>3. BoxInv' /\ TakenInv' /\ DataInv'
  BY <1>a, <1>s, <1>o DEF BoxInv, TakenInv, DataInv
<1>4. AnswerInv' /\ FreshInv' /\ OpenInv'
  BY <1>a, <1>s, <1>o DEF AnswerInv, NoAnswer, FreshInv, OpenInv
<1>5. GotInv' /\ OwnInv' /\ AloneInv'
  BY <1>a, <1>s, <1>o DEF GotInv, OwnInv, AloneInv
<1>6. PatientInv' /\ BodyIntact' /\ CheckAnswerWhole'
  BY <1>a, <1>s, <1>o DEF PatientInv, BodyIntact, CheckAnswerWhole
<1>7. Excused'
  BY <1>a, <1>s, <1>o DEF Excused
<1>8. QED
  BY <1>1, <1>2, <1>3, <1>4, <1>5, <1>6, <1>7

LEMMA DestroyedKeeps ==
    ASSUME IInv, Destroyed
    PROVE  IInv'
<1> USE DEF IInv, InCall, NotPosted, Serving, Responding, SameProcess, Goto, WGoto,
           callerVars, slotVars, nameVars, segVars, serverVars, workerVars, history
<1>a. /\ dpc' = "destroyed"
      /\ UNCHANGED <<callerVars, slotVars, nameVars, segVars, up, queue,
                     mainEnded, workerVars, history>>
  BY DEF Destroyed
<1>s. /\ \A k : Sender(k)' = Sender(k)
      /\ \A k : Shared(k)' <=> Shared(k)
      /\ \A k : ThroughData(k)' <=> ThroughData(k)
      /\ \A j, k : PostedBefore(j, k)' <=> PostedBefore(j, k)
      /\ \A d : Patient(d)' <=> Patient(d)
      /\ \A k : GaveUp(k)' <=> GaveUp(k)
      /\ \A k : Pending(k)' <=> Pending(k)
  BY <1>a DEF Sender, Shared, ThroughData, PostedBefore, Patient, GaveUp,
     Pending
<1>o. /\ \A d \in Callers : Alone(d)' <=> Alone(d)
      /\ \A d \in Callers : OwnNames(d)' <=> OwnNames(d)
      /\ \A d \in Callers : OwnSem(d)' <=> OwnSem(d)
      /\ \A d \in Callers : WholeOrFilling(d)' <=> WholeOrFilling(d)
  BY <1>a, <1>s DEF Alone, OwnNames, OwnSem, WholeOrFilling
<1>1. TypeOK'
  BY <1>a DEF TypeOK, PC, WPC
<1>2. CallInv' /\ NameInv' /\ SlotInv'
  BY <1>a, <1>s, <1>o DEF CallInv, NameInv, SlotInv
<1>3. BoxInv' /\ TakenInv' /\ DataInv'
  BY <1>a, <1>s, <1>o DEF BoxInv, TakenInv, DataInv
<1>4. AnswerInv' /\ FreshInv' /\ OpenInv'
  BY <1>a, <1>s, <1>o DEF AnswerInv, NoAnswer, FreshInv, OpenInv
<1>5. GotInv' /\ OwnInv' /\ AloneInv'
  BY <1>a, <1>s, <1>o DEF GotInv, OwnInv, AloneInv
<1>6. PatientInv' /\ BodyIntact' /\ CheckAnswerWhole'
  BY <1>a, <1>s, <1>o DEF PatientInv, BodyIntact, CheckAnswerWhole
<1>7. Excused'
  BY <1>a, <1>s, <1>o DEF Excused
<1>8. QED
  BY <1>1, <1>2, <1>3, <1>4, <1>5, <1>6, <1>7

-----------------------------------------------------------------------------
(* The workers: <1>v says that the others stay where they are, <1>w where w goes. *)

LEMMA LoopKeeps ==
    ASSUME IInv, NEW w \in Workers, Loop(w)
    PROVE  IInv'
<1> USE DEF IInv, InCall, NotPosted, Serving, Responding, SameProcess, Goto, WGoto,
           callerVars, slotVars, nameVars, segVars, serverVars, workerVars, history
<1>a. /\ wpc[w] = "top"
      /\ \/ wpc' = [wpc EXCEPT ![w] = "ended"]
         \/ wpc' = [wpc EXCEPT ![w] = "wait"]
      /\ UNCHANGED <<callerVars, slotVars, nameVars, segVars, serverVars, wreq,
                     wseg, history>>
  BY DEF Loop
<1>t. wpc \in [Workers -> WPC]
  BY DEF TypeOK
<1>s. /\ \A k : Sender(k)' = Sender(k)
      /\ \A k : Shared(k)' <=> Shared(k)
      /\ \A k : ThroughData(k)' <=> ThroughData(k)
      /\ \A j, k : PostedBefore(j, k)' <=> PostedBefore(j, k)
      /\ \A d : Patient(d)' <=> Patient(d)
      /\ \A k : GaveUp(k)' <=> GaveUp(k)
  BY <1>a DEF Sender, Shared, ThroughData, PostedBefore, Patient, GaveUp
<1>o. /\ \A d \in Callers : Alone(d)' <=> Alone(d)
      /\ \A d \in Callers : OwnNames(d)' <=> OwnNames(d)
  BY <1>a, <1>s DEF Alone, OwnNames
<1>v. \A v \in Workers \ {w} : wpc'[v] = wpc[v] /\ wreq'[v] = wreq[v] /\ wseg'[v] = wseg[v]
  BY <1>a, <1>t
<1>w. wpc[w] = "top" /\ wpc'[w] \in {"ended", "wait"}
  BY <1>a, <1>t
<1>u. \A k : k # None /\ Pending(k)' => Pending(k)
  BY <1>a, <1>v, <1>w DEF Pending
<1>1. TypeOK'
  BY <1>a, <1>t DEF TypeOK, PC, WPC, NoRequest, NoSegment, Segment, CallOrNone
<1>2. NameInv'
  BY <1>a, <1>t, <1>s, <1>o, <1>v, <1>w DEF NameInv
<1>3. TakenInv'
  BY <1>a, <1>t, <1>s, <1>o, <1>v, <1>w DEF TakenInv
<1>4. DataInv'
  BY <1>a, <1>t, <1>s, <1>o, <1>v, <1>w DEF DataInv
<1>5. AnswerInv'
  BY <1>a, <1>t, <1>s, <1>o, <1>v, <1>w DEF AnswerInv, NoAnswer
<1>6. GotInv'
  BY <1>a, <1>t, <1>s, <1>o, <1>v, <1>w DEF GotInv
<1>7. AloneInv'
  BY <1>a, <1>t, <1>s, <1>o, <1>v, <1>w DEF AloneInv, OwnSem, WholeOrFilling
<1>8. PatientInv'
  BY <1>a, <1>t, <1>s, <1>o, <1>u, <1>v, <1>w DEF PatientInv, None
<1>9. CallInv' /\ SlotInv' /\ BoxInv'
  BY <1>a, <1>s, <1>o DEF CallInv, SlotInv, BoxInv
<1>10. FreshInv' /\ OpenInv' /\ OwnInv'
  BY <1>a, <1>s, <1>o DEF FreshInv, OpenInv, OwnInv
<1>11. BodyIntact' /\ CheckAnswerWhole' /\ Excused'
  BY <1>a, <1>s, <1>o DEF BodyIntact, CheckAnswerWhole, Excused
<1>12. QED
  BY <1>1, <1>2, <1>3, <1>4, <1>5, <1>6, <1>7, <1>8, <1>9, <1>10, <1>11

LEMMA StoppedKeeps ==
    ASSUME IInv, NEW w \in Workers, Stopped(w)
    PROVE  IInv'
<1> USE DEF IInv, InCall, NotPosted, Serving, Responding, SameProcess, Goto, WGoto,
           callerVars, slotVars, nameVars, segVars, serverVars, workerVars, history
<1>a. /\ wpc[w] = "serve"
      /\ wpc' = [wpc EXCEPT ![w] = "ended"]
      /\ UNCHANGED <<callerVars, slotVars, nameVars, segVars, serverVars, wreq,
                     wseg, history>>
  BY DEF Stopped
<1>t. wpc \in [Workers -> WPC]
  BY DEF TypeOK
<1>s. /\ \A k : Sender(k)' = Sender(k)
      /\ \A k : Shared(k)' <=> Shared(k)
      /\ \A k : ThroughData(k)' <=> ThroughData(k)
      /\ \A j, k : PostedBefore(j, k)' <=> PostedBefore(j, k)
      /\ \A d : Patient(d)' <=> Patient(d)
      /\ \A k : GaveUp(k)' <=> GaveUp(k)
  BY <1>a DEF Sender, Shared, ThroughData, PostedBefore, Patient, GaveUp
<1>o. /\ \A d \in Callers : Alone(d)' <=> Alone(d)
      /\ \A d \in Callers : OwnNames(d)' <=> OwnNames(d)
  BY <1>a, <1>s DEF Alone, OwnNames
<1>v. \A v \in Workers \ {w} : wpc'[v] = wpc[v] /\ wreq'[v] = wreq[v] /\ wseg'[v] = wseg[v]
  BY <1>a, <1>t
<1>w. wpc[w] = "serve" /\ wpc'[w] = "ended"
  BY <1>a, <1>t
<1>u. \A k : k # None /\ Pending(k)' => Pending(k)
  BY <1>a, <1>v, <1>w DEF Pending
<1>1. TypeOK'
  BY <1>a, <1>t DEF TypeOK, PC, WPC, NoRequest, NoSegment, Segment, CallOrNone
<1>2. NameInv'
  BY <1>a, <1>t, <1>s, <1>o, <1>v, <1>w DEF NameInv
<1>3. TakenInv'
  BY <1>a, <1>t, <1>s, <1>o, <1>v, <1>w DEF TakenInv
<1>4. DataInv'
  BY <1>a, <1>t, <1>s, <1>o, <1>v, <1>w DEF DataInv
<1>5. AnswerInv'
  BY <1>a, <1>t, <1>s, <1>o, <1>v, <1>w DEF AnswerInv, NoAnswer
<1>6. GotInv'
  BY <1>a, <1>t, <1>s, <1>o, <1>v, <1>w DEF GotInv
<1>7. AloneInv'
  BY <1>a, <1>t, <1>s, <1>o, <1>v, <1>w DEF AloneInv, OwnSem, WholeOrFilling
<1>8. PatientInv'
  BY <1>a, <1>t, <1>s, <1>o, <1>u, <1>v, <1>w DEF PatientInv, None
<1>9. CallInv' /\ SlotInv' /\ BoxInv'
  BY <1>a, <1>s, <1>o DEF CallInv, SlotInv, BoxInv
<1>10. FreshInv' /\ OpenInv' /\ OwnInv'
  BY <1>a, <1>s, <1>o DEF FreshInv, OpenInv, OwnInv
<1>11. BodyIntact' /\ CheckAnswerWhole' /\ Excused'
  BY <1>a, <1>s, <1>o DEF BodyIntact, CheckAnswerWhole, Excused
<1>12. QED
  BY <1>1, <1>2, <1>3, <1>4, <1>5, <1>6, <1>7, <1>8, <1>9, <1>10, <1>11

LEMMA ServeFailsKeeps ==
    ASSUME IInv, NEW w \in Workers, ServeFails(w)
    PROVE  IInv'
<1> USE DEF IInv, InCall, NotPosted, Serving, Responding, SameProcess, Goto, WGoto,
           callerVars, slotVars, nameVars, segVars, serverVars, workerVars, history
<1>a. /\ wpc[w] = "serve"
      /\ wpc' = [wpc EXCEPT ![w] = "top"]
      /\ wreq' = [wreq EXCEPT ![w] = NoRequest]
      /\ wseg' = [wseg EXCEPT ![w] = NoSegment]
      /\ UNCHANGED <<callerVars, slotVars, nameVars, segVars, serverVars,
                     history>>
  BY DEF ServeFails, Continue
<1>t. /\ wpc \in [Workers -> WPC]
      /\ wreq \in [Workers -> [call : CallOrNone, body : CallOrNone]]
      /\ wseg \in [Workers -> Segment]
  BY DEF TypeOK
<1>s. /\ \A k : Sender(k)' = Sender(k)
      /\ \A k : Shared(k)' <=> Shared(k)
      /\ \A k : ThroughData(k)' <=> ThroughData(k)
      /\ \A j, k : PostedBefore(j, k)' <=> PostedBefore(j, k)
      /\ \A d : Patient(d)' <=> Patient(d)
      /\ \A k : GaveUp(k)' <=> GaveUp(k)
  BY <1>a DEF Sender, Shared, ThroughData, PostedBefore, Patient, GaveUp
<1>o. /\ \A d \in Callers : Alone(d)' <=> Alone(d)
      /\ \A d \in Callers : OwnNames(d)' <=> OwnNames(d)
  BY <1>a, <1>s DEF Alone, OwnNames
<1>v. \A v \in Workers \ {w} : wpc'[v] = wpc[v] /\ wreq'[v] = wreq[v] /\ wseg'[v] = wseg[v]
  BY <1>a, <1>t
<1>w. wpc[w] = "serve" /\ wpc'[w] = "top"
  BY <1>a, <1>t
<1>u. \A k : k # None /\ Pending(k)' => Pending(k)
  BY <1>a, <1>v, <1>w DEF Pending
<1>1. TypeOK'
  BY <1>a, <1>t DEF TypeOK, PC, WPC, NoRequest, NoSegment, Segment, CallOrNone
<1>2. NameInv'
  BY <1>a, <1>t, <1>s, <1>o, <1>v, <1>w DEF NameInv
<1>3. TakenInv'
  BY <1>a, <1>t, <1>s, <1>o, <1>v, <1>w DEF TakenInv
<1>4. DataInv'
  BY <1>a, <1>t, <1>s, <1>o, <1>v, <1>w DEF DataInv
<1>5. AnswerInv'
  BY <1>a, <1>t, <1>s, <1>o, <1>v, <1>w DEF AnswerInv, NoAnswer
<1>6. GotInv'
  BY <1>a, <1>t, <1>s, <1>o, <1>v, <1>w DEF GotInv
<1>7. AloneInv'
  BY <1>a, <1>t, <1>s, <1>o, <1>v, <1>w DEF AloneInv, OwnSem, WholeOrFilling
<1>8. PatientInv'
  BY <1>a, <1>s, <1>o, <1>u, <1>v, <1>w DEF PatientInv, None
<1>9. CallInv' /\ SlotInv' /\ BoxInv'
  BY <1>a, <1>s, <1>o DEF CallInv, SlotInv, BoxInv
<1>10. FreshInv' /\ OpenInv' /\ OwnInv'
  BY <1>a, <1>s, <1>o DEF FreshInv, OpenInv, OwnInv
<1>11. BodyIntact' /\ CheckAnswerWhole' /\ Excused'
  BY <1>a, <1>s, <1>o DEF BodyIntact, CheckAnswerWhole, Excused
<1>12. QED
  BY <1>1, <1>2, <1>3, <1>4, <1>5, <1>6, <1>7, <1>8, <1>9, <1>10, <1>11

LEMMA DeQueueStoppedKeeps ==
    ASSUME IInv, NEW w \in Workers, IsStop, DeQueue(w)
    PROVE  IInv'
<1> USE DEF IInv, InCall, NotPosted, Serving, Responding, SameProcess, Goto, WGoto,
           callerVars, slotVars, nameVars, segVars, serverVars, workerVars, history
<1>a. /\ wpc[w] = "wait"
      /\ wpc' = [wpc EXCEPT ![w] = "ended"]
      /\ UNCHANGED <<callerVars, slotVars, nameVars, segVars, serverVars, wreq,
                     wseg, history>>
  BY DEF DeQueue
<1>t. wpc \in [Workers -> WPC]
  BY DEF TypeOK
<1>s. /\ \A k : Sender(k)' = Sender(k)
      /\ \A k : Shared(k)' <=> Shared(k)
      /\ \A k : ThroughData(k)' <=> ThroughData(k)
      /\ \A j, k : PostedBefore(j, k)' <=> PostedBefore(j, k)
      /\ \A d : Patient(d)' <=> Patient(d)
      /\ \A k : GaveUp(k)' <=> GaveUp(k)
  BY <1>a DEF Sender, Shared, ThroughData, PostedBefore, Patient, GaveUp
<1>o. /\ \A d \in Callers : Alone(d)' <=> Alone(d)
      /\ \A d \in Callers : OwnNames(d)' <=> OwnNames(d)
  BY <1>a, <1>s DEF Alone, OwnNames
<1>v. \A v \in Workers \ {w} : wpc'[v] = wpc[v] /\ wreq'[v] = wreq[v] /\ wseg'[v] = wseg[v]
  BY <1>a, <1>t
<1>w. wpc[w] = "wait" /\ wpc'[w] = "ended"
  BY <1>a, <1>t
<1>u. \A k : k # None /\ Pending(k)' => Pending(k)
  BY <1>a, <1>v, <1>w DEF Pending
<1>1. TypeOK'
  BY <1>a, <1>t DEF TypeOK, PC, WPC, NoRequest, NoSegment, Segment, CallOrNone
<1>2. NameInv'
  BY <1>a, <1>t, <1>s, <1>o, <1>v, <1>w DEF NameInv
<1>3. TakenInv'
  BY <1>a, <1>t, <1>s, <1>o, <1>v, <1>w DEF TakenInv
<1>4. DataInv'
  BY <1>a, <1>t, <1>s, <1>o, <1>v, <1>w DEF DataInv
<1>5. AnswerInv'
  BY <1>a, <1>t, <1>s, <1>o, <1>v, <1>w DEF AnswerInv, NoAnswer
<1>6. GotInv'
  BY <1>a, <1>t, <1>s, <1>o, <1>v, <1>w DEF GotInv
<1>7. AloneInv'
  BY <1>a, <1>t, <1>s, <1>o, <1>v, <1>w DEF AloneInv, OwnSem, WholeOrFilling
<1>8. PatientInv'
  BY <1>a, <1>t, <1>s, <1>o, <1>u, <1>v, <1>w DEF PatientInv, None
<1>9. CallInv' /\ SlotInv' /\ BoxInv'
  BY <1>a, <1>s, <1>o DEF CallInv, SlotInv, BoxInv
<1>10. FreshInv' /\ OpenInv' /\ OwnInv'
  BY <1>a, <1>s, <1>o DEF FreshInv, OpenInv, OwnInv
<1>11. BodyIntact' /\ CheckAnswerWhole' /\ Excused'
  BY <1>a, <1>s, <1>o DEF BodyIntact, CheckAnswerWhole, Excused
<1>12. QED
  BY <1>1, <1>2, <1>3, <1>4, <1>5, <1>6, <1>7, <1>8, <1>9, <1>10, <1>11

LEMMA DeQueueTakesKeeps ==
    ASSUME IInv, NEW w \in Workers, ~IsStop, DeQueue(w)
    PROVE  IInv'
<1> USE DEF IInv, InCall, NotPosted, Serving, Responding, SameProcess, Goto, WGoto,
           callerVars, slotVars, nameVars, segVars, serverVars, workerVars, history
<1>a. /\ wpc[w] = "wait" /\ queue # <<>>
      /\ wpc' = [wpc EXCEPT ![w] = "serve"]
      /\ queue' = Tail(queue)
      /\ wreq' = [wreq EXCEPT ![w] = Head(queue)]
      /\ taken' = taken \cup {Head(queue).call}
      /\ UNCHANGED <<callerVars, slotVars, nameVars, segVars, up, dpc,
                     mainEnded, wseg, posted, body>>
  BY DEF DeQueue
<1>t. /\ wpc \in [Workers -> WPC]
      /\ wreq \in [Workers -> [call : CallOrNone, body : CallOrNone]]
      /\ queue \in Seq([call : Calls, body : CallOrNone])
  BY DEF TypeOK
<1>e. /\ queue' \in Seq([call : Calls, body : CallOrNone])
      /\ Len(queue') \in Nat /\ Len(queue) = Len(queue') + 1
      /\ Head(queue) = queue[1] /\ 1 \in 1..Len(queue)
      /\ Head(queue) \in [call : Calls, body : CallOrNone]
      /\ \A n \in 1..Len(queue') : n + 1 \in 1..Len(queue) /\ queue'[n] = queue[n + 1]
  <2> DEFINE R == [call : Calls, body : CallOrNone]
  <2>1. queue \in Seq(R) /\ queue # <<>>
    BY <1>a, <1>t
  <2>2. /\ Tail(queue) \in Seq(R) /\ Head(queue) \in R /\ Head(queue) = queue[1]
        /\ Len(queue) \in Nat /\ Len(queue) >= 1 /\ Len(Tail(queue)) = Len(queue) - 1
        /\ \A n \in 1..Len(Tail(queue)) : n + 1 \in 1..Len(queue) /\ Tail(queue)[n] = queue[n + 1]
    BY <2>1, TailProps
  <2> HIDE DEF R
  <2>3. queue' = Tail(queue)
    BY <1>a
  <2>4. QED
    BY <2>2, <2>3 DEF R
<1>f. /\ queue[1].call \in ToSet(posted) \ taken
      /\ queue[1].call \in Calls
      /\ queue[1].call # slot
      /\ \A n \in 1..Len(queue) : queue[n].call = queue[1].call => n = 1
      /\ body[queue[1].call] = None
  BY <1>e DEF BoxInv, TakenInv
<1>s. /\ \A k : Sender(k)' = Sender(k)
      /\ \A k : Shared(k)' <=> Shared(k)
      /\ \A k : ThroughData(k)' <=> ThroughData(k)
      /\ \A j, k : PostedBefore(j, k)' <=> PostedBefore(j, k)
      /\ \A d : Patient(d)' <=> Patient(d)
      /\ \A k : GaveUp(k)' <=> GaveUp(k)
  BY <1>a DEF Sender, Shared, ThroughData, PostedBefore, Patient, GaveUp
<1>o. /\ \A d \in Callers : Alone(d)' <=> Alone(d)
      /\ \A d \in Callers : OwnNames(d)' <=> OwnNames(d)
  BY <1>a, <1>s DEF Alone, OwnNames
<1>v. \A v \in Workers \ {w} : wpc'[v] = wpc[v] /\ wreq'[v] = wreq[v] /\ wseg'[v] = wseg[v]
  BY <1>a, <1>e, <1>t
<1>w. /\ wpc[w] = "wait" /\ wpc'[w] = "serve"
      /\ wreq'[w] = queue[1] /\ wseg'[w] = wseg[w]
  BY <1>a, <1>e, <1>t
<1>u. \A k : k # None /\ Pending(k)' => Pending(k)
  BY <1>a, <1>e, <1>v, <1>w DEF Pending
<1>1. TypeOK'
  BY <1>a, <1>e, <1>f, <1>t DEF TypeOK, PC, WPC, CallOrNone
<1>2. NameInv'
  BY <1>a, <1>t, <1>s, <1>o, <1>v, <1>w DEF NameInv
<1>3. BoxInv'
  BY <1>a, <1>t, <1>s, <1>o, <1>e, <1>f DEF BoxInv
<1>4. TakenInv'
  BY <1>a, <1>t, <1>s, <1>o, <1>e, <1>f, <1>v, <1>w DEF TakenInv
<1>5. DataInv'
  <2>1. \A n \in 1..Len(queue) : ThroughData(queue[n].call) \/ queue[n].body = queue[n].call
    BY DEF DataInv
  <2>2. \A n \in 1..Len(queue') : queue'[n] = queue[n + 1] /\ n + 1 \in 1..Len(queue)
    BY <1>e
  <2>3. \A n \in 1..Len(queue') :
          ThroughData(queue[n].call)' \/ queue'[n].body = queue'[n].call
    <3> SUFFICES ASSUME NEW n \in 1..Len(queue'), NEW r, r = queue'[n]
                 PROVE  ThroughData(r.call)' \/ r.body = r.call
      OBVIOUS
    <3>1. r = queue[n + 1] /\ n + 1 \in 1..Len(queue)
      BY <2>2
    <3>2. QED
      BY <1>s, <2>1, <3>1
  <2>4. \A v \in Workers : wpc'[v] = "serve" =>
          ThroughData(wreq[v].call)' \/ wreq'[v].body = wreq'[v].call
    <3> SUFFICES ASSUME NEW v \in Workers, wpc'[v] = "serve", NEW r, r = wreq'[v]
                 PROVE  ThroughData(r.call)' \/ r.body = r.call
      OBVIOUS
    <3>1. CASE v = w
      BY <1>e, <1>s, <1>w, <2>1, <3>1
    <3>2. CASE v # w
      BY <1>s, <1>v, <3>2 DEF DataInv
    <3>3. QED
      BY <3>1, <3>2
  <2>5. UNCHANGED <<data, calls, posted>>
    BY <1>a
  <2>6. QED
    BY <1>s, <2>3, <2>4, <2>5 DEF DataInv
<1>6. AnswerInv'
  BY <1>a, <1>t, <1>s, <1>o, <1>e, <1>f, <1>v, <1>w DEF AnswerInv, NoAnswer
<1>7. GotInv'
  BY <1>a, <1>t, <1>s, <1>o, <1>e, <1>f, <1>v, <1>w DEF GotInv
<1>8. AloneInv'
  BY <1>a, <1>t, <1>s, <1>o, <1>v, <1>w DEF AloneInv, OwnSem, WholeOrFilling
<1>9. PatientInv'
  BY <1>a, <1>t, <1>s, <1>o, <1>u, <1>v, <1>w DEF PatientInv, None
<1>10. CallInv' /\ SlotInv' /\ FreshInv'
  BY <1>a, <1>s, <1>o DEF CallInv, SlotInv, FreshInv
<1>11. OpenInv' /\ OwnInv' /\ BodyIntact'
  BY <1>a, <1>s, <1>o DEF OpenInv, OwnInv, BodyIntact
<1>12. CheckAnswerWhole' /\ Excused'
  BY <1>a, <1>s, <1>o DEF CheckAnswerWhole, Excused
<1>13. QED
  BY <1>1, <1>2, <1>3, <1>4, <1>5, <1>6, <1>7, <1>8, <1>9, <1>10, <1>11, <1>12

LEMMA ServeKeeps ==
    ASSUME IInv, NEW w \in Workers, Serve(w)
    PROVE  IInv'
<1> USE DEF IInv, InCall, NotPosted, Serving, Responding, SameProcess, Goto, WGoto,
           callerVars, slotVars, nameVars, segVars, serverVars, workerVars, history
<1>a. /\ wpc[w] = "serve"
      /\ \E x : /\ body' = [body EXCEPT ![wreq[w].call] = x]
                /\ x = IF ThroughData(wreq[w].call) THEN data ELSE wreq[w].body
      /\ \/ wpc' = [wpc EXCEPT ![w] = "open"] /\ UNCHANGED <<wreq, wseg>>
         \/ /\ wpc' = [wpc EXCEPT ![w] = "top"]
            /\ wreq' = [wreq EXCEPT ![w] = NoRequest]
            /\ wseg' = [wseg EXCEPT ![w] = NoSegment]
      /\ UNCHANGED <<callerVars, slotVars, nameVars, segVars, serverVars,
                     posted, taken>>
  BY DEF Serve, Continue
<1>c. UNCHANGED <<callerVars, slotVars, nameVars, segVars, serverVars, posted,
                  taken>>
  BY <1>a
<1>t. /\ body \in [Calls -> CallOrNone]
      /\ wpc \in [Workers -> WPC]
      /\ wreq \in [Workers -> [call : CallOrNone, body : CallOrNone]]
      /\ wseg \in [Workers -> Segment]
  BY DEF TypeOK
<1>b. /\ wreq[w].call \in Calls /\ wreq[w].call \in taken /\ wreq[w].call \in ToSet(posted)
      /\ body[wreq[w].call] = None
  <2>1. wreq[w].call \in taken /\ body[wreq[w].call] = None /\ taken \subseteq ToSet(posted)
    BY <1>a DEF TakenInv, BoxInv
  <2>2. taken \subseteq Calls
    BY DEF TypeOK
  <2>3. QED
    BY <2>1, <2>2
<1>d. PICK x : /\ body' = [body EXCEPT ![wreq[w].call] = x]
               /\ x = IF ThroughData(wreq[w].call) THEN data ELSE wreq[w].body
  BY <1>a
<1>e. /\ x \in Calls /\ x <= calls
      /\ ThroughData(wreq[w].call) => ThroughData(x) /\ ~PostedBefore(x, wreq[w].call)
      /\ ~ThroughData(wreq[w].call) => x = wreq[w].call
  <2>1. CASE ThroughData(wreq[w].call)
    <3>1. x = data /\ data # None /\ ThroughData(data) /\ ~PostedBefore(data, wreq[w].call)
      BY <1>b, <1>d, <2>1 DEF DataInv
    <3>2. data \in Calls /\ data <= calls
      BY <3>1, NatFacts DEF DataInv
    <3>3. QED
      BY <2>1, <3>1, <3>2
  <2>2. CASE ~ThroughData(wreq[w].call)
    <3>1. x = wreq[w].call
      BY <1>a, <1>d, <2>2 DEF DataInv
    <3>2. wreq[w].call <= calls
      BY <1>b, NatFacts DEF BoxInv
    <3>3. QED
      BY <1>b, <2>2, <3>1, <3>2
  <2>3. QED
    BY <2>1, <2>2
<1>ft. /\ body' \in [Calls -> CallOrNone]
      /\ wpc' \in [Workers -> WPC]
      /\ wreq' \in [Workers -> [call : CallOrNone, body : CallOrNone]]
      /\ wseg' \in [Workers -> Segment]
  <2>1. body' \in [Calls -> CallOrNone]
    BY <1>d, <1>e, <1>t DEF CallOrNone
  <2>2. NoRequest \in [call : CallOrNone, body : CallOrNone] /\ NoSegment \in Segment
    BY DEF NoRequest, NoSegment, Segment, CallOrNone
  <2>3. wpc' \in [Workers -> WPC]
    BY <1>a, <1>t DEF WPC
  <2>4. wreq' \in [Workers -> [call : CallOrNone, body : CallOrNone]]
    BY <1>a, <1>t, <2>2
  <2>5. wseg' \in [Workers -> Segment]
    BY <1>a, <1>t, <2>2
  <2>6. QED
    BY <2>1, <2>3, <2>4, <2>5
<1>g. /\ \A v \in Workers : wreq[v].call \in Calls \cup {None}
      /\ \A k \in Calls : answer[k].from \in Calls \cup {None} /\ got[k] \in Calls \cup {None}
  BY DEF TypeOK, CallOrNone
<1>f. /\ body'[wreq[w].call] = x /\ x # None
      /\ \A k \in Calls : k # wreq[w].call => body'[k] = body[k]
      /\ \A k \in Calls : body[k] # None => body'[k] # None
  BY <1>b, <1>d, <1>e, <1>t DEF None, Calls
<1>s. /\ \A k : Sender(k)' = Sender(k)
      /\ \A k : Shared(k)' <=> Shared(k)
      /\ \A k : ThroughData(k)' <=> ThroughData(k)
      /\ \A j, k : PostedBefore(j, k)' <=> PostedBefore(j, k)
      /\ \A d : Patient(d)' <=> Patient(d)
      /\ \A k : GaveUp(k)' <=> GaveUp(k)
  BY <1>c DEF Sender, Shared, ThroughData, PostedBefore, Patient, GaveUp
<1>o. /\ \A d \in Callers : Alone(d)' <=> Alone(d)
      /\ \A d \in Callers : OwnNames(d)' <=> OwnNames(d)
  BY <1>c, <1>s DEF Alone, OwnNames
<1>v. \A v \in Workers \ {w} : wpc'[v] = wpc[v] /\ wreq'[v] = wreq[v] /\ wseg'[v] = wseg[v]
  BY <1>a, <1>t
<1>w. /\ wpc[w] = "serve"
      /\ (wpc'[w] = "open" /\ wreq'[w] = wreq[w]) \/ wpc'[w] = "top"
  BY <1>a, <1>t
<1>u. \A k : k # None /\ Pending(k)' => Pending(k)
  BY <1>a, <1>v, <1>w DEF Pending
<1>1. TypeOK'
  BY <1>c, <1>ft DEF TypeOK
<1>2. NameInv'
  BY <1>c, <1>s, <1>o, <1>v, <1>w DEF NameInv
<1>3. TakenInv'
  <2>1. \A k \in Calls : body'[k] # None => k \in taken /\ body'[k] <= calls
    BY <1>b, <1>e, <1>f DEF TakenInv
  <2>2. \A v \in Workers \ {w} : Serving(v) => wreq[v].call # wreq[w].call
    BY <1>w DEF TakenInv
  <2>3. \A v \in Workers \ {w} : wpc[v] = "serve" => body'[wreq[v].call] = None
    <3> SUFFICES ASSUME NEW v \in Workers \ {w}, wpc[v] = "serve"
                 PROVE  body'[wreq[v].call] = None
      OBVIOUS
    <3>1. wreq[v].call \in taken /\ body[wreq[v].call] = None /\ taken \subseteq Calls
      BY DEF TakenInv, TypeOK
    <3>2. QED
      BY <1>f, <2>2, <3>1
  <2>4. ASSUME NEW v \in Workers, wpc'[v] \in {"open", "respond", "fill"}
        PROVE  wreq'[v].call \in taken /\ body'[wreq'[v].call] # None
    <3>1. CASE v = w
      BY <1>b, <1>f, <1>w, <2>4, <3>1
    <3>2. CASE v # w
      <4>1. wreq[v].call \in taken /\ body[wreq[v].call] # None /\ taken \subseteq Calls
        BY <1>v, <2>4, <3>2 DEF TakenInv, TypeOK
      <4>2. QED
        BY <1>f, <1>v, <3>2, <4>1
    <3>3. QED
      BY <3>1, <3>2
  <2>5. ASSUME NEW v \in Workers, wpc'[v] = "serve"
        PROVE  wreq'[v].call \in taken /\ body'[wreq'[v].call] = None
    BY <1>v, <1>w, <2>3, <2>5 DEF TakenInv
  <2>6. \A v, u \in Workers : Serving(v)' /\ Serving(u)' /\ v # u => wreq'[v].call # wreq'[u].call
    BY <1>v, <1>w DEF TakenInv
  <2>7. QED
    BY <1>c, <2>1, <2>4, <2>5, <2>6 DEF TakenInv
<1>4. DataInv'
  BY <1>c, <1>s, <1>o, <1>v, <1>w DEF DataInv
<1>5. AnswerInv'
  BY <1>c, <1>s, <1>o, <1>f, <1>g, <1>v, <1>w DEF AnswerInv, NoAnswer
<1>6. GotInv'
  <2> SUFFICES ASSUME NEW k \in Calls, got[k] # None
               PROVE  body'[got[k]] # None /\ \A v \in Workers : Serving(v)' => wreq'[v].call # got[k]
    BY <1>c, <1>s DEF GotInv
  <2>1. body[got[k]] # None /\ \A v \in Workers : Serving(v) => wreq[v].call # got[k]
    BY DEF GotInv
  <2>2. got[k] \in Calls
    BY <1>g
  <2>3. QED
    BY <1>f, <1>v, <1>w, <2>1, <2>2
<1>7. AloneInv'
  BY <1>c, <1>s, <1>o, <1>v, <1>w DEF AloneInv, OwnSem, WholeOrFilling
<1>8. PatientInv'
  BY <1>c, <1>s, <1>o, <1>u, <1>v, <1>w DEF PatientInv, None
<1>9. BodyIntact'
  BY <1>c, <1>s, <1>o, <1>b, <1>e, <1>f DEF BodyIntact
<1>10. CallInv' /\ SlotInv' /\ BoxInv'
  BY <1>c, <1>s, <1>o DEF CallInv, SlotInv, BoxInv
<1>11. FreshInv' /\ OpenInv' /\ OwnInv'
  BY <1>c, <1>s, <1>o DEF FreshInv, OpenInv, OwnInv
<1>12. CheckAnswerWhole' /\ Excused'
  BY <1>c, <1>s, <1>o DEF CheckAnswerWhole, Excused
<1>13. QED
  BY <1>1, <1>2, <1>3, <1>4, <1>5, <1>6, <1>7, <1>8, <1>9, <1>10, <1>11, <1>12

LEMMA OpenKeeps ==
    ASSUME IInv, NEW w \in Workers, Open(w)
    PROVE  IInv'
<1> USE DEF IInv, InCall, NotPosted, Serving, Responding, SameProcess, Goto, WGoto,
           callerVars, slotVars, nameVars, segVars, serverVars, workerVars, history
<1>a. /\ wpc[w] = "open"
      /\ \/ /\ wpc' = [wpc EXCEPT ![w] = "top"]
            /\ wreq' = [wreq EXCEPT ![w] = NoRequest]
            /\ wseg' = [wseg EXCEPT ![w] = NoSegment]
         \/ /\ shmName[Sender(wreq[w].call)] # None
            /\ wpc' = [wpc EXCEPT ![w] = "respond"]
            /\ wseg' = [wseg EXCEPT ![w] = Opened(Sender(wreq[w].call))]
            /\ UNCHANGED wreq
      /\ UNCHANGED <<callerVars, slotVars, nameVars, segVars, serverVars,
                     history>>
  BY DEF Open, Continue
<1>c. UNCHANGED <<callerVars, slotVars, nameVars, segVars, serverVars, history>>
  BY <1>a
<1>t. /\ wpc \in [Workers -> WPC]
      /\ wreq \in [Workers -> [call : CallOrNone, body : CallOrNone]]
      /\ wseg \in [Workers -> Segment]
      /\ shmName \in [Procs -> CallOrNone]
      /\ semName \in [Procs -> CallOrNone]
  BY DEF TypeOK
<1>b. /\ wreq[w].call \in 1..calls /\ Sender(wreq[w].call) \in Procs
  <2>1. wreq[w].call \in 1..calls
    BY <1>a DEF TakenInv, BoxInv
  <2>2. QED
    BY <2>1, SenderType
<1>ft. /\ wpc' \in [Workers -> WPC]
      /\ wreq' \in [Workers -> [call : CallOrNone, body : CallOrNone]]
      /\ wseg' \in [Workers -> Segment]
  <2>1. NoRequest \in [call : CallOrNone, body : CallOrNone] /\ NoSegment \in Segment
    BY DEF NoRequest, NoSegment, Segment, CallOrNone
  <2>2. Opened(Sender(wreq[w].call)) \in Segment
    BY <1>b, <1>t DEF TypeOK, Opened, Segment
  <2>3. wpc' \in [Workers -> WPC]
    BY <1>a, <1>t DEF WPC
  <2>4. wreq' \in [Workers -> [call : CallOrNone, body : CallOrNone]]
    BY <1>a, <1>t, <2>1
  <2>5. wseg' \in [Workers -> Segment]
    BY <1>a, <1>t, <2>1, <2>2
  <2>6. QED
    BY <2>3, <2>4, <2>5
<1>s. /\ \A k : Sender(k)' = Sender(k)
      /\ \A k : Shared(k)' <=> Shared(k)
      /\ \A k : ThroughData(k)' <=> ThroughData(k)
      /\ \A j, k : PostedBefore(j, k)' <=> PostedBefore(j, k)
      /\ \A d : Patient(d)' <=> Patient(d)
      /\ \A k : GaveUp(k)' <=> GaveUp(k)
  BY <1>c DEF Sender, Shared, ThroughData, PostedBefore, Patient, GaveUp
<1>o. /\ \A d \in Callers : Alone(d)' <=> Alone(d)
      /\ \A d \in Callers : OwnNames(d)' <=> OwnNames(d)
  BY <1>c, <1>s DEF Alone, OwnNames
<1>v. \A v \in Workers \ {w} : wpc'[v] = wpc[v] /\ wreq'[v] = wreq[v] /\ wseg'[v] = wseg[v]
  BY <1>a, <1>t
<1>w. /\ wpc[w] = "open"
      /\ \/ wpc'[w] = "top"
         \/ /\ wpc'[w] = "respond" /\ wreq'[w] = wreq[w]
            /\ shmName[Sender(wreq[w].call)] # None
            /\ wseg'[w].shm = shmName[Sender(wreq[w].call)]
            /\ wseg'[w].sem = semName[Sender(wreq[w].call)]
            /\ wseg'[w].lost = {} /\ wseg'[w].late = ~up
  BY <1>a, <1>t DEF Opened
<1>u. \A k : k # None /\ Pending(k)' => Pending(k)
  BY <1>a, <1>v, <1>w DEF Pending
<1>1. TypeOK'
  BY <1>c, <1>ft DEF TypeOK
<1>2. NameInv'
  <2>1. ASSUME NEW v \in Workers, Responding(v)'
        PROVE  /\ {wseg'[v].shm, wseg'[v].sem} \subseteq 1..calls
               /\ SameProcess(wseg'[v].shm, wreq'[v].call)
               /\ SameProcess(wseg'[v].sem, wreq'[v].call)
               /\ up => wseg'[v].lost = {} /\ ~wseg'[v].late
    <3>1. CASE v = w
      <4>1. /\ wreq'[w] = wreq[w] /\ shmName[Sender(wreq[w].call)] # None
            /\ wseg'[w].shm = shmName[Sender(wreq[w].call)]
            /\ wseg'[w].sem = semName[Sender(wreq[w].call)]
        BY <1>w, <2>1, <3>1
      <4>2. up => wseg'[w].lost = {} /\ ~wseg'[w].late
        BY <1>w, <2>1, <3>1
      <4>3. QED
        BY <1>b, <3>1, <4>1, <4>2 DEF NameInv
    <3>2. CASE v # w
      BY <1>v, <2>1, <3>2 DEF NameInv
    <3>3. QED
      BY <3>1, <3>2
  <2>2. QED
    BY <1>c, <1>s, <2>1 DEF NameInv
<1>3. TakenInv'
  BY <1>c, <1>s, <1>o, <1>v, <1>w DEF TakenInv
<1>4. DataInv'
  BY <1>c, <1>s, <1>o, <1>v, <1>w DEF DataInv
<1>5. AnswerInv'
  BY <1>c, <1>s, <1>o, <1>v, <1>w DEF AnswerInv, NoAnswer
<1>6. GotInv'
  BY <1>c, <1>s, <1>o, <1>v, <1>w DEF GotInv
<1>7. AloneInv'
  <2> SUFFICES ASSUME NEW d \in Callers, Alone(d), up
               PROVE  OwnSem(d)' /\ WholeOrFilling(d)'
    BY <1>c, <1>o DEF AloneInv
  <2>1. OwnNames(d) /\ OwnSem(d) /\ WholeOrFilling(d)
    BY DEF AloneInv
  <2>2. WholeOrFilling(d)'
    BY <1>c, <1>v, <1>w, <2>1 DEF WholeOrFilling
  <2>3. wpc'[w] = "respond" /\ Sender(wreq[w].call) = proc[d] => wseg'[w].shm = wseg'[w].sem
    BY <1>w, <2>1 DEF OwnNames
  <2>4. QED
    BY <1>c, <1>s, <1>v, <1>w, <2>1, <2>2, <2>3 DEF OwnSem
<1>8. PatientInv'
  <2> SUFFICES ASSUME NEW d \in Callers, Alone(d), Patient(d)
               PROVE  /\ \A k \in 1..calls : of[k] = {d} =>
                          /\ answer[k].from \in {None, k}
                          /\ Pending(k)' => k = call[d] /\ pc[d] \in {"wait", "look"}
                      /\ \A v \in Workers : wpc'[v] = "respond" /\ of[wreq'[v].call] = {d} =>
                          wseg'[v].shm = wreq'[v].call
    BY <1>c, <1>s, <1>o DEF PatientInv
  <2>1. ASSUME wpc'[w] = "respond", of[wreq[w].call] = {d}
        PROVE  wseg'[w].shm = wreq[w].call
    <3>1. Pending(wreq[w].call)
      BY <1>w DEF Pending
    <3>2. wreq[w].call = call[d] /\ pc[d] \in {"wait", "look"}
      BY <1>b, <2>1, <3>1 DEF PatientInv
    <3>3. shmName[proc[d]] = call[d]
      BY <3>2 DEF AloneInv, OwnNames
    <3>4. Sender(wreq[w].call) = proc[d]
      BY <2>1, SenderOf
    <3>5. QED
      BY <1>w, <2>1, <3>2, <3>3, <3>4
  <2>2. QED
    BY <1>u, <1>v, <1>w, <2>1, NatFacts DEF PatientInv, None
<1>9. CallInv' /\ SlotInv' /\ BoxInv'
  BY <1>c, <1>s, <1>o DEF CallInv, SlotInv, BoxInv
<1>10. FreshInv' /\ OpenInv' /\ OwnInv'
  BY <1>c, <1>s, <1>o DEF FreshInv, OpenInv, OwnInv
<1>11. BodyIntact' /\ CheckAnswerWhole' /\ Excused'
  BY <1>c, <1>s, <1>o DEF BodyIntact, CheckAnswerWhole, Excused
<1>12. QED
  BY <1>1, <1>2, <1>3, <1>4, <1>5, <1>6, <1>7, <1>8, <1>9, <1>10, <1>11

LEMMA RespondKeeps ==
    ASSUME IInv, NEW w \in Workers, Respond(w)
    PROVE  IInv'
<1> USE DEF IInv, InCall, NotPosted, Serving, Responding, SameProcess, Goto, WGoto,
           callerVars, slotVars, nameVars, segVars, serverVars, workerVars, history
<1>z. wpc[w] = "respond" /\ (up => wseg[w].lost = {})
  BY DEF Respond, NameInv
<1>a. /\ wpc[w] = "respond" /\ (up => sem[wseg[w].sem] = Free)
      /\ \E n \in {0, 8} :
            /\ answer' = [answer EXCEPT ![wseg[w].shm] = [from |-> wreq[w].call, size |-> n]]
            /\ \/ /\ wpc' = [wpc EXCEPT ![w] = "fill"]
                  /\ up => sem' = [sem EXCEPT ![wseg[w].sem] = w]
                  /\ UNCHANGED <<wreq, wseg>>
               \/ /\ n = 0
                  /\ wpc' = [wpc EXCEPT ![w] = "top"]
                  /\ wreq' = [wreq EXCEPT ![w] = NoRequest]
                  /\ wseg' = [wseg EXCEPT ![w] = NoSegment]
                  /\ up => sem' = sem
      /\ sem' \in {sem, [sem EXCEPT ![wseg[w].sem] = w]}
      /\ UNCHANGED <<callerVars, slotVars, nameVars, whole, serverVars,
                     history>>
  <2>1. up => ~Lost(w, "wait") /\ ~Lost(w, "post")
    BY <1>z DEF Lost
  <2>2. sem' \in {sem, Acquired(w)} /\ Acquired(w) \in {sem, [sem EXCEPT ![wseg[w].sem] = w]}
    BY DEF Respond, Acquired
  <2>3. up => sem[wseg[w].sem] = Free /\ Acquired(w) = [sem EXCEPT ![wseg[w].sem] = w]
    BY <2>1 DEF Respond, Enters, Acquired
  <2>4. CASE kind[wreq[w].call] = "check"
    BY <1>z, <2>2, <2>3, <2>4 DEF Respond
  <2>5. CASE kind[wreq[w].call] # "check"
    BY <1>z, <2>1, <2>2, <2>3, <2>5 DEF Respond, Continue
  <2>6. QED
    BY <2>4, <2>5
<1>c. UNCHANGED <<callerVars, slotVars, nameVars, whole, serverVars, history>>
  BY <1>a
<1>t. /\ wpc \in [Workers -> WPC]
      /\ wreq \in [Workers -> [call : CallOrNone, body : CallOrNone]]
      /\ wseg \in [Workers -> Segment]
      /\ sem \in [Calls -> Holders]
      /\ answer \in [Calls -> [from : CallOrNone, size : {0, 8}]]
  BY DEF TypeOK
<1>b. /\ wreq[w].call \in 1..calls /\ wreq[w].call \in Calls /\ wreq[w].call # None
      /\ body[wreq[w].call] # None /\ wreq[w].call \in taken
      /\ wseg[w].shm \in 1..calls /\ wseg[w].shm \in Calls
      /\ wseg[w].sem \in 1..calls /\ wseg[w].sem \in Calls
      /\ Sender(wseg[w].shm) = Sender(wreq[w].call)
      /\ Sender(wseg[w].sem) = Sender(wreq[w].call)
      /\ Sender(wreq[w].call) \in Procs
  <2>1. wreq[w].call \in 1..calls /\ wreq[w].call \in taken /\ body[wreq[w].call] # None
    BY <1>a DEF TakenInv, BoxInv
  <2>2. /\ {wseg[w].shm, wseg[w].sem} \subseteq 1..calls
        /\ Sender(wseg[w].shm) = Sender(wreq[w].call)
        /\ Sender(wseg[w].sem) = Sender(wreq[w].call)
    BY <1>a DEF NameInv
  <2>3. QED
    BY <2>1, <2>2, SenderType, NatFacts DEF None
<1>d. PICK n \in {0, 8} :
            /\ answer' = [answer EXCEPT ![wseg[w].shm] = [from |-> wreq[w].call, size |-> n]]
            /\ \/ /\ wpc' = [wpc EXCEPT ![w] = "fill"]
                  /\ up => sem' = [sem EXCEPT ![wseg[w].sem] = w]
                  /\ UNCHANGED <<wreq, wseg>>
               \/ /\ n = 0
                  /\ wpc' = [wpc EXCEPT ![w] = "top"]
                  /\ wreq' = [wreq EXCEPT ![w] = NoRequest]
                  /\ wseg' = [wseg EXCEPT ![w] = NoSegment]
                  /\ up => sem' = sem
  BY <1>a
<1>f. sem' \in {sem, [sem EXCEPT ![wseg[w].sem] = w]}
  BY <1>a
<1>e. /\ answer'[wseg[w].shm].from = wreq[w].call /\ answer'[wseg[w].shm].size = n
      /\ \A s \in Calls : s # wseg[w].shm => answer'[s] = answer[s]
      /\ \A s \in Calls : s # wseg[w].sem => sem'[s] = sem[s]
  BY <1>b, <1>d, <1>f, <1>t
<1>ft. /\ answer' \in [Calls -> [from : CallOrNone, size : {0, 8}]]
      /\ sem' \in [Calls -> Holders]
      /\ wpc' \in [Workers -> WPC]
      /\ wreq' \in [Workers -> [call : CallOrNone, body : CallOrNone]]
      /\ wseg' \in [Workers -> Segment]
  <2>1. /\ NoRequest \in [call : CallOrNone, body : CallOrNone]
        /\ NoSegment \in Segment
        /\ [from |-> wreq[w].call, size |-> n] \in [from : CallOrNone, size : {0, 8}]
        /\ w \in Holders
    BY <1>b DEF NoRequest, NoSegment, Segment, CallOrNone, Holders
  <2>2. answer' \in [Calls -> [from : CallOrNone, size : {0, 8}]]
    BY <1>d, <1>t, <2>1
  <2>3. sem' \in [Calls -> Holders]
    BY <1>f, <1>t, <2>1
  <2>4. wpc' \in [Workers -> WPC]
    BY <1>d, <1>t DEF WPC
  <2>5. wreq' \in [Workers -> [call : CallOrNone, body : CallOrNone]]
    BY <1>d, <1>t, <2>1
  <2>6. wseg' \in [Workers -> Segment]
    BY <1>d, <1>t, <2>1
  <2>7. QED
    BY <2>2, <2>3, <2>4, <2>5, <2>6
<1>s. /\ \A k : Sender(k)' = Sender(k)
      /\ \A k : Shared(k)' <=> Shared(k)
      /\ \A k : ThroughData(k)' <=> ThroughData(k)
      /\ \A j, k : PostedBefore(j, k)' <=> PostedBefore(j, k)
      /\ \A d : Patient(d)' <=> Patient(d)
      /\ \A k : GaveUp(k)' <=> GaveUp(k)
  BY <1>c DEF Sender, Shared, ThroughData, PostedBefore, Patient, GaveUp
<1>o. /\ \A d \in Callers : Alone(d)' <=> Alone(d)
      /\ \A d \in Callers : OwnNames(d)' <=> OwnNames(d)
  BY <1>c, <1>s DEF Alone, OwnNames
<1>v. \A v \in Workers \ {w} : wpc'[v] = wpc[v] /\ wreq'[v] = wreq[v] /\ wseg'[v] = wseg[v]
  BY <1>d, <1>t
<1>w. /\ wpc[w] = "respond" /\ (up => sem[wseg[w].sem] = Free)
      /\ \/ /\ wpc'[w] = "fill" /\ wreq'[w] = wreq[w] /\ wseg'[w] = wseg[w]
            /\ up => sem'[wseg[w].sem] = w
         \/ wpc'[w] = "top" /\ n = 0 /\ (up => sem' = sem)
  BY <1>a, <1>b, <1>d, <1>t
<1>x. /\ \A s \in Calls : answer[s].from # wreq[w].call
      /\ \A v \in Workers \ {w} : Serving(v) => wreq[v].call # wreq[w].call
      /\ \A k \in Calls : got[k] # wreq[w].call
  BY <1>b, <1>w DEF TakenInv, AnswerInv, GotInv
<1>u. \A k : k # None /\ Pending(k)' => Pending(k)
  BY <1>a, <1>v, <1>w DEF Pending
<1>1. TypeOK'
  BY <1>c, <1>ft DEF TypeOK
<1>2. NameInv'
  BY <1>c, <1>s, <1>o, <1>b, <1>v, <1>w DEF NameInv
<1>3. TakenInv'
  BY <1>c, <1>s, <1>o, <1>b, <1>v, <1>w DEF TakenInv
<1>4. DataInv'
  BY <1>c, <1>s, <1>o, <1>v, <1>w DEF DataInv
<1>5. AnswerInv'
  <2> SUFFICES ASSUME NEW s \in Calls
               PROVE  /\ s > calls => answer'[s] = NoAnswer
                      /\ answer'[s].from # None =>
                          /\ body[answer'[s].from] # None
                          /\ SameProcess(s, answer'[s].from)
                          /\ \A v \in Workers : Serving(v)' => wreq'[v].call # answer'[s].from
                          /\ \A r \in Calls : answer'[r].from = answer'[s].from => r = s
    BY <1>c, <1>s DEF AnswerInv, NoAnswer
  <2>1. CASE s = wseg[w].shm
    <3>1. ~(s > calls)
      BY <1>b, <2>1, NatFacts
    <3>2. \A r \in Calls : answer'[r].from = wreq[w].call => r = s
      BY <1>e, <1>x, <2>1
    <3>3. \A v \in Workers : Serving(v)' => wreq'[v].call # wreq[w].call
      BY <1>x, <1>v, <1>w
    <3>4. QED
      BY <1>b, <1>e, <2>1, <3>1, <3>2, <3>3
  <2>2. CASE s # wseg[w].shm
    <3>1. answer'[s] = answer[s]
      BY <1>e, <2>2
    <3>2. answer[s].from # None => \A r \in Calls : answer'[r].from = answer[s].from => r = s
      BY <1>e, <1>x, <2>2 DEF AnswerInv
    <3>3. answer[s].from # None => \A v \in Workers : Serving(v)' => wreq'[v].call # answer[s].from
      BY <1>v, <1>w DEF AnswerInv
    <3>4. QED
      BY <3>1, <3>2, <3>3 DEF AnswerInv, NoAnswer
  <2>3. QED
    BY <2>1, <2>2
<1>6. GotInv'
  BY <1>c, <1>s, <1>o, <1>v, <1>w DEF GotInv
<1>7. OwnInv'
  <2>1. \A k \in Calls : got[k] = k => \A s \in Calls : answer'[s].from = k => s = shm[k]
    BY <1>e, <1>x DEF OwnInv
  <2>2. QED
    BY <1>c, <2>1 DEF OwnInv
<1>8. AloneInv'
  <2> SUFFICES ASSUME NEW d \in Callers, Alone(d), up
               PROVE  OwnSem(d)' /\ WholeOrFilling(d)'
    BY <1>c, <1>o DEF AloneInv
  <2>1. OwnNames(d) /\ OwnSem(d) /\ WholeOrFilling(d)
    BY DEF AloneInv
  <2>2. WholeOrFilling(d)'
    <3> SUFFICES ASSUME InCall(d), answer'[call[d]].size # 0, ~whole[call[d]]
                 PROVE  \E v \in Workers : \/ wpc'[v] = "fill" /\ wseg'[v].shm = call[d]
                                           \/ wpc'[v] = "dead" /\ sem'[call[d]] = v
      BY <1>c DEF WholeOrFilling
    <3>1. CASE call[d] = wseg[w].shm
      <4>1. wpc'[w] = "fill" /\ wseg'[w] = wseg[w]
        BY <1>e, <1>w, <3>1
      <4>2. QED
        BY <3>1, <4>1
    <3>2. CASE call[d] # wseg[w].shm
      <4>1. PICK v \in Workers : \/ wpc[v] = "fill" /\ wseg[v].shm = call[d]
                                 \/ wpc[v] = "dead" /\ sem[call[d]] = v
        BY <1>e, <2>1, <3>2, InCallFacts DEF WholeOrFilling
      <4>2. sem[call[d]] = v => sem'[call[d]] = v
        BY <1>e, <1>w, InCallFacts, IpcAssumption DEF Free
      <4>3. QED
        BY <1>v, <1>w, <4>1, <4>2
    <3>3. QED
      BY <3>1, <3>2
  <2>3. pc[d] = "look" => sem'[call[d]] = d
    BY <1>e, <1>w, <2>1, InCallFacts, IpcAssumption DEF OwnSem, Free
  <2>4. ASSUME NEW v \in Workers, Responding(v)', Sender(wreq'[v].call) = proc[d]
        PROVE  /\ wseg'[v].shm = wseg'[v].sem
               /\ wpc'[v] = "fill" => sem'[wseg'[v].sem] = v
    <3>1. CASE v = w
      BY <1>w, <2>1, <2>4, <3>1 DEF OwnSem
    <3>2. CASE v # w
      <4>1. /\ wseg[v].shm = wseg[v].sem
            /\ wpc[v] = "fill" => sem[wseg[v].sem] = v
        BY <1>v, <2>1, <2>4, <3>2 DEF OwnSem
      <4>2. wseg[v].sem \in Calls
        BY <1>v, <2>4, <3>2, NatFacts DEF NameInv
      <4>3. v # Free
        BY IpcAssumption DEF Free
      <4>4. QED
        BY <1>e, <1>v, <1>w, <3>2, <4>1, <4>2, <4>3
    <3>3. QED
      BY <3>1, <3>2
  <2>5. QED
    BY <1>c, <1>s, <2>2, <2>3, <2>4 DEF OwnSem
<1>9. PatientInv'
  <2> SUFFICES ASSUME NEW d \in Callers, Alone(d), Patient(d)
               PROVE  /\ \A k \in 1..calls : of[k] = {d} =>
                          /\ answer'[k].from \in {None, k}
                          /\ Pending(k)' => k = call[d] /\ pc[d] \in {"wait", "look"}
                      /\ \A v \in Workers : wpc'[v] = "respond" /\ of[wreq'[v].call] = {d} =>
                          wseg'[v].shm = wreq'[v].call
    BY <1>c, <1>s, <1>o DEF PatientInv
  <2>1. ASSUME NEW k \in 1..calls, of[k] = {d}
        PROVE  answer'[k].from \in {None, k}
    <3>1. CASE k = wseg[w].shm
      <4>1. Sender(wreq[w].call) = proc[d]
        BY <1>b, <2>1, <3>1, SenderOf
      <4>2. of[wreq[w].call] = {d}
        BY <1>b, <4>1, OwnCalls
      <4>3. wseg[w].shm = wreq[w].call
        BY <1>w, <4>2 DEF PatientInv
      <4>4. QED
        BY <1>e, <3>1, <4>3
    <3>2. CASE k # wseg[w].shm
      BY <1>e, <2>1, <3>2, NatFacts DEF PatientInv
    <3>3. QED
      BY <3>1, <3>2
  <2>2. \A v \in Workers : wpc'[v] = "respond" /\ of[wreq'[v].call] = {d} =>
                          wseg'[v].shm = wreq'[v].call
    BY <1>v, <1>w DEF PatientInv
  <2>3. QED
    BY <1>u, <2>1, <2>2, NatFacts DEF PatientInv, None
<1>10. CallInv' /\ SlotInv' /\ BoxInv'
  BY <1>c, <1>s, <1>o DEF CallInv, SlotInv, BoxInv
<1>11. FreshInv' /\ OpenInv' /\ BodyIntact'
  BY <1>c, <1>s, <1>o DEF FreshInv, OpenInv, BodyIntact
<1>12. CheckAnswerWhole' /\ Excused'
  BY <1>c, <1>s, <1>o DEF CheckAnswerWhole, Excused
<1>13. QED
  BY <1>1, <1>2, <1>3, <1>4, <1>5, <1>6, <1>7, <1>8, <1>9, <1>10, <1>11, <1>12

LEMMA RespondDataKeeps ==
    ASSUME IInv, NEW w \in Workers, RespondData(w)
    PROVE  IInv'
<1> USE DEF IInv, InCall, NotPosted, Serving, Responding, SameProcess, Goto, WGoto,
           callerVars, slotVars, nameVars, segVars, serverVars, workerVars, history
<1>z. wpc[w] = "fill" /\ (up => wseg[w].lost = {})
  BY DEF RespondData, NameInv
<1>a. /\ wpc[w] = "fill"
      /\ sem' \in {sem, [sem EXCEPT ![wseg[w].sem] = Free]}
      /\ up => sem' = [sem EXCEPT ![wseg[w].sem] = Free]
      /\ \/ whole' = IF shmName[Sender(wreq[w].call)] = None THEN whole
                     ELSE [whole EXCEPT ![shmName[Sender(wreq[w].call)]] = TRUE]
         \/ ~up /\ whole' = whole
      /\ wpc' = [wpc EXCEPT ![w] = "top"]
      /\ wreq' = [wreq EXCEPT ![w] = NoRequest]
      /\ wseg' = [wseg EXCEPT ![w] = NoSegment]
      /\ UNCHANGED <<callerVars, slotVars, nameVars, answer, serverVars,
                     history>>
  BY <1>z DEF RespondData, Continue, Released, Lost
<1>c. UNCHANGED <<callerVars, slotVars, nameVars, answer, serverVars, history>>
  BY <1>a
<1>t. /\ wpc \in [Workers -> WPC]
      /\ wreq \in [Workers -> [call : CallOrNone, body : CallOrNone]]
      /\ wseg \in [Workers -> Segment]
      /\ sem \in [Calls -> Holders]
      /\ whole \in [Calls -> BOOLEAN]
      /\ shmName \in [Procs -> CallOrNone]
  BY DEF TypeOK
<1>b. /\ wreq[w].call \in 1..calls /\ wreq[w].call \in Calls /\ wreq[w].call # None
      /\ body[wreq[w].call] # None /\ wreq[w].call \in taken
      /\ wseg[w].shm \in 1..calls /\ wseg[w].shm \in Calls
      /\ wseg[w].sem \in 1..calls /\ wseg[w].sem \in Calls
      /\ Sender(wseg[w].shm) = Sender(wreq[w].call)
      /\ Sender(wseg[w].sem) = Sender(wreq[w].call)
      /\ Sender(wreq[w].call) \in Procs
  <2>1. wreq[w].call \in 1..calls /\ wreq[w].call \in taken /\ body[wreq[w].call] # None
    BY <1>a DEF TakenInv, BoxInv
  <2>2. /\ {wseg[w].shm, wseg[w].sem} \subseteq 1..calls
        /\ Sender(wseg[w].shm) = Sender(wreq[w].call)
        /\ Sender(wseg[w].sem) = Sender(wreq[w].call)
    BY <1>a DEF NameInv
  <2>3. QED
    BY <2>1, <2>2, SenderType, NatFacts DEF None
<1>ft. /\ whole' \in [Calls -> BOOLEAN]
      /\ sem' \in [Calls -> Holders]
      /\ wpc' \in [Workers -> WPC]
      /\ wreq' \in [Workers -> [call : CallOrNone, body : CallOrNone]]
      /\ wseg' \in [Workers -> Segment]
  <2>1. /\ NoRequest \in [call : CallOrNone, body : CallOrNone]
        /\ NoSegment \in Segment
        /\ Free \in Holders
    BY DEF NoRequest, NoSegment, Segment, CallOrNone, Holders
  <2>2. whole' \in [Calls -> BOOLEAN]
    BY <1>a, <1>t
  <2>3. sem' \in [Calls -> Holders]
    BY <1>a, <1>t, <2>1
  <2>4. wpc' \in [Workers -> WPC]
    BY <1>a, <1>t DEF WPC
  <2>5. wreq' \in [Workers -> [call : CallOrNone, body : CallOrNone]]
    BY <1>a, <1>t, <2>1
  <2>6. wseg' \in [Workers -> Segment]
    BY <1>a, <1>t, <2>1
  <2>7. QED
    BY <2>2, <2>3, <2>4, <2>5, <2>6
<1>e. /\ \A s \in Calls : s # wseg[w].sem => sem'[s] = sem[s]
      /\ \A s \in Calls : whole[s] => whole'[s]
      /\ \A s \in Calls : up /\ s = shmName[Sender(wreq[w].call)] => whole'[s]
  <2>1. \A s \in Calls : s # None
    BY DEF Calls, None
  <2>2. QED
    BY <1>a, <1>b, <1>t, <2>1
<1>s. /\ \A k : Sender(k)' = Sender(k)
      /\ \A k : Shared(k)' <=> Shared(k)
      /\ \A k : ThroughData(k)' <=> ThroughData(k)
      /\ \A j, k : PostedBefore(j, k)' <=> PostedBefore(j, k)
      /\ \A d : Patient(d)' <=> Patient(d)
      /\ \A k : GaveUp(k)' <=> GaveUp(k)
  BY <1>c DEF Sender, Shared, ThroughData, PostedBefore, Patient, GaveUp
<1>o. /\ \A d \in Callers : Alone(d)' <=> Alone(d)
      /\ \A d \in Callers : OwnNames(d)' <=> OwnNames(d)
  BY <1>c, <1>s DEF Alone, OwnNames
<1>v. \A v \in Workers \ {w} : wpc'[v] = wpc[v] /\ wreq'[v] = wreq[v] /\ wseg'[v] = wseg[v]
  BY <1>a, <1>t
<1>w. wpc[w] = "fill" /\ wpc'[w] = "top" 
  BY <1>a, <1>t
<1>u. \A k : k # None /\ Pending(k)' => Pending(k)
  BY <1>a, <1>v, <1>w DEF Pending
<1>1. TypeOK'
  BY <1>c, <1>ft DEF TypeOK
<1>2. NameInv'
  BY <1>c, <1>s, <1>o, <1>v, <1>w DEF NameInv
<1>3. TakenInv'
  BY <1>c, <1>s, <1>o, <1>v, <1>w DEF TakenInv
<1>4. DataInv'
  BY <1>c, <1>s, <1>o, <1>v, <1>w DEF DataInv
<1>5. AnswerInv'
  BY <1>c, <1>s, <1>o, <1>v, <1>w DEF AnswerInv, NoAnswer
<1>6. GotInv'
  BY <1>c, <1>s, <1>o, <1>v, <1>w DEF GotInv
<1>7. AloneInv'
  <2> SUFFICES ASSUME NEW d \in Callers, Alone(d), up
               PROVE  OwnSem(d)' /\ WholeOrFilling(d)'
    BY <1>c, <1>o DEF AloneInv
  <2>1. OwnNames(d) /\ OwnSem(d) /\ WholeOrFilling(d)
    BY DEF AloneInv
  <2>2. Sender(wreq[w].call) = proc[d] => sem[wseg[w].sem] = w
    BY <1>w, <2>1 DEF OwnSem
  <2>3. WholeOrFilling(d)'
    <3> SUFFICES ASSUME InCall(d), answer[call[d]].size # 0, ~whole'[call[d]]
                 PROVE  \E v \in Workers : \/ wpc'[v] = "fill" /\ wseg'[v].shm = call[d]
                                           \/ wpc'[v] = "dead" /\ sem'[call[d]] = v
      BY <1>c DEF WholeOrFilling
    <3>1. PICK v \in Workers : \/ wpc[v] = "fill" /\ wseg[v].shm = call[d]
                               \/ wpc[v] = "dead" /\ sem[call[d]] = v
      BY <1>e, <2>1, InCallFacts DEF WholeOrFilling
    <3>2. CASE v = w
      <4>1. Sender(wreq[w].call) = proc[d]
        BY <1>b, <1>w, <3>1, <3>2, InCallFacts, SenderOf
      <4>2. shmName[proc[d]] = call[d]
        BY <2>1 DEF OwnNames
      <4>3. QED
        BY <1>e, <4>1, <4>2, InCallFacts
    <3>3. CASE v # w
      <4>1. ASSUME sem[call[d]] = v
            PROVE  sem'[call[d]] = v
        <5>1. call[d] # wseg[w].sem
          BY <1>b, <2>2, <3>3, <4>1, InCallFacts, SenderOf
        <5>2. QED
          BY <1>e, <4>1, <5>1, InCallFacts
      <4>2. QED
        BY <1>v, <3>1, <3>3, <4>1
    <3>4. QED
      BY <3>2, <3>3
  <2>4. ASSUME pc[d] = "look"
        PROVE  sem'[call[d]] = d
    <3>1. sem[call[d]] = d
      BY <2>1, <2>4 DEF OwnSem
    <3>2. call[d] # wseg[w].sem
      <4>1. CASE Sender(wreq[w].call) = proc[d]
        BY <2>2, <3>1, <4>1, IpcAssumption
      <4>2. CASE Sender(wreq[w].call) # proc[d]
        <5>1. Sender(call[d]) = proc[d]
          BY <2>4, InCallFacts, SenderOf
        <5>2. QED
          BY <1>b, <4>2, <5>1
      <4>3. QED
        BY <4>1, <4>2
    <3>3. QED
      BY <1>e, <2>4, <3>1, <3>2, InCallFacts
  <2>5. ASSUME NEW v \in Workers, Responding(v)', Sender(wreq'[v].call) = proc[d]
        PROVE  /\ wseg'[v].shm = wseg'[v].sem
               /\ wpc'[v] = "fill" => sem'[wseg'[v].sem] = v
    <3>1. v # w
      BY <1>w, <2>5
    <3>2. /\ wseg[v].shm = wseg[v].sem
          /\ wpc[v] = "fill" => sem[wseg[v].sem] = v
      BY <1>v, <2>1, <2>5, <3>1 DEF OwnSem
    <3>3. /\ wseg[v].sem \in Calls
          /\ Sender(wseg[v].sem) = proc[d]
      BY <1>v, <2>5, <3>1, NatFacts DEF NameInv
    <3>4. wpc[v] = "fill" => wseg[v].sem # wseg[w].sem
      BY <1>b, <2>2, <3>1, <3>2, <3>3
    <3>5. QED
      BY <1>e, <1>v, <3>1, <3>2, <3>3, <3>4
  <2>6. QED
    BY <1>c, <1>s, <2>3, <2>4, <2>5 DEF OwnSem
<1>8. PatientInv'
  BY <1>c, <1>s, <1>o, <1>u, <1>v, <1>w DEF PatientInv, None
<1>9. CallInv' /\ SlotInv' /\ BoxInv'
  BY <1>c, <1>s, <1>o DEF CallInv, SlotInv, BoxInv
<1>10. FreshInv' /\ OpenInv' /\ OwnInv'
  BY <1>c, <1>s, <1>o DEF FreshInv, OpenInv, OwnInv
<1>11. BodyIntact' /\ CheckAnswerWhole' /\ Excused'
  BY <1>c, <1>s, <1>o DEF BodyIntact, CheckAnswerWhole, Excused
<1>12. QED
  BY <1>1, <1>2, <1>3, <1>4, <1>5, <1>6, <1>7, <1>8, <1>9, <1>10, <1>11

LEMMA RespondFailsKeeps ==
    ASSUME IInv, NEW w \in Workers, RespondFails(w)
    PROVE  IInv'
<1> USE DEF IInv, InCall, NotPosted, Serving, Responding, SameProcess, Goto, WGoto,
           callerVars, slotVars, nameVars, segVars, serverVars, workerVars, history
<1>a. /\ wpc[w] = "respond"
      /\ sem' \in {sem, [sem EXCEPT ![wseg[w].sem] = w]}
      /\ wpc' = [wpc EXCEPT ![w] = "top"]
      /\ wreq' = [wreq EXCEPT ![w] = NoRequest]
      /\ wseg' = [wseg EXCEPT ![w] = NoSegment]
  BY DEF RespondFails, Continue, Acquired
<1>c. UNCHANGED <<callerVars, slotVars, nameVars, answer, whole, serverVars, history>>
  BY DEF RespondFails
<1>t. /\ wpc \in [Workers -> WPC]
      /\ wreq \in [Workers -> [call : CallOrNone, body : CallOrNone]]
      /\ wseg \in [Workers -> Segment]
      /\ sem \in [Calls -> Holders]
  BY DEF TypeOK
<1>ft. /\ sem' \in [Calls -> Holders]
       /\ wpc' \in [Workers -> WPC]
       /\ wreq' \in [Workers -> [call : CallOrNone, body : CallOrNone]]
       /\ wseg' \in [Workers -> Segment]
  <2>1. /\ NoRequest \in [call : CallOrNone, body : CallOrNone]
        /\ NoSegment \in Segment /\ w \in Holders
    BY DEF NoRequest, NoSegment, Segment, CallOrNone, Holders
  <2>2. sem' \in [Calls -> Holders]
    BY <1>a, <1>t, <2>1
  <2>3. wpc' \in [Workers -> WPC]
    BY <1>a, <1>t DEF WPC
  <2>4. wreq' \in [Workers -> [call : CallOrNone, body : CallOrNone]]
    BY <1>a, <1>t, <2>1
  <2>5. wseg' \in [Workers -> Segment]
    BY <1>a, <1>t, <2>1
  <2>6. QED
    BY <2>2, <2>3, <2>4, <2>5
<1>s. /\ \A k : Sender(k)' = Sender(k)
      /\ \A k : Shared(k)' <=> Shared(k)
      /\ \A k : ThroughData(k)' <=> ThroughData(k)
      /\ \A j, k : PostedBefore(j, k)' <=> PostedBefore(j, k)
      /\ \A d : Patient(d)' <=> Patient(d)
      /\ \A k : GaveUp(k)' <=> GaveUp(k)
  BY <1>c DEF Sender, Shared, ThroughData, PostedBefore, Patient, GaveUp
<1>o. /\ \A d \in Callers : Alone(d)' <=> Alone(d)
      /\ \A d \in Callers : OwnNames(d)' <=> OwnNames(d)
  BY <1>c, <1>s DEF Alone, OwnNames
<1>v. \A v \in Workers \ {w} : wpc'[v] = wpc[v] /\ wreq'[v] = wreq[v] /\ wseg'[v] = wseg[v]
  BY <1>a, <1>t
<1>w. wpc[w] = "respond" /\ wpc'[w] = "top" /\ ~up
  BY <1>a, <1>t DEF RespondFails, Lost, NameInv
<1>u. \A k : k # None /\ Pending(k)' => Pending(k)
  BY <1>c, <1>v, <1>w DEF Pending
<1>1. TypeOK'
  BY <1>c, <1>ft DEF TypeOK
<1>2. NameInv'
  BY <1>c, <1>s, <1>o, <1>v, <1>w DEF NameInv
<1>3. TakenInv'
  BY <1>c, <1>s, <1>o, <1>v, <1>w DEF TakenInv
<1>4. DataInv'
  BY <1>c, <1>s, <1>o, <1>v, <1>w DEF DataInv
<1>5. AnswerInv'
  BY <1>c, <1>s, <1>o, <1>v, <1>w DEF AnswerInv, NoAnswer
<1>6. GotInv'
  BY <1>c, <1>s, <1>o, <1>v, <1>w DEF GotInv
<1>7. AloneInv'
  BY <1>c, <1>o, <1>w DEF AloneInv
<1>8. PatientInv'
  BY <1>c, <1>s, <1>o, <1>u, <1>v, <1>w DEF PatientInv, None
<1>9. CallInv' /\ SlotInv' /\ BoxInv'
  BY <1>c, <1>s, <1>o DEF CallInv, SlotInv, BoxInv
<1>10. FreshInv' /\ OpenInv' /\ OwnInv'
  BY <1>c, <1>s, <1>o DEF FreshInv, OpenInv, OwnInv
<1>11. BodyIntact' /\ CheckAnswerWhole' /\ Excused'
  BY <1>c, <1>s, <1>o DEF BodyIntact, CheckAnswerWhole, Excused
<1>12. QED
  BY <1>1, <1>2, <1>3, <1>4, <1>5, <1>6, <1>7, <1>8, <1>9, <1>10, <1>11

-----------------------------------------------------------------------------
(* What DestroyIPC and the death of the server do to the workers.          *)

LEMMA ClosedTwiceKeeps ==
    ASSUME IInv, NEW w \in Workers, ClosedTwice(w)
    PROVE  IInv'
<1> USE DEF IInv, InCall, NotPosted, Serving, Responding, SameProcess, Goto, WGoto,
           callerVars, slotVars, nameVars, segVars, serverVars, workerVars, history
<1>c. UNCHANGED <<callerVars, slotVars, nameVars, segVars, serverVars, wpc, wreq, history>>
  BY DEF ClosedTwice
<1>t. wseg \in [Workers -> Segment]
  BY DEF TypeOK
<1>a. PICK what \in SUBSET {"shm", "wait", "post"} :
          wseg' = [wseg EXCEPT ![w].lost = @ \cup what]
  BY DEF ClosedTwice
<1>ft. wseg' \in [Workers -> Segment]
  <2>1. [wseg[w] EXCEPT !.lost = @ \cup what] \in Segment
    BY <1>t DEF Segment
  <2>2. wseg' = [wseg EXCEPT ![w] = [wseg[w] EXCEPT !.lost = @ \cup what]]
    BY <1>a
  <2>3. QED
    BY <1>t, <2>1, <2>2
<1>s. /\ \A k : Sender(k)' = Sender(k)
      /\ \A k : Shared(k)' <=> Shared(k)
      /\ \A k : ThroughData(k)' <=> ThroughData(k)
      /\ \A j, k : PostedBefore(j, k)' <=> PostedBefore(j, k)
      /\ \A d : Patient(d)' <=> Patient(d)
      /\ \A k : GaveUp(k)' <=> GaveUp(k)
  BY <1>c DEF Sender, Shared, ThroughData, PostedBefore, Patient, GaveUp
<1>o. /\ \A d \in Callers : Alone(d)' <=> Alone(d)
      /\ \A d \in Callers : OwnNames(d)' <=> OwnNames(d)
  BY <1>c, <1>s DEF Alone, OwnNames
<1>v. \A v \in Workers : wseg'[v].shm = wseg[v].shm /\ wseg'[v].sem = wseg[v].sem
  BY <1>a, <1>t DEF Segment
<1>w. ~up
  BY DEF ClosedTwice
<1>u. \A k : Pending(k)' <=> Pending(k)
  BY <1>c DEF Pending
<1>1. TypeOK'
  BY <1>c, <1>ft DEF TypeOK
<1>2. NameInv'
  BY <1>c, <1>s, <1>o, <1>v, <1>w DEF NameInv
<1>3. TakenInv'
  BY <1>c, <1>s, <1>o, <1>v, <1>w DEF TakenInv
<1>4. DataInv'
  BY <1>c, <1>s, <1>o, <1>v, <1>w DEF DataInv
<1>5. AnswerInv'
  BY <1>c, <1>s, <1>o, <1>v, <1>w DEF AnswerInv, NoAnswer
<1>6. GotInv'
  BY <1>c, <1>s, <1>o, <1>v, <1>w DEF GotInv
<1>7. AloneInv'
  BY <1>c, <1>o, <1>w DEF AloneInv
<1>8. PatientInv'
  BY <1>c, <1>s, <1>o, <1>u, <1>v, <1>w DEF PatientInv, None
<1>9. CallInv' /\ SlotInv' /\ BoxInv'
  BY <1>c, <1>s, <1>o DEF CallInv, SlotInv, BoxInv
<1>10. FreshInv' /\ OpenInv' /\ OwnInv'
  BY <1>c, <1>s, <1>o DEF FreshInv, OpenInv, OwnInv
<1>11. BodyIntact' /\ CheckAnswerWhole' /\ Excused'
  BY <1>c, <1>s, <1>o DEF BodyIntact, CheckAnswerWhole, Excused
<1>12. QED
  BY <1>1, <1>2, <1>3, <1>4, <1>5, <1>6, <1>7, <1>8, <1>9, <1>10, <1>11

(* The server's process dies. *)
LEMMA ServerDiesKeeps ==
    ASSUME IInv, ServerDies
    PROVE  IInv'
<1> USE DEF IInv, InCall, NotPosted, Serving, Responding, SameProcess, Goto, WGoto,
           callerVars, slotVars, nameVars, segVars, serverVars, workerVars, history
<1>a. /\ wpc' = [w \in Workers |-> "dead"]
      /\ wreq' = [w \in Workers |-> NoRequest]
      /\ wseg' = [w \in Workers |-> NoSegment]
      /\ serverSem' \in {serverSem, Server} /\ dataSem' \in {dataSem, Server}
      /\ serverSem' = serverSem \/ serverSem = Free
      /\ dpc' = "dead" /\ mainEnded' = TRUE
  BY DEF ServerDies
<1>c. UNCHANGED <<callerVars, slot, reqData, data, nameVars, answer, whole, up, queue, history>>
  BY DEF ServerDies
<1>d. PICK T : sem' = [k \in Calls |-> IF k \in T THEN Server ELSE sem[k]]
               /\ \A k \in T : sem[k] = Free
  BY DEF ServerDies
<1>t. /\ sem \in [Calls -> Holders]
      /\ {serverSem, dataSem} \subseteq Callers \cup {Free, Server}
  BY DEF TypeOK
<1>e. /\ sem' \in [Calls -> Holders]
      /\ \A k \in Calls : sem[k] # Free => sem'[k] = sem[k]
  BY <1>d, <1>t DEF Holders
<1>ft. /\ wpc' \in [Workers -> WPC]
       /\ wreq' \in [Workers -> [call : CallOrNone, body : CallOrNone]]
       /\ wseg' \in [Workers -> Segment]
       /\ {serverSem', dataSem'} \subseteq Callers \cup {Free, Server}
       /\ dpc' \in {"created", "unlinked", "stopped", "destroyed", "dead"}
       /\ mainEnded' \in BOOLEAN
  <2>1. /\ NoRequest \in [call : CallOrNone, body : CallOrNone]
        /\ NoSegment \in Segment /\ "dead" \in WPC
    BY DEF NoRequest, NoSegment, Segment, CallOrNone, WPC
  <2>2. QED
    BY <1>a, <1>t, <2>1
<1>s. /\ \A k : Sender(k)' = Sender(k)
      /\ \A k : Shared(k)' <=> Shared(k)
      /\ \A k : ThroughData(k)' <=> ThroughData(k)
      /\ \A j, k : PostedBefore(j, k)' <=> PostedBefore(j, k)
      /\ \A d : Patient(d)' <=> Patient(d)
      /\ \A k : GaveUp(k)' <=> GaveUp(k)
  BY <1>c DEF Sender, Shared, ThroughData, PostedBefore, Patient, GaveUp
<1>o. /\ \A d \in Callers : Alone(d)' <=> Alone(d)
      /\ \A d \in Callers : OwnNames(d)' <=> OwnNames(d)
  BY <1>c, <1>s DEF Alone, OwnNames
<1>v. \A w \in Workers : wpc'[w] = "dead"
  BY <1>a
<1>u. \A k : k # None /\ Pending(k)' => Pending(k)
  BY <1>c, <1>v DEF Pending
<1>1. TypeOK'
  BY <1>c, <1>e, <1>ft DEF TypeOK
<1>2. SlotInv'
  BY <1>a, <1>c, <1>s, <1>o, IpcAssumption DEF SlotInv, Free, Server
<1>3. AloneInv'
  <2> SUFFICES ASSUME NEW d \in Callers, Alone(d), up
               PROVE  OwnSem(d)' /\ WholeOrFilling(d)'
    BY <1>c, <1>o DEF AloneInv
  <2>1. OwnSem(d) /\ WholeOrFilling(d)
    BY DEF AloneInv
  <2>2. OwnSem(d)'
    <3>1. pc[d] = "look" => sem'[call[d]] = d
      BY <1>e, <2>1, InCallFacts, IpcAssumption DEF OwnSem, Free
    <3>2. QED
      BY <1>c, <1>v, <3>1 DEF OwnSem
  <2>3. WholeOrFilling(d)'
    <3> SUFFICES ASSUME InCall(d), answer[call[d]].size # 0, ~whole[call[d]]
                 PROVE  \E w \in Workers : sem'[call[d]] = w
      BY <1>c, <1>v DEF WholeOrFilling
    <3>0. call[d] \in 1..calls /\ call[d] \in Calls /\ of[call[d]] = {d}
      BY InCallFacts
    <3>1. PICK w \in Workers : \/ wpc[w] = "fill" /\ wseg[w].shm = call[d]
                               \/ wpc[w] = "dead" /\ sem[call[d]] = w
      BY <2>1 DEF WholeOrFilling
    <3>2. sem[call[d]] = w
      <4>1. ASSUME wpc[w] = "fill", wseg[w].shm = call[d]
            PROVE  Sender(wreq[w].call) = proc[d]
        BY <3>0, <4>1, SenderOf DEF NameInv
      <4>2. QED
        BY <2>1, <3>1, <4>1 DEF OwnSem
    <3>3. QED
      BY <1>e, <3>0, <3>2, IpcAssumption DEF Free
  <2>4. QED
    BY <2>2, <2>3
<1>4. NameInv' /\ TakenInv' /\ DataInv'
  BY <1>c, <1>s, <1>o, <1>v DEF NameInv, TakenInv, DataInv
<1>5. AnswerInv' /\ GotInv'
  BY <1>c, <1>s, <1>o, <1>v DEF AnswerInv, NoAnswer, GotInv
<1>6. PatientInv'
  BY <1>c, <1>s, <1>o, <1>u, <1>v DEF PatientInv, None
<1>7. CallInv' /\ BoxInv'
  BY <1>c, <1>s, <1>o DEF CallInv, BoxInv
<1>8. FreshInv' /\ OpenInv' /\ OwnInv'
  BY <1>c, <1>s, <1>o DEF FreshInv, OpenInv, OwnInv
<1>9. BodyIntact' /\ CheckAnswerWhole' /\ Excused'
  BY <1>c, <1>s, <1>o DEF BodyIntact, CheckAnswerWhole, Excused
<1>10. QED
  BY <1>1, <1>2, <1>3, <1>4, <1>5, <1>6, <1>7, <1>8, <1>9

-----------------------------------------------------------------------------
LEMMA InitInv == Init => IInv
<1> SUFFICES ASSUME Init PROVE IInv
  OBVIOUS
<1> USE DEF InCall, NotPosted, Serving, Responding, Free
<1>1. /\ calls = 0 /\ 1..calls = {} /\ \A k \in Calls : k > calls
      /\ slot = None /\ reqData = None /\ data = None /\ taken = {} /\ dead = {}
      /\ queue = <<>> /\ Len(queue) = 0 /\ posted = <<>> /\ Len(posted) = 0
      /\ 1..Len(queue) = {} /\ 1..Len(posted) = {} /\ ToSet(posted) = {}
      /\ DOMAIN posted = {}
  <2>1. \A k \in 1..MaxCalls : k > 0
    BY IpcAssumption
  <2>2. ToSet(<<>>) = {} /\ DOMAIN <<>> = {}
    BY DEF ToSet
  <2>3. QED
    BY <2>1, <2>2 DEF Init, Calls
<1>2. /\ \A c \in Callers : pc[c] = "idle"
      /\ \A w \in Workers : wpc[w] = "top"
      /\ \A k \in Calls : /\ got[k] = None /\ body[k] = None /\ of[k] = {}
                          /\ outcome[k] = "open" /\ answer[k] = NoAnswer
      /\ \A p \in Procs : shmName[p] = None /\ semName[p] = None
      /\ proc \in [Callers -> Procs]
  BY IpcAssumption DEF Init
<1>3. TypeOK
  <2>1. 0 \in 0..MaxCalls /\ 0 \notin Calls
    BY IpcAssumption DEF Calls
  <2>2. <<>> \in Seq([call : Calls, body : CallOrNone]) /\ <<>> \in Seq(Calls)
    OBVIOUS
  <2>3. NoAnswer \in [from : CallOrNone, size : {0, 8}]
    BY DEF NoAnswer, CallOrNone
  <2>4. NoRequest \in [call : CallOrNone, body : CallOrNone]
    BY DEF NoRequest, CallOrNone
  <2>5. NoSegment \in Segment
    BY DEF NoSegment, Segment, CallOrNone
  <2>6. /\ call \in [Callers -> CallOrNone] /\ got \in [Calls -> CallOrNone]
        /\ shm \in [Calls -> CallOrNone] /\ body \in [Calls -> CallOrNone]
        /\ shmName \in [Procs -> CallOrNone] /\ semName \in [Procs -> CallOrNone]
        /\ of \in [Calls -> SUBSET Callers] /\ whole \in [Calls -> BOOLEAN]
        /\ {slot, reqData, data} \subseteq CallOrNone
    BY DEF Init, CallOrNone
  <2>7. /\ pc \in [Callers -> PC] /\ wpc \in [Workers -> WPC]
        /\ kind \in [Calls -> Kinds \cup {"none"}]
        /\ outcome \in [Calls -> {"open", "ok", "bad", "false"}]
        /\ sem \in [Calls -> Holders] /\ {serverSem, dataSem} \subseteq Callers \cup {Free, Server}
        /\ dpc \in {"created", "unlinked", "stopped", "destroyed", "dead"}
        /\ up \in BOOLEAN /\ mainEnded \in BOOLEAN
    BY DEF Init, PC, WPC, Holders
  <2>8. /\ answer \in [Calls -> [from : CallOrNone, size : {0, 8}]]
        /\ wreq \in [Workers -> [call : CallOrNone, body : CallOrNone]]
        /\ wseg \in [Workers -> Segment]
    BY <2>3, <2>4, <2>5 DEF Init
  <2>9. QED
    BY <1>1, <1>2, <2>1, <2>2, <2>6, <2>7, <2>8 DEF TypeOK
<1>4. CallInv /\ NameInv /\ SlotInv
  <2>1. CallInv
    BY <1>1, <1>2 DEF CallInv
  <2>2. NameInv /\ SlotInv
    BY <1>1, <1>2 DEF NameInv, SlotInv
  <2>3. QED
    BY <2>1, <2>2
<1>5. BoxInv /\ TakenInv
  BY <1>1, <1>2 DEF BoxInv, TakenInv
<1>6. DataInv /\ AnswerInv
  BY <1>1, <1>2 DEF DataInv, AnswerInv, NoAnswer
<1>7. FreshInv /\ OpenInv
  BY <1>1, <1>2 DEF FreshInv, OpenInv
<1>8. GotInv /\ OwnInv
  <2>1. \A k \in Calls : k # None
    BY IpcAssumption DEF Calls, None
  <2>2. QED
    BY <1>2, <2>1 DEF GotInv, OwnInv
<1>9. AloneInv /\ PatientInv
  BY <1>1, <1>2 DEF AloneInv, OwnNames, OwnSem, WholeOrFilling, PatientInv
<1>10. BodyIntact /\ CheckAnswerWhole /\ Excused
  BY <1>2 DEF BodyIntact, CheckAnswerWhole, Excused
<1>11. QED
  BY <1>3, <1>4, <1>5, <1>6, <1>7, <1>8, <1>9, <1>10 DEF IInv

LEMMA NextInv == IInv /\ [Next]_vars => IInv'
<1> SUFFICES ASSUME IInv, [Next]_vars PROVE IInv'
  OBVIOUS
<1>1. ASSUME NEW c \in Callers, SendIPC(c) PROVE IInv'
  BY <1>1, BeginKeeps, LockSlotKeeps, BusyKeeps, FillSlotKeeps, LockDataKeeps,
     FillDataKeeps, PostKeeps, LockOwnKeeps, ReceiveKeeps, NotYetKeeps,
     TimeOutKeeps, EndKeeps DEF SendIPC
<1>2. ASSUME NEW p \in Procs, Crash(p) PROVE IInv'
  BY <1>2, CrashKeeps
<1>3. CASE MainTake \/ MainEnd
  BY <1>3, MainTakeKeeps, MainEndKeeps
<1>4. ASSUME NEW w \in Workers, Worker(w) PROVE IInv'
  <2>1. CASE DeQueue(w)
    BY <2>1, DeQueueStoppedKeeps, DeQueueTakesKeeps
  <2>2. CASE ~DeQueue(w)
    BY <1>4, <2>2, LoopKeeps, StoppedKeeps, ServeKeeps, ServeFailsKeeps, OpenKeeps,
       RespondKeeps, RespondFailsKeeps, RespondDataKeeps DEF Worker
  <2>3. QED
    BY <2>1, <2>2
<1>5. CASE DestroyIPC
  BY <1>5, UnlinkKeeps, ClosedTwiceKeeps, StopServerKeeps, DestroyedKeeps DEF DestroyIPC
<1>6. CASE ServerDies
  BY <1>6, ServerDiesKeeps
<1>7. CASE UNCHANGED vars
  <2> USE <1>7 DEF vars, callerVars, slotVars, nameVars, segVars, serverVars, workerVars,
                   history, InCall, NotPosted, Serving, Responding, SameProcess
  <2>1. /\ \A k : Sender(k)' = Sender(k) /\ (Shared(k)' <=> Shared(k))
        /\ \A k : (ThroughData(k)' <=> ThroughData(k)) /\ (GaveUp(k)' <=> GaveUp(k))
        /\ \A k : Pending(k)' <=> Pending(k)
        /\ \A j, k : PostedBefore(j, k)' <=> PostedBefore(j, k)
    BY DEF Sender, Shared, ThroughData, GaveUp, Pending, PostedBefore
  <2>2. /\ TypeOK' /\ CallInv'
        /\ SlotInv' /\ BoxInv' /\ TakenInv'
    BY <2>1 DEF IInv, TypeOK, CallInv, SlotInv, BoxInv, TakenInv
  <2>3. NameInv' /\ DataInv'
    BY <2>1 DEF IInv, NameInv, DataInv
  <2>4. AnswerInv' /\ FreshInv' /\ OpenInv'
    BY <2>1 DEF IInv, AnswerInv, FreshInv, OpenInv
  <2>5. GotInv' /\ OwnInv'
    BY <2>1 DEF IInv, GotInv, OwnInv
  <2>6. AloneInv'
    BY <2>1 DEF IInv, AloneInv, Alone, OwnNames, OwnSem, WholeOrFilling
  <2>7. PatientInv'
    BY <2>1 DEF IInv, PatientInv, Alone, Patient
  <2>8. BodyIntact' /\ CheckAnswerWhole' /\ Excused'
    BY <2>1 DEF IInv, BodyIntact, CheckAnswerWhole, Excused
  <2>9. QED
    BY <2>2, <2>3, <2>4, <2>5, <2>6, <2>7, <2>8 DEF IInv
<1>8. QED
  BY <1>1, <1>2, <1>3, <1>4, <1>5, <1>6, <1>7 DEF Next

(* What sender, server and workers know of one another through shared      *)
(* names, semaphores and the slot: the inductive invariant holds in every  *)
(* reachable state.                                                        *)
THEOREM Invariance == Spec => []IInv
<1>1. QED
  BY InitInv, NextInv, PTL DEF Spec

(* Every variable keeps its type; in particular a process has its segment's*)
(* name exactly when it has its semaphore's, also after calls of several   *)
(* threads have opened and closed them in any order.                       *)
THEOREM TypeCorrect == Spec => []TypeOK
<1>1. IInv => TypeOK
  BY DEF IInv
<1>2. QED
  BY <1>1, Invariance, PTL

(* A worker of the server serves a small request with the body SendIPC     *)
(* put into the slot, and one that went through DATA never with an older   *)
(* body than its own.                                                      *)
THEOREM BodyKept == Spec => []BodyIntact
<1>1. IInv => BodyIntact
  BY DEF IInv
<1>2. QED
  BY <1>1, Invariance, PTL

(* SendIPC returns the answer to its own request, unless its process has   *)
(* given a call up or has two threads in SendIPC; and then that of another *)
(* call of this process, which no call before it of this thread took for   *)
(* its own.                                                                *)
THEOREM AnswerOwn == Spec => []AnswerIsOwn
<1>1. ASSUME IInv PROVE AnswerIsOwn
  <2> SUFFICES ASSUME NEW k \in Calls, got[k] # None
               PROVE  /\ body[got[k]] # None
                      /\ got[k] # k =>
                          /\ SameProcess(got[k], k)
                          /\ got[got[k]] # got[k] \/ of[got[k]] # of[k]
                          /\ GaveUp(k) \/ Shared(k)
    BY DEF AnswerIsOwn
  <2>1. body[got[k]] # None /\ SameProcess(got[k], k)
    BY <1>1 DEF IInv, GotInv
  <2>2. got[k] \in Calls
    BY <1>1 DEF IInv, TypeOK, CallOrNone
  <2>3. ASSUME got[k] # k, got[got[k]] = got[k] PROVE of[got[k]] # of[k]
    BY <1>1, <2>2, <2>3 DEF IInv, OwnInv
  <2>4. got[k] # k => GaveUp(k) \/ Shared(k)
    BY <1>1 DEF IInv, Excused
  <2>5. QED
    BY <2>1, <2>3, <2>4
<1>2. QED
  BY <1>1, Invariance, PTL

(* CheckIPC of a process with one thread never finds the data of an answer *)
(* missing, as long as the server is not destroyed: hasResponse and the    *)
(* data are written under one semaphore, which a worker that dies keeps.   *)
THEOREM CheckWhole == Spec => []CheckAnswerWhole
<1>1. IInv => CheckAnswerWhole
  BY DEF IInv
<1>2. QED
  BY <1>1, Invariance, PTL

-----------------------------------------------------------------------------
(* Slot and queue implement RequestBox. *)

(* Slot and queue are empty at first. *)
LEMMA WaitingInit == Init => Box!Init
<1> SUFFICES ASSUME Init PROVE Box!Init
  OBVIOUS
<1>1. queue = <<>> /\ slot = None /\ posted = <<>> /\ taken = {}
  BY DEF Init
<1>2. [n \in 1..Len(queue) |-> queue[n].call] = <<>>
  BY <1>1
<1>3. QED
  BY <1>1, <1>2 DEF Box!Init

(* The calls of the requests in a queue. *)
LEMMA Names ==
    ASSUME NEW s \in Seq([call : Calls, body : CallOrNone])
    PROVE  /\ [n \in 1..Len(s) |-> s[n].call] \in Seq(Calls)
           /\ Len([n \in 1..Len(s) |-> s[n].call]) = Len(s)
           /\ \A i \in 1..Len(s) : [n \in 1..Len(s) |-> s[n].call][i] = s[i].call
<1>1. Len(s) \in Nat /\ \A n \in 1..Len(s) : s[n] \in [call : Calls, body : CallOrNone]
  BY ElementOfSeq, LenProperties
<1>2. QED
  BY <1>1, IsASeq, LenProperties

(* Queueing a request adds its call at the end ... *)
LEMMA WaitingAppend ==
    ASSUME NEW s \in Seq([call : Calls, body : CallOrNone]),
           NEW x \in [call : Calls, body : CallOrNone]
    PROVE  [n \in 1..Len(Append(s, x)) |-> Append(s, x)[n].call]
             = Append([n \in 1..Len(s) |-> s[n].call], x.call)
<1> DEFINE t == [n \in 1..Len(s) |-> s[n].call]
           u == [n \in 1..Len(Append(s, x)) |-> Append(s, x)[n].call]
<1>1. /\ Append(s, x) \in Seq([call : Calls, body : CallOrNone])
      /\ Len(Append(s, x)) = Len(s) + 1 /\ Len(s) \in Nat
      /\ \A i \in 1..Len(s) : Append(s, x)[i] = s[i]
      /\ Append(s, x)[Len(s) + 1] = x
      /\ \A i \in 1..Len(Append(s, x)) : i \in 1..Len(s) \/ i = Len(s) + 1
  BY AppendProps
<1>2. /\ t \in Seq(Calls) /\ Len(t) = Len(s)
      /\ \A i \in 1..Len(s) : t[i] = s[i].call
  BY Names
<1>3. /\ u \in Seq(Calls) /\ Len(u) = Len(s) + 1
      /\ \A i \in 1..Len(Append(s, x)) : u[i] = Append(s, x)[i].call
  BY <1>1, Names
<1> HIDE DEF t, u
<1>4. x.call \in Calls
  OBVIOUS
<1>5. /\ Append(t, x.call) \in Seq(Calls) /\ Len(Append(t, x.call)) = Len(t) + 1
      /\ \A i \in 1..Len(t) : Append(t, x.call)[i] = t[i]
      /\ Append(t, x.call)[Len(t) + 1] = x.call
  BY <1>2, <1>4, AppendProps
<1>6. \A i \in 1..Len(u) : u[i] = Append(t, x.call)[i]
  BY <1>1, <1>2, <1>3, <1>5
<1>7. u = Append(t, x.call)
  BY <1>2, <1>3, <1>5, <1>6, SeqEqual
<1>8. QED
  BY <1>7 DEF t, u

(* ... taking one takes the first call away, whatever is in the slot, ... *)
LEMMA WaitingTail ==
    ASSUME NEW s \in Seq([call : Calls, body : CallOrNone]), s # <<>>,
           NEW z \in Seq(Calls)
    PROVE  LET t == [n \in 1..Len(s) |-> s[n].call]
               u == [n \in 1..Len(Tail(s)) |-> Tail(s)[n].call]
           IN t \o z # <<>> /\ Head(t \o z) = Head(s).call /\ Tail(t \o z) = u \o z
<1> DEFINE t == [n \in 1..Len(s) |-> s[n].call]
           u == [n \in 1..Len(Tail(s)) |-> Tail(s)[n].call]
<1>1. /\ Tail(s) \in Seq([call : Calls, body : CallOrNone])
      /\ Head(s) = s[1]
      /\ Len(s) \in Nat /\ Len(s) >= 1 /\ Len(Tail(s)) = Len(s) - 1
      /\ \A i \in 1..Len(Tail(s)) : i + 1 \in 1..Len(s) /\ Tail(s)[i] = s[i + 1]
  BY TailProps
<1>2. /\ t \in Seq(Calls) /\ Len(t) = Len(s)
      /\ \A i \in 1..Len(s) : t[i] = s[i].call
  BY Names
<1>3. /\ u \in Seq(Calls) /\ Len(u) = Len(Tail(s))
      /\ \A i \in 1..Len(Tail(s)) : u[i] = Tail(s)[i].call
  BY <1>1, Names
<1> HIDE DEF t, u
<1>4. /\ t \o z \in Seq(Calls) /\ Len(t \o z) = Len(t) + Len(z) /\ Len(z) \in Nat
      /\ \A i \in 1..Len(t) + Len(z) :
            (t \o z)[i] = IF i <= Len(t) THEN t[i] ELSE z[i - Len(t)]
  BY <1>2, ConcatProperties, LenProperties
<1>5. /\ u \o z \in Seq(Calls) /\ Len(u \o z) = Len(u) + Len(z)
      /\ \A i \in 1..Len(u) + Len(z) :
            (u \o z)[i] = IF i <= Len(u) THEN u[i] ELSE z[i - Len(u)]
  BY <1>3, ConcatProperties
<1>6. t \o z # <<>>
  BY <1>1, <1>2, <1>4, EmptySeq
<1>7. /\ Tail(t \o z) \in Seq(Calls) /\ Head(t \o z) = (t \o z)[1]
      /\ Len(Tail(t \o z)) = Len(t \o z) - 1
      /\ \A i \in 1..Len(Tail(t \o z)) : Tail(t \o z)[i] = (t \o z)[i + 1]
  BY <1>4, <1>6, TailProps
<1>8. Head(t \o z) = Head(s).call
  BY <1>1, <1>2, <1>4, <1>7
<1>9. Len(Tail(t \o z)) = Len(u \o z)
  BY <1>1, <1>2, <1>3, <1>4, <1>5, <1>7
<1>10. ASSUME NEW i \in 1..Len(u \o z) PROVE Tail(t \o z)[i] = (u \o z)[i]
  <2>1. i \in Nat /\ i + 1 \in 1..Len(t) + Len(z) /\ Tail(t \o z)[i] = (t \o z)[i + 1]
    BY <1>1, <1>2, <1>3, <1>4, <1>5, <1>7, <1>9
  <2>2. CASE i <= Len(u)
    <3>1. i \in 1..Len(Tail(s)) /\ i + 1 \in 1..Len(s) /\ i + 1 <= Len(t)
      BY <1>1, <1>2, <1>3, <2>1, <2>2
    <3>2. (u \o z)[i] = s[i + 1].call
      BY <1>1, <1>3, <1>5, <2>2, <3>1
    <3>3. (t \o z)[i + 1] = s[i + 1].call
      BY <1>2, <1>4, <2>1, <3>1
    <3>4. QED
      BY <2>1, <3>2, <3>3
  <2>3. CASE i > Len(u)
    <3>1. ~(i + 1 <= Len(t)) /\ i + 1 - Len(t) = i - Len(u)
      BY <1>1, <1>2, <1>3, <2>1, <2>3
    <3>2. (u \o z)[i] = z[i - Len(u)]
      BY <1>1, <1>3, <1>5, <2>3
    <3>3. (t \o z)[i + 1] = z[i + 1 - Len(t)]
      BY <1>4, <2>1, <3>1, SMTT(20)
    <3>4. QED
      BY <2>1, <3>1, <3>2, <3>3
  <2>4. QED
    BY <1>1, <1>3, <2>1, <2>2, <2>3
<1>11. Tail(t \o z) = u \o z
  BY <1>5, <1>7, <1>9, <1>10, SeqEqual
<1>12. QED
  BY <1>6, <1>8, <1>11 DEF t, u

(* ... and withdrawing the one in the slot the last. *)
LEMMA WaitingFront ==
    ASSUME NEW t \in Seq(Calls), NEW k \in Calls
    PROVE  /\ t \o <<>> = t /\ t \o <<k>> = Append(t, k)
           /\ Append(t, k) # <<>> /\ Front(Append(t, k)) = t
<1>1. t \o <<>> = t /\ t \o <<k>> = Append(t, k)
  BY ConcatEmptySeq, AppendIsConcat
<1>2. /\ Append(t, k) \in Seq(Calls)
      /\ Len(Append(t, k)) = Len(t) + 1 /\ Len(t) \in Nat
      /\ \A i \in 1..Len(t) : Append(t, k)[i] = t[i]
  BY AppendProps
<1>3. Append(t, k) # <<>>
  BY <1>2, EmptySeq
<1>4. Front(Append(t, k)) = SubSeq(Append(t, k), 1, Len(t))
  BY <1>2 DEF Front
<1>5. /\ SubSeq(Append(t, k), 1, Len(t)) \in Seq(Calls)
      /\ Len(SubSeq(Append(t, k), 1, Len(t))) = Len(t)
      /\ \A i \in 1..Len(t) : SubSeq(Append(t, k), 1, Len(t))[i] = Append(t, k)[i]
  BY <1>2
<1>6. SubSeq(Append(t, k), 1, Len(t)) = t
  BY <1>2, <1>5, SeqEqual
<1>7. QED
  BY <1>1, <1>3, <1>4, <1>6

(* What is in slot and queue are calls. *)
LEMMA BoxTypes ==
    IInv => /\ queue \in Seq([call : Calls, body : CallOrNone])
            /\ [n \in 1..Len(queue) |-> queue[n].call] \in Seq(Calls)
            /\ slot # None => slot \in Calls
            /\ (IF slot = None THEN <<>> ELSE <<slot>>) \in Seq(Calls)
            /\ reqData \in CallOrNone
<1> SUFFICES ASSUME IInv
             PROVE  /\ queue \in Seq([call : Calls, body : CallOrNone])
                    /\ [n \in 1..Len(queue) |-> queue[n].call] \in Seq(Calls)
                    /\ slot # None => slot \in Calls
                    /\ (IF slot = None THEN <<>> ELSE <<slot>>) \in Seq(Calls)
                    /\ reqData \in CallOrNone
  OBVIOUS
<1>1. /\ queue \in Seq([call : Calls, body : CallOrNone])
      /\ slot \in CallOrNone /\ reqData \in CallOrNone
  BY DEF IInv, TypeOK
<1>2. [n \in 1..Len(queue) |-> queue[n].call] \in Seq(Calls)
  BY <1>1, Names
<1>3. slot # None => slot \in Calls
  BY <1>1 DEF CallOrNone
<1>4. QED
  BY <1>1, <1>2, <1>3

(* SendIPC posts a request that was not posted before. *)
LEMMA PostPosts ==
    ASSUME IInv, NEW c \in Callers, Post(c)
    PROVE  Box!Next
<1>1. /\ pc[c] = "filled" /\ slot' = call[c] /\ posted' = Append(posted, call[c])
      /\ UNCHANGED <<queue, taken>>
  BY DEF Post, serverVars
<1>2. call[c] \in Calls /\ call[c] # None
  <2>1. InCall(c)
    BY <1>1 DEF InCall
  <2>2. QED
    BY <2>1, InCallFacts, IpcAssumption DEF Calls, None
<1>3. slot = None /\ call[c] \notin ToSet(posted)
  BY <1>1 DEF IInv, SlotInv, BoxInv, NotPosted
<1>4. [n \in 1..Len(queue) |-> queue[n].call] \in Seq(Calls)
  BY BoxTypes
<1> DEFINE t == [n \in 1..Len(queue) |-> queue[n].call]
           z == IF slot = None THEN <<>> ELSE <<slot>>
<1>5. z = <<>> /\ z' = <<call[c]>> /\ t' = t
  BY <1>1, <1>2, <1>3
<1>6. t \o <<>> = t /\ t \o <<call[c]>> = Append(t, call[c])
  BY <1>2, <1>4, WaitingFront
<1>7. (t \o z)' = Append(t \o z, call[c])
  <2> HIDE DEF t, z
  <2>1. (t \o z)' = t' \o z'
    OBVIOUS
  <2>2. QED
    BY <1>5, <1>6, <2>1
<1>8. QED
  BY <1>1, <1>2, <1>3, <1>7 DEF Box!Next, Box!Post, ToSet, Box!ToSet

(* The main thread moves a request to the queue, or drops it. *)
LEMMA MainTakeMoves ==
    ASSUME IInv, MainTake
    PROVE  Box!Withdraw \/ UNCHANGED Box!vars
<1> DEFINE t == [n \in 1..Len(queue) |-> queue[n].call]
<1>1. /\ slot # None /\ slot' = None /\ UNCHANGED <<posted, taken>>
      /\ \/ queue' = queue
         \/ queue' = Append(queue, [call |-> slot, body |-> reqData])
  BY DEF MainTake, history
<1>2. t \in Seq(Calls) /\ slot \in Calls /\ reqData \in CallOrNone
  BY <1>1, BoxTypes
<1>3. t \o <<slot>> = Append(t, slot)
  BY <1>2, WaitingFront
<1>4. CASE queue' = queue
  <2>a. t \o <<>> = t /\ Append(t, slot) # <<>> /\ Front(Append(t, slot)) = t
    BY <1>2, WaitingFront
  <2>1. t \o <<slot>> # <<>> /\ Front(t \o <<slot>>) = t /\ t \o <<>> = t
    BY <1>3, <2>a
  <2> DEFINE z == IF slot = None THEN <<>> ELSE <<slot>>
  <2>2. z = <<slot>> /\ z' = <<>> /\ t' = t
    BY <1>1, <1>4
  <2>3. t \o z # <<>> /\ (t \o z)' = Front(t \o z)
    <3> HIDE DEF t, z
    <3>1. (t \o z)' = t' \o z'
      OBVIOUS
    <3>2. QED
      BY <2>1, <2>2, <3>1
  <2>4. QED
    BY <1>1, <2>3 DEF Box!Withdraw, Front, Box!Front
<1>5. CASE queue' = Append(queue, [call |-> slot, body |-> reqData])
  <2> DEFINE x == [call |-> slot, body |-> reqData]
             u == [n \in 1..Len(Append(queue, x)) |-> Append(queue, x)[n].call]
  <2>1. x \in [call : Calls, body : CallOrNone] /\ x.call = slot
    BY <1>2
  <2> HIDE DEF x
  <2>2. u = Append(t, slot)
    BY <2>1, BoxTypes, WaitingAppend
  <2>3. Append(t, slot) \in Seq(Calls)
    BY <1>2, AppendProps
  <2>4. u \o <<>> = t \o <<slot>>
    BY <1>3, <2>2, <2>3, ConcatEmptySeq
  <2>5. queue' = Append(queue, x)
    BY <1>5 DEF x
  <2>6. QED
    BY <1>1, <2>4, <2>5 DEF Box!vars
<1>6. QED
  BY <1>1, <1>4, <1>5

(* DeQueue takes the oldest request, which was not taken before. *)
LEMMA DeQueueTakesHead ==
    ASSUME IInv, NEW w \in Workers, DeQueue(w)
    PROVE  Box!Take \/ UNCHANGED Box!vars
<1>1. CASE IsStop
  <2>1. UNCHANGED <<queue, slot, posted, taken>>
    BY <1>1 DEF DeQueue, slotVars
  <2>2. QED
    BY <2>1 DEF Box!vars
<1>2. CASE ~IsStop
  <2>1. /\ queue # <<>> /\ queue' = Tail(queue)
        /\ taken' = taken \cup {Head(queue).call}
        /\ UNCHANGED <<slot, posted>>
    BY <1>2 DEF DeQueue, slotVars
  <2>2. Head(queue).call \notin taken
    <3>1. Head(queue) = queue[1] /\ 1 \in 1..Len(queue)
      BY <2>1, BoxTypes, TailProps
    <3>2. QED
      BY <3>1 DEF IInv, BoxInv
  <2> DEFINE z == IF slot = None THEN <<>> ELSE <<slot>>
             t == [n \in 1..Len(queue) |-> queue[n].call]
             u == [n \in 1..Len(Tail(queue)) |-> Tail(queue)[n].call]
  <2>3. z \in Seq(Calls)
    BY BoxTypes
  <2> HIDE DEF z
  <2>4. t \o z # <<>> /\ Head(t \o z) = Head(queue).call /\ Tail(t \o z) = u \o z
    BY <2>1, <2>3, BoxTypes, WaitingTail
  <2>5. z' = z
    BY <2>1 DEF z
  <2>6. QED
    BY <2>1, <2>2, <2>4, <2>5 DEF z, Box!Take
<1>3. QED
  BY <1>1, <1>2

(* No other step changes what is posted, waiting or taken. *)
LEMMA StepRefines == IInv /\ [Next]_vars => [Box!Next]_Box!vars
<1> SUFFICES ASSUME IInv, [Next]_vars PROVE [Box!Next]_Box!vars
  OBVIOUS
<1> USE DEF callerVars, slotVars, nameVars, segVars, serverVars, workerVars, history
<1>1. ASSUME UNCHANGED <<queue, slot, posted, taken>> PROVE UNCHANGED Box!vars
  BY <1>1 DEF Box!vars
<1>2. ASSUME NEW c \in Callers, SendIPC(c) PROVE [Box!Next]_Box!vars
  <2>1. CASE Post(c)
    BY <2>1, PostPosts
  <2>2. CASE ~Post(c)
    <3>1. CASE Begin(c) \/ LockSlot(c) \/ Busy(c) \/ FillSlot(c) \/ LockData(c)
      BY <1>1, <3>1 DEF Begin, LockSlot, Busy, FillSlot, LockData
    <3>2. CASE FillData(c) \/ LockOwn(c) \/ Receive(c) \/ NotYet(c) \/ TimeOut(c) \/ End(c)
      BY <1>1, <3>2 DEF FillData, LockOwn, Receive, NotYet, TimeOut, End
    <3>3. QED
      BY <1>2, <2>2, <3>1, <3>2 DEF SendIPC
  <2>3. QED
    BY <2>1, <2>2
<1>3. ASSUME NEW p \in Procs, Crash(p) PROVE [Box!Next]_Box!vars
  BY <1>1, <1>3 DEF Crash
<1>4. CASE MainTake
  BY <1>4, MainTakeMoves DEF Box!Next
<1>5. CASE MainEnd
  BY <1>1, <1>5 DEF MainEnd
<1>6. ASSUME NEW w \in Workers, Worker(w) PROVE [Box!Next]_Box!vars
  <2>1. CASE DeQueue(w)
    BY <2>1, DeQueueTakesHead DEF Box!Next
  <2>2. CASE Loop(w) \/ Stopped(w) \/ Serve(w) \/ ServeFails(w)
    BY <1>1, <2>2 DEF Loop, Stopped, Serve, ServeFails
  <2>3. CASE Open(w) \/ Respond(w) \/ RespondFails(w) \/ RespondData(w)
    BY <1>1, <2>3 DEF Open, Respond, RespondFails, RespondData
  <2>4. QED
    BY <1>6, <2>1, <2>2, <2>3 DEF Worker
<1>7. CASE DestroyIPC
  BY <1>1, <1>7 DEF DestroyIPC, Unlink, ClosedTwice, StopServer, Destroyed
<1>8. CASE ServerDies
  BY <1>1, <1>8 DEF ServerDies
<1>9. CASE UNCHANGED vars
  BY <1>1, <1>9 DEF vars
<1>10. QED
  BY <1>2, <1>3, <1>4, <1>5, <1>6, <1>7, <1>8, <1>9 DEF Next

(* The copy from the slot into the queue, under the slot's semaphore, with *)
(* the flag hasRequest, loses, doubles and reorders nothing: the workers   *)
(* get the requests in the order they were posted, each at most once.      *)
THEOREM Refinement == Spec => BoxSpec
<1>1. QED
  BY WaitingInit, StepRefines, Invariance, PTL DEF Spec, BoxSpec, Box!Spec

-----------------------------------------------------------------------------
(* No request is lost or overtaken. *)

SenderDied(k) == \E c \in of[k] : proc[c] \in dead

(* A posted request is served, or in the slot, or in the queue, unless its *)
(* sender has died.                                                        *)
NotLost == \A k \in ToSet(posted) :
    \/ k \in taken
    \/ k = slot
    \/ \E n \in 1..Len(queue) : queue[n].call = k
    \/ SenderDied(k)

(* The slot holds the latest request, and the queue is in order, behind    *)
(* all that were taken from it.                                            *)
LineInv ==
    /\ slot # None => Len(posted) >= 1 /\ slot = posted[Len(posted)]
    /\ \A n \in 1..Len(queue) :
        /\ \A m \in 1..Len(queue) : m < n => PostedBefore(queue[m].call, queue[n].call)
        /\ \A k \in taken : PostedBefore(k, queue[n].call)

(* When a request has been dequeued, so have all that were posted before   *)
(* it, but those whose sender has died.                                    *)
ServedInOrder == \A j \in Calls, k \in taken :
    PostedBefore(j, k) => j \in taken \/ SenderDied(j)

(* Posting adds to the order and changes nothing in it. *)
LEMMA PostedStays ==
    ASSUME NEW s \in Seq(Calls), NEW x \in Calls, posted = s, posted' = Append(s, x)
    PROVE  \A j, k : PostedBefore(j, k) => PostedBefore(j, k)'
<1> SUFFICES ASSUME NEW j, NEW k, PostedBefore(j, k) PROVE PostedBefore(j, k)'
  OBVIOUS
<1>1. /\ Append(s, x) \in Seq(Calls)
      /\ Len(Append(s, x)) = Len(s) + 1 /\ Len(s) \in Nat
      /\ \A i \in 1..Len(s) : Append(s, x)[i] = s[i]
  BY AppendProps
<1>2. DOMAIN s = 1..Len(s) /\ DOMAIN Append(s, x) = 1..Len(Append(s, x))
  BY <1>1
<1>3. PICK m \in 1..Len(s), n \in 1..Len(s) : m < n /\ s[m] = j /\ s[n] = k
  BY <1>2 DEF PostedBefore
<1>4. m \in DOMAIN Append(s, x) /\ n \in DOMAIN Append(s, x)
  BY <1>1, <1>2
<1>5. QED
  BY <1>1, <1>3, <1>4 DEF PostedBefore

(* The last request posted comes after all others. *)
LEMMA BeforeLast ==
    ASSUME IInv, Len(posted) >= 1, NEW k \in ToSet(posted), k # posted[Len(posted)]
    PROVE  PostedBefore(k, posted[Len(posted)])
<1>1. posted \in Seq(Calls)
  BY DEF IInv, TypeOK
<1>2. Len(posted) \in Nat /\ DOMAIN posted = 1..Len(posted)
  BY <1>1
<1>3. PICK m \in 1..Len(posted) : posted[m] = k
  BY <1>2 DEF ToSet
<1>4. m < Len(posted) /\ Len(posted) \in DOMAIN posted
  BY <1>2, <1>3
<1>5. QED
  BY <1>2, <1>3, <1>4 DEF PostedBefore

(* What is before a request is not behind it. *)
LEMMA NotBothWays ==
    IInv => \A j, k : PostedBefore(j, k) => j # k /\ ~PostedBefore(k, j)
<1> SUFFICES ASSUME IInv, NEW j, NEW k, PostedBefore(j, k)
             PROVE  j # k /\ ~PostedBefore(k, j)
  OBVIOUS
<1>1. posted \in Seq(Calls)
  BY DEF IInv, TypeOK
<1>2. Len(posted) \in Nat /\ DOMAIN posted = 1..Len(posted)
  BY <1>1
<1>3. \A m, n \in 1..Len(posted) : posted[m] = posted[n] => m = n
  BY DEF IInv, BoxInv
<1>4. PICK m \in 1..Len(posted), n \in 1..Len(posted) : m < n /\ posted[m] = j /\ posted[n] = k
  BY <1>2 DEF PostedBefore
<1>5. j # k
  BY <1>3, <1>4
<1>6. ASSUME PostedBefore(k, j) PROVE FALSE
  <2>1. PICK a \in 1..Len(posted), b \in 1..Len(posted) : a < b /\ posted[a] = k /\ posted[b] = j
    BY <1>2, <1>6 DEF PostedBefore
  <2>2. a = n /\ b = m
    BY <1>3, <1>4, <2>1
  <2>3. QED
    BY <1>4, <2>1, <2>2
<1>7. QED
  BY <1>5, <1>6

(* A step that leaves slot, queue and posted as they are. *)
LEMMA LineStays ==
    ASSUME IInv, NotLost, LineInv, UNCHANGED <<slot, queue, posted, taken, proc>>,
           dead \subseteq dead', \A k \in 1..calls : of'[k] = of[k]
    PROVE  NotLost' /\ LineInv'
<1>1. \A j, k : PostedBefore(j, k)' <=> PostedBefore(j, k)
  BY DEF PostedBefore
<1>2. LineInv'
  BY <1>1 DEF LineInv
<1>3. ToSet(posted) \subseteq 1..calls
  BY DEF IInv, BoxInv
<1>4. \A k \in ToSet(posted) : SenderDied(k) => SenderDied(k)'
  BY <1>3 DEF SenderDied
<1>5. NotLost'
  BY <1>4 DEF NotLost
<1>6. QED
  BY <1>2, <1>5

LEMMA PostLine ==
    ASSUME IInv, NotLost, LineInv, NEW c \in Callers, Post(c)
    PROVE  NotLost' /\ LineInv'
<1>1. /\ pc[c] = "filled" /\ slot' = call[c] /\ posted' = Append(posted, call[c])
      /\ UNCHANGED <<queue, taken, proc, dead, of>>
  BY DEF Post, serverVars
<1>2. call[c] \in Calls
  BY <1>1, InCallFacts DEF InCall
<1>3. slot = None
  BY <1>1 DEF IInv, SlotInv
<1>4. posted \in Seq(Calls)
  BY DEF IInv, TypeOK
<1>5. /\ Append(posted, call[c]) \in Seq(Calls) /\ Len(posted) \in Nat
      /\ Len(Append(posted, call[c])) = Len(posted) + 1
      /\ Append(posted, call[c])[Len(posted) + 1] = call[c]
      /\ ToSet(Append(posted, call[c])) = ToSet(posted) \cup {call[c]}
  BY <1>2, <1>4, AppendProps
<1>6. \A j, k : PostedBefore(j, k) => PostedBefore(j, k)'
  BY <1>1, <1>2, <1>4, PostedStays
<1>7. NotLost'
  <2>1. \A k : SenderDied(k)' <=> SenderDied(k)
    BY <1>1 DEF SenderDied
  <2>2. ToSet(posted') = ToSet(posted) \cup {call[c]}
    BY <1>1, <1>5
  <2>3. \A k \in ToSet(posted) : k # slot
    BY <1>3, NatFacts DEF IInv, BoxInv, None, Calls
  <2>4. QED
    BY <1>1, <2>1, <2>2, <2>3 DEF NotLost
<1>8. LineInv'
  <2>1. slot' = posted'[Len(posted')] /\ Len(posted') >= 1
    BY <1>1, <1>5
  <2>2. QED
    BY <1>1, <1>6, <2>1 DEF LineInv
<1>9. QED
  BY <1>7, <1>8

LEMMA MainTakeLine ==
    ASSUME IInv, NotLost, LineInv, MainTake
    PROVE  NotLost' /\ LineInv'
<1>1. /\ slot # None /\ slot' = None /\ UNCHANGED <<posted, taken, proc, dead, of>>
      /\ queue' = IF SenderDied(slot) THEN queue
                  ELSE Append(queue, [call |-> slot, body |-> reqData])
  BY DEF MainTake, history, callerVars, SenderDied
<1>2. /\ \A j, k : PostedBefore(j, k)' <=> PostedBefore(j, k)
      /\ \A k : SenderDied(k)' <=> SenderDied(k)
  BY <1>1 DEF PostedBefore, SenderDied
<1>3. CASE SenderDied(slot)
  <2>1. queue' = queue
    BY <1>1, <1>3
  <2>2. NotLost'
    BY <1>1, <1>2, <1>3, <2>1 DEF NotLost
  <2>3. LineInv'
    BY <1>1, <1>2, <2>1 DEF LineInv
  <2>4. QED
    BY <2>2, <2>3
<1>4. CASE ~SenderDied(slot)
  <2> DEFINE x == [call |-> slot, body |-> reqData]
  <2>1. x \in [call : Calls, body : CallOrNone] /\ x.call = slot
    BY <1>1, BoxTypes
  <2>2. queue' = Append(queue, x)
    BY <1>1, <1>4
  <2> HIDE DEF x
  <2>3. queue \in Seq([call : Calls, body : CallOrNone])
    BY BoxTypes
  <2>4. /\ Len(queue') = Len(queue) + 1 /\ Len(queue) \in Nat
        /\ \A i \in 1..Len(queue) : queue'[i] = queue[i]
        /\ queue'[Len(queue) + 1] = x
        /\ \A i \in 1..Len(queue') : i \in 1..Len(queue) \/ i = Len(queue) + 1
    BY <2>1, <2>2, <2>3, AppendProps
  <2>5. /\ slot \in ToSet(posted) /\ slot \notin taken
        /\ Len(posted) >= 1 /\ slot = posted[Len(posted)]
        /\ taken \subseteq ToSet(posted)
        /\ \A n \in 1..Len(queue) : queue[n].call \in ToSet(posted) /\ queue[n].call # slot
    BY <1>1 DEF IInv, BoxInv, LineInv
  <2>6. \A k \in ToSet(posted) : k # slot => PostedBefore(k, slot)
    BY <2>5, BeforeLast
  <2>7. NotLost'
    <3>1. SUFFICES ASSUME NEW k \in ToSet(posted), k \notin taken, ~SenderDied(k)
                   PROVE  \E n \in 1..Len(queue') : queue'[n].call = k
      BY <1>1, <1>2 DEF NotLost
    <3>2. CASE k = slot
      BY <2>1, <2>4, <3>2
    <3>3. CASE k # slot
      <4>1. PICK n \in 1..Len(queue) : queue[n].call = k
        BY <3>1, <3>3 DEF NotLost
      <4>2. n \in 1..Len(queue') /\ queue'[n].call = k
        BY <2>4, <4>1
      <4>3. QED
        BY <4>2
    <3>4. QED
      BY <3>2, <3>3
  <2>8. LineInv'
    <3>1. SUFFICES ASSUME NEW n \in 1..Len(queue')
                   PROVE  /\ \A m \in 1..Len(queue') : m < n =>
                                PostedBefore(queue'[m].call, queue'[n].call)
                          /\ \A k \in taken : PostedBefore(k, queue'[n].call)
      BY <1>1, <1>2 DEF LineInv
    <3>2. CASE n \in 1..Len(queue)
      <4>1. queue'[n] = queue[n]
        BY <2>4, <3>2
      <4>2. \A m \in 1..Len(queue') : m < n => m \in 1..Len(queue) /\ queue'[m] = queue[m]
        BY <2>4, <3>2
      <4>3. QED
        BY <3>2, <4>1, <4>2 DEF LineInv
    <3>3. CASE n = Len(queue) + 1
      <4>1. queue'[n].call = slot
        BY <2>1, <2>4, <3>3
      <4>2. \A m \in 1..Len(queue') : m < n => m \in 1..Len(queue) /\ queue'[m] = queue[m]
        BY <2>4, <3>3
      <4>3. QED
        BY <2>5, <2>6, <4>1, <4>2
    <3>4. QED
      BY <2>4, <3>2, <3>3
  <2>9. QED
    BY <2>7, <2>8
<1>5. QED
  BY <1>3, <1>4

LEMMA DeQueueLine ==
    ASSUME IInv, NotLost, LineInv, NEW w \in Workers, DeQueue(w)
    PROVE  NotLost' /\ LineInv'
<1>1. UNCHANGED <<slot, posted, proc, dead, of>>
  BY DEF DeQueue, slotVars, callerVars
<1>2. /\ \A j, k : PostedBefore(j, k)' <=> PostedBefore(j, k)
      /\ \A k : SenderDied(k)' <=> SenderDied(k)
  BY <1>1 DEF PostedBefore, SenderDied
<1>3. CASE IsStop
  <2>1. UNCHANGED <<queue, taken>>
    BY <1>3 DEF DeQueue
  <2>2. QED
    BY <1>1, <2>1, LineStays
<1>4. CASE ~IsStop
  <2>1. /\ queue # <<>> /\ queue' = Tail(queue)
        /\ taken' = taken \cup {Head(queue).call}
    BY <1>4 DEF DeQueue
  <2>2. queue \in Seq([call : Calls, body : CallOrNone])
    BY BoxTypes
  <2>3. /\ Head(queue) = queue[1] /\ Len(queue) \in Nat /\ Len(queue) >= 1
        /\ Len(queue') = Len(queue) - 1
        /\ \A i \in 1..Len(queue') : i + 1 \in 1..Len(queue) /\ queue'[i] = queue[i + 1]
    BY <2>1, <2>2, TailProps
  <2>4. NotLost'
    <3>1. SUFFICES ASSUME NEW k \in ToSet(posted), k \notin taken', k # slot, ~SenderDied(k)
                   PROVE  \E n \in 1..Len(queue') : queue'[n].call = k
      BY <1>1, <1>2 DEF NotLost
    <3>2. PICK n \in 1..Len(queue) : queue[n].call = k
      BY <2>1, <3>1 DEF NotLost
    <3>3. n # 1
      BY <2>1, <2>3, <3>1, <3>2
    <3>4. n - 1 \in 1..Len(queue') /\ (n - 1) + 1 = n
      BY <2>3, <3>2, <3>3
    <3>5. queue'[n - 1].call = k
      BY <2>3, <3>2, <3>4
    <3>6. QED
      BY <3>4, <3>5
  <2>5. LineInv'
    <3>1. SUFFICES ASSUME NEW n \in 1..Len(queue')
                   PROVE  /\ \A m \in 1..Len(queue') : m < n =>
                                PostedBefore(queue'[m].call, queue'[n].call)
                          /\ \A k \in taken' : PostedBefore(k, queue'[n].call)
      BY <1>1, <1>2 DEF LineInv
    <3>2. n + 1 \in 1..Len(queue) /\ queue'[n] = queue[n + 1] /\ 1 < n + 1
          /\ 1 \in 1..Len(queue)
      BY <2>3
    <3>3. \A m \in 1..Len(queue') : m < n =>
              m + 1 \in 1..Len(queue) /\ queue'[m] = queue[m + 1] /\ m + 1 < n + 1
      BY <2>3
    <3>4. PostedBefore(Head(queue).call, queue[n + 1].call)
      BY <2>3, <3>2 DEF LineInv
    <3>5. QED
      BY <2>1, <3>2, <3>3, <3>4 DEF LineInv
  <2>6. QED
    BY <2>4, <2>5
<1>5. QED
  BY <1>3, <1>4

LEMMA LineNext == IInv /\ NotLost /\ LineInv /\ [Next]_vars => NotLost' /\ LineInv'
<1> SUFFICES ASSUME IInv, NotLost, LineInv, [Next]_vars PROVE NotLost' /\ LineInv'
  OBVIOUS
<1> USE DEF callerVars, slotVars, nameVars, segVars, serverVars, workerVars, history
<1>1. ASSUME NEW c \in Callers, SendIPC(c) PROVE NotLost' /\ LineInv'
  <2>1. CASE Post(c)
    BY <2>1, PostLine
  <2>2. CASE Begin(c)
    <3>1. /\ UNCHANGED <<slot, queue, posted, taken, proc, dead>>
          /\ of' = [of EXCEPT ![calls + 1] = {c}]
      BY <2>2 DEF Begin
    <3>2. \A k \in 1..calls : of'[k] = of[k]
      BY <3>1, NatFacts DEF IInv, TypeOK
    <3>3. QED
      BY <3>1, <3>2, LineStays
  <2>3. CASE ~Post(c) /\ ~Begin(c)
    <3>1. CASE LockSlot(c) \/ Busy(c) \/ FillSlot(c) \/ LockData(c)
      BY <3>1, LineStays DEF LockSlot, Busy, FillSlot, LockData
    <3>2. CASE FillData(c) \/ LockOwn(c) \/ Receive(c) \/ NotYet(c) \/ TimeOut(c) \/ End(c)
      BY <3>2, LineStays DEF FillData, LockOwn, Receive, NotYet, TimeOut, End
    <3>3. QED
      BY <1>1, <2>3, <3>1, <3>2 DEF SendIPC
  <2>4. QED
    BY <2>1, <2>2, <2>3
<1>2. ASSUME NEW p \in Procs, Crash(p) PROVE NotLost' /\ LineInv'
  BY <1>2, LineStays DEF Crash
<1>3. CASE MainTake
  BY <1>3, MainTakeLine
<1>4. CASE MainEnd
  BY <1>4, LineStays DEF MainEnd
<1>5. ASSUME NEW w \in Workers, Worker(w) PROVE NotLost' /\ LineInv'
  <2>1. CASE DeQueue(w)
    BY <2>1, DeQueueLine
  <2>2. CASE Loop(w) \/ Stopped(w) \/ Serve(w) \/ ServeFails(w)
    BY <2>2, LineStays DEF Loop, Stopped, Serve, ServeFails
  <2>3. CASE Open(w) \/ Respond(w) \/ RespondFails(w) \/ RespondData(w)
    BY <2>3, LineStays DEF Open, Respond, RespondFails, RespondData
  <2>4. QED
    BY <1>5, <2>1, <2>2, <2>3 DEF Worker
<1>6. CASE DestroyIPC
  BY <1>6, LineStays DEF DestroyIPC, Unlink, ClosedTwice, StopServer, Destroyed
<1>7. CASE ServerDies
  BY <1>7, LineStays DEF ServerDies
<1>8. CASE UNCHANGED vars
  BY <1>8, LineStays DEF vars
<1>9. QED
  BY <1>1, <1>2, <1>3, <1>4, <1>5, <1>6, <1>7, <1>8 DEF Next

(* A request that SendIPC has posted is not lost between the slot, the     *)
(* main thread's queue and the workers, unless its sender has died.        *)
THEOREM RequestsNotLost == Spec => [](NotLost /\ LineInv)
<1>1. Init => NotLost /\ LineInv
  <2> SUFFICES ASSUME Init PROVE NotLost /\ LineInv
    OBVIOUS
  <2>1. posted = <<>> /\ queue = <<>> /\ slot = None
    BY DEF Init
  <2>2. ToSet(posted) = {} /\ Len(queue) = 0
    BY <2>1 DEF ToSet
  <2>3. QED
    BY <2>1, <2>2 DEF NotLost, LineInv
<1>2. QED
  BY <1>1, LineNext, Invariance, PTL DEF Spec

(* The workers take the requests in the order in which SendIPC posted them *)
(* and leave none out but those of dead senders, whatever callers time     *)
(* out meanwhile.                                                          *)
THEOREM TakenInOrder == Spec => []ServedInOrder
<1>1. IInv /\ NotLost /\ LineInv => ServedInOrder
  <2> SUFFICES ASSUME IInv, NotLost, LineInv, NEW j \in Calls, NEW k \in taken,
                      PostedBefore(j, k), j \notin taken, ~SenderDied(j)
               PROVE  FALSE
    BY DEF ServedInOrder
  <2>1. j \in ToSet(posted) /\ k \in ToSet(posted)
    BY DEF PostedBefore, ToSet
  <2>2. j # k /\ ~PostedBefore(k, j)
    BY NotBothWays
  <2>3. CASE j = slot
    <3>1. Len(posted) >= 1 /\ j = posted[Len(posted)]
      BY <2>1, <2>3, NatFacts DEF LineInv, IInv, BoxInv, Calls, None
    <3>2. PostedBefore(k, j)
      BY <2>1, <2>2, <3>1, BeforeLast
    <3>3. QED
      BY <2>2, <3>2
  <2>4. CASE j # slot
    <3>1. PICK n \in 1..Len(queue) : queue[n].call = j
      BY <2>1, <2>4 DEF NotLost
    <3>2. PostedBefore(k, j)
      BY <3>1 DEF LineInv
    <3>3. QED
      BY <2>2, <3>2
  <2>5. QED
    BY <2>3, <2>4
<1>2. QED
  BY <1>1, Invariance, RequestsNotLost, PTL

(* The callback is called at most once for each request: once a worker has *)
(* fetched its body, no step fetches it again, although a queue entry, a   *)
(* worker and the sender's retries may all still name the call.            *)
THEOREM ServedOnce ==
    Spec => [][\A k \in Calls : body[k] # None => body'[k] = body[k]]_vars
<1> DEFINE Once == \A k \in Calls : body[k] # None => body'[k] = body[k]
<1>1. IInv /\ [Next]_vars => Once \/ UNCHANGED vars
  <2> SUFFICES ASSUME IInv, [Next]_vars PROVE Once \/ UNCHANGED vars
    OBVIOUS
  <2> USE DEF callerVars, slotVars, nameVars, segVars, serverVars, workerVars, history
  <2>1. ASSUME body' = body PROVE Once
    BY <2>1
  <2>2. ASSUME NEW c \in Callers, SendIPC(c) PROVE body' = body
    <3>1. CASE Begin(c) \/ LockSlot(c) \/ Busy(c) \/ FillSlot(c) \/ LockData(c) \/ Post(c)
      BY <3>1 DEF Begin, LockSlot, Busy, FillSlot, LockData, Post
    <3>2. CASE FillData(c) \/ LockOwn(c) \/ Receive(c) \/ NotYet(c) \/ TimeOut(c) \/ End(c)
      BY <3>2 DEF FillData, LockOwn, Receive, NotYet, TimeOut, End
    <3>3. QED
      BY <2>2, <3>1, <3>2 DEF SendIPC
  <2>3. ASSUME NEW w \in Workers, Worker(w) PROVE Once
    <3>1. CASE Serve(w)
      <4>1. wpc[w] = "serve" /\ \E b : body' = [body EXCEPT ![wreq[w].call] = b]
        BY <3>1 DEF Serve
      <4>2. body[wreq[w].call] = None
        BY <4>1 DEF IInv, TakenInv
      <4>3. body \in [Calls -> CallOrNone]
        BY DEF IInv, TypeOK
      <4>4. QED
        BY <4>1, <4>2, <4>3
    <3>2. CASE Loop(w) \/ DeQueue(w) \/ Stopped(w) \/ ServeFails(w)
      BY <2>1, <3>2 DEF Loop, DeQueue, Stopped, ServeFails
    <3>3. CASE Open(w) \/ Respond(w) \/ RespondFails(w) \/ RespondData(w)
      BY <2>1, <3>3 DEF Open, Respond, RespondFails, RespondData
    <3>4. QED
      BY <2>3, <3>1, <3>2, <3>3 DEF Worker
  <2>4. ASSUME NEW p \in Procs, Crash(p) PROVE body' = body
    BY <2>4 DEF Crash
  <2>5. CASE MainTake \/ MainEnd \/ DestroyIPC \/ ServerDies
    BY <2>1, <2>5 DEF MainTake, MainEnd, DestroyIPC, Unlink, ClosedTwice, StopServer, Destroyed,
       ServerDies
  <2>6. QED
    BY <2>1, <2>2, <2>3, <2>4, <2>5 DEF Next
<1>2. QED
  BY <1>1, Invariance, PTL DEF Spec

(* What SendIPC has returned stays: no late answer, time-out or crash      *)
(* changes the result of a call that is over, or which answer it took.     *)
THEOREM ResultStands ==
    Spec => [][\A k \in Calls : outcome[k] # "open" =>
                   outcome'[k] = outcome[k] /\ got'[k] = got[k]]_vars
<1> DEFINE Stands == \A k \in Calls : outcome[k] # "open" =>
                        outcome'[k] = outcome[k] /\ got'[k] = got[k]
<1>1. IInv /\ [Next]_vars => Stands \/ UNCHANGED vars
  <2> SUFFICES ASSUME IInv, [Next]_vars PROVE Stands \/ UNCHANGED vars
    OBVIOUS
  <2> USE DEF callerVars, slotVars, nameVars, segVars, serverVars, workerVars, history
  <2>a. /\ outcome \in [Calls -> {"open", "ok", "bad", "false"}]
        /\ got \in [Calls -> CallOrNone]
        /\ calls \in 0..MaxCalls
    BY DEF IInv, TypeOK
  <2>1. ASSUME outcome' = outcome, got' = got PROVE Stands
    BY <2>1
  <2>2. ASSUME NEW k, outcome[k] = "open",
               \/ outcome' = outcome
               \/ \E r : outcome' = [outcome EXCEPT ![k] = r],
               \/ got' = got
               \/ \E r : got' = [got EXCEPT ![k] = r]
        PROVE  Stands
    BY <2>2, <2>a
  <2>3. ASSUME NEW c \in Callers, SendIPC(c) PROVE Stands
    <3>1. CASE Begin(c)
      <4>1. calls < MaxCalls /\ got' = got
            /\ \/ outcome' = outcome
               \/ outcome' = [outcome EXCEPT ![calls + 1] = "false"]
        BY <3>1 DEF Begin
      <4>2. calls + 1 \in Calls /\ calls + 1 > calls
        BY <4>1, <2>a, IpcAssumption DEF Calls
      <4>3. outcome[calls + 1] = "open"
        BY <4>2 DEF IInv, OpenInv
      <4>4. QED
        BY <2>2, <4>1, <4>3
    <3>2. CASE Receive(c) \/ TimeOut(c)
      <4>1. /\ pc[c] \in {"look", "post", "wait"}
            /\ \E r : outcome' = [outcome EXCEPT ![call[c]] = r]
            /\ got' = got \/ \E r : got' = [got EXCEPT ![call[c]] = r]
        BY <3>2 DEF Receive, TimeOut, Return
      <4>2. outcome[call[c]] = "open"
        BY <4>1 DEF IInv, OpenInv, InCall
      <4>3. QED
        BY <2>2, <4>1, <4>2
    <3>3. CASE LockSlot(c) \/ Busy(c) \/ FillSlot(c) \/ LockData(c) \/ Post(c)
      BY <2>1, <3>3 DEF LockSlot, Busy, FillSlot, LockData, Post
    <3>4. CASE FillData(c) \/ LockOwn(c) \/ NotYet(c) \/ End(c)
      BY <2>1, <3>4 DEF FillData, LockOwn, NotYet, End
    <3>5. QED
      BY <2>3, <3>1, <3>2, <3>3, <3>4 DEF SendIPC
  <2>4. ASSUME NEW w \in Workers, Worker(w) PROVE Stands
    <3>1. CASE Loop(w) \/ DeQueue(w) \/ Stopped(w) \/ Serve(w) \/ ServeFails(w)
      BY <2>1, <3>1 DEF Loop, DeQueue, Stopped, Serve, ServeFails
    <3>2. CASE Open(w) \/ Respond(w) \/ RespondFails(w) \/ RespondData(w)
      BY <2>1, <3>2 DEF Open, Respond, RespondFails, RespondData
    <3>3. QED
      BY <2>4, <3>1, <3>2 DEF Worker
  <2>5. ASSUME NEW p \in Procs, Crash(p) PROVE Stands
    BY <2>1, <2>5 DEF Crash
  <2>6. CASE MainTake \/ MainEnd \/ DestroyIPC \/ ServerDies
    BY <2>1, <2>6 DEF MainTake, MainEnd, DestroyIPC, Unlink, ClosedTwice, StopServer, Destroyed,
       ServerDies
  <2>7. QED
    BY <2>3, <2>4, <2>5, <2>6 DEF Next
<1>2. QED
  BY <1>1, Invariance, PTL DEF Spec

=============================================================================
