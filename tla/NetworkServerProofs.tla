------------------------ MODULE NetworkServerProofs ------------------------
(***************************************************************************)
(* Proofs about NetworkServer, for any number of clients and packets: the  *)
(* types, that the entries of the client map have an open socket and a     *)
(* receiver, that a socket outlives the threads that use it and is closed  *)
(* once, and when a receiver is destroyed.  Each of the first lemmas shows *)
(* that one action keeps the inductive invariant IInv: <1>a is what the    *)
(* action does, <1>t the types it needs, and then there is a step for each *)
(* part of IInv that the action can disturb and one for the others.        *)
(***************************************************************************)
EXTENDS NetworkServer, TLAPS

-----------------------------------------------------------------------------
(* The inductive invariant behind the four invariants of NetworkServer.    *)

(* The lock is held by the listen thread just while it starts a receiver,  *)
(* and by the application from the moment DisConnect has it.               *)
LockInv ==
    /\ lck = "listen" <=> lpc = "assign"
    /\ lck = "app" <=> apc \notin {"idle", "thrown"}

(* The client the listen thread is about to enter is new to all others.    *)
New(c) == /\ rpc[c] = "none" /\ hpc[c] = "none" /\ th[c] = "none"
          /\ c \notin map \cup touched

ListenInv ==
    /\ \A c, d \in accepted : c = d
    /\ lpc = "poll" => accepted = {}
    /\ \A c \in Clients : sock[c] = "none" <=> peer[c] \in {"none", "connecting"}
    /\ \A c \in Clients : sock[c] = "none" => New(c) /\ c \notin accepted
    /\ lpc = "lock" => \A c \in accepted : New(c) /\ sock[c] = "open"
    /\ lpc = "assign" => accepted \subseteq map \ touched

(* No entry outlives its receiver; one whose socket is closed is about to  *)
(* be erased by the application.                                           *)
MapInv ==
    \A c \in map : /\ alive[c]
                   /\ sock[c] = "open" \/ c \in target

(* Whom the application disconnects, that the receive thread of the client *)
(* whose socket it is going to close has left its loop, and that of those  *)
(* it has come to none but the one at hand has a thread to join.           *)
AppInv ==
    /\ victim \cup todo \subseteq target
    /\ target \subseteq touched
    /\ \A c, d \in victim : c = d
    /\ apc = "idle" => target = {}
    /\ apc \in {"reset", "join handler", "close"} =>
            \A c \in victim : rpc[c] \notin {"test", "recv"}
    /\ \A c \in target \ todo :
            th[c] = "joinable" => c \in victim /\ apc \in {"call join", "join"}

(* A receive thread has a std::thread except while Start assigns it; one   *)
(* that is detached has left the loop.                                     *)
ThreadInv ==
    \A c \in Clients :
        /\ th[c] = "none" /\ rpc[c] \notin {"none", "done"} =>
                lpc = "assign" /\ c \in accepted
        /\ th[c] = "detached" => rpc[c] \notin {"none", "test", "recv"}

(* A receive thread nobody interferes with stops nothing before it leaves  *)
(* the loop, and has joined the handler when it takes the lock; nobody     *)
(* else closes its socket.                                                 *)
UntouchedInv ==
    \A c \in Clients \ touched :
        /\ rpc[c] \in {"test", "recv"} => ~isStop[c]
        /\ rpc[c] \in {"test", "recv", "reset"} => spHandler[c]
        /\ rpc[c] \in {"lock", "done"} => hpc[c] = "done"
        /\ sock[c] = "closed" => rpc[c] = "done"

CountInv == \A c \in Clients : inbox[c] + pending[c] <= sent[c]

IInv ==
    /\ TypeOK
    /\ LockInv
    /\ ListenInv
    /\ MapInv
    /\ AppInv
    /\ ThreadInv
    /\ UntouchedInv
    /\ CountInv
    /\ SocketOutlivesUsers
    /\ ReceiverOutlivesThread

-----------------------------------------------------------------------------
LEMMA InitInv == Init => IInv
<1> SUFFICES ASSUME Init PROVE IInv
  BY DEF IInv
<1>1. TypeOK
  BY ServerAssumption DEF Init, TypeOK
<1>2. LockInv /\ ListenInv /\ MapInv /\ AppInv
  BY DEF Init, LockInv, ListenInv, New, MapInv, AppInv
<1>3. ThreadInv /\ UntouchedInv /\ CountInv
  BY DEF Init, ThreadInv, UntouchedInv, CountInv
<1>4. SocketOutlivesUsers /\ ReceiverOutlivesThread
  BY DEF Init, SocketOutlivesUsers, ReceiverOutlivesThread
<1>5. QED
  BY <1>1, <1>2, <1>3, <1>4 DEF IInv

-----------------------------------------------------------------------------
(* The clients. *)

LEMMA ClientConnectsInv ==
    ASSUME IInv, NEW c \in Clients, ClientConnects(c)
    PROVE  IInv'
<1> USE DEF IInv, Set, clientVars, receiveVars, handlerVars, listenVars, appVars
<1>a. /\ peer[c] = "none"
      /\ peer' = [peer EXCEPT ![c] = "connecting"]
      /\ UNCHANGED <<lck, map, sent, sock, inbox, receiveVars, handlerVars,
                     listenVars, appVars>>
  BY DEF ClientConnects
<1>t. peer \in [Clients -> {"none", "connecting", "open", "closed"}]
  BY DEF TypeOK
<1>1. TypeOK'
  BY <1>a DEF TypeOK
<1>2. ListenInv'
  BY <1>a, <1>t DEF ListenInv, New
<1>3. /\ LockInv' /\ MapInv' /\ AppInv' /\ ThreadInv'
      /\ UntouchedInv' /\ CountInv' /\ SocketOutlivesUsers' /\ ReceiverOutlivesThread'
  BY <1>a DEF LockInv, MapInv, AppInv, ThreadInv, UntouchedInv, CountInv,
     SocketOutlivesUsers, ReceiverOutlivesThread
<1>4. QED
  BY <1>1, <1>2, <1>3

LEMMA ClientSendsInv ==
    ASSUME IInv, NEW c \in Clients, ClientSends(c)
    PROVE  IInv'
<1> USE DEF IInv, Set, clientVars, receiveVars, handlerVars, listenVars, appVars
<1>a. /\ peer[c] = "open" /\ sent[c] < MaxPackets
      /\ sent' = [sent EXCEPT ![c] = sent[c] + 1]
      /\ inbox' = [inbox EXCEPT ![c] = inbox[c] + 1]
      /\ UNCHANGED <<lck, map, peer, sock, receiveVars, handlerVars, listenVars,
                     appVars>>
  BY DEF ClientSends
<1>t. /\ sent \in [Clients -> 0..MaxPackets]
      /\ inbox \in [Clients -> 0..MaxPackets]
      /\ pending \in [Clients -> 0..MaxPackets]
  BY DEF TypeOK
<1>b. sent[c] + 1 \in 0..MaxPackets /\ inbox[c] + 1 \in 0..MaxPackets
  BY <1>a, <1>t, ServerAssumption DEF CountInv
<1>1. TypeOK'
  BY <1>a, <1>b DEF TypeOK
<1>2. CountInv'
  BY <1>a, <1>t DEF CountInv
<1>3. LockInv' /\ AppInv'
  BY <1>a DEF LockInv, AppInv
<1>4. ListenInv' /\ MapInv'
  BY <1>a DEF ListenInv, MapInv, New
<1>5. ThreadInv' /\ UntouchedInv'
  BY <1>a DEF ThreadInv, UntouchedInv, New
<1>6. SocketOutlivesUsers' /\ ReceiverOutlivesThread'
  BY <1>a DEF SocketOutlivesUsers, ReceiverOutlivesThread
<1>7. QED
  BY <1>1, <1>2, <1>3, <1>4, <1>5, <1>6

LEMMA ClientClosesInv ==
    ASSUME IInv, NEW c \in Clients, ClientCloses(c)
    PROVE  IInv'
<1> USE DEF IInv, Set, clientVars, receiveVars, handlerVars, listenVars, appVars
<1>a. /\ peer[c] = "open"
      /\ peer' = [peer EXCEPT ![c] = "closed"]
      /\ UNCHANGED <<lck, map, sent, sock, inbox, receiveVars, handlerVars,
                     listenVars, appVars>>
  BY DEF ClientCloses
<1>t. peer \in [Clients -> {"none", "connecting", "open", "closed"}]
  BY DEF TypeOK
<1>1. TypeOK'
  BY <1>a DEF TypeOK
<1>2. ListenInv'
  BY <1>a, <1>t DEF ListenInv, New
<1>3. /\ LockInv' /\ MapInv' /\ AppInv' /\ ThreadInv'
      /\ UntouchedInv' /\ CountInv' /\ SocketOutlivesUsers' /\ ReceiverOutlivesThread'
  BY <1>a DEF LockInv, MapInv, AppInv, ThreadInv, UntouchedInv, CountInv,
     SocketOutlivesUsers, ReceiverOutlivesThread
<1>4. QED
  BY <1>1, <1>2, <1>3

-----------------------------------------------------------------------------
(* The listen thread. *)

LEMMA AcceptInv ==
    ASSUME IInv, NEW c \in Clients, Accept(c)
    PROVE  IInv'
<1> USE DEF IInv, Set, clientVars, receiveVars, handlerVars, listenVars, appVars
<1>a. /\ lpc = "poll" /\ peer[c] = "connecting"
      /\ peer' = [peer EXCEPT ![c] = "open"]
      /\ sock' = [sock EXCEPT ![c] = "open"]
      /\ accepted' = {c}
      /\ lpc' = "lock"
      /\ UNCHANGED <<lck, map, sent, inbox, receiveVars, handlerVars, appVars>>
  BY DEF Accept
<1>t. /\ peer \in [Clients -> {"none", "connecting", "open", "closed"}]
      /\ sock \in [Clients -> {"none", "open", "closed"}]
      /\ map \cup accepted \cup victim \cup todo \cup target \cup touched \subseteq Clients
  BY DEF TypeOK
<1>1. TypeOK'
  <2>1. /\ peer' \in [Clients -> {"none", "connecting", "open", "closed"}]
        /\ sock' \in [Clients -> {"none", "open", "closed"}]
        /\ accepted' \subseteq Clients
        /\ lpc' \in {"poll", "lock", "assign"}
    BY <1>a, <1>t
  <2>2. QED
    BY <1>a, <2>1 DEF TypeOK
<1>2. LockInv'
  BY <1>a, <1>t DEF LockInv
<1>3. ListenInv'
  BY <1>a, <1>t DEF ListenInv, New
<1>4. MapInv'
  BY <1>a, <1>t DEF MapInv
<1>5. ThreadInv'
  BY <1>a, <1>t DEF ThreadInv, ListenInv, New
<1>6. UntouchedInv'
  BY <1>a, <1>t DEF UntouchedInv
<1>7. SocketOutlivesUsers'
  BY <1>a, <1>t DEF SocketOutlivesUsers
<1>8. AppInv' /\ CountInv' /\ ReceiverOutlivesThread'
  BY <1>a DEF AppInv, CountInv, ReceiverOutlivesThread
<1>9. QED
  BY <1>1, <1>2, <1>3, <1>4, <1>5, <1>6, <1>7, <1>8

LEMMA InsertAndStartInv ==
    ASSUME IInv, NEW c \in Clients, InsertAndStart(c)
    PROVE  IInv'
<1> USE DEF IInv, Set, clientVars, receiveVars, handlerVars, listenVars, appVars
<1>a. /\ lpc = "lock" /\ c \in accepted /\ lck = "free"
      /\ lck' = "listen"
      /\ map' = map \cup {c}
      /\ alive' = [alive EXCEPT ![c] = TRUE]
      /\ isStop' = [isStop EXCEPT ![c] = FALSE]
      /\ spHandler' = [spHandler EXCEPT ![c] = TRUE]
      /\ hpc' = [hpc EXCEPT ![c] = "test"]
      /\ rpc' = [rpc EXCEPT ![c] = "test"]
      /\ lpc' = "assign"
      /\ UNCHANGED <<clientVars, sock, inbox, th, pending, hStop, accepted,
                     appVars>>
  BY DEF InsertAndStart
<1>t. /\ alive \in [Clients -> BOOLEAN]
      /\ isStop \in [Clients -> BOOLEAN]
      /\ rpc \in [Clients -> {"none", "test", "recv", "reset", "join", "lock", "done"}]
      /\ spHandler \in [Clients -> BOOLEAN]
      /\ hpc \in [Clients -> {"none", "test", "dequeue", "busy", "overslept", "done"}]
      /\ map \cup accepted \cup victim \cup todo \cup target \cup touched \subseteq Clients
  BY DEF TypeOK
<1>b. New(c) /\ sock[c] = "open"
  BY <1>a DEF ListenInv
<1>1. TypeOK'
  BY <1>a DEF TypeOK
<1>2. LockInv'
  BY <1>a, <1>t DEF LockInv
<1>3. ListenInv'
  BY <1>a, <1>t DEF ListenInv, New
<1>4. MapInv'
  BY <1>a, <1>t, <1>b DEF MapInv, New
<1>5. AppInv'
  <2>1. apc \in {"idle", "thrown"}
    BY <1>a DEF LockInv, TypeOK
  <2>2. QED
    BY <1>a, <2>1 DEF AppInv
<1>6. ThreadInv'
  BY <1>a, <1>t, <1>b DEF ThreadInv, New
<1>7. UntouchedInv'
  BY <1>a, <1>t, <1>b DEF UntouchedInv, New
<1>8. SocketOutlivesUsers'
  BY <1>a, <1>t, <1>b DEF SocketOutlivesUsers, New
<1>9. ReceiverOutlivesThread'
  BY <1>a, <1>t, <1>b DEF ReceiverOutlivesThread, New
<1>10. CountInv'
  BY <1>a DEF CountInv
<1>11. QED
  BY <1>1, <1>2, <1>3, <1>4, <1>5, <1>6, <1>7, <1>8, <1>9, <1>10

LEMMA AssignThreadInv ==
    ASSUME IInv, NEW c \in Clients, AssignThread(c)
    PROVE  IInv'
<1> USE DEF IInv, Set, clientVars, receiveVars, handlerVars, listenVars, appVars
<1>a. /\ lpc = "assign" /\ c \in accepted
      /\ lck' = "free"
      /\ th' = [th EXCEPT ![c] = "joinable"]
      /\ accepted' = {}
      /\ lpc' = "poll"
      /\ UNCHANGED <<map, clientVars, sock, inbox, alive, isStop, rpc,
                     handlerVars, appVars>>
  BY DEF AssignThread
<1>t. /\ th \in [Clients -> {"none", "joinable", "detached"}]
      /\ map \cup accepted \cup victim \cup todo \cup target \cup touched \subseteq Clients
  BY DEF TypeOK
<1>1. TypeOK'
  BY <1>a DEF TypeOK
<1>2. LockInv'
  BY <1>a, <1>t DEF LockInv
<1>3. ListenInv'
  BY <1>a, <1>t DEF ListenInv, New
<1>4. ThreadInv'
  BY <1>a, <1>t DEF ThreadInv, ListenInv, New
<1>5. MapInv' /\ UntouchedInv' /\ CountInv' /\ SocketOutlivesUsers'
  BY <1>a DEF MapInv, UntouchedInv, CountInv, SocketOutlivesUsers
<1>6. AppInv' /\ ReceiverOutlivesThread'
  <2>1. c \in map /\ alive[c] /\ c \notin target
    BY <1>a DEF ListenInv, MapInv, AppInv
  <2>2. \A d \in Clients : d # c => th'[d] = th[d]
    BY <1>a, <1>t
  <2>3. AppInv'
    BY <1>a, <1>t, <2>1, <2>2 DEF AppInv
  <2>4. ReceiverOutlivesThread'
    BY <1>a, <2>1, <2>2 DEF ReceiverOutlivesThread
  <2>5. QED
    BY <2>3, <2>4
<1>7. QED
  BY <1>1, <1>2, <1>3, <1>4, <1>5, <1>6

-----------------------------------------------------------------------------
(* The receive thread. *)

LEMMA LoopTestInv ==
    ASSUME IInv, NEW c \in Clients, LoopTest(c)
    PROVE  IInv'
<1> USE DEF IInv, Set, clientVars, receiveVars, handlerVars, listenVars, appVars
<1>a. /\ rpc[c] = "test" /\ alive[c]
      /\ rpc' = [rpc EXCEPT ![c] = IF isStop[c] THEN "done" ELSE "recv"]
      /\ UNCHANGED <<lck, map, clientVars, sock, inbox, alive, isStop, th,
                     handlerVars, listenVars, appVars>>
  BY DEF LoopTest
<1>t. /\ rpc \in [Clients -> {"none", "test", "recv", "reset", "join", "lock", "done"}]
      /\ victim \subseteq Clients
  BY DEF TypeOK
<1>1. TypeOK'
  BY <1>a DEF TypeOK
<1>2. ListenInv'
  BY <1>a, <1>t DEF ListenInv, New
<1>3. AppInv'
  BY <1>a, <1>t DEF AppInv
<1>4. ThreadInv'
  BY <1>a, <1>t DEF ThreadInv
<1>5. UntouchedInv'
  BY <1>a, <1>t DEF UntouchedInv
<1>6. SocketOutlivesUsers'
  BY <1>a, <1>t DEF SocketOutlivesUsers
<1>7. ReceiverOutlivesThread'
  BY <1>a, <1>t DEF ReceiverOutlivesThread
<1>8. LockInv' /\ MapInv' /\ CountInv'
  BY <1>a DEF LockInv, MapInv, CountInv
<1>9. QED
  BY <1>1, <1>2, <1>3, <1>4, <1>5, <1>6, <1>7, <1>8

LEMMA ReceivePacketInv ==
    ASSUME IInv, NEW c \in Clients, ReceivePacket(c)
    PROVE  IInv'
<1> USE DEF IInv, Set, clientVars, receiveVars, handlerVars, listenVars, appVars
<1>a. /\ rpc[c] = "recv" /\ alive[c] /\ inbox[c] > 0
      /\ inbox' = [inbox EXCEPT ![c] = inbox[c] - 1]
      /\ pending' = [pending EXCEPT ![c] = pending[c] + 1]
      /\ rpc' = [rpc EXCEPT ![c] = "test"]
      /\ UNCHANGED <<lck, map, clientVars, sock, alive, isStop, th, spHandler,
                     hStop, hpc, listenVars, appVars>>
  BY DEF ReceivePacket
<1>t. /\ sent \in [Clients -> 0..MaxPackets]
      /\ inbox \in [Clients -> 0..MaxPackets]
      /\ rpc \in [Clients -> {"none", "test", "recv", "reset", "join", "lock", "done"}]
      /\ pending \in [Clients -> 0..MaxPackets]
      /\ victim \subseteq Clients
  BY DEF TypeOK
<1>b. inbox[c] - 1 \in 0..MaxPackets /\ pending[c] + 1 \in 0..MaxPackets
  BY <1>a, <1>t, ServerAssumption DEF CountInv
<1>1. TypeOK'
  BY <1>a, <1>b DEF TypeOK
<1>2. ListenInv'
  BY <1>a, <1>t DEF ListenInv, New
<1>3. AppInv'
  BY <1>a, <1>t DEF AppInv
<1>4. ThreadInv'
  BY <1>a, <1>t DEF ThreadInv
<1>5. UntouchedInv'
  BY <1>a, <1>t DEF UntouchedInv
<1>6. CountInv'
  BY <1>a, <1>t DEF CountInv
<1>7. SocketOutlivesUsers'
  BY <1>a, <1>t DEF SocketOutlivesUsers
<1>8. ReceiverOutlivesThread'
  BY <1>a, <1>t DEF ReceiverOutlivesThread
<1>9. LockInv' /\ MapInv'
  BY <1>a DEF LockInv, MapInv
<1>10. QED
  BY <1>1, <1>2, <1>3, <1>4, <1>5, <1>6, <1>7, <1>8, <1>9

LEMMA ReceiveClosedInv ==
    ASSUME IInv, NEW c \in Clients, ReceiveClosed(c)
    PROVE  IInv'
<1> USE DEF IInv, Set, clientVars, receiveVars, handlerVars, listenVars, appVars
<1>a. /\ rpc[c] = "recv" /\ alive[c]
      /\ peer[c] = "closed" /\ inbox[c] = 0
      /\ isStop' = [isStop EXCEPT ![c] = TRUE]
      /\ th' = [th EXCEPT ![c] = IF th[c] = "joinable" THEN "detached" ELSE th[c]]
      /\ rpc' = [rpc EXCEPT ![c] = "reset"]
      /\ UNCHANGED <<lck, map, clientVars, sock, inbox, alive, handlerVars,
                     listenVars, appVars>>
  BY DEF ReceiveClosed
<1>t. /\ isStop \in [Clients -> BOOLEAN]
      /\ th \in [Clients -> {"none", "joinable", "detached"}]
      /\ rpc \in [Clients -> {"none", "test", "recv", "reset", "join", "lock", "done"}]
      /\ victim \cup target \subseteq Clients
  BY DEF TypeOK
<1>1. TypeOK'
  BY <1>a DEF TypeOK
<1>2. ListenInv'
  BY <1>a, <1>t DEF ListenInv, New
<1>3. AppInv'
  BY <1>a, <1>t DEF AppInv
<1>4. ThreadInv'
  BY <1>a, <1>t DEF ThreadInv
<1>5. UntouchedInv'
  BY <1>a, <1>t DEF UntouchedInv
<1>6. SocketOutlivesUsers'
  BY <1>a, <1>t DEF SocketOutlivesUsers
<1>7. ReceiverOutlivesThread'
  BY <1>a, <1>t DEF ReceiverOutlivesThread
<1>8. LockInv' /\ MapInv' /\ CountInv'
  BY <1>a DEF LockInv, MapInv, CountInv
<1>9. QED
  BY <1>1, <1>2, <1>3, <1>4, <1>5, <1>6, <1>7, <1>8

(* What destroying the handler changes, if there is one. *)
LEMMA StopEffect ==
    ASSUME TypeOK, NEW c \in Clients, StopHandler(c) \/ UNCHANGED handlerVars
    PROVE  /\ spHandler' \in [Clients -> BOOLEAN]
           /\ hStop' \in [Clients -> BOOLEAN]
           /\ hpc' \in [Clients -> {"none", "test", "dequeue", "busy", "overslept", "done"}]
           /\ UNCHANGED pending
           /\ \A d \in Clients : spHandler'[d] # spHandler[d] => d = c
           /\ \A d \in Clients : hpc'[d] # hpc[d] => hpc[d] = "dequeue" /\ hpc'[d] = "overslept"
<1> USE DEF Set, handlerVars
<1>t. /\ spHandler \in [Clients -> BOOLEAN]
      /\ hStop \in [Clients -> BOOLEAN]
      /\ hpc \in [Clients -> {"none", "test", "dequeue", "busy", "overslept", "done"}]
  BY DEF TypeOK
<1>1. CASE UNCHANGED handlerVars
  BY <1>1, <1>t
<1>2. CASE StopHandler(c)
  <2>1. /\ spHandler' = [spHandler EXCEPT ![c] = FALSE]
        /\ hStop' = [hStop EXCEPT ![c] = TRUE]
        /\ UNCHANGED pending
        /\ \/ hpc' = hpc
           \/ hpc[c] = "dequeue" /\ hpc' = [hpc EXCEPT ![c] = "overslept"]
    BY <1>2 DEF StopHandler
  <2>2. /\ hpc' \in [Clients -> {"none", "test", "dequeue", "busy", "overslept", "done"}]
        /\ \A d \in Clients : hpc'[d] # hpc[d] => hpc[d] = "dequeue" /\ hpc'[d] = "overslept"
    BY <1>t, <2>1
  <2>3. QED
    BY <1>t, <2>1, <2>2
<1>3. QED
  BY <1>1, <1>2

LEMMA ResetHandlerInv ==
    ASSUME IInv, NEW c \in Clients, ResetHandler(c)
    PROVE  IInv'
<1> USE DEF IInv, Set, clientVars, receiveVars, handlerVars, listenVars, appVars
<1>a. /\ rpc[c] = "reset" /\ alive[c]
      /\ StopHandler(c) \/ UNCHANGED handlerVars
      /\ \/ spHandler[c] /\ rpc' = [rpc EXCEPT ![c] = "join"]
         \/ ~spHandler[c] /\ rpc' = [rpc EXCEPT ![c] = "lock"]
      /\ UNCHANGED <<lck, map, clientVars, sock, inbox, alive, isStop, th,
                     listenVars, appVars>>
  BY DEF ResetHandler
<1>b. /\ \A d \in Clients : spHandler'[d] # spHandler[d] => d = c
      /\ \A d \in Clients : hpc'[d] # hpc[d] => hpc[d] = "dequeue" /\ hpc'[d] = "overslept"
      /\ UNCHANGED pending
  BY <1>a, StopEffect
<1>c. /\ rpc \in [Clients -> {"none", "test", "recv", "reset", "join", "lock", "done"}]
      /\ victim \cup accepted \subseteq Clients
  BY DEF TypeOK
<1>d. /\ rpc'[c] \in {"join", "lock"}
      /\ rpc'[c] = "lock" => ~spHandler[c]
      /\ \A d \in Clients \ {c} : rpc'[d] = rpc[d]
  BY <1>a, <1>c
<1>e. /\ rpc' \in [Clients -> {"none", "test", "recv", "reset", "join", "lock", "done"}]
      /\ spHandler' \in [Clients -> BOOLEAN]
      /\ hStop' \in [Clients -> BOOLEAN]
      /\ hpc' \in [Clients -> {"none", "test", "dequeue", "busy", "overslept", "done"}]
  BY <1>a, <1>c, StopEffect
<1>1. TypeOK'
  BY <1>a, <1>b, <1>e DEF TypeOK
<1>2. ListenInv'
  <2>1. \A d \in Clients : New(d) => New(d)'
    BY <1>a, <1>b, <1>d DEF New
  <2>2. QED
    BY <1>a, <1>c, <2>1 DEF ListenInv
<1>3. AppInv'
  BY <1>a, <1>c, <1>d DEF AppInv
<1>4. ThreadInv'
  BY <1>a, <1>d DEF ThreadInv
<1>5. UntouchedInv'
  BY <1>a, <1>b, <1>d DEF UntouchedInv
<1>6. SocketOutlivesUsers'
  BY <1>a, <1>b, <1>d DEF SocketOutlivesUsers
<1>7. ReceiverOutlivesThread'
  BY <1>a, <1>d DEF ReceiverOutlivesThread
<1>8. LockInv' /\ MapInv' /\ CountInv'
  BY <1>a, <1>b DEF LockInv, MapInv, CountInv
<1>9. QED
  BY <1>1, <1>2, <1>3, <1>4, <1>5, <1>6, <1>7, <1>8

LEMMA JoinHandlerInv ==
    ASSUME IInv, NEW c \in Clients, JoinHandler(c)
    PROVE  IInv'
<1> USE DEF IInv, Set, clientVars, receiveVars, handlerVars, listenVars, appVars
<1>a. /\ rpc[c] = "join" /\ hpc[c] = "done"
      /\ rpc' = [rpc EXCEPT ![c] = "lock"]
      /\ UNCHANGED <<lck, map, clientVars, sock, inbox, alive, isStop, th,
                     handlerVars, listenVars, appVars>>
  BY DEF JoinHandler
<1>t. /\ rpc \in [Clients -> {"none", "test", "recv", "reset", "join", "lock", "done"}]
      /\ victim \subseteq Clients
  BY DEF TypeOK
<1>1. TypeOK'
  BY <1>a DEF TypeOK
<1>2. ListenInv'
  BY <1>a, <1>t DEF ListenInv, New
<1>3. AppInv'
  BY <1>a, <1>t DEF AppInv
<1>4. ThreadInv'
  BY <1>a, <1>t DEF ThreadInv
<1>5. UntouchedInv'
  BY <1>a, <1>t DEF UntouchedInv
<1>6. SocketOutlivesUsers'
  BY <1>a, <1>t DEF SocketOutlivesUsers
<1>7. ReceiverOutlivesThread'
  BY <1>a, <1>t DEF ReceiverOutlivesThread
<1>8. LockInv' /\ MapInv' /\ CountInv'
  BY <1>a DEF LockInv, MapInv, CountInv
<1>9. QED
  BY <1>1, <1>2, <1>3, <1>4, <1>5, <1>6, <1>7, <1>8

LEMMA DisConnectSelfInv ==
    ASSUME IInv, NEW c \in Clients, DisConnectSelf(c)
    PROVE  IInv'
<1> USE DEF IInv, Set, clientVars, receiveVars, handlerVars, listenVars, appVars
<1>a. /\ rpc[c] = "lock" /\ alive[c] /\ lck = "free"
      /\ rpc' = [rpc EXCEPT ![c] = "done"]
      /\ \/ UNCHANGED <<map, alive, th, sock>>
         \/ /\ th' = [th EXCEPT ![c] = IF th[c] = "joinable" THEN "detached" ELSE th[c]]
            /\ map' = map \ {c}
            /\ alive' = [alive EXCEPT ![c] = FALSE]
            /\ sock' = [sock EXCEPT ![c] = "closed"]
      /\ UNCHANGED <<lck, clientVars, inbox, isStop, handlerVars, listenVars,
                     appVars>>
  BY DEF DisConnectSelf
<1>t. /\ sock \in [Clients -> {"none", "open", "closed"}]
      /\ alive \in [Clients -> BOOLEAN]
      /\ th \in [Clients -> {"none", "joinable", "detached"}]
      /\ rpc \in [Clients -> {"none", "test", "recv", "reset", "join", "lock", "done"}]
      /\ map \cup victim \cup target \subseteq Clients
  BY DEF TypeOK
<1>b. /\ rpc'[c] = "done"
      /\ \A d \in Clients \ {c} : /\ rpc'[d] = rpc[d] /\ th'[d] = th[d]
                                  /\ alive'[d] = alive[d] /\ sock'[d] = sock[d]
      /\ map' \subseteq map /\ sock'[c] \in {"closed", sock[c]}
      /\ th'[c] = "joinable" => th[c] = "joinable" /\ alive'[c]
  BY <1>a, <1>t
<1>1. TypeOK'
  <2>1. /\ sock' \in [Clients -> {"none", "open", "closed"}]
        /\ alive' \in [Clients -> BOOLEAN]
        /\ th' \in [Clients -> {"none", "joinable", "detached"}]
        /\ rpc' \in [Clients -> {"none", "test", "recv", "reset", "join", "lock", "done"}]
        /\ map' \subseteq Clients
    BY <1>a, <1>t
  <2>2. QED
    BY <1>a, <2>1 DEF TypeOK
<1>2. ListenInv'
  <2>1. sock[c] # "none"
    BY <1>a DEF ListenInv, New
  <2>2. lpc = "lock" => c \notin accepted
    BY <1>a DEF ListenInv, New
  <2>3. \A d \in Clients \ {c} : sock'[d] = sock[d] /\ (New(d) => New(d)')
    BY <1>a, <1>b DEF New
  <2>4. accepted \subseteq Clients /\ sock'[c] # "none"
    BY <1>b, <2>1 DEF TypeOK
  <2>5. QED
    <3>1. lpc # "assign"
      BY <1>a DEF LockInv
    <3>2. QED
      BY <1>a, <3>1, <2>1, <2>2, <2>3, <2>4 DEF ListenInv
<1>3. MapInv'
  BY <1>a, <1>t DEF MapInv
<1>4. AppInv'
  BY <1>a, <1>b, <1>t DEF AppInv
<1>5. ThreadInv'
  BY <1>a, <1>t DEF ThreadInv
<1>6. UntouchedInv'
  BY <1>a, <1>b DEF UntouchedInv
<1>7. SocketOutlivesUsers'
  BY <1>a, <1>b DEF SocketOutlivesUsers, UntouchedInv
<1>8. ReceiverOutlivesThread'
  BY <1>a, <1>b DEF ReceiverOutlivesThread
<1>9. LockInv' /\ CountInv'
  BY <1>a DEF LockInv, CountInv
<1>10. QED
  BY <1>1, <1>2, <1>3, <1>4, <1>5, <1>6, <1>7, <1>8, <1>9

-----------------------------------------------------------------------------
(* The handler thread. *)

LEMMA HandlerTestInv ==
    ASSUME IInv, NEW c \in Clients, HandlerTest(c)
    PROVE  IInv'
<1> USE DEF IInv, Set, clientVars, receiveVars, handlerVars, listenVars, appVars
<1>a. /\ hpc[c] = "test"
      /\ hpc' = [hpc EXCEPT ![c] = IF hStop[c] THEN "done" ELSE "dequeue"]
      /\ UNCHANGED <<lck, map, clientVars, sock, inbox, receiveVars, spHandler,
                     pending, hStop, listenVars, appVars>>
  BY DEF HandlerTest
<1>t. hpc \in [Clients -> {"none", "test", "dequeue", "busy", "overslept", "done"}]
  BY DEF TypeOK
<1>1. TypeOK'
  BY <1>a DEF TypeOK
<1>2. ListenInv'
  BY <1>a, <1>t DEF ListenInv, New
<1>3. UntouchedInv'
  BY <1>a, <1>t DEF UntouchedInv
<1>4. SocketOutlivesUsers'
  BY <1>a, <1>t DEF SocketOutlivesUsers
<1>5. /\ LockInv' /\ MapInv' /\ AppInv' /\ ThreadInv'
      /\ CountInv' /\ ReceiverOutlivesThread'
  BY <1>a DEF LockInv, MapInv, AppInv, ThreadInv, CountInv, ReceiverOutlivesThread
<1>6. QED
  BY <1>1, <1>2, <1>3, <1>4, <1>5

LEMMA HandlerTakesInv ==
    ASSUME IInv, NEW c \in Clients, HandlerTakes(c)
    PROVE  IInv'
<1> USE DEF IInv, Set, clientVars, receiveVars, handlerVars, listenVars, appVars
<1>a. /\ hpc[c] = "dequeue" /\ pending[c] > 0
      /\ pending' = [pending EXCEPT ![c] = pending[c] - 1]
      /\ hpc' = [hpc EXCEPT ![c] = "busy"]
      /\ UNCHANGED <<lck, map, clientVars, sock, inbox, receiveVars, spHandler,
                     hStop, listenVars, appVars>>
  BY DEF HandlerTakes
<1>t. /\ sent \in [Clients -> 0..MaxPackets]
      /\ sock \in [Clients -> {"none", "open", "closed"}]
      /\ inbox \in [Clients -> 0..MaxPackets]
      /\ pending \in [Clients -> 0..MaxPackets]
      /\ hpc \in [Clients -> {"none", "test", "dequeue", "busy", "overslept", "done"}]
  BY DEF TypeOK
<1>b. pending[c] - 1 \in 0..MaxPackets
  BY <1>a, <1>t, ServerAssumption
<1>1. TypeOK'
  BY <1>a, <1>b DEF TypeOK
<1>2. ListenInv'
  BY <1>a, <1>t DEF ListenInv, New
<1>3. UntouchedInv'
  BY <1>a, <1>t DEF UntouchedInv
<1>4. CountInv'
  BY <1>a, <1>t, ServerAssumption DEF CountInv
<1>5. SocketOutlivesUsers'
  BY <1>a, <1>t DEF SocketOutlivesUsers, UntouchedInv, ListenInv, New
<1>6. LockInv' /\ MapInv' /\ AppInv' /\ ThreadInv' /\ ReceiverOutlivesThread'
  BY <1>a DEF LockInv, MapInv, AppInv, ThreadInv, ReceiverOutlivesThread
<1>7. QED
  BY <1>1, <1>2, <1>3, <1>4, <1>5, <1>6

LEMMA HandlerStoppedInv ==
    ASSUME IInv, NEW c \in Clients, HandlerStopped(c)
    PROVE  IInv'
<1> USE DEF IInv, Set, clientVars, receiveVars, handlerVars, listenVars, appVars
<1>a. /\ hpc[c] = "dequeue" /\ hStop[c]
      /\ hpc' = [hpc EXCEPT ![c] = "test"]
      /\ UNCHANGED <<lck, map, clientVars, sock, inbox, receiveVars, spHandler,
                     pending, hStop, listenVars, appVars>>
  BY DEF HandlerStopped
<1>t. hpc \in [Clients -> {"none", "test", "dequeue", "busy", "overslept", "done"}]
  BY DEF TypeOK
<1>1. TypeOK'
  BY <1>a DEF TypeOK
<1>2. ListenInv'
  BY <1>a, <1>t DEF ListenInv, New
<1>3. UntouchedInv'
  BY <1>a, <1>t DEF UntouchedInv
<1>4. SocketOutlivesUsers'
  BY <1>a, <1>t DEF SocketOutlivesUsers
<1>5. /\ LockInv' /\ MapInv' /\ AppInv' /\ ThreadInv'
      /\ CountInv' /\ ReceiverOutlivesThread'
  BY <1>a DEF LockInv, MapInv, AppInv, ThreadInv, CountInv, ReceiverOutlivesThread
<1>6. QED
  BY <1>1, <1>2, <1>3, <1>4, <1>5

LEMMA HandlerReturnsInv ==
    ASSUME IInv, NEW c \in Clients, HandlerReturns(c)
    PROVE  IInv'
<1> USE DEF IInv, Set, clientVars, receiveVars, handlerVars, listenVars, appVars
<1>a. /\ hpc[c] = "busy"
      /\ hpc' = [hpc EXCEPT ![c] = "test"]
      /\ UNCHANGED <<lck, map, clientVars, sock, inbox, receiveVars, spHandler,
                     pending, hStop, listenVars, appVars>>
  BY DEF HandlerReturns
<1>t. hpc \in [Clients -> {"none", "test", "dequeue", "busy", "overslept", "done"}]
  BY DEF TypeOK
<1>1. TypeOK'
  BY <1>a DEF TypeOK
<1>2. ListenInv'
  BY <1>a, <1>t DEF ListenInv, New
<1>3. UntouchedInv'
  BY <1>a, <1>t DEF UntouchedInv
<1>4. SocketOutlivesUsers'
  BY <1>a, <1>t DEF SocketOutlivesUsers
<1>5. /\ LockInv' /\ MapInv' /\ AppInv' /\ ThreadInv'
      /\ CountInv' /\ ReceiverOutlivesThread'
  BY <1>a DEF LockInv, MapInv, AppInv, ThreadInv, CountInv, ReceiverOutlivesThread
<1>6. QED
  BY <1>1, <1>2, <1>3, <1>4, <1>5
-----------------------------------------------------------------------------
(* The application. *)

LEMMA AppLockInv ==
    ASSUME IInv, AppLock
    PROVE  IInv'
<1> USE DEF IInv, Set, clientVars, receiveVars, handlerVars, listenVars, appVars
<1>a. /\ apc = "idle" /\ lck = "free"
      /\ target' \subseteq map
      /\ todo' = target'
      /\ touched' = touched \cup target'
      /\ lck' = "app"
      /\ apc' = "stop"
      /\ UNCHANGED <<map, clientVars, sock, inbox, receiveVars, handlerVars,
                     listenVars, victim>>
  BY DEF AppLock
<1>t. map \cup accepted \cup victim \cup todo \cup target \cup touched \subseteq Clients
  BY DEF TypeOK
<1>1. TypeOK'
  BY <1>a DEF TypeOK
<1>2. LockInv'
  BY <1>a, <1>t DEF LockInv
<1>3. ListenInv'
  BY <1>a, <1>t DEF ListenInv, New, LockInv
<1>4. MapInv'
  BY <1>a, <1>t DEF MapInv, AppInv
<1>5. AppInv'
  BY <1>a, <1>t DEF AppInv
<1>6. UntouchedInv'
  BY <1>a, <1>t DEF UntouchedInv
<1>7. SocketOutlivesUsers'
  BY <1>a, <1>t DEF SocketOutlivesUsers
<1>8. ReceiverOutlivesThread'
  BY <1>a, <1>t DEF ReceiverOutlivesThread
<1>9. ThreadInv' /\ CountInv'
  BY <1>a DEF ThreadInv, CountInv
<1>10. QED
  BY <1>1, <1>2, <1>3, <1>4, <1>5, <1>6, <1>7, <1>8, <1>9

LEMMA AppStopInv ==
    ASSUME IInv, NEW c \in Clients, AppStop(c)
    PROVE  IInv'
<1> USE DEF IInv, Set, clientVars, receiveVars, handlerVars, listenVars, appVars
<1>a. /\ apc = "stop" /\ c \in todo
      /\ victim' = {c}
      /\ todo' = todo \ {c}
      /\ isStop' = [isStop EXCEPT ![c] = TRUE]
      /\ apc' = IF th[c] = "joinable" THEN "call join" ELSE "reset"
      /\ UNCHANGED <<lck, map, clientVars, sock, inbox, alive, th, rpc,
                     handlerVars, listenVars, target, touched>>
  BY DEF AppStop
<1>t. /\ isStop \in [Clients -> BOOLEAN]
      /\ th \in [Clients -> {"none", "joinable", "detached"}]
      /\ map \cup accepted \cup victim \cup todo \cup target \cup touched \subseteq Clients
  BY DEF TypeOK
<1>1. TypeOK'
  <2>1. /\ isStop' \in [Clients -> BOOLEAN]
        /\ victim' \cup todo' \subseteq Clients
        /\ apc' \in {"call join", "reset"}
    BY <1>a, <1>t
  <2>2. QED
    BY <1>a, <2>1 DEF TypeOK
<1>2. LockInv'
  BY <1>a, <1>t DEF LockInv
<1>3. AppInv'
  BY <1>a, <1>t DEF AppInv, ThreadInv, LockInv
<1>4. UntouchedInv'
  BY <1>a, <1>t DEF UntouchedInv, AppInv
<1>5. /\ ListenInv' /\ MapInv' /\ ThreadInv' /\ CountInv'
      /\ SocketOutlivesUsers' /\ ReceiverOutlivesThread'
  BY <1>a DEF ListenInv, MapInv, ThreadInv, CountInv, SocketOutlivesUsers,
     ReceiverOutlivesThread, New
<1>6. QED
  BY <1>1, <1>2, <1>3, <1>4, <1>5

LEMMA AppCallsJoinInv ==
    ASSUME IInv, NEW c \in Clients, AppCallsJoin(c)
    PROVE  IInv'
<1> USE DEF IInv, Set, clientVars, receiveVars, handlerVars, listenVars, appVars
<1>a. /\ apc = "call join" /\ c \in victim
      /\ \/ th[c] = "joinable" /\ apc' = "join" /\ lck' = lck
         \/ th[c] # "joinable" /\ apc' = "thrown" /\ lck' = "free"
      /\ UNCHANGED <<map, clientVars, sock, inbox, receiveVars, handlerVars,
                     listenVars, victim, todo, target, touched>>
  BY DEF AppCallsJoin
<1>1. TypeOK'
  BY <1>a DEF TypeOK
<1>2. LockInv'
  BY <1>a DEF LockInv
<1>3. AppInv'
  BY <1>a DEF AppInv
<1>4. ListenInv' /\ MapInv' /\ UntouchedInv'
  <2>1. ListenInv'
    BY <1>a DEF ListenInv, New
  <2>2. MapInv' /\ UntouchedInv'
    BY <1>a DEF MapInv, UntouchedInv
  <2>3. QED
    BY <2>1, <2>2
<1>5. ThreadInv' /\ CountInv'
  BY <1>a DEF ThreadInv, CountInv
<1>6. SocketOutlivesUsers' /\ ReceiverOutlivesThread'
  BY <1>a DEF SocketOutlivesUsers, ReceiverOutlivesThread
<1>7. QED
  BY <1>1, <1>2, <1>3, <1>4, <1>5, <1>6

LEMMA AppJoinedInv ==
    ASSUME IInv, NEW c \in Clients, AppJoined(c)
    PROVE  IInv'
<1> USE DEF IInv, Set, clientVars, receiveVars, handlerVars, listenVars, appVars
<1>a. /\ apc = "join" /\ c \in victim
      /\ rpc[c] = "done"
      /\ th' = [th EXCEPT ![c] = "none"]
      /\ apc' = "reset"
      /\ UNCHANGED <<lck, map, clientVars, sock, inbox, alive, isStop, rpc,
                     handlerVars, listenVars, victim, todo, target, touched>>
  BY DEF AppJoined
<1>t. th \in [Clients -> {"none", "joinable", "detached"}]
  BY DEF TypeOK
<1>1. TypeOK'
  BY <1>a DEF TypeOK
<1>2. LockInv'
  BY <1>a, <1>t DEF LockInv
<1>3. ListenInv'
  BY <1>a, <1>t DEF ListenInv, New
<1>4. AppInv'
  BY <1>a, <1>t DEF AppInv
<1>5. ThreadInv'
  BY <1>a, <1>t DEF ThreadInv
<1>6. /\ MapInv' /\ UntouchedInv' /\ CountInv' /\ SocketOutlivesUsers'
      /\ ReceiverOutlivesThread'
  BY <1>a DEF MapInv, UntouchedInv, CountInv, SocketOutlivesUsers, ReceiverOutlivesThread
<1>7. QED
  BY <1>1, <1>2, <1>3, <1>4, <1>5, <1>6

LEMMA AppJoinsHandlerInv ==
    ASSUME IInv, NEW c \in Clients, AppJoinsHandler(c)
    PROVE  IInv'
<1> USE DEF IInv, Set, clientVars, receiveVars, handlerVars, listenVars, appVars
<1>a. /\ apc = "join handler" /\ c \in victim
      /\ apc' = "close"
      /\ UNCHANGED <<lck, map, clientVars, sock, inbox, receiveVars,
                     handlerVars, listenVars, victim, todo, target, touched>>
  BY DEF AppJoinsHandler
<1>1. TypeOK'
  BY <1>a DEF TypeOK
<1>2. LockInv'
  BY <1>a DEF LockInv
<1>3. AppInv'
  BY <1>a DEF AppInv
<1>4. ListenInv' /\ MapInv' /\ UntouchedInv'
  <2>1. ListenInv'
    BY <1>a DEF ListenInv, New
  <2>2. MapInv' /\ UntouchedInv'
    BY <1>a DEF MapInv, UntouchedInv
  <2>3. QED
    BY <2>1, <2>2
<1>5. ThreadInv' /\ CountInv'
  BY <1>a DEF ThreadInv, CountInv
<1>6. SocketOutlivesUsers' /\ ReceiverOutlivesThread'
  BY <1>a DEF SocketOutlivesUsers, ReceiverOutlivesThread
<1>7. QED
  BY <1>1, <1>2, <1>3, <1>4, <1>5, <1>6

LEMMA AppResetHandlerInv ==
    ASSUME IInv, NEW c \in Clients, AppResetHandler(c)
    PROVE  IInv'
<1> USE DEF IInv, Set, clientVars, receiveVars, handlerVars, listenVars, appVars
<1>a. /\ apc = "reset" /\ c \in victim
      /\ apc' \in {"join handler", "close"}
      /\ StopHandler(c) \/ UNCHANGED handlerVars
      /\ UNCHANGED <<lck, map, clientVars, sock, inbox, receiveVars, listenVars,
                     victim, todo, target, touched>>
  BY DEF AppResetHandler
<1>b. /\ \A d \in Clients : spHandler'[d] # spHandler[d] => d \in touched
      /\ \A d \in Clients : hpc'[d] # hpc[d] => hpc[d] = "dequeue" /\ hpc'[d] = "overslept"
      /\ UNCHANGED pending
  BY <1>a, StopEffect DEF AppInv
<1>1. TypeOK'
  BY <1>a, StopEffect DEF TypeOK
<1>2. ListenInv'
  <2>1. \A d \in Clients : New(d) => New(d)'
    BY <1>a, <1>b DEF New
  <2>2. accepted \subseteq Clients
    BY DEF TypeOK
  <2>3. QED
    BY <1>a, <2>1, <2>2 DEF ListenInv
<1>3. AppInv' /\ LockInv'
  BY <1>a DEF AppInv, LockInv
<1>4. UntouchedInv'
  BY <1>a, <1>b DEF UntouchedInv
<1>5. SocketOutlivesUsers'
  BY <1>a, <1>b DEF SocketOutlivesUsers
<1>6. MapInv' /\ ThreadInv' /\ CountInv' /\ ReceiverOutlivesThread'
  BY <1>a, <1>b DEF MapInv, ThreadInv, CountInv, ReceiverOutlivesThread
<1>7. QED
  BY <1>1, <1>2, <1>3, <1>4, <1>5, <1>6

(* The sockets of those the application disconnects may close, because the *)
(* receive thread of the one at hand has left its loop.                    *)
LEMMA AppClosesInv ==
    ASSUME IInv, NEW c \in Clients, AppCloses(c)
    PROVE  IInv'
<1> USE DEF IInv, Set, clientVars, receiveVars, handlerVars, listenVars, appVars
<1>a. /\ apc = "close" /\ c \in victim
      /\ sock' = [sock EXCEPT ![c] = "closed"]
      /\ \/ /\ apc' = "stop"
            /\ UNCHANGED <<lck, map, alive, victim, target>>
         \/ /\ todo = {}
            /\ map' = map \ target
            /\ alive' = [d \in Clients |-> alive[d] /\ d \notin target]
            /\ target' = {} /\ victim' = {}
            /\ lck' = "free"
            /\ apc' = "idle"
      /\ UNCHANGED <<clientVars, inbox, isStop, th, rpc, handlerVars,
                     listenVars, todo, touched>>
  BY DEF AppCloses
<1>t. /\ sock \in [Clients -> {"none", "open", "closed"}]
      /\ alive \in [Clients -> BOOLEAN]
      /\ map \cup victim \cup target \cup touched \subseteq Clients
  BY DEF TypeOK
<1>l. lpc # "assign"
  BY <1>a DEF LockInv
<1>b. /\ c \in target /\ target \subseteq touched
      /\ rpc[c] \notin {"test", "recv"}
  BY <1>a DEF AppInv
<1>1. TypeOK'
  <2>1. /\ sock' \in [Clients -> {"none", "open", "closed"}]
        /\ alive' \in [Clients -> BOOLEAN]
        /\ map' \cup victim' \cup target' \subseteq Clients
        /\ apc' \in {"stop", "idle"}
    BY <1>a, <1>t
  <2>2. QED
    BY <1>a, <2>1 DEF TypeOK
<1>2. LockInv'
  BY <1>a DEF LockInv
<1>3. ListenInv'
  <2>1. sock[c] # "none" /\ (lpc = "lock" => c \notin accepted)
    BY <1>b DEF ListenInv, New
  <2>2. QED
    BY <1>a, <1>l, <1>t, <2>1 DEF ListenInv, New
<1>4. MapInv'
  BY <1>a, <1>b, <1>t DEF MapInv
<1>5. AppInv'
  BY <1>a DEF AppInv
<1>6. SocketOutlivesUsers'
  BY <1>a, <1>b, <1>t DEF SocketOutlivesUsers
<1>7. UntouchedInv'
  BY <1>a, <1>b, <1>t DEF UntouchedInv
<1>8. ReceiverOutlivesThread'
  <2>1. CASE UNCHANGED alive
    BY <1>a, <2>1 DEF ReceiverOutlivesThread
  <2>2. CASE todo = {} /\ alive' = [d \in Clients |-> alive[d] /\ d \notin target]
    <3>1. \A d \in target : th[d] # "joinable"
      BY <1>a, <2>2 DEF AppInv
    <3>2. \A d \in Clients : /\ th[d] \in {"none", "joinable", "detached"}
                            /\ rpc[d] \in {"none", "test", "recv", "reset", "join", "lock", "done"}
      BY DEF TypeOK
    <3>3. \A d \in target : \/ rpc[d] \in {"none", "done"}
                            \/ th[d] = "detached" /\ rpc[d] \in {"reset", "join", "lock", "done"}
      BY <1>l, <1>t, <3>1, <3>2 DEF ThreadInv
    <3>4. \A d \in Clients : ~alive'[d] => ~alive[d] \/ d \in target
      BY <2>2
    <3>5. QED
      BY <1>a, <1>b, <3>1, <3>3, <3>4 DEF ReceiverOutlivesThread
  <2>3. QED
    BY <1>a, <2>1, <2>2
<1>9. ThreadInv' /\ CountInv'
  BY <1>a DEF ThreadInv, CountInv
<1>10. QED
  BY <1>1, <1>2, <1>3, <1>4, <1>5, <1>6, <1>7, <1>8, <1>9

-----------------------------------------------------------------------------
LEMMA NextInv == IInv /\ [Next]_vars => IInv'
<1> SUFFICES ASSUME IInv, [Next]_vars PROVE IInv'
  OBVIOUS
<1>1. ASSUME NEW c \in Clients, Client(c) PROVE IInv'
  BY <1>1, ClientConnectsInv, ClientSendsInv, ClientClosesInv DEF Client
<1>2. ASSUME ListenThread PROVE IInv'
  BY <1>2, AcceptInv, InsertAndStartInv, AssignThreadInv DEF ListenThread
<1>3. ASSUME NEW c \in Clients, ReceiveThread(c) PROVE IInv'
  BY <1>3, LoopTestInv, ReceivePacketInv, ReceiveClosedInv, ResetHandlerInv,
     JoinHandlerInv, DisConnectSelfInv DEF ReceiveThread
<1>4. ASSUME NEW c \in Clients, HandlerThread(c) PROVE IInv'
  BY <1>4, HandlerTestInv, HandlerTakesInv, HandlerStoppedInv, HandlerReturnsInv
     DEF HandlerThread
<1>5. ASSUME AppContinues PROVE IInv'
  BY <1>5, AppStopInv, AppCallsJoinInv, AppJoinedInv, AppResetHandlerInv,
     AppJoinsHandlerInv, AppClosesInv DEF AppContinues
<1>6. ASSUME UNCHANGED vars PROVE IInv'
  <2> USE <1>6 DEF vars, clientVars, receiveVars, handlerVars, listenVars, appVars
  <2>1. TypeOK' /\ CountInv'
    BY DEF IInv, TypeOK, CountInv
  <2>2. LockInv' /\ ListenInv' /\ MapInv' /\ AppInv'
    BY DEF IInv, LockInv, ListenInv, New, MapInv, AppInv
  <2>3. ThreadInv' /\ UntouchedInv' /\ SocketOutlivesUsers' /\ ReceiverOutlivesThread'
    BY DEF IInv, ThreadInv, UntouchedInv, SocketOutlivesUsers, ReceiverOutlivesThread
  <2>4. QED
    BY <2>1, <2>2, <2>3 DEF IInv
<1>7. QED
  BY <1>1, <1>2, <1>3, <1>4, <1>5, <1>6, AppLockInv DEF Next

(* The inductive invariant of the server holds in every reachable state:   *)
(* what the lock, the map and the threads know of one another.             *)
THEOREM Invariance == Spec => []IInv
BY InitInv, NextInv, PTL DEF Spec

(* Every variable of the server keeps its type; no queue or inbox takes    *)
(* more packets than were sent, and no count of packets falls below zero.  *)
THEOREM TypeCorrect == Spec => []TypeOK
<1>1. IInv => TypeOK
  BY DEF IInv
<1>2. QED
  BY <1>1, Invariance, PTL

(* Whoever gets _lckClientMap finds no client in the map whose socket is   *)
(* closed or whose receiver is destroyed, as SendToClient and SendToAll    *)
(* rely on (unless a throwing join has cut a DisConnect short).            *)
THEOREM EntriesOpen == Spec => []MapEntriesOpen
<1>1. IInv => MapEntriesOpen
  <2> SUFFICES ASSUME IInv, lck = "free", apc # "thrown", NEW c \in map
               PROVE  sock[c] = "open" /\ alive[c]
    BY DEF MapEntriesOpen
  <2>1. target = {}
    BY DEF IInv, LockInv, AppInv
  <2>2. QED
    BY <2>1 DEF IInv, MapInv
<1>2. QED
  BY <1>1, Invariance, PTL

(* No socket is closed under a recv, nor under a handler that may still    *)
(* answer on it, unless the application disconnects that client.           *)
THEOREM SocketSafe == Spec => []SocketOutlivesUsers
<1>1. IInv => SocketOutlivesUsers
  BY DEF IInv
<1>2. QED
  BY <1>1, Invariance, PTL

(* A cNetworkServerReceive is destroyed, by its own thread's DisConnect or *)
(* by the application's, only when its std::thread is not joinable and its *)
(* thread has ended - or has detached itself and the application, finding  *)
(* nothing to join, destroys the object while it is on its way out.        *)
THEOREM ReceiverSafe == Spec => []ReceiverOutlivesThread
<1>1. IInv => ReceiverOutlivesThread
  BY DEF IInv
<1>2. QED
  BY <1>1, Invariance, PTL

-----------------------------------------------------------------------------
(* A socket is closed once. *)

(* The sockets that DisConnect or DisConnectAll has still to close: the    *)
(* victim's is closed when it looks for the next.                          *)
ToClose ==
    /\ todo \cap victim = {}
    /\ apc \notin {"idle", "thrown"} =>
        \A c \in todo \cup victim : sock[c] = "open" \/ (apc = "stop" /\ c \notin todo)

ClosesOpen ==
    \A c \in Clients : AppCloses(c) \/ (DisConnectSelf(c) /\ c \in map) =>
        sock[c] = "open" \/ apc = "thrown"

LEMMA ToCloseNext == IInv /\ ToClose /\ [Next]_vars => ToClose'
<1> SUFFICES ASSUME IInv, ToClose, [Next]_vars PROVE ToClose'
  OBVIOUS
<1> USE DEF Set, clientVars, receiveVars, handlerVars, listenVars, appVars
<1>t. /\ sock \in [Clients -> {"none", "open", "closed"}]
      /\ todo \cup victim \cup target \cup map \subseteq Clients
  BY DEF IInv, TypeOK
<1>1. ASSUME UNCHANGED <<apc, todo, victim>>,
             \A c \in Clients : sock[c] = "open" => sock'[c] = "open"
      PROVE  ToClose'
  BY <1>t, <1>1 DEF ToClose
<1>2. ASSUME NEW c \in Clients, Client(c) \/ HandlerThread(c) PROVE ToClose'
  BY <1>1, <1>2 DEF Client, ClientConnects, ClientSends, ClientCloses, HandlerThread,
                    HandlerTest, HandlerTakes, HandlerStopped, HandlerReturns
<1>3. CASE ListenThread
  <2>1. PICK c \in Clients : Accept(c) \/ InsertAndStart(c) \/ AssignThread(c)
    BY <1>3 DEF ListenThread
  <2>2. UNCHANGED <<apc, todo, victim>> /\ sock' \in {sock, [sock EXCEPT ![c] = "open"]}
    BY <2>1 DEF Accept, InsertAndStart, AssignThread
  <2>3. QED
    BY <1>1, <1>t, <2>2
<1>4. ASSUME NEW c \in Clients, ReceiveThread(c) PROVE ToClose'
  <2>1. CASE DisConnectSelf(c)
    <3>1. UNCHANGED <<apc, todo, victim>> /\ apc \in {"idle", "thrown"}
      BY <2>1 DEF DisConnectSelf, IInv, LockInv
    <3>2. QED
      BY <3>1 DEF ToClose
  <2>2. CASE LoopTest(c) \/ ReceivePacket(c) \/ ReceiveClosed(c) \/ ResetHandler(c)
             \/ JoinHandler(c)
    BY <1>1, <2>2 DEF LoopTest, ReceivePacket, ReceiveClosed, ResetHandler, JoinHandler
  <2>3. QED
    BY <1>4, <2>1, <2>2 DEF ReceiveThread
<1>5. CASE AppLock
  <2>1. /\ apc = "idle" /\ apc' = "stop" /\ UNCHANGED <<sock, victim>>
        /\ todo' \subseteq map
    BY <1>5 DEF AppLock
  <2>2. \A c \in map : sock[c] = "open"
    BY <2>1 DEF IInv, MapInv, AppInv
  <2>3. \A c \in victim : FALSE
    BY <2>1 DEF IInv, AppInv
  <2>4. QED
    BY <2>1, <2>2, <2>3 DEF ToClose
<1>6. ASSUME NEW c \in Clients, AppStop(c) PROVE ToClose'
  <2>1. /\ apc = "stop" /\ c \in todo /\ victim' = {c} /\ todo' = todo \ {c}
        /\ sock' = sock
    BY <1>6 DEF AppStop
  <2>2. \A d \in todo : sock[d] = "open"
    BY <2>1 DEF ToClose
  <2>3. QED
    BY <2>1, <2>2 DEF ToClose
<1>7. ASSUME NEW c \in Clients,
             AppCallsJoin(c) \/ AppJoined(c) \/ AppResetHandler(c) \/ AppJoinsHandler(c)
      PROVE  ToClose'
  <2>1. apc \notin {"idle", "stop", "thrown"} /\ UNCHANGED <<sock, todo, victim>>
    BY <1>7 DEF AppCallsJoin, AppJoined, AppResetHandler, AppJoinsHandler
  <2>2. QED
    BY <2>1 DEF ToClose
<1>8. ASSUME NEW c \in Clients, AppCloses(c) PROVE ToClose'
  <2>1. /\ apc = "close" /\ c \in victim /\ sock' = [sock EXCEPT ![c] = "closed"]
        /\ todo' = todo
        /\ (apc' = "idle" /\ victim' = {}) \/ (apc' = "stop" /\ victim' = victim)
    BY <1>8 DEF AppCloses
  <2>2. \A d \in victim : d = c
    BY <2>1 DEF IInv, AppInv
  <2>3. \A d \in todo : d # c => sock'[d] = "open"
    BY <1>t, <2>1 DEF ToClose
  <2>4. c \notin todo
    BY <2>1 DEF ToClose
  <2>5. QED
    BY <2>1, <2>2, <2>3, <2>4 DEF ToClose
<1>9. CASE UNCHANGED vars
  BY <1>1, <1>9 DEF vars
<1>10. QED
  BY <1>2, <1>3, <1>4, <1>5, <1>6, <1>7, <1>8, <1>9 DEF Next, AppContinues

(* The application's DisConnect and the receive thread's own never close   *)
(* one socket twice, for its number may be the next client's by then.  An  *)
(* exception of join that leaves DisConnectAll in the midst breaks this.   *)
THEOREM ClosedOnce == Spec => [][ClosesOpen]_vars
<1>1. Init => ToClose
  BY DEF Init, ToClose
<1>2. IInv /\ ToClose => ClosesOpen
  <2> SUFFICES ASSUME IInv, ToClose, NEW c \in Clients, apc # "thrown",
                      AppCloses(c) \/ (DisConnectSelf(c) /\ c \in map)
               PROVE  sock[c] = "open"
    BY DEF ClosesOpen
  <2>1. CASE AppCloses(c)
    <3>1. apc = "close" /\ c \in victim
      BY <2>1 DEF AppCloses
    <3>2. QED
      BY <3>1 DEF ToClose
  <2>2. CASE DisConnectSelf(c) /\ c \in map
    <3>1. lck = "free"
      BY <2>2 DEF DisConnectSelf
    <3>2. target = {}
      BY <3>1 DEF IInv, LockInv, AppInv
    <3>3. QED
      BY <2>2, <3>2 DEF IInv, MapInv
  <2>3. QED
    BY <2>1, <2>2
<1>3. QED
  BY <1>1, <1>2, ToCloseNext, Invariance, PTL DEF Spec

=============================================================================
