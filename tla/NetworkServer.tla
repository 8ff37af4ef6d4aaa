--------------------------- MODULE NetworkServer ---------------------------
(***************************************************************************)
(* The server side of cNetwork: the listen thread that accepts clients,    *)
(* for each client a receive thread (cNetworkServerReceive) and a handler  *)
(* thread (cNetworkServerReceiveHandler) with an event queue between them, *)
(* and one application thread that disconnects clients (DisConnect has the *)
(* lock throughout; a second would wait for it).  They share               *)
(* _mapUUIDToClientInfo under _lckClientMap.                               *)
(*                                                                         *)
(* A receive thread ends on one of two paths.  When the peer closes, it    *)
(* stops itself (detaching its own std::thread), then takes the lock and   *)
(* erases its own map entry, which destroys the object it runs in.  When   *)
(* the application disconnects the client, the application joins it, with  *)
(* the lock held and the socket still open.                                *)
(***************************************************************************)
EXTENDS Naturals, FiniteSets

CONSTANTS Clients,          \* connections; each has a UUID and a socket of its own
          MaxPackets        \* bound: packets a client sends

ASSUME ServerAssumption ==
    /\ IsFiniteSet(Clients)
    /\ Clients \cap {"free", "listen", "app"} = {}
    /\ MaxPackets \in Nat

VARIABLES lck,          \* _lckClientMap: "free", "listen", "app" or a receive thread
          map,          \* the clients in _mapUUIDToClientInfo
          peer,         \* the client's end: "none", "connecting", "open", "closed"
          sent,         \* how many packets the client has sent
          sock,         \* the server's socket: "none", "open", "closed"
          inbox,        \* packets that have arrived at it
          alive,        \* the cNetworkServerReceive exists
          isStop,       \* its _isStop
          th,           \* its _thServerReceive: "none", "joinable", "detached"
          rpc,          \* where the receive thread is
          spHandler,    \* its _spHandler is set
          pending,      \* packets in the handler's event queue
          hStop,        \* the handler's _isStop, and that of its event queue
          hpc,          \* where the handler thread is
          lpc,          \* where the listen thread is
          accepted,     \* the client it has accepted (a set, for "none")
          apc,          \* where the application thread is
          victim,       \* the client it is disconnecting (a set, for "none")
          todo,         \* those DisConnectAll has not come to
          target,       \* those it is going to erase
          touched       \* history: those it has ever begun to disconnect

clientVars == <<peer, sent>>
receiveVars == <<alive, isStop, th, rpc>>
handlerVars == <<spHandler, pending, hStop, hpc>>
listenVars == <<lpc, accepted>>
appVars == <<apc, victim, todo, target, touched>>
vars == <<lck, map, sock, inbox, clientVars, receiveVars, handlerVars, listenVars, appVars>>

Init ==
    /\ lck = "free"
    /\ map = {}
    /\ peer = [c \in Clients |-> "none"]
    /\ sent = [c \in Clients |-> 0]
    /\ sock = [c \in Clients |-> "none"]
    /\ inbox = [c \in Clients |-> 0]
    /\ alive = [c \in Clients |-> FALSE]
    /\ isStop = [c \in Clients |-> FALSE]
    /\ th = [c \in Clients |-> "none"]
    /\ rpc = [c \in Clients |-> "none"]
    /\ spHandler = [c \in Clients |-> FALSE]
    /\ pending = [c \in Clients |-> 0]
    /\ hStop = [c \in Clients |-> FALSE]
    /\ hpc = [c \in Clients |-> "none"]
    /\ lpc = "poll"
    /\ accepted = {}
    /\ apc = "idle"
    /\ victim = {}
    /\ todo = {}
    /\ target = {}
    /\ touched = {}

Set(f, c, v) == [f EXCEPT ![c] = v]

-----------------------------------------------------------------------------
(* The clients. *)

ClientConnects(c) ==
    /\ peer[c] = "none"
    /\ peer' = Set(peer, c, "connecting")
    /\ UNCHANGED <<lck, map, sent, sock, inbox, receiveVars, handlerVars, listenVars, appVars>>

ClientSends(c) ==
    /\ peer[c] = "open"
    /\ sent[c] < MaxPackets
    /\ sent' = Set(sent, c, sent[c] + 1)
    /\ inbox' = Set(inbox, c, inbox[c] + 1)
    /\ UNCHANGED <<lck, map, peer, sock, receiveVars, handlerVars, listenVars, appVars>>

ClientCloses(c) ==
    /\ peer[c] = "open"
    /\ peer' = Set(peer, c, "closed")
    /\ UNCHANGED <<lck, map, sent, sock, inbox, receiveVars, handlerVars, listenVars, appVars>>

-----------------------------------------------------------------------------
(* The listen thread. *)

Accept(c) ==
    /\ lpc = "poll"
    /\ peer[c] = "connecting"
    /\ peer' = Set(peer, c, "open")
    /\ sock' = Set(sock, c, "open")
    /\ accepted' = {c}
    /\ lpc' = "lock"
    /\ UNCHANGED <<lck, map, sent, inbox, receiveVars, handlerVars, appVars>>

(* Mutant: the lock is released before the thread is assigned. *)
InsertAndStart_Unlocks(c) ==
    /\ lpc = "lock"
    /\ c \in accepted
    /\ lck = "free"
    /\ map' = map \cup {c}
    /\ alive' = Set(alive, c, TRUE)
    /\ isStop' = Set(isStop, c, FALSE)
    /\ spHandler' = Set(spHandler, c, TRUE)
    /\ hpc' = Set(hpc, c, "test")
    /\ rpc' = Set(rpc, c, "test")
    /\ lpc' = "assign"
    /\ UNCHANGED <<lck, clientVars, sock, inbox, th, pending, hStop, accepted, appVars>>

(* The new receiver enters the map and Start creates the handler and its   *)
(* thread, and then the receive thread ...                                 *)
InsertAndStart(c) ==
    /\ lpc = "lock"
    /\ c \in accepted
    /\ lck = "free"
    /\ lck' = "listen"
    /\ map' = map \cup {c}
    /\ alive' = Set(alive, c, TRUE)
    /\ isStop' = Set(isStop, c, FALSE)
    /\ spHandler' = Set(spHandler, c, TRUE)
    /\ hpc' = Set(hpc, c, "test")
    /\ rpc' = Set(rpc, c, "test")
    /\ lpc' = "assign"
    /\ UNCHANGED <<clientVars, sock, inbox, th, pending, hStop, accepted, appVars>>

(* ... which may already run when it is assigned to _thServerReceive.      *)
AssignThread(c) ==
    /\ lpc = "assign"
    /\ c \in accepted
    /\ th' = Set(th, c, "joinable")
    /\ lck' = "free"
    /\ accepted' = {}
    /\ lpc' = "poll"
    /\ UNCHANGED <<map, clientVars, sock, inbox, alive, isStop, rpc, handlerVars, appVars>>

-----------------------------------------------------------------------------
(* The receive thread.  What it does in the receiver needs it alive.       *)

LoopTest(c) ==
    /\ rpc[c] = "test" /\ alive[c]
    /\ rpc' = Set(rpc, c, IF isStop[c] THEN "done" ELSE "recv")
    /\ UNCHANGED <<lck, map, clientVars, sock, inbox, alive, isStop, th, handlerVars, listenVars, appVars>>

(* Receive returns a packet; InsertPacket queues it. *)
ReceivePacket(c) ==
    /\ rpc[c] = "recv" /\ alive[c]
    /\ inbox[c] > 0
    /\ inbox' = Set(inbox, c, inbox[c] - 1)
    /\ pending' = Set(pending, c, pending[c] + 1)
    /\ rpc' = Set(rpc, c, "test")
    /\ UNCHANGED <<lck, map, clientVars, sock, alive, isStop, th, spHandler, hStop, hpc, listenVars, appVars>>

(* Receive returns 0.  Stop: the thread detaches itself ... *)
ReceiveClosed(c) ==
    /\ rpc[c] = "recv" /\ alive[c]
    /\ peer[c] = "closed" /\ inbox[c] = 0
    /\ isStop' = Set(isStop, c, TRUE)
    /\ th' = Set(th, c, IF th[c] = "joinable" THEN "detached" ELSE th[c])
    /\ rpc' = Set(rpc, c, "reset")
    /\ UNCHANGED <<lck, map, clientVars, sock, inbox, alive, handlerVars, listenVars, appVars>>

(* ... and _spHandler.reset() destroys the handler: its queue is stopped   *)
(* and its thread joined.  Stop writes without the queue's mutex, so that  *)
(* a handler that has just found the queue empty may sleep on regardless   *)
(* (EventQueue shows how).                                                 *)
StopHandler(c) ==
    /\ spHandler' = Set(spHandler, c, FALSE)
    /\ hStop' = Set(hStop, c, TRUE)
    /\ \/ hpc' = hpc
       \/ /\ hpc[c] = "dequeue" /\ pending[c] = 0
          /\ hpc' = Set(hpc, c, "overslept")
    /\ UNCHANGED pending

ResetHandler(c) ==
    /\ rpc[c] = "reset" /\ alive[c]
    /\ IF spHandler[c]
       THEN StopHandler(c) /\ rpc' = Set(rpc, c, "join")
       ELSE UNCHANGED handlerVars /\ rpc' = Set(rpc, c, "lock")
    /\ UNCHANGED <<lck, map, clientVars, sock, inbox, alive, isStop, th, listenVars, appVars>>

(* Mutant: the handler's thread is not joined. *)
JoinHandler_NoJoin(c) ==
    /\ rpc[c] = "join"
    /\ rpc' = Set(rpc, c, "lock")
    /\ UNCHANGED <<lck, map, clientVars, sock, inbox, alive, isStop, th, handlerVars, listenVars, appVars>>

JoinHandler(c) ==
    /\ rpc[c] = "join"
    /\ hpc[c] = "done"
    /\ rpc' = Set(rpc, c, "lock")
    /\ UNCHANGED <<lck, map, clientVars, sock, inbox, alive, isStop, th, handlerVars, listenVars, appVars>>

(* DisConnect( _clientInfo.sUUID ) from the receive thread: the Stop in it *)
(* has nothing to wait for, the entry is erased and the socket closed.     *)
DisConnectSelf(c) ==
    /\ rpc[c] = "lock" /\ alive[c]
    /\ lck = "free"
    /\ rpc' = Set(rpc, c, "done")
    /\ IF c \in map
       THEN /\ th' = Set(th, c, IF th[c] = "joinable" THEN "detached" ELSE th[c])
            /\ map' = map \ {c}
            /\ alive' = Set(alive, c, FALSE)
            /\ sock' = Set(sock, c, "closed")
       ELSE UNCHANGED <<map, alive, th, sock>>
    /\ UNCHANGED <<lck, clientVars, inbox, isStop, handlerVars, listenVars, appVars>>

-----------------------------------------------------------------------------
(* The handler thread. *)

(* Mutant: while( true ). *)
HandlerTest_Forever(c) ==
    /\ hpc[c] = "test"
    /\ hpc' = Set(hpc, c, "dequeue")
    /\ UNCHANGED <<lck, map, clientVars, sock, inbox, receiveVars, spHandler, pending, hStop, listenVars, appVars>>

HandlerTest(c) ==
    /\ hpc[c] = "test"
    /\ hpc' = Set(hpc, c, IF hStop[c] THEN "done" ELSE "dequeue")
    /\ UNCHANGED <<lck, map, clientVars, sock, inbox, receiveVars, spHandler, pending, hStop, listenVars, appVars>>

(* Mutant: DeQueue pops without testing that the queue is empty. *)
HandlerTakes_NoTest(c) ==
    /\ hpc[c] = "dequeue"
    /\ pending' = Set(pending, c, pending[c] - 1)
    /\ hpc' = Set(hpc, c, "busy")
    /\ UNCHANGED <<lck, map, clientVars, sock, inbox, receiveVars, spHandler, hStop, listenVars, appVars>>

(* DeQueue pops a packet, even if Stop has just been called, and the       *)
(* handler is called with the socket ...                                   *)
HandlerTakes(c) ==
    /\ hpc[c] = "dequeue"
    /\ pending[c] > 0
    /\ pending' = Set(pending, c, pending[c] - 1)
    /\ hpc' = Set(hpc, c, "busy")
    /\ UNCHANGED <<lck, map, clientVars, sock, inbox, receiveVars, spHandler, hStop, listenVars, appVars>>

(* ... or DeQueue returns nothing because the queue is stopped.            *)
HandlerStopped(c) ==
    /\ hpc[c] = "dequeue"
    /\ hStop[c]
    /\ hpc' = Set(hpc, c, "test")
    /\ UNCHANGED <<lck, map, clientVars, sock, inbox, receiveVars, spHandler, pending, hStop, listenVars, appVars>>

HandlerReturns(c) ==
    /\ hpc[c] = "busy"
    /\ hpc' = Set(hpc, c, "test")
    /\ UNCHANGED <<lck, map, clientVars, sock, inbox, receiveVars, spHandler, pending, hStop, listenVars, appVars>>

-----------------------------------------------------------------------------
(* The application: DisConnect( sUUID ) of one client, DisConnectAll.      *)

AppLock ==
    /\ apc = "idle"
    /\ lck = "free"
    /\ map # {}
    /\ target' \in {{c} : c \in map} \cup {map}
    /\ todo' = target'
    /\ touched' = touched \cup target'
    /\ lck' = "app"
    /\ apc' = "stop"
    /\ UNCHANGED <<map, clientVars, sock, inbox, receiveVars, handlerVars, listenVars, victim>>

(* Stop: _thServerReceive is tested ... *)
AppStop(c) ==
    /\ apc = "stop" /\ c \in todo
    /\ victim' = {c}
    /\ todo' = todo \ {c}
    /\ isStop' = Set(isStop, c, TRUE)
    /\ apc' = IF th[c] = "joinable" THEN "call join" ELSE "reset"
    /\ UNCHANGED <<lck, map, clientVars, sock, inbox, alive, th, rpc, handlerVars, listenVars, target, touched>>

(* ... and joined.  If it was detached in between, join throws and the     *)
(* exception leaves DisConnect, unlocking the map.                         *)
AppCallsJoin(c) ==
    /\ apc = "call join" /\ c \in victim
    /\ IF th[c] = "joinable"
       THEN apc' = "join" /\ lck' = lck
       ELSE apc' = "thrown" /\ lck' = "free"
    /\ UNCHANGED <<map, clientVars, sock, inbox, receiveVars, handlerVars, listenVars, victim, todo, target, touched>>

AppJoined(c) ==
    /\ apc = "join" /\ c \in victim
    /\ rpc[c] = "done"
    /\ th' = Set(th, c, "none")
    /\ apc' = "reset"
    /\ UNCHANGED <<lck, map, clientVars, sock, inbox, alive, isStop, rpc, handlerVars, listenVars, victim, todo, target, touched>>

AppResetHandler(c) ==
    /\ apc = "reset" /\ c \in victim
    /\ IF spHandler[c]
       THEN StopHandler(c) /\ apc' = "join handler"
       ELSE UNCHANGED handlerVars /\ apc' = "close"
    /\ UNCHANGED <<lck, map, clientVars, sock, inbox, receiveVars, listenVars, victim, todo, target, touched>>

AppJoinsHandler(c) ==
    /\ apc = "join handler" /\ c \in victim
    /\ hpc[c] = "done"
    /\ apc' = "close"
    /\ UNCHANGED <<lck, map, clientVars, sock, inbox, receiveVars, handlerVars, listenVars, victim, todo, target, touched>>

(* Mutant: DisConnectAll clears only the last entry it closed. *)
AppCloses_ErasesOne(c) ==
    /\ apc = "close" /\ c \in victim
    /\ sock' = Set(sock, c, "closed")
    /\ IF todo # {}
       THEN apc' = "stop" /\ UNCHANGED <<lck, map, alive, victim, target>>
       ELSE /\ map' = map \ {c}
            /\ alive' = Set(alive, c, FALSE)
            /\ target' = {} /\ victim' = {}
            /\ lck' = "free"
            /\ apc' = "idle"
    /\ UNCHANGED <<clientVars, inbox, isStop, th, rpc, handlerVars, listenVars, todo, touched>>

(* The socket is closed and, after the last one, the entries are erased.   *)
AppCloses(c) ==
    /\ apc = "close" /\ c \in victim
    /\ sock' = Set(sock, c, "closed")
    /\ IF todo # {}
       THEN apc' = "stop" /\ UNCHANGED <<lck, map, alive, victim, target>>
       ELSE /\ map' = map \ target
            /\ alive' = [d \in Clients |-> alive[d] /\ d \notin target]
            /\ target' = {} /\ victim' = {}
            /\ lck' = "free"
            /\ apc' = "idle"
    /\ UNCHANGED <<clientVars, inbox, isStop, th, rpc, handlerVars, listenVars, todo, touched>>

-----------------------------------------------------------------------------
Client(c) == ClientConnects(c) \/ ClientSends(c) \/ ClientCloses(c)

ListenThread == \E c \in Clients : Accept(c) \/ InsertAndStart(c) \/ AssignThread(c)

ReceiveThread(c) ==
    \/ LoopTest(c) \/ ReceivePacket(c) \/ ReceiveClosed(c)
    \/ ResetHandler(c) \/ JoinHandler(c) \/ DisConnectSelf(c)

HandlerThread(c) ==
    HandlerTest(c) \/ HandlerTakes(c) \/ HandlerStopped(c) \/ HandlerReturns(c)

(* DisConnect once it has begun. *)
AppContinues ==
    \E c \in Clients :
        \/ AppStop(c) \/ AppCallsJoin(c) \/ AppJoined(c)
        \/ AppResetHandler(c) \/ AppJoinsHandler(c) \/ AppCloses(c)

Next ==
    \/ ListenThread
    \/ \E c \in Clients : Client(c) \/ ReceiveThread(c) \/ HandlerThread(c)
    \/ AppLock
    \/ AppContinues

Spec == Init /\ [][Next]_vars

(* Every thread of the server runs and its mutex is fair; handlers return. *)
(* Clients and the application do as they please.                          *)
Fairness ==
    /\ SF_vars(ListenThread)
    /\ WF_vars(AppContinues)
    /\ \A c \in Clients : SF_vars(ReceiveThread(c)) /\ WF_vars(HandlerThread(c))

FairSpec == Spec /\ Fairness

-----------------------------------------------------------------------------
TypeOK ==
    /\ lck \in {"free", "listen", "app"}
    /\ map \subseteq Clients
    /\ peer \in [Clients -> {"none", "connecting", "open", "closed"}]
    /\ sent \in [Clients -> 0..MaxPackets]
    /\ sock \in [Clients -> {"none", "open", "closed"}]
    /\ inbox \in [Clients -> 0..MaxPackets]
    /\ alive \in [Clients -> BOOLEAN]
    /\ isStop \in [Clients -> BOOLEAN]
    /\ th \in [Clients -> {"none", "joinable", "detached"}]
    /\ rpc \in [Clients -> {"none", "test", "recv", "reset", "join", "lock", "done"}]
    /\ spHandler \in [Clients -> BOOLEAN]
    /\ pending \in [Clients -> 0..MaxPackets]
    /\ hStop \in [Clients -> BOOLEAN]
    /\ hpc \in [Clients -> {"none", "test", "dequeue", "busy", "overslept", "done"}]
    /\ lpc \in {"poll", "lock", "assign"}
    /\ apc \in {"idle", "stop", "call join", "join", "reset", "join handler", "close", "thrown"}
    /\ accepted \cup victim \cup todo \cup target \cup touched \subseteq Clients

(***************************************************************************)
(* While nobody holds _lckClientMap, the clients in the map have an open   *)
(* socket and a receiver, so that SendToClient and SendToAll, which take   *)
(* the lock and send on each, never use a socket that is closed.  (An      *)
(* exception that leaves DisConnectAll skips the erasing.)                 *)
(***************************************************************************)
MapEntriesOpen ==
    lck = "free" /\ apc # "thrown" => \A c \in map : sock[c] = "open" /\ alive[c]

(***************************************************************************)
(* A socket outlives the threads that use it.  It is not closed under a    *)
(* receive thread that is in recv, for its number could be given to the    *)
(* next client; nor while a handler runs that was given it to answer on    *)
(* (unless the application disconnects that very client).                  *)
(***************************************************************************)
SocketOutlivesUsers ==
    \A c \in Clients : sock[c] # "open" =>
        /\ rpc[c] \notin {"test", "recv"}
        /\ hpc[c] = "busy" => c \in touched

(***************************************************************************)
(* Nobody destroys a receiver while its std::thread is joinable (the       *)
(* program would terminate), nor while its thread is in the loop: it has   *)
(* run to completion or, on its way out, has just detached itself when the *)
(* application's Stop tested joinable() - then DisConnect destroys the     *)
(* receiver it is still using (EXNetwork.cpp:485).                         *)
(***************************************************************************)
ReceiverOutlivesThread ==
    \A c \in Clients : ~alive[c] =>
        /\ th[c] # "joinable"
        /\ \/ rpc[c] \in {"none", "done"}
           \/ /\ c \in touched /\ th[c] = "detached"
              /\ rpc[c] \in {"reset", "join", "lock"}

(***************************************************************************)
(* A client that closes is taken out of the map and its socket closed,     *)
(* unless its handler's thread overslept the Stop of its queue, or the     *)
(* application has ever called DisConnect.                                 *)
(***************************************************************************)
ClosedIsReleased ==
    \A c \in Clients :
        peer[c] = "closed" ~> \/ c \notin map /\ sock[c] = "closed"
                             \/ hpc[c] = "overslept"
                             \/ touched # {}

(***************************************************************************)
(* EXNetwork.cpp:487-488: a receive thread that stops itself runs to       *)
(* completion.  (Its handler overslept, or its receiver is gone: not       *)
(* counted here.)                                                          *)
(***************************************************************************)
SelfStopCompletes ==
    \A c \in Clients :
        rpc[c] = "reset" ~> rpc[c] = "done" \/ hpc[c] = "overslept" \/ ~alive[c]

=============================================================================
