--------------------------- MODULE NetworkRequest ---------------------------
(***************************************************************************)
(* Requests and responses over one connection (Network/EXNetwork.cpp).     *)
(*                                                                         *)
(* On the client, application threads call Send and SendAndWait while the  *)
(* receive thread takes packets from the socket.  SendAndWait files a      *)
(* promise under a fresh MSGID in _mapPendingRequests; the receive thread  *)
(* moves the promise out and fulfils it AFTER releasing the map's mutex,   *)
(* so it can overtake, or be overtaken by, the caller's timeout.  The      *)
(* server answers a request with the request's MSGID (SendToClientSocket   *)
(* from its handler), if at all, and also pushes packets under MSGIDs of   *)
(* its own counter, which starts at 1 like the client's.                   *)
(*                                                                         *)
(* The application may connect again, from one thread: Connect closes the  *)
(* connection it has, opens the new one and then joins the old receive     *)
(* thread.  Normally that thread is blocked in recv on the old descriptor, *)
(* which close() does not wake: it stays there ("stale") until the server  *)
(* sends on or closes the old connection, if it ever does, and then reads  *)
(* on in the middle of a packet from whatever m_ConnectSocket is by then.  *)
(* A thread that was elsewhere goes on with the new socket.                *)
(*                                                                         *)
(* The channels carry whole packets of 1 to 7 body bytes: the sizes for    *)
(* which Receive (TCPClient.cpp:336-420) returns the packet it starts on,  *)
(* together with whatever else is in the socket by then, which is dropped  *)
(* (see Framing).  Each send() of such a packet is one step.               *)
(***************************************************************************)
EXTENDS Naturals, Sequences

CONSTANTS Callers,      \* application threads of the client
          NoPacket,     \* no packet
          MaxCalls,     \* bound: calls of Send and SendAndWait
          MaxPushes,    \* bound: packets the server sends unasked
          MaxConnects,  \* bound: calls of Connect after the first
          IdSpace       \* MSGID is an unsigned int: 2^32 in the code

ASSUME BoundsAssumption ==
    /\ MaxCalls \in Nat
    /\ MaxPushes \in Nat
    /\ MaxConnects \in Nat
    /\ IdSpace \in Nat /\ IdSpace > MaxPushes + 1

(* No MSGID is handed out twice: the calls in the model are fewer than the *)
(* values of the counter (in the code: 2^32 calls while one still waits).  *)
ASSUME IdsSuffice == MaxCalls <= IdSpace

VARIABLES seq,          \* client: _msgIdSeq
          pending,      \* _mapPendingRequests: MSGID -> call, 0 if absent
          value,        \* per call: what its promise was set to, if it was
          pc, call, id, \* per caller: where it is, in which call, its msgId
          calls,        \* how many calls were made (names the calls)
          outcome,      \* per call: what it returned, "open" before
          connected,    \* client: m_eStatus = CONNECTED
          closed,       \* the server has closed its end
          rpc,          \* receive thread: at the top of its loop ("receive"),
                        \* in recv on the connection ("recv"), on one that was
                        \* closed under it ("stale") or, with four bytes of a
                        \* closed one, on the next ("mixed"), ...
          rpkt, rcall,  \* its tuPacket, and the call whose promise it moved
                        \* out (0: none)
          handled,      \* history: the replies handed to _fnClientHandler
          cpc, connects,    \* Connect: "join" while it waits for the receive
                        \* thread, and how often it was called again
          toServer, toClient,   \* packets in flight
          srvSeq        \* server: _msgIdSeq

callerVars == <<seq, pc, call, id, calls, outcome>>
recvVars   == <<rpc, rpkt, rcall, handled, cpc, connects>>
netVars    == <<connected, closed, toServer, toClient, srvSeq>>
vars == <<callerVars, recvVars, netVars, pending, value>>

Calls == 1..MaxCalls
Ids == 0..(IdSpace - 1)

(* A packet: its MSGID and, as a ghost, the call it belongs to as request  *)
(* or reply; 0 for one the server pushes, and for one that Receive pieced  *)
(* together from two connections.                                          *)
Packet == [id : Ids, of : Calls \cup {0}]

(* What such a packet has for a MSGID: 0 if recv failed in its place, else *)
(* the next connection's first four bytes, a size.                         *)
Sizes == (1..7) \cap Ids

ASSUME NoPacketAssumption == NoPacket \notin Packet

Init ==
    /\ seq = 1
    /\ pending = [i \in Ids |-> 0]
    /\ value = [k \in Calls |-> NoPacket]
    /\ pc = [c \in Callers |-> "idle"]
    /\ call = [c \in Callers |-> 0]
    /\ id = [c \in Callers |-> 0]
    /\ calls = 0
    /\ outcome = [k \in Calls |-> "open"]
    /\ connected = TRUE
    /\ closed = FALSE
    /\ rpc = "receive"
    /\ rpkt = NoPacket
    /\ rcall = 0
    /\ handled = {}
    /\ cpc = "idle"
    /\ connects = 0
    /\ toServer = <<>>
    /\ toClient = <<>>
    /\ srvSeq = 1

Goto(c, where) == pc' = [pc EXCEPT ![c] = where]

(* Return from the call: "true" or "false" from SendAndWait, the MSGID or  *)
(* 0 from Send.                                                            *)
Return(c, result) ==
    /\ Goto(c, "idle")
    /\ outcome' = [outcome EXCEPT ![call[c]] = result]

(* MSGID msgId = _msgIdSeq++ (atomic, wraps around) *)
TakeId(c) ==
    /\ calls < MaxCalls
    /\ calls' = calls + 1
    /\ call' = [call EXCEPT ![c] = calls + 1]
    /\ id' = [id EXCEPT ![c] = seq]
    /\ seq' = (seq + 1) % IdSpace

(* _spTCPClient->Send: the packet goes out, if the client is connected and *)
(* the server has not closed the connection (then send may fail or not).   *)
Transmit(c) ==
    /\ connected
    /\ toServer' = IF closed THEN toServer
                   ELSE Append(toServer, [id |-> id[c], of |-> call[c]])
TransmitFails == ~connected \/ closed

-----------------------------------------------------------------------------
(* Send: fire and forget *)

SendBegin(c) ==
    /\ pc[c] = "idle"
    /\ TakeId(c)
    /\ Goto(c, "send")
    /\ UNCHANGED <<outcome, pending, value, recvVars, netVars>>

SendOk(c) ==
    /\ pc[c] = "send"
    /\ Transmit(c)
    /\ Return(c, IF id[c] = 0 THEN "zero" ELSE "msgid")
    /\ UNCHANGED <<seq, call, id, calls, pending, value, recvVars, connected,
                   closed, toClient, srvSeq>>

SendFail(c) ==
    /\ pc[c] = "send"
    /\ TransmitFails
    /\ Return(c, "zero")
    /\ UNCHANGED <<seq, call, id, calls, pending, value, recvVars, netVars>>

-----------------------------------------------------------------------------
(* SendAndWait *)

WaitBegin(c) ==
    /\ pc[c] = "idle"
    /\ TakeId(c)
    /\ Goto(c, "register")
    /\ UNCHANGED <<outcome, pending, value, recvVars, netVars>>

(* _mapPendingRequests.emplace; by IdsSuffice the id is not there yet      *)
Register(c) ==
    /\ pc[c] = "register"
    /\ pending' = [pending EXCEPT ![id[c]] = call[c]]
    /\ Goto(c, "transmit")
    /\ UNCHANGED <<seq, call, id, calls, outcome, value, recvVars, netVars>>

RequestOk(c) ==
    /\ pc[c] = "transmit"
    /\ Transmit(c)
    /\ Goto(c, "wait")
    /\ UNCHANGED <<seq, call, id, calls, outcome, pending, value, recvVars,
                   connected, closed, toClient, srvSeq>>

(* Mutant: a failed send clears the whole map. *)
RequestFail_ClearsAll(c) ==
    /\ pc[c] = "transmit"
    /\ TransmitFails
    /\ pending' = [i \in Ids |-> 0]
    /\ Return(c, "false")
    /\ UNCHANGED <<seq, call, id, calls, value, recvVars, netVars>>

(* Mutant: a failed send leaves its promise in the map. *)
RequestFail_NoErase(c) ==
    /\ pc[c] = "transmit"
    /\ TransmitFails
    /\ Return(c, "false")
    /\ UNCHANGED <<seq, call, id, calls, pending, value, recvVars, netVars>>

(* Send failed: erase the promise and return false *)
RequestFail(c) ==
    /\ pc[c] = "transmit"
    /\ TransmitFails
    /\ pending' = [pending EXCEPT ![id[c]] = 0]
    /\ Return(c, "false")
    /\ UNCHANGED <<seq, call, id, calls, value, recvVars, netVars>>

(* future.wait_for is ready: outResponse = future.get() *)
Answered(c) ==
    /\ pc[c] = "wait"
    /\ value[call[c]] # NoPacket
    /\ Return(c, "true")
    /\ UNCHANGED <<seq, call, id, calls, pending, value, recvVars, netVars>>

(* Mutant: future.wait in place of wait_for. *)
TimeOut_Never(c) == FALSE /\ UNCHANGED vars

(* future.wait_for ran out: the future was not ready at that moment ... *)
TimeOut(c) ==
    /\ pc[c] = "wait"
    /\ value[call[c]] = NoPacket
    /\ Goto(c, "timedout")
    /\ UNCHANGED <<seq, call, id, calls, outcome, pending, value, recvVars, netVars>>

(* ... and only then does the caller take the mutex and erase its promise, *)
(* if the receive thread has not moved it out meanwhile.                   *)
GiveUp(c) ==
    /\ pc[c] = "timedout"
    /\ pending' = [pending EXCEPT ![id[c]] = 0]
    /\ Return(c, "false")
    /\ UNCHANGED <<seq, call, id, calls, value, recvVars, netVars>>

-----------------------------------------------------------------------------
(* clientReceiveThread *)

(* Receive's test of m_eStatus; not connected, it returns -1 and the       *)
(* thread merely loops.                                                    *)
EnterRecv ==
    /\ rpc = "receive" /\ connected
    /\ rpc' = "recv"
    /\ UNCHANGED <<callerVars, pending, value, rpkt, rcall, handled, cpc, connects, netVars>>

(* Mutant: the promise is taken out of the map without erasing its entry. *)
HandOver_NoErase(p) ==
    /\ pending[p.id] # 0
    /\ rpc' = "fulfil"
    /\ rpkt' = p
    /\ rcall' = pending[p.id]
    /\ UNCHANGED <<pending, handled>>

(* Mutant: the handler is called for every packet, awaited or not. *)
HandOver_HandlesAll(p) ==
    /\ handled' = IF p.of = 0 THEN handled ELSE handled \cup {p}
    /\ IF pending[p.id] # 0
       THEN /\ rpc' = "fulfil"
            /\ rpkt' = p
            /\ rcall' = pending[p.id]
            /\ pending' = [pending EXCEPT ![p.id] = 0]
       ELSE /\ rpc' = "receive"
            /\ UNCHANGED <<rpkt, rcall, pending>>

(* Under the map's mutex the thread looks the packet's MSGID up and moves  *)
(* the promise out; without one it calls the handler and loops.            *)
HandOver(p) ==
    IF pending[p.id] # 0
    THEN /\ rpc' = "fulfil"
         /\ rpkt' = p
         /\ rcall' = pending[p.id]
         /\ pending' = [pending EXCEPT ![p.id] = 0]
         /\ UNCHANGED handled
    ELSE /\ rpc' = "receive"
         /\ handled' = IF p.of = 0 THEN handled ELSE handled \cup {p}
         /\ UNCHANGED <<rpkt, rcall, pending>>

(* Receive's last recv asks for more than there is: the n-1 packets that   *)
(* follow in the socket by then are consumed, too.                         *)
TakePackets ==
    \E n \in 1..Len(toClient) : toClient' = SubSeq(toClient, n + 1, Len(toClient))

ReceivePacket ==
    /\ rpc = "recv"
    /\ toClient # <<>>
    /\ TakePackets
    /\ HandOver(Head(toClient))
    /\ UNCHANGED <<callerVars, value, cpc, connects, connected, closed, toServer, srvSeq>>

(* Receive has the first four bytes of a packet of the old connection and  *)
(* takes the rest from the new one: its MSGID is the size that comes next. *)
MixedPacket ==
    /\ rpc = "mixed"
    /\ toClient # <<>>
    /\ TakePackets
    /\ \E i \in Sizes : HandOver([id |-> i, of |-> 0])
    /\ UNCHANGED <<callerVars, value, cpc, connects, connected, closed, toServer, srvSeq>>

(* Mutant: the thread forgets to let go of the promise. *)
Fulfil_KeepsPromise ==
    /\ rpc = "fulfil"
    /\ value' = [value EXCEPT ![rcall] = rpkt]
    /\ rpc' = "receive"
    /\ UNCHANGED <<callerVars, pending, rpkt, rcall, handled, cpc, connects, netVars>>

(* pendingPromise.set_value( tuPacket ), whether or not anyone waits       *)
Fulfil ==
    /\ rpc = "fulfil"
    /\ value' = [value EXCEPT ![rcall] = rpkt]
    /\ rpc' = "receive"
    /\ rpkt' = NoPacket
    /\ rcall' = 0
    /\ UNCHANGED <<callerVars, pending, handled, cpc, connects, netVars>>

(* Mutant: 0 is treated like a failure. *)
ReceiveClosed_Continues == FALSE /\ UNCHANGED vars

(* Receive returned 0: the server closed the connection *)
ReceiveClosed ==
    /\ rpc \in {"recv", "mixed"}
    /\ closed /\ toClient = <<>>
    /\ rpc' = "ended"
    /\ UNCHANGED <<callerVars, pending, value, rpkt, rcall, handled, cpc, connects, netVars>>

(* The recv on a connection that was closed under it: it may be there for  *)
(* ever.  It returns 0 if the server closes that connection ...            *)
StaleEnds ==
    /\ rpc = "stale"
    /\ rpc' = "ended"
    /\ UNCHANGED <<callerVars, pending, value, rpkt, rcall, handled, cpc, connects, netVars>>

(* ... or fails, and those that follow with it: Receive returns -3.        *)
StaleFails ==
    /\ rpc = "stale"
    /\ rpc' = "receive"
    /\ UNCHANGED <<callerVars, pending, value, rpkt, rcall, handled, cpc, connects, netVars>>

(* ... or gets four bytes the server sent on the old connection.  With no  *)
(* new one in their place the next calls fail; each takes one off total,   *)
(* until it is negative or, with a size of 1 or 2, what is there passes    *)
(* for a packet.  With a new one, Receive goes on there.                   *)
StaleData ==
    /\ rpc = "stale"
    /\ \/ /\ rpc' = "receive"
          /\ UNCHANGED <<pending, rpkt, rcall, handled>>
       \/ \E i \in {0} \cup (IF connects = 0 THEN {} ELSE Sizes) :
                HandOver([id |-> i, of |-> 0])
       \/ /\ connected
          /\ rpc' = "mixed"
          /\ UNCHANGED <<pending, rpkt, rcall, handled>>
    /\ UNCHANGED <<callerVars, value, cpc, connects, netVars>>

(* CTCPClient::Disconnect: close() leaves a thread in recv where it is.    *)
LeaveBehind == rpc' = IF rpc \in {"recv", "mixed"} THEN "stale" ELSE rpc

(* cNetwork::DisConnect: from now on Send fails.                           *)
DisConnect ==
    /\ connected
    /\ connected' = FALSE
    /\ LeaveBehind
    /\ UNCHANGED <<callerVars, pending, value, rpkt, rcall, handled, cpc, connects,
                   closed, toServer, toClient, srvSeq>>

(* cNetwork::Connect, again: CTCPClient::Connect closes the connection it  *)
(* has, if any; what was in flight on it is lost, and the requests that    *)
(* wait stay in the map.  With a new connection, Connect goes on to join   *)
(* the old receive thread ...                                              *)
Connect ==
    /\ cpc = "idle" /\ connects < MaxConnects
    /\ connects' = connects + 1
    /\ connected' = TRUE
    /\ LeaveBehind
    /\ closed' = FALSE
    /\ toServer' = <<>>
    /\ toClient' = <<>>
    /\ cpc' = "join"
    /\ UNCHANGED <<callerVars, pending, value, rpkt, rcall, handled, srvSeq>>

(* ... and without one returns false. *)
ConnectFails ==
    /\ cpc = "idle" /\ connects < MaxConnects
    /\ connects' = connects + 1
    /\ connected' = FALSE
    /\ LeaveBehind
    /\ UNCHANGED <<callerVars, pending, value, rpkt, rcall, handled, cpc, closed,
                   toServer, toClient, srvSeq>>

(* Mutant: a thread that has ended is joined but not started anew. *)
Joined_NoThread ==
    /\ cpc = "join" /\ rpc = "ended"
    /\ cpc' = "idle"
    /\ UNCHANGED <<callerVars, pending, value, rpc, rpkt, rcall, handled, connects, netVars>>

(* The old thread has ended; a new one is started, and Connect returns.    *)
Joined ==
    /\ cpc = "join" /\ rpc = "ended"
    /\ cpc' = "idle"
    /\ rpc' = "receive"
    /\ UNCHANGED <<callerVars, pending, value, rpkt, rcall, handled, connects, netVars>>

-----------------------------------------------------------------------------
(* The server *)

(* Mutant: the answer goes out under a MSGID of the server's own. *)
ServerReceive_OwnId ==
    /\ ~closed
    /\ toServer # <<>>
    /\ toServer' = Tail(toServer)
    /\ toClient' = Append(toClient, [id |-> srvSeq, of |-> Head(toServer).of])
    /\ srvSeq' = (srvSeq + 1) % IdSpace
    /\ UNCHANGED <<callerVars, pending, value, recvVars, connected, closed>>

(* Its receive thread takes a packet (swallowing others, like the client)  *)
(* and its handler thread, through an event queue, calls the application's *)
(* handler, which may answer through SendToClientSocket.                   *)
ServerReceive ==
    /\ ~closed
    /\ toServer # <<>>
    /\ \E n \in 1..Len(toServer) :
            toServer' = SubSeq(toServer, n + 1, Len(toServer))
    /\ \/ toClient' = Append(toClient, Head(toServer))  \* same MSGID
       \/ UNCHANGED toClient
    /\ UNCHANGED <<callerVars, pending, value, recvVars, connected, closed, srvSeq>>

(* SendToClient / SendToAll: a packet under the server's own next MSGID    *)
ServerPush ==
    /\ ~closed
    /\ srvSeq <= MaxPushes
    /\ srvSeq' = (srvSeq + 1) % IdSpace
    /\ toClient' = Append(toClient, [id |-> srvSeq, of |-> 0])
    /\ UNCHANGED <<callerVars, pending, value, recvVars, connected, closed, toServer>>

(* cNetwork::DisConnect( uuid ) on the server, or its end.                 *)
ServerClose ==
    /\ ~closed
    /\ closed' = TRUE
    /\ UNCHANGED <<callerVars, pending, value, recvVars, connected, toServer,
                   toClient, srvSeq>>

-----------------------------------------------------------------------------
Send(c) == SendBegin(c) \/ SendOk(c) \/ SendFail(c)

SendAndWait(c) == \/ WaitBegin(c) \/ Register(c) \/ RequestOk(c)
                  \/ RequestFail(c) \/ Answered(c) \/ TimeOut(c) \/ GiveUp(c)

ReceiveThread == EnterRecv \/ ReceivePacket \/ MixedPacket \/ Fulfil \/ ReceiveClosed

OldConnection == StaleEnds \/ StaleFails \/ StaleData

Server == ServerReceive \/ ServerPush \/ ServerClose

Next ==
    \/ \E c \in Callers : Send(c) \/ SendAndWait(c)
    \/ ReceiveThread
    \/ OldConnection
    \/ DisConnect
    \/ Connect \/ ConnectFails \/ Joined
    \/ Server

Spec == Init /\ [][Next]_vars

(***************************************************************************)
(* The operating system runs the caller's thread and the receive thread;   *)
(* wait_for returns, ready or not, after msTimeout, and a blocking send    *)
(* returns in the end.  The server is not obliged to anything, on a        *)
(* connection that was closed as little as on the one that is open.        *)
(***************************************************************************)
Fairness ==
    /\ \A c \in Callers : /\ WF_vars(SendOk(c) \/ SendFail(c))
                          /\ WF_vars(Register(c) \/ RequestOk(c) \/ RequestFail(c)
                                     \/ Answered(c) \/ TimeOut(c) \/ GiveUp(c))
    /\ WF_vars(ReceiveThread)
    /\ WF_vars(Joined)

FairSpec == Spec /\ Fairness

-----------------------------------------------------------------------------
WaitPC == {"transmit", "wait", "timedout"}
CallerPC == {"idle", "send", "register"} \cup WaitPC
Outcomes == {"open", "msgid", "zero", "true", "false"}

(* The type invariant. *)
TypeOK ==
    /\ seq \in Ids
    /\ pending \in [Ids -> Calls \cup {0}]
    /\ value \in [Calls -> Packet \cup {NoPacket}]
    /\ pc \in [Callers -> CallerPC]
    /\ call \in [Callers -> Calls \cup {0}]
    /\ \A c \in Callers : pc[c] # "idle" => call[c] # 0
    /\ id \in [Callers -> Ids]
    /\ calls \in 0..MaxCalls
    /\ outcome \in [Calls -> Outcomes]
    /\ connected \in BOOLEAN
    /\ closed \in BOOLEAN
    /\ rpc \in {"receive", "recv", "stale", "mixed", "fulfil", "ended"}
    /\ rpkt \in Packet \cup {NoPacket}
    /\ rcall \in Calls \cup {0}
    /\ rpc = "fulfil" <=> rpkt # NoPacket
    /\ rpc = "fulfil" <=> rcall # 0
    /\ handled \subseteq Packet
    /\ cpc \in {"idle", "join"}
    /\ connects \in 0..MaxConnects
    /\ toServer \in Seq(Packet)
    /\ toClient \in Seq(Packet)
    /\ srvSeq \in Ids

(* The MSGID of the k-th call. *)
IdOf(k) == k % IdSpace

(***************************************************************************)
(* No waiter is abandoned: the promise of a call that waits is in the map, *)
(* in the hands of the receive thread, or fulfilled, however its timeout,  *)
(* the other callers' erasures and the receive thread interleave.          *)
(***************************************************************************)
PromiseSomewhere ==
    \A c \in Callers : pc[c] \in WaitPC =>
        \/ pending[id[c]] = call[c]
        \/ rcall = call[c]
        \/ value[call[c]] # NoPacket

(***************************************************************************)
(* Nothing is left behind: every entry of _mapPendingRequests belongs to a *)
(* call in progress under that very MSGID.  Each way out of SendAndWait -  *)
(* answered, timed out, send failed - has disposed of its entry.           *)
(***************************************************************************)
NoLeakedPromise ==
    \A i \in Ids : pending[i] # 0 =>
        \E c \in Callers : /\ pc[c] \in WaitPC
                           /\ call[c] = pending[i]
                           /\ id[c] = i

(***************************************************************************)
(* A promise is in one place at a time - the map, the receive thread or    *)
(* done - so set_value is never called twice on it (it would throw).       *)
(***************************************************************************)
PromiseOnce ==
    \A k \in Calls : rcall = k \/ value[k] # NoPacket =>
        /\ \A i \in Ids : pending[i] # k
        /\ rcall # k \/ value[k] = NoPacket

(***************************************************************************)
(* What a promise is set to bears the MSGID of its call and, unless the    *)
(* server pushed it or it is pieced together from two connections, is the  *)
(* reply to that very call: late replies to calls that timed out never     *)
(* reach a later call.                                                     *)
(***************************************************************************)
OwnReply ==
    \A k \in Calls : value[k] # NoPacket =>
        /\ value[k].id = IdOf(k)
        /\ value[k].of \in {k, 0}

(***************************************************************************)
(* A reply is handed to _fnClientHandler only when its call no longer (or  *)
(* never) waits for it: it was a Send, or the call has returned or is      *)
(* about to return false.  A SendAndWait that returned true has no second  *)
(* copy of its reply in the handler - unless a push took its place.        *)
(***************************************************************************)
HandlerGetsLeftovers ==
    \A p \in handled :
        \/ outcome[p.of] = "true"
        \/ \E c \in Callers : call[c] = p.of /\ pc[c] \in {"register", "transmit", "wait"}
        => value[p.of] # NoPacket /\ value[p.of].of = 0

(***************************************************************************)
(* The comment at EXNetwork.hpp:137 says that SendAndWait blocks until a   *)
(* RESPONSE packet with the same MSGID arrives.                            *)
(***************************************************************************)
ReturnsAResponse ==
    \A k \in Calls : value[k] # NoPacket => value[k].of = k

(***************************************************************************)
(* Every call returns, whether the server answers or not and whenever the  *)
(* connection goes: SendAndWait's timeout bounds the wait.  (Its send has  *)
(* none: with a server that reads nothing it can block, which is left out.)*)
(***************************************************************************)
CallsReturn == \A c \in Callers : pc[c] # "idle" ~> pc[c] = "idle"

(***************************************************************************)
(* What the server sends on an open connection is received, after any      *)
(* number of reconnections, by the receive thread that still has it or by  *)
(* the new one - except while the old thread is still in the recv of a     *)
(* connection that was closed under it, and Connect waits for it.          *)
(***************************************************************************)
PacketsReceived ==
    connected /\ toClient # <<>> /\ rpc # "stale" ~> toClient = <<>> \/ ~connected

(***************************************************************************)
(* A Connect that waits for a receive thread which has the new socket by   *)
(* now returns once the server closes the new connection - or the          *)
(* application disconnects meanwhile, in which case the old thread keeps   *)
(* looping.  For a thread left behind in recv it may wait without end.     *)
(***************************************************************************)
ConnectReturns ==
    cpc = "join" /\ connected /\ closed /\ rpc # "stale" ~> cpc = "idle" \/ ~connected

=============================================================================
