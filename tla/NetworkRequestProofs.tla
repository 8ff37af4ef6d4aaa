------------------------ MODULE NetworkRequestProofs ------------------------
(***************************************************************************)
(* Proofs about NetworkRequest, for any number of callers, calls, pushes   *)
(* and any IdSpace as large as the bounds: no promise is abandoned or      *)
(* leaked, a promise is set to a packet of its own call, and a reply goes  *)
(* to the handler only when its call does not wait for it, never to both;  *)
(* results do not change, and only pushed packets pass for responses.      *)
(***************************************************************************)
EXTENDS NetworkRequest, SequenceTheorems, TLAPS

-----------------------------------------------------------------------------
(* The inductive invariant behind PromiseSomewhere, NoLeakedPromise and    *)
(* OwnReply: each caller's MSGID is that of its call, no two callers are   *)
(* in the same call, and packets and promises are filed under their ids.   *)
CallInv ==
    /\ seq = (calls + 1) % IdSpace
    /\ \A c \in Callers : call[c] <= calls /\ (call[c] # 0 => id[c] = IdOf(call[c]))
    /\ \A c, d \in Callers : c # d /\ call[c] # 0 => call[c] # call[d]

(* A call that has not registered yet has a promise nowhere. *)
Fresh(k) == value[k] = NoPacket /\ rcall # k /\ \A i \in Ids : pending[i] # k

FreshInv ==
    /\ \A k \in Calls : k > calls => Fresh(k)
    /\ \A c \in Callers : pc[c] \in {"send", "register"} => Fresh(call[c])

PacketInv ==
    /\ \A n \in 1..Len(toServer) : /\ toServer[n].of # 0
                                   /\ toServer[n].id = IdOf(toServer[n].of)
    /\ \A n \in 1..Len(toClient) :
            toClient[n].of # 0 => toClient[n].id = IdOf(toClient[n].of)
    /\ rcall # 0 => /\ rpkt.id = IdOf(rcall)
                    /\ rpkt.of # 0 => rpkt.id = IdOf(rpkt.of)
    /\ \A p \in handled : p.of # 0

PendingInv == \A i \in Ids : pending[i] # 0 => i = IdOf(pending[i])

IInv ==
    /\ TypeOK
    /\ CallInv
    /\ FreshInv
    /\ PacketInv
    /\ PendingInv
    /\ PromiseSomewhere
    /\ NoLeakedPromise
    /\ PromiseOnce
    /\ OwnReply

(* The inductive invariant behind HandlerGetsLeftovers: a call's packet -  *)
(* its request, later the reply to it - is in one place at a time, and     *)
(* nowhere before the call has sent it.                                    *)
AtServer(k) == \E n \in 1..Len(toServer) : toServer[n].of = k
AtClient(k) == \E n \in 1..Len(toClient) : toClient[n].of = k
InHand(k) == rpkt # NoPacket /\ rpkt.of = k
InPromise(k) == value[k] # NoPacket /\ value[k].of = k
AtHandler(k) == \E p \in handled : p.of = k

Sent(k) ==
    /\ k <= calls
    /\ \A c \in Callers : call[c] = k => pc[c] \notin {"send", "register", "transmit"}

ReplyInv ==
    /\ \A m, n \in 1..Len(toServer) : toServer[m].of = toServer[n].of => m = n
    /\ \A m, n \in 1..Len(toClient) :
            toClient[m].of = toClient[n].of /\ toClient[n].of # 0 => m = n
    /\ \A k \in Calls :
        /\ AtServer(k) \/ AtClient(k) \/ InHand(k) \/ InPromise(k) \/ AtHandler(k) => Sent(k)
        /\ AtServer(k) => ~AtClient(k) /\ ~InHand(k) /\ ~InPromise(k) /\ ~AtHandler(k)
        /\ AtClient(k) => ~InHand(k) /\ ~InPromise(k) /\ ~AtHandler(k)
        /\ InHand(k) => ~InPromise(k) /\ ~AtHandler(k)
        /\ InPromise(k) => ~AtHandler(k)
        /\ outcome[k] = "true" => value[k] # NoPacket

-----------------------------------------------------------------------------
(* MSGIDs of different calls differ: IdsSuffice rules the wrap-around out. *)
LEMMA IdType == \A k \in Calls \cup {0} : IdOf(k) \in Ids
BY BoundsAssumption DEF Calls, IdOf, Ids

LEMMA ModSmall == \A k, n \in Nat : k < n => k % n = k
OBVIOUS

LEMMA ModSelf == \A n \in Nat : n > 0 => n % n = 0
OBVIOUS

LEMMA IdsDistinct == \A j, k \in Calls : IdOf(j) = IdOf(k) => j = k
<1> SUFFICES ASSUME NEW j \in Calls, NEW k \in Calls, IdOf(j) = IdOf(k) PROVE j = k
  OBVIOUS
<1>1. \A m \in Calls : IdOf(m) = IF m = IdSpace THEN 0 ELSE m
  BY ModSmall, ModSelf, BoundsAssumption, IdsSuffice DEF Calls, IdOf
<1>2. QED
  BY <1>1 DEF Calls

(* Dropping the first n packets of a channel leaves packets of the channel. *)
LEMMA DropPackets ==
    ASSUME NEW s \in Seq(Packet), NEW n \in 1..Len(s)
    PROVE  /\ SubSeq(s, n + 1, Len(s)) \in Seq(Packet)
           /\ \A m \in 1..Len(SubSeq(s, n + 1, Len(s))) :
                \E j \in 1..Len(s) : SubSeq(s, n + 1, Len(s))[m] = s[j]
OBVIOUS

LEMMA AddPacket ==
    ASSUME NEW s \in Seq(Packet), NEW p \in Packet
    PROVE  /\ Append(s, p) \in Seq(Packet)
           /\ \A m \in 1..Len(Append(s, p)) :
                Append(s, p)[m] = p \/ \E j \in 1..Len(s) : Append(s, p)[m] = s[j]
OBVIOUS

-----------------------------------------------------------------------------
LEMMA InitInv == Init => IInv
<1> SUFFICES ASSUME Init PROVE IInv
  OBVIOUS
<1>1. \A S : <<>> \in Seq(S)
  OBVIOUS
<1>2. 0 \in Ids /\ 1 \in Ids /\ 1 % IdSpace = 1
  BY BoundsAssumption, ModSmall DEF Ids
<1>3. TypeOK
  BY <1>1, <1>2, BoundsAssumption DEF Init, TypeOK, CallerPC, WaitPC, Outcomes
<1>4. CallInv /\ PacketInv /\ PendingInv
  BY <1>2 DEF Init, CallInv, PacketInv, PendingInv
<1>5. PromiseSomewhere /\ NoLeakedPromise /\ PromiseOnce /\ OwnReply /\ FreshInv
  BY DEF Init, PromiseSomewhere, NoLeakedPromise, PromiseOnce, OwnReply, WaitPC,
         FreshInv, Fresh, Calls
<1>6. QED
  BY <1>3, <1>4, <1>5 DEF IInv

LEMMA ModRange == \A k \in Nat : k % IdSpace \in Ids
BY BoundsAssumption DEF Ids

LEMMA ModStep ==
    ASSUME NEW n \in Nat \ {0}, NEW m \in 0..n
    PROVE  ((m % n) + 1) % n = (m + 1) % n
<1>1. CASE m < n
  BY <1>1, ModSmall
<1>2. CASE m = n
  <2>1. m % n = 0 /\ (m + 1) % n = 1 % n
    BY <1>2, ModSelf
  <2>2. QED
    BY <2>1
<1>3. QED
  BY <1>1, <1>2

(* The caller takes a fresh MSGID, for Send or for SendAndWait. *)
LEMMA BeginInv ==
    ASSUME IInv, NEW c \in Callers, SendBegin(c) \/ WaitBegin(c)
    PROVE  IInv'
<1> USE DEF IInv, TakeId, Goto, recvVars, netVars
<1>a. /\ pc[c] = "idle"
      /\ calls' = calls + 1
      /\ call' = [call EXCEPT ![c] = calls + 1]
      /\ id' = [id EXCEPT ![c] = seq]
      /\ seq' = (seq + 1) % IdSpace
      /\ \/ pc' = [pc EXCEPT ![c] = "send"]
         \/ pc' = [pc EXCEPT ![c] = "register"]
      /\ UNCHANGED <<pending, value, outcome, recvVars, netVars>>
  BY DEF SendBegin, WaitBegin
<1>b. calls \in Nat /\ calls + 1 \in Calls /\ calls' \in 0..MaxCalls
  BY BoundsAssumption DEF SendBegin, WaitBegin, TypeOK, Calls
<1>c. seq \in Nat /\ seq' \in Ids
  BY <1>a, ModRange DEF TypeOK, Ids
<1>d. pc \in [Callers -> CallerPC] /\ call \in [Callers -> Calls \cup {0}]
  BY DEF TypeOK
<1>1. TypeOK'
  <2>1. pc' \in [Callers -> CallerPC] /\ call' \in [Callers -> Calls \cup {0}]
    BY <1>a, <1>b, <1>d DEF CallerPC, WaitPC
  <2>2. id' \in [Callers -> Ids]
    BY <1>a DEF TypeOK
  <2>3. \A d \in Callers : pc'[d] # "idle" => call'[d] # 0
    BY <1>a, <1>b, <1>d DEF TypeOK, Calls
  <2>4. QED
    BY <1>a, <1>b, <1>c, <2>1, <2>2, <2>3 DEF TypeOK
<1>2. CallInv'
  <2>1. seq' = (calls' + 1) % IdSpace
    <3>1. calls + 1 \in 0..IdSpace /\ IdSpace \in Nat \ {0}
      BY <1>b, BoundsAssumption, IdsSuffice DEF Calls
    <3>2. QED
      BY <1>a, <3>1, ModStep DEF CallInv
  <2>2. seq = IdOf(calls + 1)
    BY DEF CallInv, IdOf
  <2>3. \A d \in Callers : call[d] \in Nat /\ call[d] <= calls
    BY <1>d DEF CallInv, Calls
  <2>4. \A d \in Callers : /\ call'[d] <= calls'
                           /\ call'[d] # 0 => id'[d] = IdOf(call'[d])
    BY <1>a, <1>b, <1>d, <2>2, <2>3 DEF CallInv, TypeOK
  <2>5. \A d, e \in Callers : d # e /\ call'[d] # 0 => call'[d] # call'[e]
    BY <1>a, <1>b, <1>d, <2>3 DEF CallInv
  <2>6. QED
    BY <2>1, <2>4, <2>5 DEF CallInv
<1>3. PacketInv' /\ PendingInv'
  BY <1>a DEF PacketInv, PendingInv
<1>4. PromiseSomewhere'
  BY <1>a, <1>d DEF PromiseSomewhere, WaitPC, TypeOK
<1>5. NoLeakedPromise'
  <2>1. \A d \in Callers : pc[d] \in WaitPC => d # c /\ UNCHANGED <<pc[d], call[d], id[d]>>
    BY <1>a, <1>d DEF WaitPC, TypeOK
  <2>2. QED
    BY <1>a, <2>1 DEF NoLeakedPromise
<1>6. OwnReply' /\ PromiseOnce'
  BY <1>a DEF OwnReply, PromiseOnce
<1>7. FreshInv'
  <2>1. \A k : Fresh(k)' <=> Fresh(k)
    BY <1>a DEF Fresh
  <2>2. Fresh(calls + 1)
    BY <1>b DEF FreshInv, Calls
  <2>3. QED
    BY <1>a, <1>b, <1>d, <2>1, <2>2 DEF FreshInv, Calls
<1>8. QED
  BY <1>1, <1>2, <1>3, <1>4, <1>5, <1>6, <1>7

(***************************************************************************)
(* The steps by which a caller ends a Send or passes on a request: nothing *)
(* but the caller's pc, its outcome and the channel to the server change.  *)
(***************************************************************************)
LEMMA TransmitInv ==
    ASSUME IInv, NEW c \in Callers, SendOk(c) \/ SendFail(c) \/ RequestOk(c)
    PROVE  IInv'
<1> USE DEF IInv, Goto, Return, recvVars, netVars
<1>a. /\ UNCHANGED <<seq, call, id, calls, pending, value, rpc, rpkt, rcall, handled,
                     cpc, connects, connected, closed, toClient, srvSeq>>
      /\ \/ pc[c] = "send" /\ pc' = [pc EXCEPT ![c] = "idle"]
         \/ pc[c] = "transmit" /\ pc' = [pc EXCEPT ![c] = "wait"]
      /\ outcome' \in [Calls -> Outcomes]
  BY DEF SendOk, SendFail, RequestOk, Transmit, TypeOK, Outcomes
<1>b. /\ toServer \in Seq(Packet)
      /\ [id |-> id[c], of |-> call[c]] \in Packet
      /\ \/ toServer' = toServer
         \/ toServer' = Append(toServer, [id |-> id[c], of |-> call[c]])
  BY DEF SendOk, SendFail, RequestOk, Transmit, TypeOK, Packet
<1>c. pc \in [Callers -> CallerPC]
  BY DEF TypeOK
<1>1. TypeOK'
  <2>1. toServer' \in Seq(Packet)
    BY <1>b, AddPacket
  <2>2. pc' \in [Callers -> CallerPC] /\ \A d \in Callers : pc'[d] # "idle" => pc[d] # "idle"
    BY <1>a, <1>c DEF CallerPC, WaitPC
  <2>3. QED
    BY <1>a, <2>1, <2>2 DEF TypeOK
<1>2. CallInv' /\ PendingInv' /\ OwnReply' /\ PromiseOnce'
  BY <1>a DEF CallInv, PendingInv, OwnReply, PromiseOnce
<1>3. PacketInv'
  <2>1. call[c] # 0 /\ id[c] = IdOf(call[c])
    BY <1>a DEF TypeOK, CallInv
  <2>2. \A n \in 1..Len(toServer') : /\ toServer'[n].of # 0
                                     /\ toServer'[n].id = IdOf(toServer'[n].of)
    <3>1. \A n \in 1..Len(toServer) : /\ toServer[n].of # 0
                                      /\ toServer[n].id = IdOf(toServer[n].of)
      BY DEF PacketInv
    <3>2. CASE toServer' = toServer
      BY <3>1, <3>2
    <3>3. CASE toServer' = Append(toServer, [id |-> id[c], of |-> call[c]])
      <4> DEFINE p == [id |-> id[c], of |-> call[c]]
      <4>1. p.of # 0 /\ p.id = IdOf(p.of)
        BY <2>1
      <4> HIDE DEF p
      <4>2. \A m \in 1..Len(Append(toServer, p)) :
               \/ Append(toServer, p)[m] = p
               \/ \E j \in 1..Len(toServer) : Append(toServer, p)[m] = toServer[j]
        BY <1>b, AddPacket DEF p
      <4>3. QED
        BY <3>1, <3>3, <4>1, <4>2 DEF p
    <3>4. QED
      BY <1>b, <3>2, <3>3
  <2>3. QED
    BY <1>a, <2>2 DEF PacketInv
<1>4. PromiseSomewhere'
  BY <1>a, <1>c DEF PromiseSomewhere, WaitPC
<1>5. NoLeakedPromise'
  <2>1. \A d \in Callers : pc[d] \in WaitPC => pc'[d] \in WaitPC
    BY <1>a, <1>c DEF WaitPC
  <2>2. QED
    BY <1>a, <2>1 DEF NoLeakedPromise
<1>6. FreshInv'
  <2>1. \A k : Fresh(k)' <=> Fresh(k)
    BY <1>a DEF Fresh
  <2>2. QED
    BY <1>a, <1>c, <2>1 DEF FreshInv
<1>7. QED
  BY <1>1, <1>2, <1>3, <1>4, <1>5, <1>6

(* Two callers inside their calls have different MSGIDs.                   *)
LEMMA OthersId ==
    ASSUME TypeOK, CallInv, NEW c \in Callers, NEW d \in Callers, c # d,
           pc[c] # "idle", pc[d] # "idle"
    PROVE  id[c] # id[d] /\ call[c] # call[d]
<1>1. call[c] \in Calls /\ call[d] \in Calls /\ call[c] # call[d]
  BY DEF TypeOK, CallInv
<1>2. id[c] = IdOf(call[c]) /\ id[d] = IdOf(call[d])
  BY <1>1 DEF CallInv, Calls
<1>3. QED
  BY <1>1, <1>2, IdsDistinct

(* emplace: the caller's promise enters the map.                           *)
LEMMA RegisterInv ==
    ASSUME IInv, NEW c \in Callers, Register(c)
    PROVE  IInv'
<1> USE DEF IInv, Goto, recvVars, netVars
<1>a. /\ pc[c] = "register" /\ pc' = [pc EXCEPT ![c] = "transmit"]
      /\ pending' = [pending EXCEPT ![id[c]] = call[c]]
      /\ UNCHANGED <<seq, call, id, calls, outcome, value, recvVars, netVars>>
  BY DEF Register
<1>b. /\ call[c] \in Calls /\ id[c] \in Ids /\ id[c] = IdOf(call[c])
      /\ pc \in [Callers -> CallerPC]
      /\ pending \in [Ids -> Calls \cup {0}]
  BY <1>a DEF TypeOK, CallInv, Calls
<1>c. \A d \in Callers : d # c /\ pc[d] \in WaitPC => id[d] # id[c] /\ call[d] # call[c]
  BY <1>a, OthersId DEF WaitPC
<1>1. TypeOK'
  BY <1>a, <1>b DEF TypeOK, CallerPC, WaitPC
<1>2. CallInv' /\ PacketInv' /\ OwnReply'
  BY <1>a DEF CallInv, PacketInv, OwnReply
<1>3. PendingInv'
  BY <1>a, <1>b DEF PendingInv
<1>4. PromiseSomewhere'
  BY <1>a, <1>b, <1>c DEF PromiseSomewhere, WaitPC
<1>5. NoLeakedPromise'
  <2>1. \A d \in Callers : pc[d] \in WaitPC => d # c /\ pc'[d] = pc[d]
    BY <1>a, <1>b DEF WaitPC
  <2>2. pc'[c] \in WaitPC
    BY <1>a, <1>b DEF WaitPC
  <2>3. QED
    BY <1>a, <1>b, <2>1, <2>2 DEF NoLeakedPromise
<1>f. Fresh(call[c])
  BY <1>a DEF FreshInv
<1>6. PromiseOnce'
  BY <1>a, <1>b, <1>f DEF PromiseOnce, Fresh
<1>7. FreshInv'
  <2>1. \A k \in Calls : k # call[c] /\ Fresh(k) => Fresh(k)'
    BY <1>a, <1>b DEF Fresh
  <2>2. \A d \in Callers : pc'[d] \in {"send", "register"} =>
            /\ d # c /\ pc[d] \in {"send", "register"}
            /\ call[d] # call[c] /\ call[d] \in Calls
    BY <1>a, <1>b, OthersId DEF TypeOK
  <2>3. call[c] <= calls /\ calls \in Nat
    BY DEF CallInv, TypeOK
  <2>4. QED
    BY <1>a, <2>1, <2>2, <2>3 DEF FreshInv, Calls
<1>8. QED
  BY <1>1, <1>2, <1>3, <1>4, <1>5, <1>6, <1>7

(* A failed send or a timeout: the caller erases its MSGID and returns.    *)
LEMMA EraseInv ==
    ASSUME IInv, NEW c \in Callers, RequestFail(c) \/ GiveUp(c)
    PROVE  IInv'
<1> USE DEF IInv, Goto, Return, recvVars, netVars
<1>a. /\ pc[c] \in WaitPC /\ pc' = [pc EXCEPT ![c] = "idle"]
      /\ pending' = [pending EXCEPT ![id[c]] = 0]
      /\ outcome' \in [Calls -> Outcomes]
      /\ UNCHANGED <<seq, call, id, calls, value, recvVars, netVars>>
  BY DEF RequestFail, GiveUp, TypeOK, Outcomes, WaitPC
<1>b. /\ id[c] \in Ids
      /\ pc \in [Callers -> CallerPC]
      /\ pending \in [Ids -> Calls \cup {0}]
  BY DEF TypeOK
<1>c. \A d \in Callers : d # c /\ pc[d] \in WaitPC => id[d] # id[c]
  BY <1>a, OthersId DEF WaitPC
<1>1. TypeOK'
  BY <1>a, <1>b DEF TypeOK, CallerPC, WaitPC
<1>2. CallInv' /\ PacketInv' /\ OwnReply'
  BY <1>a DEF CallInv, PacketInv, OwnReply
<1>3. PendingInv'
  BY <1>a, <1>b DEF PendingInv
<1>4. PromiseSomewhere'
  BY <1>a, <1>b, <1>c DEF PromiseSomewhere, WaitPC
<1>5. NoLeakedPromise'
  <2>1. \A i \in Ids : pending'[i] # 0 => i # id[c] /\ pending'[i] = pending[i]
    BY <1>a, <1>b
  <2>2. \A d \in Callers : d # c => pc'[d] = pc[d]
    BY <1>a, <1>b
  <2>3. QED
    BY <1>a, <2>1, <2>2 DEF NoLeakedPromise
<1>6. PromiseOnce'
  BY <1>a, <1>b DEF PromiseOnce, Calls
<1>7. FreshInv'
  <2>1. \A k \in Calls : Fresh(k) => Fresh(k)'
    BY <1>a, <1>b DEF Fresh, Calls
  <2>2. \A d \in Callers : pc'[d] \in {"send", "register"} =>
            pc[d] \in {"send", "register"} /\ call[d] \in Calls
    BY <1>a, <1>b DEF TypeOK
  <2>3. QED
    BY <1>a, <2>1, <2>2 DEF FreshInv
<1>8. QED
  BY <1>1, <1>2, <1>3, <1>4, <1>5, <1>6, <1>7

(* An answered caller leaves no entry: its promise was taken out before.   *)
LEMMA AnsweredInv ==
    ASSUME IInv, NEW c \in Callers, Answered(c)
    PROVE  IInv'
<1> USE DEF IInv, Goto, Return, recvVars, netVars
<1>a. /\ pc[c] = "wait" /\ pc' = [pc EXCEPT ![c] = "idle"]
      /\ value[call[c]] # NoPacket
      /\ outcome' \in [Calls -> Outcomes]
      /\ UNCHANGED <<seq, call, id, calls, pending, value, recvVars, netVars>>
  BY DEF Answered, TypeOK, Outcomes
<1>b. /\ call[c] \in Calls
      /\ pc \in [Callers -> CallerPC]
  BY <1>a DEF TypeOK
<1>1. TypeOK'
  BY <1>a, <1>b DEF TypeOK, CallerPC
<1>2. CallInv' /\ PacketInv' /\ OwnReply' /\ PendingInv' /\ PromiseOnce'
  BY <1>a DEF CallInv, PacketInv, OwnReply, PendingInv, PromiseOnce
<1>3. PromiseSomewhere'
  BY <1>a, <1>b DEF PromiseSomewhere, WaitPC
<1>4. NoLeakedPromise'
  <2>1. \A i \in Ids : pending[i] # call[c]
    BY <1>a, <1>b DEF PromiseOnce
  <2>2. \A d \in Callers : d # c => pc'[d] = pc[d]
    BY <1>a, <1>b
  <2>3. QED
    BY <1>a, <2>1, <2>2 DEF NoLeakedPromise
<1>5. FreshInv'
  <2>1. \A k : Fresh(k)' <=> Fresh(k)
    BY <1>a DEF Fresh
  <2>2. QED
    BY <1>a, <1>b, <2>1 DEF FreshInv
<1>6. QED
  BY <1>1, <1>2, <1>3, <1>4, <1>5

LEMMA TimeOutInv ==
    ASSUME IInv, NEW c \in Callers, TimeOut(c)
    PROVE  IInv'
<1> USE DEF IInv, Goto, recvVars, netVars
<1>a. /\ pc[c] = "wait" /\ pc' = [pc EXCEPT ![c] = "timedout"]
      /\ UNCHANGED <<seq, call, id, calls, outcome, pending, value, recvVars, netVars>>
      /\ pc \in [Callers -> CallerPC]
  BY DEF TimeOut, TypeOK
<1>1. TypeOK'
  BY <1>a DEF TypeOK, CallerPC, WaitPC
<1>2. CallInv' /\ PacketInv' /\ OwnReply' /\ PendingInv' /\ PromiseOnce'
  BY <1>a DEF CallInv, PacketInv, OwnReply, PendingInv, PromiseOnce
<1>3. \A d \in Callers : pc'[d] \in WaitPC <=> pc[d] \in WaitPC
  BY <1>a DEF WaitPC
<1>4. PromiseSomewhere' /\ NoLeakedPromise'
  BY <1>a, <1>3 DEF PromiseSomewhere, NoLeakedPromise
<1>5. FreshInv'
  <2>1. \A k : Fresh(k)' <=> Fresh(k)
    BY <1>a DEF Fresh
  <2>2. QED
    BY <1>a, <2>1 DEF FreshInv
<1>6. QED
  BY <1>1, <1>2, <1>4, <1>5

-----------------------------------------------------------------------------
(* What a step leaves in the channel to the client bears its call's MSGID.  *)
Filed(s) == \A n \in 1..Len(s) : s[n].of # 0 => s[n].id = IdOf(s[n].of)

LEMMA TakeInv ==
    ASSUME IInv, TakePackets
    PROVE  toClient' \in Seq(Packet) /\ Filed(toClient')
<1>1. PICK n \in 1..Len(toClient) : toClient' = SubSeq(toClient, n + 1, Len(toClient))
  BY DEF TakePackets
<1>2. /\ toClient' \in Seq(Packet)
      /\ \A m \in 1..Len(toClient') : \E j \in 1..Len(toClient) : toClient'[m] = toClient[j]
  BY <1>1, DropPackets DEF IInv, TypeOK
<1>3. QED
  BY <1>2 DEF IInv, PacketInv, Filed

(* The receive thread moves a promise from the map to its own hands ...    *)
LEMMA HandInv ==
    ASSUME IInv, NEW p \in Packet, p.of # 0 => p.id = IdOf(p.of),
           HandOver(p), rpc # "fulfil",
           toClient' \in Seq(Packet), Filed(toClient'),
           UNCHANGED <<callerVars, value, cpc, connects, connected, closed, toServer, srvSeq>>
    PROVE  IInv'
<1> USE DEF IInv, callerVars
<1>a. rcall = 0 /\ rpkt = NoPacket
  BY DEF TypeOK
<1>d. pending \in [Ids -> Calls \cup {0}] /\ p.id \in Ids
  BY DEF TypeOK, Packet
<1>1. CASE pending[p.id] # 0
  <2>a. /\ rpc' = "fulfil" /\ rpkt' = p /\ rcall' = pending[p.id]
        /\ pending' = [pending EXCEPT ![p.id] = 0]
        /\ handled' = handled
    BY <1>1 DEF HandOver
  <2>1. TypeOK'
    BY <1>1, <1>a, <1>d, <2>a, NoPacketAssumption DEF TypeOK
  <2>2. CallInv' /\ OwnReply'
    BY DEF CallInv, OwnReply
  <2>3. PacketInv'
    BY <1>1, <1>a, <1>d, <2>a DEF PacketInv, PendingInv, Filed
  <2>4. PendingInv'
    BY <1>d, <2>a DEF PendingInv
  <2>5. PromiseSomewhere'
    <3>1. \A c \in Callers : pc[c] \in WaitPC =>
             \/ pending[id[c]] = call[c]
             \/ value[call[c]] # NoPacket
      BY <1>a DEF PromiseSomewhere, TypeOK, WaitPC
    <3>2. \A c \in Callers : id[c] \in Ids
      BY DEF TypeOK
    <3>3. \A c \in Callers : pending[id[c]] = call[c] =>
             pending'[id[c]] = call[c] \/ rcall' = call[c]
      BY <1>d, <2>a, <3>2
    <3>4. QED
      BY <3>1, <3>3 DEF PromiseSomewhere
  <2>6. NoLeakedPromise'
    BY <1>d, <2>a DEF NoLeakedPromise
  <2>7. PromiseOnce'
    <3>1. \A i \in Ids : pending[i] = pending[p.id] => i = p.id
      BY <1>1, <1>d DEF PendingInv
    <3>2. QED
      BY <1>1, <1>a, <1>d, <2>a, <3>1 DEF PromiseOnce, Calls
  <2>8. FreshInv'
    <3>1. \A k \in Calls : Fresh(k) => Fresh(k)'
      BY <1>a, <1>d, <2>a DEF Fresh, Calls
    <3>2. \A c \in Callers : pc[c] \in {"send", "register"} => call[c] \in Calls
      BY DEF TypeOK
    <3>3. QED
      BY <3>1, <3>2 DEF FreshInv
  <2>9. QED
    BY <2>1, <2>2, <2>3, <2>4, <2>5, <2>6, <2>7, <2>8
<1>2. CASE pending[p.id] = 0
  <2>a. /\ rpc' = "receive" /\ UNCHANGED <<rpkt, rcall, pending>>
        /\ handled' \subseteq handled \cup {p}
        /\ p.of = 0 => handled' = handled
    BY <1>2 DEF HandOver
  <2>1. TypeOK'
    BY <1>a, <2>a DEF TypeOK
  <2>2. PacketInv'
    BY <1>a, <2>a DEF PacketInv, Filed
  <2>3. /\ CallInv' /\ OwnReply' /\ PendingInv' /\ PromiseSomewhere'
        /\ NoLeakedPromise' /\ PromiseOnce' /\ FreshInv'
    BY <2>a DEF CallInv, OwnReply, PendingInv, PromiseSomewhere, NoLeakedPromise,
                PromiseOnce, FreshInv, Fresh
  <2>4. QED
    BY <2>1, <2>2, <2>3
<1>3. QED
  BY <1>1, <1>2

(* The thread goes from one recv to another, or out of its loop. *)
Moves ==
    /\ rpc # "fulfil" /\ rpc' \in {"receive", "recv", "stale", "mixed", "ended"}
    /\ UNCHANGED <<callerVars, pending, value, rpkt, rcall, handled, cpc, connects, netVars>>

LEMMA MovesInv ==
    ASSUME IInv, Moves
    PROVE  IInv'
<1> USE DEF IInv, Moves
<1>1. TypeOK'
  BY DEF TypeOK, callerVars, netVars
<1>2. PacketInv' /\ CallInv' /\ OwnReply' /\ PendingInv' /\ PromiseSomewhere'
  BY DEF PacketInv, CallInv, OwnReply, PendingInv, PromiseSomewhere, callerVars, netVars
<1>3. NoLeakedPromise' /\ PromiseOnce' /\ FreshInv'
  BY DEF NoLeakedPromise, PromiseOnce, FreshInv, Fresh, callerVars
<1>4. QED
  BY <1>1, <1>2, <1>3

(* A packet pieced together belongs to no call. *)
LEMMA PhantomPacket == \A i \in Sizes \cup {0} : [id |-> i, of |-> 0] \in Packet
BY BoundsAssumption DEF Sizes, Packet, Ids

LEMMA StaleSteps ==
    ASSUME StaleData
    PROVE  \/ Moves
           \/ /\ rpc = "stale"
              /\ UNCHANGED <<callerVars, value, cpc, connects, netVars>>
              /\ \E i \in Sizes \cup {0} : /\ i # 0 => connects # 0
                                           /\ HandOver([id |-> i, of |-> 0])
<1>1. rpc = "stale" /\ UNCHANGED <<callerVars, value, cpc, connects, netVars>>
  BY DEF StaleData
<1>2. CASE rpc' \in {"receive", "mixed"} /\ UNCHANGED <<pending, rpkt, rcall, handled>>
  BY <1>1, <1>2 DEF Moves
<1>3. CASE \E i \in {0} \cup (IF connects = 0 THEN {} ELSE Sizes) :
                HandOver([id |-> i, of |-> 0])
  <2>1. PICK i \in {0} \cup (IF connects = 0 THEN {} ELSE Sizes) :
                HandOver([id |-> i, of |-> 0])
    BY <1>3
  <2>2. i \in Sizes \cup {0} /\ (i # 0 => connects # 0)
    OBVIOUS
  <2>3. QED
    BY <1>1, <2>1, <2>2
<1>4. QED
  BY <1>2, <1>3 DEF StaleData

LEMMA ReceiveInv ==
    ASSUME IInv, ReceivePacket \/ MixedPacket \/ StaleData
    PROVE  IInv'
<1>1. CASE ReceivePacket
  <2>1. /\ rpc = "recv" /\ TakePackets /\ HandOver(Head(toClient))
        /\ toClient \in Seq(Packet) /\ toClient # <<>>
        /\ UNCHANGED <<callerVars, value, cpc, connects, connected, closed, toServer, srvSeq>>
    BY <1>1 DEF ReceivePacket, IInv, TypeOK
  <2>2. Head(toClient) = toClient[1] /\ 1 \in 1..Len(toClient) /\ Head(toClient) \in Packet
    BY <2>1
  <2>3. Head(toClient).of # 0 => Head(toClient).id = IdOf(Head(toClient).of)
    BY <2>2 DEF IInv, PacketInv
  <2>4. QED
    BY <2>1, <2>2, <2>3, TakeInv, HandInv
<1>2. CASE MixedPacket
  <2>1. /\ rpc = "mixed" /\ TakePackets
        /\ UNCHANGED <<callerVars, value, cpc, connects, connected, closed, toServer, srvSeq>>
    BY <1>2 DEF MixedPacket
  <2>2. PICK i \in Sizes : HandOver([id |-> i, of |-> 0])
    BY <1>2 DEF MixedPacket
  <2>3. QED
    BY <2>1, <2>2, TakeInv, HandInv, PhantomPacket
<1>3. CASE StaleData
  <2>1. CASE Moves
    BY <2>1, MovesInv
  <2>2. CASE /\ rpc = "stale"
             /\ UNCHANGED <<callerVars, value, cpc, connects, netVars>>
             /\ \E i \in Sizes \cup {0} : HandOver([id |-> i, of |-> 0])
    <3>1. PICK i \in Sizes \cup {0} : HandOver([id |-> i, of |-> 0])
      BY <2>2
    <3>2. toClient' \in Seq(Packet) /\ Filed(toClient')
      BY <2>2 DEF IInv, TypeOK, PacketInv, Filed, netVars
    <3>3. QED
      BY <2>2, <3>1, <3>2, HandInv, PhantomPacket DEF netVars
  <2>3. QED
    BY <1>3, <2>1, <2>2, StaleSteps
<1>4. QED
  BY <1>1, <1>2, <1>3

(* ... and from there into the shared state the caller waits on.           *)
LEMMA FulfilInv ==
    ASSUME IInv, Fulfil
    PROVE  IInv'
<1> USE DEF IInv, callerVars, netVars
<1>a. /\ rpc = "fulfil" /\ rpc' = "receive" /\ rpkt' = NoPacket /\ rcall' = 0
      /\ value' = [value EXCEPT ![rcall] = rpkt]
      /\ UNCHANGED <<callerVars, pending, handled, cpc, connects, netVars>>
  BY DEF Fulfil
<1>b. /\ rpkt \in Packet /\ rpkt # NoPacket /\ rcall \in Calls
      /\ value \in [Calls -> Packet \cup {NoPacket}]
  BY <1>a DEF TypeOK
<1>1. TypeOK'
  BY <1>a, <1>b DEF TypeOK
<1>2. CallInv' /\ PacketInv' /\ PendingInv' /\ NoLeakedPromise'
  BY <1>a DEF CallInv, PacketInv, PendingInv, NoLeakedPromise
<1>3. PromiseSomewhere'
  BY <1>a, <1>b DEF PromiseSomewhere, WaitPC, TypeOK
<1>4. PromiseOnce'
  BY <1>a, <1>b DEF PromiseOnce, Calls
<1>5. OwnReply'
  <2>1. rcall # 0 /\ rpkt.of \in Calls \cup {0}
    BY <1>b DEF Packet, Calls
  <2>2. rpkt.id = IdOf(rcall) /\ rpkt.of \in {rcall, 0}
    <3>1. rpkt.id = IdOf(rcall) /\ (rpkt.of # 0 => rpkt.id = IdOf(rpkt.of))
      BY <2>1 DEF PacketInv
    <3>2. CASE rpkt.of = 0
      BY <3>1, <3>2
    <3>3. CASE rpkt.of # 0
      <4>1. rpkt.of \in Calls
        BY <2>1, <3>3
      <4>2. rpkt.of = rcall
        BY <1>b, <3>1, <3>3, <4>1, IdsDistinct
      <4>3. QED
        BY <3>1, <4>2
    <3>4. QED
      BY <3>2, <3>3
  <2>3. QED
    BY <1>a, <1>b, <2>2 DEF OwnReply
<1>6. FreshInv'
  <2>1. \A k \in Calls : Fresh(k) => Fresh(k)'
    BY <1>a, <1>b DEF Fresh, Calls
  <2>2. \A c \in Callers : pc[c] \in {"send", "register"} => call[c] \in Calls
    BY DEF TypeOK
  <2>3. QED
    BY <1>a, <2>1, <2>2 DEF FreshInv
<1>7. QED
  BY <1>1, <1>2, <1>3, <1>4, <1>5, <1>6

(* Disconnecting, closing and pushing a packet touch no call.              *)
LEMMA ServerInv ==
    ASSUME IInv, DisConnect \/ Server
    PROVE  IInv'
<1> USE DEF IInv
<1>a. /\ UNCHANGED <<callerVars, pending, value, rpkt, rcall, handled>>
      /\ connected' \in BOOLEAN /\ closed' \in BOOLEAN /\ srvSeq' \in Ids
      /\ rpc' \in {"receive", "recv", "stale", "mixed", "fulfil", "ended"}
      /\ rpc' = "fulfil" <=> rpc = "fulfil"
      /\ cpc' \in {"idle", "join"} /\ connects' \in 0..MaxConnects
  <2>1. srvSeq + 1 \in Nat
    BY DEF TypeOK, Ids
  <2>2. srvSeq' = srvSeq \/ srvSeq' = (srvSeq + 1) % IdSpace
    BY DEF DisConnect, Server, ServerReceive, ServerPush, ServerClose, netVars
  <2>3. srvSeq' \in Ids
    BY <2>1, <2>2, ModRange DEF TypeOK
  <2>4. QED
    BY <2>3 DEF DisConnect, LeaveBehind, Server, ServerReceive, ServerPush, ServerClose,
                recvVars, netVars, TypeOK
<1>b. /\ toServer' \in Seq(Packet)
      /\ \A n \in 1..Len(toServer') : /\ toServer'[n].of # 0
                                      /\ toServer'[n].id = IdOf(toServer'[n].of)
  <2>1. CASE ServerReceive
    <3>1. PICK n \in 1..Len(toServer) : toServer' = SubSeq(toServer, n + 1, Len(toServer))
      BY <2>1 DEF ServerReceive
    <3>2. /\ toServer' \in Seq(Packet)
          /\ \A m \in 1..Len(toServer') : \E j \in 1..Len(toServer) : toServer'[m] = toServer[j]
      BY <3>1, DropPackets DEF TypeOK
    <3>3. QED
      BY <3>2 DEF PacketInv
  <2>2. CASE UNCHANGED toServer
    BY <2>2 DEF TypeOK, PacketInv
  <2>3. QED
    BY <2>1, <2>2 DEF DisConnect, Server, ServerPush, ServerClose, netVars
<1>c. /\ toClient' \in Seq(Packet)
      /\ \A n \in 1..Len(toClient') : toClient'[n].of # 0 =>
                                        toClient'[n].id = IdOf(toClient'[n].of)
  <2>1. ASSUME NEW q \in Packet, q.of # 0 => q.id = IdOf(q.of),
               toClient' = Append(toClient, q)
        PROVE  /\ toClient' \in Seq(Packet)
               /\ \A n \in 1..Len(toClient') : toClient'[n].of # 0 =>
                                        toClient'[n].id = IdOf(toClient'[n].of)
    <3>1. \A m \in 1..Len(Append(toClient, q)) :
             \/ Append(toClient, q)[m] = q
             \/ \E j \in 1..Len(toClient) : Append(toClient, q)[m] = toClient[j]
      BY AddPacket DEF TypeOK
    <3>2. \A j \in 1..Len(toClient) : toClient[j].of # 0 => toClient[j].id = IdOf(toClient[j].of)
      BY DEF PacketInv
    <3>3. toClient' \in Seq(Packet)
      BY <2>1, AddPacket DEF TypeOK
    <3>4. QED
      BY <2>1, <3>1, <3>2, <3>3
  <2>2. CASE ServerReceive
    <3>1. Head(toServer) \in Packet /\ Head(toServer).id = IdOf(Head(toServer).of)
      BY <2>2 DEF ServerReceive, TypeOK, PacketInv
    <3>2. toClient' = Append(toClient, Head(toServer)) \/ toClient' = toClient
      BY <2>2 DEF ServerReceive
    <3>3. CASE toClient' = toClient
      BY <3>3 DEF TypeOK, PacketInv
    <3>4. QED
      BY <2>1, <3>1, <3>2, <3>3
  <2>3. CASE ServerPush
    <3>1. [id |-> srvSeq, of |-> 0] \in Packet
      BY DEF TypeOK, Packet
    <3>2. toClient' = Append(toClient, [id |-> srvSeq, of |-> 0])
      BY <2>3 DEF ServerPush
    <3>3. QED
      BY <2>1, <3>1, <3>2
  <2>4. CASE UNCHANGED toClient
    BY <2>4 DEF TypeOK, PacketInv
  <2>5. QED
    BY <2>2, <2>3, <2>4 DEF DisConnect, Server, ServerClose, netVars
<1>1. TypeOK'
  BY <1>a, <1>b, <1>c DEF TypeOK, callerVars
<1>2. PacketInv'
  BY <1>a, <1>b, <1>c DEF PacketInv
<1>3. /\ CallInv' /\ OwnReply' /\ PendingInv' /\ PromiseSomewhere'
      /\ NoLeakedPromise' /\ PromiseOnce' /\ FreshInv'
  BY <1>a DEF CallInv, OwnReply, PendingInv, PromiseSomewhere, NoLeakedPromise,
              PromiseOnce, FreshInv, Fresh, callerVars
<1>4. QED
  BY <1>1, <1>2, <1>3

(* Connecting anew empties the channels and leaves every promise where it  *)
(* is: calls that wait go on waiting, under MSGIDs that are still theirs.  *)
LEMMA ConnectInv ==
    ASSUME IInv, Connect \/ ConnectFails \/ Joined
    PROVE  IInv'
<1> USE DEF IInv
<1>a. /\ UNCHANGED <<callerVars, pending, value, rpkt, rcall, handled, srvSeq>>
      /\ rpc' = rpc \/ (rpc # "fulfil" /\ rpc' \in {"receive", "stale"})
      /\ connected' \in BOOLEAN /\ closed' \in BOOLEAN
      /\ cpc' \in {"idle", "join"}
      /\ \/ UNCHANGED <<toServer, toClient>>
         \/ toServer' = <<>> /\ toClient' = <<>>
  BY DEF Connect, ConnectFails, Joined, LeaveBehind, netVars, TypeOK
<1>b. connects' \in 0..MaxConnects
  BY BoundsAssumption DEF Connect, ConnectFails, Joined, TypeOK
<1>1. TypeOK'
  <2>1. toServer' \in Seq(Packet) /\ toClient' \in Seq(Packet)
    <3>1. toServer \in Seq(Packet) /\ toClient \in Seq(Packet)
      BY DEF TypeOK
    <3>2. \A S : <<>> \in Seq(S)
      OBVIOUS
    <3>3. CASE UNCHANGED <<toServer, toClient>>
      BY <3>1, <3>3
    <3>4. CASE toServer' = <<>> /\ toClient' = <<>>
      BY <3>2, <3>4, Zenon
    <3>5. QED
      BY <1>a, <3>3, <3>4
  <2>2. rpc' \in {"receive", "recv", "stale", "mixed", "fulfil", "ended"}
        /\ (rpc' = "fulfil" <=> rpc = "fulfil")
    BY <1>a DEF TypeOK
  <2>3. QED
    BY <1>a, <1>b, <2>1, <2>2 DEF TypeOK, callerVars
<1>2. PacketInv'
  BY <1>a DEF PacketInv
<1>3. /\ CallInv' /\ OwnReply' /\ PendingInv' /\ PromiseSomewhere'
      /\ NoLeakedPromise' /\ PromiseOnce' /\ FreshInv'
  BY <1>a DEF CallInv, OwnReply, PendingInv, PromiseSomewhere, NoLeakedPromise,
              PromiseOnce, FreshInv, Fresh, callerVars
<1>4. QED
  BY <1>1, <1>2, <1>3

-----------------------------------------------------------------------------
(***************************************************************************)
(* The invariant of the request layer, whatever the callers, the receive   *)
(* thread and the server do.                                               *)
(***************************************************************************)
THEOREM Invariance == Spec => []IInv
<1>1. IInv /\ [Next]_vars => IInv'
  <2> SUFFICES ASSUME IInv, [Next]_vars PROVE IInv'
    OBVIOUS
  <2>1. CASE Next
    <3>1. CASE EnterRecv \/ ReceiveClosed \/ StaleEnds \/ StaleFails
      BY <3>1, MovesInv DEF EnterRecv, ReceiveClosed, StaleEnds, StaleFails, Moves
    <3>2. QED
      BY <2>1, <3>1, BeginInv, TransmitInv, RegisterInv, EraseInv, AnsweredInv, TimeOutInv,
         ReceiveInv, FulfilInv, ServerInv, ConnectInv
         DEF Next, Send, SendAndWait, ReceiveThread, OldConnection
  <2>2. CASE UNCHANGED vars
    BY <2>2 DEF vars, callerVars, recvVars, netVars, IInv, TypeOK, CallInv, OwnReply, PendingInv,
       PromiseSomewhere, NoLeakedPromise, PromiseOnce, FreshInv, Fresh, PacketInv
  <2>3. QED
    BY <2>1, <2>2
<1>2. QED
  BY <1>1, InitInv, PTL DEF Spec

(* Type correctness of the request layer. *)
THEOREM TypeCorrect == Spec => []TypeOK
<1>1. IInv => TypeOK
  BY DEF IInv
<1>2. QED
  BY <1>1, Invariance, PTL

(* A waiting SendAndWait's promise is in the map, in the receive thread's  *)
(* hands, or fulfilled.                                                    *)
THEOREM NoWaiterAbandoned == Spec => []PromiseSomewhere
<1>1. IInv => PromiseSomewhere
  BY DEF IInv
<1>2. QED
  BY <1>1, Invariance, PTL

(* Every way out of SendAndWait has disposed of its map entry.             *)
THEOREM NothingLeaked == Spec => []NoLeakedPromise
<1>1. IInv => NoLeakedPromise
  BY DEF IInv
<1>2. QED
  BY <1>1, Invariance, PTL

(* set_value is called at most once on each promise.                       *)
THEOREM FulfilledOnce == Spec => []PromiseOnce
<1>1. IInv => PromiseOnce
  BY DEF IInv
<1>2. QED
  BY <1>1, Invariance, PTL

(* A late reply never reaches another call.                                *)
THEOREM RepliesNotCrossed == Spec => []OwnReply
<1>1. IInv => OwnReply
  BY DEF IInv
<1>2. QED
  BY <1>1, Invariance, PTL

-----------------------------------------------------------------------------
(***************************************************************************)
(* Where the packet of a call is: HandlerGetsLeftovers.  The lemmas about  *)
(* the steps assume IInv, of which they use what they name.                *)
(***************************************************************************)

(* What is left of a channel were its packets but the first, in places of  *)
(* their own.                                                              *)
LEMMA DropApart ==
    ASSUME NEW s \in Seq(Packet), NEW n \in 1..Len(s)
    PROVE  \A m \in 1..Len(SubSeq(s, n + 1, Len(s))) :
             /\ m + n \in 1..Len(s) /\ m + n # 1 /\ m \in Nat /\ n \in Nat
             /\ SubSeq(s, n + 1, Len(s))[m] = s[m + n]
OBVIOUS

LEMMA AddApart ==
    ASSUME NEW s \in Seq(Packet), NEW p \in Packet
    PROVE  /\ Len(s) \in Nat /\ Len(Append(s, p)) = Len(s) + 1
           /\ \A m \in 1..Len(s) : Append(s, p)[m] = s[m]
           /\ Append(s, p)[Len(s) + 1] = p
           /\ \A m \in 1..Len(Append(s, p)) : m \in 1..Len(s) \/ m = Len(s) + 1
OBVIOUS

(* A step that moves no packet, and starts no call. *)
LEMMA PacketsRest ==
    ASSUME IInv, ReplyInv, HandlerGetsLeftovers,
           UNCHANGED <<call, calls, value, rpkt, handled, toServer, toClient>>,
           \A c \in Callers : pc'[c] \in {"send", "register", "transmit"} =>
                                 pc[c] \in {"send", "register", "transmit"},
           \A c \in Callers : pc'[c] \in {"register", "transmit", "wait"} =>
                                 pc[c] \in {"register", "transmit", "wait"},
           \A k \in Calls : outcome'[k] = "true" =>
              outcome[k] = "true"
              \/ (value[k] # NoPacket /\ \E c \in Callers : call[c] = k /\ pc[c] = "wait")
    PROVE  ReplyInv' /\ HandlerGetsLeftovers'
<1>1. \A k : /\ AtServer(k)' <=> AtServer(k)
             /\ AtClient(k)' <=> AtClient(k)
             /\ InHand(k)' <=> InHand(k)
             /\ InPromise(k)' <=> InPromise(k)
             /\ AtHandler(k)' <=> AtHandler(k)
  BY DEF AtServer, AtClient, InHand, InPromise, AtHandler
<1>2. \A k : Sent(k) => Sent(k)'
  BY DEF Sent
<1>3. \A k \in Calls : outcome'[k] = "true" => value[k] # NoPacket
  BY DEF ReplyInv
<1>4. ReplyInv'
  BY <1>1, <1>2, <1>3 DEF ReplyInv
<1>5. HandlerGetsLeftovers'
  <2> SUFFICES ASSUME NEW p \in handled,
                      \/ outcome'[p.of] = "true"
                      \/ \E c \in Callers : /\ call[c] = p.of
                                            /\ pc'[c] \in {"register", "transmit", "wait"}
               PROVE  value[p.of] # NoPacket /\ value[p.of].of = 0
    BY DEF HandlerGetsLeftovers
  <2>1. p.of \in Calls
    BY DEF IInv, TypeOK, Packet, PacketInv
  <2>2. \/ outcome[p.of] = "true"
        \/ \E c \in Callers : /\ call[c] = p.of
                              /\ pc[c] \in {"register", "transmit", "wait"}
    BY <2>1
  <2>3. QED
    BY <2>2 DEF HandlerGetsLeftovers
<1>6. QED
  BY <1>4, <1>5

(* A new call has no packet anywhere. *)
LEMMA BeginReplies ==
    ASSUME IInv, ReplyInv, HandlerGetsLeftovers,
           NEW c \in Callers, SendBegin(c) \/ WaitBegin(c)
    PROVE  ReplyInv' /\ HandlerGetsLeftovers'
<1>a. /\ calls' = calls + 1
      /\ call' = [call EXCEPT ![c] = calls + 1]
      /\ \/ pc' = [pc EXCEPT ![c] = "send"]
         \/ pc' = [pc EXCEPT ![c] = "register"]
      /\ UNCHANGED <<value, outcome, rpkt, handled, toServer, toClient>>
  BY DEF SendBegin, WaitBegin, TakeId, Goto, recvVars, netVars
<1>b. /\ calls \in Nat /\ call \in [Callers -> Calls \cup {0}] /\ pc \in [Callers -> CallerPC]
      /\ Calls \subseteq Nat
  BY BoundsAssumption DEF IInv, TypeOK, Calls
<1>c. \A d \in Callers : d # c => call'[d] = call[d] /\ pc'[d] = pc[d]
  BY <1>a, <1>b
<1>1. \A k : /\ AtServer(k)' <=> AtServer(k)
             /\ AtClient(k)' <=> AtClient(k)
             /\ InHand(k)' <=> InHand(k)
             /\ InPromise(k)' <=> InPromise(k)
             /\ AtHandler(k)' <=> AtHandler(k)
  BY <1>a DEF AtServer, AtClient, InHand, InPromise, AtHandler
<1>2. \A k \in Calls : Sent(k) => Sent(k)'
  <2> SUFFICES ASSUME NEW k \in Calls, Sent(k) PROVE Sent(k)'
    OBVIOUS
  <2>1. k <= calls /\ k \in Nat
    BY <1>b DEF Sent
  <2>2. k <= calls' /\ k # calls + 1
    BY <1>a, <1>b, <2>1
  <2>3. call'[c] = calls + 1
    BY <1>a, <1>b
  <2>4. QED
    BY <1>c, <2>2, <2>3 DEF Sent
<1>3. ReplyInv'
  BY <1>a, <1>1, <1>2 DEF ReplyInv
<1>4. HandlerGetsLeftovers'
  <2> SUFFICES ASSUME NEW p \in handled,
                      \/ outcome[p.of] = "true"
                      \/ \E d \in Callers : /\ call'[d] = p.of
                                            /\ pc'[d] \in {"register", "transmit", "wait"}
               PROVE  value[p.of] # NoPacket /\ value[p.of].of = 0
    BY <1>a DEF HandlerGetsLeftovers
  <2>1. p.of \in Calls /\ AtHandler(p.of)
    BY DEF IInv, TypeOK, Packet, PacketInv, AtHandler
  <2>2. p.of <= calls
    BY <2>1 DEF ReplyInv, Sent
  <2>3. call'[c] # p.of
    BY <1>a, <1>b, <2>1, <2>2
  <2>4. QED
    BY <1>c, <2>3 DEF HandlerGetsLeftovers
<1>5. QED
  BY <1>3, <1>4

(* The packet leaves its caller, who had not sent it before. *)
LEMMA TransmitReplies ==
    ASSUME IInv, ReplyInv, HandlerGetsLeftovers,
           NEW c \in Callers, SendOk(c) \/ RequestOk(c)
    PROVE  ReplyInv' /\ HandlerGetsLeftovers'
<1> DEFINE p == [id |-> id[c], of |-> call[c]]
<1>a. /\ UNCHANGED <<call, calls, value, rpkt, handled, toClient>>
      /\ \/ pc[c] = "send" /\ pc' = [pc EXCEPT ![c] = "idle"]
         \/ pc[c] = "transmit" /\ pc' = [pc EXCEPT ![c] = "wait"]
      /\ \/ outcome' = outcome
         \/ outcome' = [outcome EXCEPT ![call[c]] = "msgid"]
         \/ outcome' = [outcome EXCEPT ![call[c]] = "zero"]
      /\ toServer' = toServer \/ toServer' = Append(toServer, p)
  BY DEF SendOk, RequestOk, Transmit, Goto, Return, recvVars, netVars
<1>b. /\ toServer \in Seq(Packet) /\ p \in Packet /\ p.of = call[c] /\ call[c] \in Calls
      /\ pc \in [Callers -> CallerPC] /\ outcome \in [Calls -> Outcomes]
      /\ call[c] <= calls
      /\ \A d \in Callers : d # c => call[d] # call[c]
  BY <1>a DEF IInv, TypeOK, CallInv, Packet
<1>c. \A d \in Callers : d # c => pc'[d] = pc[d]
  BY <1>a, <1>b
<1>d. \A k : k = call[c] => ~Sent(k) /\ Sent(k)'
  BY <1>a, <1>b, <1>c DEF Sent
<1>e. \A k \in Calls : outcome'[k] = "true" => outcome[k] = "true"
  BY <1>a, <1>b
<1> HIDE DEF p
<1>1. \A k : /\ AtClient(k)' <=> AtClient(k)
             /\ InHand(k)' <=> InHand(k)
             /\ InPromise(k)' <=> InPromise(k)
             /\ AtHandler(k)' <=> AtHandler(k)
  BY <1>a DEF AtClient, InHand, InPromise, AtHandler
<1>2. \A k : Sent(k) => Sent(k)'
  BY <1>a, <1>b, <1>c DEF Sent
<1>3. /\ ~AtServer(call[c]) /\ ~AtClient(call[c]) /\ ~InHand(call[c])
      /\ ~InPromise(call[c]) /\ ~AtHandler(call[c])
  BY <1>b, <1>d DEF ReplyInv
<1>4. /\ \A k : AtServer(k)' => AtServer(k) \/ k = call[c]
      /\ \A m, n \in 1..Len(toServer') : toServer'[m].of = toServer'[n].of => m = n
  <2>1. \A m, n \in 1..Len(toServer) : toServer[m].of = toServer[n].of => m = n
    BY DEF ReplyInv
  <2>2. CASE toServer' = toServer
    BY <2>1, <2>2 DEF AtServer
  <2>3. CASE toServer' = Append(toServer, p)
    <3>1. /\ Len(toServer) \in Nat /\ Len(toServer') = Len(toServer) + 1
          /\ \A m \in 1..Len(toServer) : toServer'[m] = toServer[m]
          /\ toServer'[Len(toServer) + 1] = p
          /\ \A m \in 1..Len(toServer') : m \in 1..Len(toServer) \/ m = Len(toServer) + 1
      BY <1>b, <2>3, AddApart
    <3>2. \A m \in 1..Len(toServer) : toServer[m].of # call[c]
      BY <1>3 DEF AtServer
    <3>3. \A k : AtServer(k)' => AtServer(k) \/ k = call[c]
      BY <1>b, <3>1 DEF AtServer
    <3>4. QED
      BY <1>b, <2>1, <3>1, <3>2, <3>3
  <2>4. QED
    BY <1>a, <2>2, <2>3
<1>5. ReplyInv'
  <2> SUFFICES ASSUME NEW k \in Calls
               PROVE  /\ AtServer(k)' \/ AtClient(k)' \/ InHand(k)' \/ InPromise(k)'
                           \/ AtHandler(k)' => Sent(k)'
                      /\ AtServer(k)' => /\ ~AtClient(k)' /\ ~InHand(k)'
                                         /\ ~InPromise(k)' /\ ~AtHandler(k)'
                      /\ outcome'[k] = "true" => value[k] # NoPacket
    BY <1>a, <1>1, <1>4 DEF ReplyInv
  <2>1. CASE k = call[c]
    BY <1>1, <1>3, <1>d, <1>e, <2>1 DEF ReplyInv
  <2>2. CASE k # call[c]
    BY <1>1, <1>2, <1>4, <1>e, <2>2 DEF ReplyInv
  <2>3. QED
    BY <2>1, <2>2
<1>6. HandlerGetsLeftovers'
  <2> SUFFICES ASSUME NEW q \in handled,
                      \/ outcome'[q.of] = "true"
                      \/ \E d \in Callers : /\ call[d] = q.of
                                            /\ pc'[d] \in {"register", "transmit", "wait"}
               PROVE  value[q.of] # NoPacket /\ value[q.of].of = 0
    BY <1>a DEF HandlerGetsLeftovers
  <2>1. q.of \in Calls /\ AtHandler(q.of)
    BY DEF IInv, TypeOK, Packet, PacketInv, AtHandler
  <2>2. call[c] # q.of
    BY <1>3, <2>1
  <2>3. QED
    BY <1>c, <1>e, <2>1, <2>2 DEF HandlerGetsLeftovers
<1>7. QED
  BY <1>5, <1>6

(* The receive thread takes a packet: to the promise it moves out of the   *)
(* map, or to the handler when nobody waits under its MSGID.               *)
LEMMA HandReplies ==
    ASSUME IInv, ReplyInv, HandlerGetsLeftovers, NEW p \in Packet,
           HandOver(p), rpc # "fulfil",
           p.of # 0 => AtClient(p.of) /\ p.id = IdOf(p.of),
           \A i, j \in 1..Len(toClient') :
              toClient'[i].of = toClient'[j].of /\ toClient'[j].of # 0 => i = j,
           \A k \in Calls : AtClient(k)' => AtClient(k) /\ k # p.of,
           UNCHANGED <<callerVars, value, toServer>>
    PROVE  ReplyInv' /\ HandlerGetsLeftovers'
<1>a. /\ rcall = 0 /\ rpkt = NoPacket
      /\ UNCHANGED <<pc, call, calls, outcome, value, toServer>>
  BY DEF IInv, TypeOK, callerVars
<1>c. \/ rpkt' = p /\ UNCHANGED handled
      \/ pending[p.id] = 0 /\ UNCHANGED <<handled, rpkt>>
      \/ pending[p.id] = 0 /\ p.of # 0 /\ handled' = handled \cup {p} /\ UNCHANGED rpkt
  BY DEF HandOver
<1>d. p.of \in Calls \cup {0} /\ \A k \in Calls : k # 0
  BY BoundsAssumption DEF Packet, Calls
<1>6. \A k \in Calls : /\ AtServer(k)' <=> AtServer(k)
                       /\ InPromise(k)' <=> InPromise(k)
                       /\ ~InHand(k)
                       /\ Sent(k)' <=> Sent(k)
  BY <1>a DEF AtServer, InPromise, InHand, Sent
<1>7. \A k \in Calls : \/ /\ InHand(k)' => k = p.of
                          /\ AtHandler(k)' <=> AtHandler(k)
                       \/ /\ ~InHand(k)'
                          /\ AtHandler(k)' => AtHandler(k) \/ k = p.of
  BY <1>a, <1>c DEF InHand, AtHandler
<1>8. ReplyInv'
  <2> SUFFICES ASSUME NEW k \in Calls
               PROVE  /\ AtServer(k)' \/ AtClient(k)' \/ InHand(k)' \/ InPromise(k)'
                           \/ AtHandler(k)' => Sent(k)'
                      /\ AtServer(k)' => /\ ~AtClient(k)' /\ ~InHand(k)'
                                         /\ ~InPromise(k)' /\ ~AtHandler(k)'
                      /\ AtClient(k)' => ~InHand(k)' /\ ~InPromise(k)' /\ ~AtHandler(k)'
                      /\ InHand(k)' => ~InPromise(k)' /\ ~AtHandler(k)'
                      /\ InPromise(k)' => ~AtHandler(k)'
    BY <1>a DEF ReplyInv
  <2>1. CASE k = p.of
    <3>1. AtClient(k) /\ ~AtClient(k)'
      BY <1>d, <2>1
    <3>2. QED
      BY <1>6, <1>7, <3>1 DEF ReplyInv
  <2>2. CASE k # p.of
    <3>1. ~InHand(k)' /\ (AtHandler(k)' => AtHandler(k)) /\ (AtClient(k)' => AtClient(k))
      BY <1>7, <2>2
    <3>2. QED
      BY <1>6, <3>1 DEF ReplyInv
  <2>3. QED
    BY <2>1, <2>2
<1>9. HandlerGetsLeftovers'
  <2> SUFFICES ASSUME NEW q \in handled',
                      \/ outcome[q.of] = "true"
                      \/ \E c \in Callers : /\ call[c] = q.of
                                            /\ pc[c] \in {"register", "transmit", "wait"}
               PROVE  value[q.of] # NoPacket /\ value[q.of].of = 0
    BY <1>a DEF HandlerGetsLeftovers
  <2>1. CASE q \in handled
    BY <2>1 DEF HandlerGetsLeftovers
  <2>2. CASE q \notin handled
    <3>1. q = p /\ pending[p.id] = 0 /\ p.of # 0
      BY <1>c, <2>2
    <3>2. /\ p.of \in Calls /\ p.id = IdOf(p.of)
          /\ AtClient(p.of) /\ Sent(p.of) /\ ~InPromise(p.of)
      BY <1>d, <3>1 DEF ReplyInv
    <3>3. value[p.of] # NoPacket
      <4>1. CASE outcome[p.of] = "true"
        BY <3>2, <4>1 DEF ReplyInv
      <4>2. ASSUME NEW c \in Callers, call[c] = p.of,
                   pc[c] \in {"register", "transmit", "wait"}
            PROVE  value[p.of] # NoPacket
        <5>1. pc[c] = "wait" /\ id[c] = p.id
          BY <3>1, <3>2, <4>2 DEF Sent, IInv, CallInv
        <5>2. QED
          BY <1>a, <3>1, <3>2, <4>2, <5>1 DEF IInv, PromiseSomewhere, WaitPC
      <4>3. QED
        BY <3>1, <4>1, <4>2
    <3>4. value[p.of].of \in {p.of, 0}
      BY <3>2, <3>3 DEF IInv, OwnReply
    <3>5. QED
      BY <3>1, <3>2, <3>3, <3>4 DEF InPromise
  <2>3. QED
    BY <2>1, <2>2
<1>10. QED
  BY <1>8, <1>9

(* Receive takes the first packet, and swallows what it swallows. *)
LEMMA TakeReplies ==
    ASSUME IInv, ReplyInv, TakePackets
    PROVE  /\ \A i, j \in 1..Len(toClient') :
                 toClient'[i].of = toClient'[j].of /\ toClient'[j].of # 0 => i = j
           /\ \A k \in Calls : AtClient(k)' => AtClient(k) /\ k # Head(toClient).of
<1>1. PICK n \in 1..Len(toClient) : toClient' = SubSeq(toClient, n + 1, Len(toClient))
  BY DEF TakePackets
<1>a. toClient \in Seq(Packet) /\ Head(toClient) = toClient[1] /\ 1 \in 1..Len(toClient)
  BY <1>1 DEF IInv, TypeOK
<1>2. \A m \in 1..Len(toClient') :
        /\ m + n \in 1..Len(toClient) /\ m + n # 1 /\ m \in Nat /\ n \in Nat
        /\ toClient'[m] = toClient[m + n]
  BY <1>a, <1>1, DropApart
<1>3. \A i, j \in 1..Len(toClient) :
        toClient[i].of = toClient[j].of /\ toClient[j].of # 0 => i = j
  BY DEF ReplyInv
<1>4. \A i, j \in 1..Len(toClient') :
        toClient'[i].of = toClient'[j].of /\ toClient'[j].of # 0 => i = j
  <2> SUFFICES ASSUME NEW i \in 1..Len(toClient'), NEW j \in 1..Len(toClient'),
                      toClient'[i].of = toClient'[j].of, toClient'[j].of # 0
               PROVE  i = j
    OBVIOUS
  <2>1. /\ i + n \in 1..Len(toClient) /\ j + n \in 1..Len(toClient)
        /\ toClient[i + n].of = toClient[j + n].of /\ toClient[j + n].of # 0
    BY <1>2
  <2>2. i + n = j + n
    BY <1>3, <2>1
  <2>3. QED
    BY <1>2, <2>2
<1>5. \A k \in Calls : AtClient(k)' => AtClient(k) /\ k # Head(toClient).of
  <2> SUFFICES ASSUME NEW k \in Calls, NEW m \in 1..Len(toClient'), toClient'[m].of = k
               PROVE  AtClient(k) /\ k # Head(toClient).of
    BY DEF AtClient
  <2>1. k # 0
    BY BoundsAssumption DEF Calls
  <2>2. toClient[m + n].of = k /\ m + n \in 1..Len(toClient) /\ m + n # 1
    BY <1>2
  <2>3. k # toClient[1].of
    BY <1>a, <1>3, <2>1, <2>2
  <2>4. QED
    BY <1>a, <2>2, <2>3 DEF AtClient
<1>6. QED
  BY <1>4, <1>5

LEMMA ReceiveReplies ==
    ASSUME IInv, ReplyInv, HandlerGetsLeftovers, ReceivePacket \/ MixedPacket \/ StaleData
    PROVE  ReplyInv' /\ HandlerGetsLeftovers'
<1>0. \A k \in Calls : k # 0
  BY BoundsAssumption DEF Calls
<1>1. CASE ReceivePacket
  <2>1. /\ rpc = "recv" /\ TakePackets /\ HandOver(Head(toClient))
        /\ toClient \in Seq(Packet) /\ toClient # <<>>
        /\ UNCHANGED <<callerVars, value, toServer>>
    BY <1>1 DEF ReceivePacket, IInv, TypeOK
  <2>2. Head(toClient) = toClient[1] /\ 1 \in 1..Len(toClient) /\ Head(toClient) \in Packet
    BY <2>1
  <2>3. Head(toClient).of # 0 => /\ AtClient(Head(toClient).of)
                                 /\ Head(toClient).id = IdOf(Head(toClient).of)
    BY <2>2 DEF IInv, PacketInv, AtClient
  <2>4. QED
    BY <2>1, <2>2, <2>3, TakeReplies, HandReplies
<1>2. CASE MixedPacket
  <2>1. /\ rpc = "mixed" /\ TakePackets
        /\ UNCHANGED <<callerVars, value, toServer>>
    BY <1>2 DEF MixedPacket
  <2>2. PICK i \in Sizes : HandOver([id |-> i, of |-> 0])
    BY <1>2 DEF MixedPacket
  <2>3. QED
    BY <1>0, <2>1, <2>2, TakeReplies, HandReplies, PhantomPacket
<1>3. CASE StaleData
  <2>1. CASE Moves
    <3>1. UNCHANGED <<pc, outcome, call, calls, value, rpkt, handled, toServer, toClient>>
      BY <2>1 DEF Moves, callerVars, netVars
    <3>2. QED
      BY <3>1, PacketsRest
  <2>2. CASE /\ rpc = "stale"
             /\ UNCHANGED <<callerVars, value, cpc, connects, netVars>>
             /\ \E i \in Sizes \cup {0} : HandOver([id |-> i, of |-> 0])
    <3>1. PICK i \in Sizes \cup {0} : HandOver([id |-> i, of |-> 0])
      BY <2>2
    <3>2. UNCHANGED <<toServer, toClient>>
      BY <2>2 DEF netVars
    <3>3. /\ \A m, j \in 1..Len(toClient') :
                 toClient'[m].of = toClient'[j].of /\ toClient'[j].of # 0 => m = j
          /\ \A k \in Calls : AtClient(k)' => AtClient(k)
      BY <3>2 DEF ReplyInv, AtClient
    <3>4. QED
      BY <1>0, <2>2, <3>1, <3>2, <3>3, HandReplies, PhantomPacket
  <2>3. QED
    BY <1>3, <2>1, <2>2, StaleSteps
<1>4. QED
  BY <1>1, <1>2, <1>3

(* ... and what is in its hands goes to the promise, which had none. *)
LEMMA FulfilReplies ==
    ASSUME IInv, ReplyInv, HandlerGetsLeftovers, Fulfil
    PROVE  ReplyInv' /\ HandlerGetsLeftovers'
<1>a. /\ rpc = "fulfil" /\ rpkt' = NoPacket
      /\ value' = [value EXCEPT ![rcall] = rpkt]
      /\ UNCHANGED <<pc, call, calls, outcome, handled, toServer, toClient>>
  BY DEF Fulfil, callerVars, netVars
<1>b. /\ rpkt \in Packet /\ rpkt # NoPacket /\ rcall \in Calls
      /\ value \in [Calls -> Packet \cup {NoPacket}]
      /\ value[rcall] = NoPacket
  BY <1>a DEF IInv, TypeOK, PromiseOnce
<1>c. \A k \in Calls : k # rcall => value'[k] = value[k]
  BY <1>a, <1>b
<1>d. value'[rcall] = rpkt
  BY <1>a, <1>b
<1>e. rpkt.of \in {rcall, 0}
  <2>1. value'[rcall].of \in {rcall, 0}
    BY <1>b, <1>d, FulfilInv DEF IInv, OwnReply
  <2>2. QED
    BY <1>d, <2>1
<1>1. \A k \in Calls : /\ AtServer(k)' <=> AtServer(k)
                       /\ AtClient(k)' <=> AtClient(k)
                       /\ AtHandler(k)' <=> AtHandler(k)
                       /\ Sent(k)' <=> Sent(k)
                       /\ ~InHand(k)'
  BY <1>a DEF AtServer, AtClient, AtHandler, Sent, InHand
<1>2. \A k \in Calls : InPromise(k)' => InPromise(k) \/ InHand(k)
  BY <1>b, <1>c, <1>d DEF InPromise, InHand
<1>3. \A k \in Calls : outcome[k] = "true" => value'[k] # NoPacket
  BY <1>b, <1>c, <1>d DEF ReplyInv
<1>4. ReplyInv'
  BY <1>a, <1>1, <1>2, <1>3 DEF ReplyInv
<1>5. HandlerGetsLeftovers'
  <2> SUFFICES ASSUME NEW p \in handled,
                      \/ outcome[p.of] = "true"
                      \/ \E c \in Callers : /\ call[c] = p.of
                                            /\ pc[c] \in {"register", "transmit", "wait"}
               PROVE  value'[p.of] # NoPacket /\ value'[p.of].of = 0
    BY <1>a DEF HandlerGetsLeftovers
  <2>1. p.of \in Calls /\ AtHandler(p.of)
    BY DEF IInv, TypeOK, Packet, PacketInv, AtHandler
  <2>2. CASE p.of = rcall
    <3>1. rpkt.of # rcall
      BY <1>b, <2>1, <2>2 DEF ReplyInv, InHand
    <3>2. QED
      BY <1>b, <1>d, <1>e, <2>2, <3>1
  <2>3. CASE p.of # rcall
    BY <1>c, <2>1, <2>3 DEF HandlerGetsLeftovers
  <2>4. QED
    BY <2>2, <2>3
<1>6. QED
  BY <1>4, <1>5

(* The server turns the request into the reply, or pushes a packet that    *)
(* belongs to no call; a new connection starts empty.                      *)
LEMMA ServerReplies ==
    ASSUME IInv, ReplyInv, HandlerGetsLeftovers,
           ServerReceive \/ ServerPush \/ Connect
    PROVE  ReplyInv' /\ HandlerGetsLeftovers'
<1>a. UNCHANGED <<pc, call, calls, outcome, value, rpkt, handled>>
  BY DEF ServerReceive, ServerPush, Connect, callerVars, recvVars
<1>b. toServer \in Seq(Packet) /\ toClient \in Seq(Packet)
  BY DEF IInv, TypeOK
<1>1. \A k \in Calls : /\ InHand(k)' <=> InHand(k)
                       /\ InPromise(k)' <=> InPromise(k)
                       /\ AtHandler(k)' <=> AtHandler(k)
                       /\ Sent(k)' <=> Sent(k)
  BY <1>a DEF InHand, InPromise, AtHandler, Sent
<1>2. HandlerGetsLeftovers'
  BY <1>a DEF HandlerGetsLeftovers
<1>3. /\ \A i, j \in 1..Len(toServer) : toServer[i].of = toServer[j].of => i = j
      /\ \A i, j \in 1..Len(toClient) :
            toClient[i].of = toClient[j].of /\ toClient[j].of # 0 => i = j
  BY DEF ReplyInv
<1>4. ASSUME NEW q \in Packet, toClient' = Append(toClient, q), ~AtClient(q.of) \/ q.of = 0
      PROVE  /\ \A k \in Calls : AtClient(k)' => AtClient(k) \/ k = q.of
             /\ \A i, j \in 1..Len(toClient') :
                  toClient'[i].of = toClient'[j].of /\ toClient'[j].of # 0 => i = j
  <2>1. /\ Len(toClient) \in Nat /\ Len(toClient') = Len(toClient) + 1
        /\ \A m \in 1..Len(toClient) : toClient'[m] = toClient[m]
        /\ toClient'[Len(toClient) + 1] = q
        /\ \A m \in 1..Len(toClient') : m \in 1..Len(toClient) \/ m = Len(toClient) + 1
    BY <1>b, <1>4, AddApart
  <2>2. \A k \in Calls : AtClient(k)' => AtClient(k) \/ k = q.of
    BY <2>1 DEF AtClient
  <2>3. q.of # 0 => \A m \in 1..Len(toClient) : toClient[m].of # q.of
    BY <1>4 DEF AtClient
  <2>4. QED
    BY <1>3, <2>1, <2>2, <2>3
<1>5. CASE ServerReceive
  <2> DEFINE p == Head(toServer)
  <2>1. p \in Packet /\ p = toServer[1] /\ 1 \in 1..Len(toServer)
    BY <1>5, <1>b DEF ServerReceive
  <2>2. toClient' = Append(toClient, p) \/ toClient' = toClient
    BY <1>5 DEF ServerReceive
  <2>3. PICK n \in 1..Len(toServer) : toServer' = SubSeq(toServer, n + 1, Len(toServer))
    BY <1>5 DEF ServerReceive
  <2> HIDE DEF p
  <2>4. p.of \in Calls /\ AtServer(p.of) /\ ~AtClient(p.of)
    <3>1. p.of \in Calls
      BY <2>1 DEF Packet, IInv, PacketInv
    <3>2. AtServer(p.of)
      BY <2>1 DEF AtServer
    <3>3. QED
      BY <3>1, <3>2 DEF ReplyInv
  <2>5. \A m \in 1..Len(toServer') :
          /\ m + n \in 1..Len(toServer) /\ m + n # 1 /\ m \in Nat /\ n \in Nat
          /\ toServer'[m] = toServer[m + n]
    BY <1>b, <2>3, DropApart
  <2>6. \A i, j \in 1..Len(toServer') : toServer'[i].of = toServer'[j].of => i = j
    <3> SUFFICES ASSUME NEW i \in 1..Len(toServer'), NEW j \in 1..Len(toServer'),
                        toServer'[i].of = toServer'[j].of
                 PROVE  i = j
      OBVIOUS
    <3>1. /\ toServer[i + n].of = toServer[j + n].of
          /\ i + n \in 1..Len(toServer) /\ j + n \in 1..Len(toServer)
      BY <2>5
    <3>2. i + n = j + n
      BY <1>3, <3>1
    <3>3. QED
      BY <2>5, <3>2
  <2>7. \A k \in Calls : AtServer(k)' => AtServer(k) /\ k # p.of
    <3> SUFFICES ASSUME NEW k \in Calls, NEW m \in 1..Len(toServer'), toServer'[m].of = k
                 PROVE  AtServer(k) /\ k # p.of
      BY DEF AtServer
    <3>1. toServer[m + n].of = k /\ m + n \in 1..Len(toServer) /\ m + n # 1
      BY <2>5
    <3>2. k # p.of
      BY <1>3, <2>1, <3>1
    <3>3. QED
      BY <3>1, <3>2 DEF AtServer
  <2>8. /\ \A k \in Calls : AtClient(k)' => AtClient(k) \/ k = p.of
        /\ \A i, j \in 1..Len(toClient') :
              toClient'[i].of = toClient'[j].of /\ toClient'[j].of # 0 => i = j
    <3>1. CASE toClient' = Append(toClient, p)
      BY <1>4, <2>1, <2>4, <3>1
    <3>2. CASE toClient' = toClient
      BY <1>3, <3>2 DEF AtClient
    <3>3. QED
      BY <2>2, <3>1, <3>2
  <2>9. ReplyInv'
    <3> SUFFICES ASSUME NEW k \in Calls
                 PROVE  /\ AtServer(k)' \/ AtClient(k)' => Sent(k)'
                        /\ AtServer(k)' => /\ ~AtClient(k)' /\ ~InHand(k)'
                                           /\ ~InPromise(k)' /\ ~AtHandler(k)'
                        /\ AtClient(k)' => ~InHand(k)' /\ ~InPromise(k)' /\ ~AtHandler(k)'
      BY <1>a, <1>1, <2>6, <2>8 DEF ReplyInv
    <3>1. CASE k = p.of
      BY <1>1, <2>4, <2>7, <3>1 DEF ReplyInv
    <3>2. CASE k # p.of
      BY <1>1, <2>7, <2>8, <3>2 DEF ReplyInv
    <3>3. QED
      BY <3>1, <3>2
  <2>10. QED
    BY <1>2, <2>9
<1>6. CASE ServerPush
  <2> DEFINE q == [id |-> srvSeq, of |-> 0]
  <2>1. q \in Packet /\ q.of = 0 /\ toClient' = Append(toClient, q) /\ UNCHANGED toServer
    BY <1>6 DEF ServerPush, IInv, TypeOK, Packet
  <2> HIDE DEF q
  <2>2. /\ \A k \in Calls : AtClient(k)' => AtClient(k)
        /\ \A i, j \in 1..Len(toClient') :
              toClient'[i].of = toClient'[j].of /\ toClient'[j].of # 0 => i = j
    <3>1. \A k \in Calls : k # 0
      BY BoundsAssumption DEF Calls
    <3>2. QED
      BY <1>4, <2>1, <3>1
  <2>3. \A k : AtServer(k)' <=> AtServer(k)
    BY <2>1 DEF AtServer
  <2>4. ReplyInv'
    BY <1>a, <1>1, <2>1, <2>2, <2>3 DEF ReplyInv
  <2>5. QED
    BY <1>2, <2>4
<1>7. CASE Connect
  <2>1. toServer' = <<>> /\ toClient' = <<>>
    BY <1>7 DEF Connect
  <2>2. 1..Len(toServer') = {} /\ 1..Len(toClient') = {}
    BY <2>1
  <2>3. \A k \in Calls : ~AtServer(k)' /\ ~AtClient(k)'
    BY <2>2 DEF AtServer, AtClient
  <2>4. ReplyInv'
    BY <1>a, <1>1, <2>2, <2>3 DEF ReplyInv
  <2>5. QED
    BY <1>2, <2>4
<1>8. QED
  BY <1>5, <1>6, <1>7

LEMMA RepliesInit == Init => ReplyInv /\ HandlerGetsLeftovers
<1> SUFFICES ASSUME Init PROVE ReplyInv /\ HandlerGetsLeftovers
  OBVIOUS
<1>1. 1..Len(toServer) = {} /\ 1..Len(toClient) = {} /\ handled = {} /\ rpkt = NoPacket
  BY DEF Init
<1>2. \A k \in Calls : value[k] = NoPacket /\ outcome[k] = "open"
  BY DEF Init
<1>3. QED
  BY <1>1, <1>2 DEF ReplyInv, HandlerGetsLeftovers, AtServer, AtClient, InHand,
                    InPromise, AtHandler

LEMMA RepliesNext ==
    ASSUME IInv, ReplyInv, HandlerGetsLeftovers, [Next]_vars
    PROVE  ReplyInv' /\ HandlerGetsLeftovers'
<1>1. ASSUME NEW c \in Callers, Send(c) \/ SendAndWait(c)
      PROVE  ReplyInv' /\ HandlerGetsLeftovers'
  <2>1. CASE SendBegin(c) \/ WaitBegin(c)
    BY <2>1, BeginReplies
  <2>2. CASE SendOk(c) \/ RequestOk(c)
    BY <2>2, TransmitReplies
  <2>3. CASE SendFail(c) \/ Register(c) \/ RequestFail(c) \/ TimeOut(c) \/ GiveUp(c)
    <3>1. /\ UNCHANGED <<call, calls, value, rpkt, handled, toServer, toClient>>
          /\ \/ pc[c] = "send" /\ pc' = [pc EXCEPT ![c] = "idle"]
             \/ pc[c] = "register" /\ pc' = [pc EXCEPT ![c] = "transmit"]
             \/ pc[c] \in {"transmit", "timedout"} /\ pc' = [pc EXCEPT ![c] = "idle"]
             \/ pc[c] = "wait" /\ pc' = [pc EXCEPT ![c] = "timedout"]
          /\ \/ outcome' = outcome
             \/ outcome' = [outcome EXCEPT ![call[c]] = "zero"]
             \/ outcome' = [outcome EXCEPT ![call[c]] = "false"]
      BY <2>3 DEF SendFail, Register, RequestFail, TimeOut, GiveUp, Goto, Return,
                  recvVars, netVars
    <3>2. pc \in [Callers -> CallerPC] /\ outcome \in [Calls -> Outcomes]
      BY DEF IInv, TypeOK
    <3>3. \A k \in Calls : outcome'[k] = "true" => outcome[k] = "true"
      BY <3>1, <3>2
    <3>4. \A d \in Callers : /\ pc'[d] \in {"send", "register", "transmit"} =>
                                    pc[d] \in {"send", "register", "transmit"}
                             /\ pc'[d] \in {"register", "transmit", "wait"} =>
                                    pc[d] \in {"register", "transmit", "wait"}
      BY <3>1, <3>2
    <3>5. QED
      BY <3>1, <3>3, <3>4, PacketsRest
  <2>4. CASE Answered(c)
    <3>1. /\ UNCHANGED <<call, calls, value, rpkt, handled, toServer, toClient>>
          /\ pc[c] = "wait" /\ pc' = [pc EXCEPT ![c] = "idle"]
          /\ value[call[c]] # NoPacket
          /\ outcome' = [outcome EXCEPT ![call[c]] = "true"]
      BY <2>4 DEF Answered, Goto, Return, recvVars, netVars
    <3>2. pc \in [Callers -> CallerPC] /\ outcome \in [Calls -> Outcomes]
      BY DEF IInv, TypeOK
    <3>3. \A k \in Calls : outcome'[k] = "true" => outcome[k] = "true" \/ k = call[c]
      BY <3>1, <3>2
    <3>4. \A d \in Callers : d # c => pc'[d] = pc[d]
      BY <3>1, <3>2
    <3>5. pc'[c] = "idle"
      BY <3>1, <3>2
    <3>6. QED
      BY <3>1, <3>3, <3>4, <3>5, PacketsRest
  <2>5. QED
    BY <1>1, <2>1, <2>2, <2>3, <2>4 DEF Send, SendAndWait
<1>2. CASE ReceivePacket \/ MixedPacket \/ StaleData
  BY <1>2, ReceiveReplies
<1>3. CASE Fulfil
  BY <1>3, FulfilReplies
<1>4. CASE ServerReceive \/ ServerPush \/ Connect
  BY <1>4, ServerReplies
<1>5. CASE \/ EnterRecv \/ ReceiveClosed \/ StaleEnds \/ StaleFails \/ DisConnect
          \/ ConnectFails \/ Joined \/ ServerClose \/ UNCHANGED vars
  <2>1. UNCHANGED <<pc, outcome, call, calls, value, rpkt, handled, toServer, toClient>>
    BY <1>5 DEF EnterRecv, ReceiveClosed, StaleEnds, StaleFails, DisConnect, ConnectFails,
                Joined, ServerClose, vars, callerVars, recvVars, netVars
  <2>2. QED
    BY <2>1, PacketsRest
<1>6. QED
  BY <1>1, <1>2, <1>3, <1>4, <1>5 DEF Next, ReceiveThread, OldConnection, Server

(* The receive thread hands a reply to _fnClientHandler only when its call *)
(* does not wait for it: a packet is never both in a promise and with the  *)
(* handler, and a call that returns true has had a packet of its own, or a *)
(* push in its place.                                                      *)
THEOREM LeftoversHandled == Spec => []HandlerGetsLeftovers
<1>1. Init => ReplyInv /\ HandlerGetsLeftovers
  BY RepliesInit
<1>2. IInv /\ (ReplyInv /\ HandlerGetsLeftovers) /\ [Next]_vars
        => (ReplyInv /\ HandlerGetsLeftovers)'
  BY RepliesNext
<1>3. QED
  BY <1>1, <1>2, Invariance, PTL DEF Spec

(* A reply reaches the application once: by the promise of its call or by  *)
(* the handler, never by both.                                             *)
THEOREM DeliveredOnce == Spec => [](\A k \in Calls : ~(InPromise(k) /\ AtHandler(k)))
<1>1. Init => ReplyInv /\ HandlerGetsLeftovers
  BY RepliesInit
<1>2. IInv /\ (ReplyInv /\ HandlerGetsLeftovers) /\ [Next]_vars
        => (ReplyInv /\ HandlerGetsLeftovers)'
  BY RepliesNext
<1>3. ReplyInv => \A k \in Calls : ~(InPromise(k) /\ AtHandler(k))
  BY DEF ReplyInv
<1>4. QED
  BY <1>1, <1>2, <1>3, Invariance, PTL DEF Spec

-----------------------------------------------------------------------------
(* Without packets the server sends unasked, on one connection. *)

(* Every packet on its way to the client, in the receive thread's hands or *)
(* in a promise is a reply.                                                *)
OnlyReplies ==
    /\ srvSeq = 1
    /\ connects = 0 /\ rpc # "mixed" /\ (rpc = "stale" => ~connected)
    /\ \A n \in 1..Len(toClient) : toClient[n].of # 0
    /\ rcall # 0 => rpkt.of # 0
    /\ \A k \in Calls : value[k] # NoPacket => value[k].of # 0

LEMMA OnlyRepliesNext ==
    ASSUME MaxPushes = 0, MaxConnects = 0, MaxCalls < IdSpace, IInv, OnlyReplies, [Next]_vars
    PROVE  OnlyReplies'
<1> USE DEF callerVars, recvVars, netVars
<1>t. /\ toClient \in Seq(Packet) /\ toServer \in Seq(Packet)
      /\ value \in [Calls -> Packet \cup {NoPacket}]
  BY DEF IInv, TypeOK
<1>0. pending[0] = 0
  <2>1. 0 \in Ids /\ pending[0] \in Calls \cup {0}
    BY BoundsAssumption DEF IInv, TypeOK, Ids
  <2>2. \A k \in Calls : k % IdSpace = k /\ k # 0
    BY BoundsAssumption, ModSmall DEF Calls
  <2>3. QED
    BY <2>1, <2>2 DEF IInv, PendingInv, IdOf
<1>1. ASSUME UNCHANGED <<srvSeq, toClient, rpkt, rcall, value, connects, connected>>,
             rpc' = rpc \/ rpc' \notin {"stale", "mixed"}
      PROVE  OnlyReplies'
  BY <1>1 DEF OnlyReplies
<1>2. ASSUME NEW c \in Callers, Send(c) \/ SendAndWait(c) PROVE OnlyReplies'
  <2>1. CASE Send(c)
    BY <1>1, <2>1 DEF Send, SendBegin, SendOk, SendFail
  <2>2. CASE SendAndWait(c)
    BY <1>1, <2>2 DEF SendAndWait, WaitBegin, Register, RequestOk, RequestFail, Answered,
                      TimeOut, GiveUp
  <2>3. QED
    BY <1>2, <2>1, <2>2
<1>3. CASE ReceivePacket
  <2>1. PICK n \in 1..Len(toClient) : toClient' = SubSeq(toClient, n + 1, Len(toClient))
    BY <1>3 DEF ReceivePacket, TakePackets
  <2>2. \A m \in 1..Len(toClient') : \E j \in 1..Len(toClient) : toClient'[m] = toClient[j]
    BY <1>t, <2>1, DropPackets
  <2>3. Head(toClient).of # 0
    <3>1. Head(toClient) = toClient[1] /\ 1 \in 1..Len(toClient)
      BY <1>t, <1>3 DEF ReceivePacket
    <3>2. QED
      BY <3>1 DEF OnlyReplies
  <2>4. /\ UNCHANGED <<srvSeq, value, connects, connected>>
        /\ rpc' \in {"receive", "fulfil"}
        /\ \/ rpkt' = Head(toClient)
           \/ UNCHANGED <<rpkt, rcall>>
    BY <1>3 DEF ReceivePacket, HandOver
  <2>5. QED
    BY <2>2, <2>3, <2>4 DEF OnlyReplies
<1>4. CASE Fulfil
  <2>1. /\ rcall # 0 /\ rcall' = 0 /\ value' = [value EXCEPT ![rcall] = rpkt]
        /\ rpc' = "receive" /\ UNCHANGED <<srvSeq, toClient, connects, connected>>
    BY <1>4 DEF Fulfil, IInv, TypeOK
  <2>2. QED
    BY <1>t, <2>1 DEF OnlyReplies
<1>5. CASE ServerReceive
  <2>1. toServer # <<>> /\ toClient' \in {Append(toClient, Head(toServer)), toClient}
        /\ UNCHANGED <<srvSeq, rpc, rpkt, rcall, value, connects, connected>>
    BY <1>5 DEF ServerReceive
  <2>2. Head(toServer) = toServer[1] /\ 1 \in 1..Len(toServer) /\ Head(toServer) \in Packet
    BY <1>t, <2>1
  <2>3. Head(toServer).of # 0
    BY <2>2 DEF IInv, PacketInv
  <2>4. \A m \in 1..Len(Append(toClient, Head(toServer))) :
            \/ Append(toClient, Head(toServer))[m] = Head(toServer)
            \/ \E j \in 1..Len(toClient) : Append(toClient, Head(toServer))[m] = toClient[j]
    BY <1>t, <2>2, AddPacket
  <2>5. \A m \in 1..Len(toClient') : toClient'[m].of # 0
    BY <2>1, <2>3, <2>4 DEF OnlyReplies
  <2>6. QED
    BY <2>1, <2>5 DEF OnlyReplies
<1>6. CASE ServerPush
  BY <1>6 DEF ServerPush, OnlyReplies
<1>7. CASE MixedPacket \/ Connect \/ ConnectFails
  <2>1. ~MixedPacket /\ connects = 0
    BY DEF OnlyReplies, MixedPacket
  <2>2. QED
    BY <1>7, <2>1 DEF Connect, ConnectFails
<1>8. CASE \/ EnterRecv \/ ReceiveClosed \/ StaleEnds \/ StaleFails
          \/ Joined \/ ServerClose \/ UNCHANGED vars
  BY <1>1, <1>8 DEF EnterRecv, ReceiveClosed, StaleEnds, StaleFails, Joined, ServerClose, vars
<1>9. CASE DisConnect
  BY <1>9 DEF DisConnect, LeaveBehind, OnlyReplies
<1>10. CASE StaleData
  <2>1. rpc = "stale" /\ ~connected /\ connects = 0
    BY <1>10 DEF StaleData, OnlyReplies
  <2>2. \/ rpc' = "receive" /\ UNCHANGED <<pending, rpkt, rcall, handled>>
        \/ HandOver([id |-> 0, of |-> 0])
    BY <1>10, <2>1 DEF StaleData
  <2>3. rpc' = "receive" /\ UNCHANGED <<rpkt, rcall>>
    BY <1>0, <2>2 DEF HandOver
  <2>4. UNCHANGED <<srvSeq, toClient, value, connects, connected>>
    BY <1>10 DEF StaleData
  <2>5. QED
    BY <1>1, <2>3, <2>4
<1>11. QED
  BY <1>2, <1>3, <1>4, <1>5, <1>6, <1>7, <1>8, <1>9, <1>10
     DEF Next, ReceiveThread, OldConnection, Server

(* SendAndWait returns a RESPONSE packet, the reply to its request, as its *)
(* comment promises, unless the server also sends under MSGIDs of its own, *)
(* which is what the run request_push finds, or the client connects again  *)
(* or has used up its MSGIDs, whereupon the receive thread may piece a     *)
(* packet together that bears the MSGID of a call.                         *)
THEOREM OnlyPushesIntrude ==
    ASSUME MaxPushes = 0, MaxConnects = 0, MaxCalls < IdSpace
    PROVE  Spec => []ReturnsAResponse
<1>1. Init => OnlyReplies
  <2> SUFFICES ASSUME Init PROVE OnlyReplies
    OBVIOUS
  <2>1. 1..Len(toClient) = {} /\ rcall = 0 /\ srvSeq = 1 /\ connects = 0 /\ rpc = "receive"
    BY DEF Init
  <2>2. \A k \in Calls : value[k] = NoPacket
    BY DEF Init
  <2>3. QED
    BY <2>1, <2>2 DEF OnlyReplies
<1>2. IInv /\ OnlyReplies /\ [Next]_vars => OnlyReplies'
  BY OnlyRepliesNext
<1>3. IInv /\ OnlyReplies => ReturnsAResponse
  BY DEF IInv, OwnReply, OnlyReplies, ReturnsAResponse
<1>4. QED
  BY <1>1, <1>2, <1>3, Invariance, PTL DEF Spec

-----------------------------------------------------------------------------
(* What a call has returned, and what its promise was set to, stays. *)

(* A call that is under way, or was not made, has not returned. *)
OpenInv ==
    /\ \A k \in Calls : k > calls => outcome[k] = "open"
    /\ \A c \in Callers : pc[c] # "idle" => outcome[call[c]] = "open"

Stands == \A k \in Calls : /\ outcome[k] # "open" => outcome'[k] = outcome[k]
                           /\ value[k] # NoPacket => value'[k] = value[k]

LEMMA OpenNext == IInv /\ OpenInv /\ [Next]_vars => OpenInv' /\ Stands
<1> SUFFICES ASSUME IInv, OpenInv, [Next]_vars PROVE OpenInv' /\ Stands
  OBVIOUS
<1> USE DEF callerVars, recvVars, netVars
<1>t. /\ pc \in [Callers -> CallerPC] /\ call \in [Callers -> Calls \cup {0}]
      /\ calls \in 0..MaxCalls /\ outcome \in [Calls -> Outcomes]
      /\ \A c \in Callers : pc[c] # "idle" => call[c] \in Calls
      /\ value \in [Calls -> Packet \cup {NoPacket}]
  BY DEF IInv, TypeOK
<1>d. \A c, d \in Callers : c # d /\ pc[c] # "idle" => call[c] # call[d]
  BY <1>t, BoundsAssumption DEF IInv, CallInv, Calls
<1>1. ASSUME UNCHANGED <<calls, outcome, call, value>>,
             \A c \in Callers : pc'[c] # "idle" => pc[c] # "idle"
      PROVE  OpenInv' /\ Stands
  BY <1>1 DEF OpenInv, Stands
<1>2. ASSUME NEW c \in Callers, TakeId(c), UNCHANGED <<outcome, value>>,
             NEW where, Goto(c, where)
      PROVE  OpenInv' /\ Stands
  <2>1. calls + 1 \in Calls /\ calls + 1 > calls /\ calls' = calls + 1
        /\ call' = [call EXCEPT ![c] = calls + 1]
    BY <1>t, <1>2, BoundsAssumption DEF TakeId, Calls
  <2>2. \A d \in Callers : d # c => call'[d] = call[d] /\ pc'[d] = pc[d]
    BY <1>t, <1>2, <2>1 DEF Goto
  <2>3. call'[c] = calls + 1 /\ outcome[calls + 1] = "open"
    BY <1>t, <2>1 DEF OpenInv
  <2>4. \A k \in Calls : k > calls' => k > calls
    BY <1>t, <2>1, BoundsAssumption DEF Calls
  <2>5. QED
    BY <1>2, <2>2, <2>3, <2>4 DEF OpenInv, Stands
<1>3. ASSUME NEW c \in Callers, pc[c] # "idle", NEW result, Return(c, result),
             UNCHANGED <<calls, call, value>>
      PROVE  OpenInv' /\ Stands
  <2>1. call[c] \in Calls /\ outcome[call[c]] = "open" /\ call[c] <= calls
    BY <1>t, <1>3 DEF OpenInv, IInv, CallInv
  <2>2. /\ pc'[c] = "idle"
        /\ \A d \in Callers : d # c => pc'[d] = pc[d]
        /\ \A k \in Calls : k # call[c] => outcome'[k] = outcome[k]
    BY <1>t, <1>3 DEF Return, Goto
  <2>3. \A d \in Callers : d # c /\ pc[d] # "idle" => call[d] # call[c]
    BY <1>d, <1>3
  <2>4. \A k \in Calls : k > calls => k # call[c]
    BY <1>t, <2>1, BoundsAssumption DEF Calls
  <2>5. OpenInv'
    BY <1>3, <1>t, <2>2, <2>3, <2>4 DEF OpenInv
  <2>6. Stands
    BY <1>3, <2>1, <2>2 DEF Stands
  <2>7. QED
    BY <2>5, <2>6
<1>4. ASSUME NEW c \in Callers, Send(c) PROVE OpenInv' /\ Stands
  BY <1>2, <1>3, <1>4 DEF Send, SendBegin, SendOk, SendFail
<1>5. ASSUME NEW c \in Callers, SendAndWait(c) PROVE OpenInv' /\ Stands
  <2>1. CASE WaitBegin(c)
    BY <1>2, <2>1 DEF WaitBegin
  <2>2. CASE RequestFail(c) \/ Answered(c) \/ GiveUp(c)
    BY <1>3, <2>2 DEF RequestFail, Answered, GiveUp
  <2>3. CASE Register(c) \/ RequestOk(c) \/ TimeOut(c)
    <3>1. /\ UNCHANGED <<calls, outcome, call, value>> /\ pc[c] # "idle"
          /\ \E where : pc' = [pc EXCEPT ![c] = where]
      BY <2>3 DEF Register, RequestOk, TimeOut, Goto
    <3>2. \A d \in Callers : pc'[d] # "idle" => pc[d] # "idle"
      BY <1>t, <3>1
    <3>3. QED
      BY <1>1, <3>1, <3>2
  <2>4. QED
    BY <1>5, <2>1, <2>2, <2>3 DEF SendAndWait
<1>6. CASE Fulfil
  <2>1. /\ rcall # 0 /\ value' = [value EXCEPT ![rcall] = rpkt]
        /\ UNCHANGED <<calls, outcome, call, pc>>
    BY <1>6 DEF Fulfil, IInv, TypeOK
  <2>2. \A k \in Calls : value[k] # NoPacket => rcall # k
    BY DEF IInv, PromiseOnce
  <2>3. \A k \in Calls : value[k] # NoPacket => value'[k] = value[k]
    BY <1>t, <2>1, <2>2
  <2>4. QED
    BY <2>1, <2>3 DEF OpenInv, Stands
<1>7. CASE (ReceiveThread /\ ~Fulfil) \/ OldConnection \/ Server
  BY <1>1, <1>7 DEF ReceiveThread, EnterRecv, ReceivePacket, MixedPacket, ReceiveClosed,
        OldConnection, StaleEnds, StaleFails, StaleData,
        Server, ServerReceive, ServerPush, ServerClose
<1>8. CASE DisConnect \/ Connect \/ ConnectFails \/ Joined \/ UNCHANGED vars
  BY <1>1, <1>8 DEF DisConnect, Connect, ConnectFails, Joined, vars
<1>9. QED
  BY <1>4, <1>5, <1>6, <1>7, <1>8 DEF Next

(* A result stands: what SendAndWait or Send returned, and the packet a    *)
(* promise was set to, are not changed by a reply that comes after the     *)
(* time-out, by another caller that erases its promise, or by Connect.     *)
THEOREM ResultStands == Spec => [][Stands]_vars
<1>1. Init => OpenInv
  BY DEF Init, OpenInv
<1>2. IInv /\ OpenInv /\ [Next]_vars => OpenInv'
  BY OpenNext
<1>3. IInv /\ OpenInv /\ [Next]_vars => [Stands]_vars
  BY OpenNext
<1>4. QED
  BY <1>1, <1>2, <1>3, Invariance, PTL DEF Spec

=============================================================================
