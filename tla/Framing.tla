------------------------------ MODULE Framing ------------------------------
(***************************************************************************)
(* Packets over a TCP byte stream: convertSendMsg and the Send loop on one *)
(* side, Receive (CTCPServer and CTCPClient have the same code) and        *)
(* convertReceiveMsg on the other.                                         *)
(*                                                                         *)
(* Receive reads four bytes of size, four of MSGID, and then at least once *)
(* from the rest, each time asking for uMaxSize - total bytes in unsigned  *)
(* arithmetic: it treats the size as that of the whole packet, header      *)
(* included.  convertSendMsg writes the size of the body.                  *)
(***************************************************************************)
EXTENDS WireFormat, FiniteSets

(***************************************************************************)
(* A protocol is how packets are sent:                                     *)
(*   announced: what the size field counts: "body", as convertSendMsg has  *)
(*     it, or "total", as TCPServer.cpp:6-7 documents it;                  *)
(*   sizes: the sizes of the bodies;                                       *)
(*   lockstep: a packet is sent only once the one before was received;     *)
(*   whole: TCP delivers each packet in one piece; otherwise it may split  *)
(*     bodies (headers arrive in one piece).                               *)
(***************************************************************************)
CONSTANTS Protocols,
          MaxPackets,   \* bound: packets sent
          BufSize       \* EXT_PACKET_SIZE, the receive buffer

(* All packets together fit into the buffer.  This is a restriction of the *)
(* module: Receive reads as much as the size field says, or all there is   *)
(* if the difference of line 422 wraps, and has no test for the end of the *)
(* buffer; what happens beyond it is not modelled.                         *)
ASSUME FramingAssumption ==
    /\ \A p \in Protocols :
          /\ p.announced \in {"body", "total"}
          /\ p.lockstep \in BOOLEAN /\ p.whole \in BOOLEAN
          /\ \A n \in p.sizes : n \in Nat /\ MaxPackets * (n + 8) <= BufSize
    /\ MaxPackets \in Nat /\ MaxPackets < Half
    /\ BufSize \in Nat

VARIABLES proto,        \* the protocol in use, chosen once
          sent,         \* history: the packets sent
          flight,       \* segments sent that have not arrived
          wire,         \* bytes that have arrived: what recv can return
          conn,         \* "open", "closed" by the sender, or "reset"
          phase,        \* which recv of Receive comes next
          buf,          \* the bytes read by this Receive
          total,        \* their number, less one for every recv that failed
          uMaxSize,
          received      \* history: what Receive and convertReceiveMsg made of it

receiver == <<phase, buf, total, uMaxSize, received>>
vars == <<proto, sent, flight, wire, conn, receiver>>

Init ==
    /\ proto \in Protocols
    /\ sent = <<>>
    /\ flight = <<>>
    /\ wire = <<>>
    /\ conn = "open"
    /\ phase = "size"
    /\ buf = <<>>
    /\ total = 0
    /\ uMaxSize = BufSize
    /\ received = <<>>

First(s, n) == SubSeq(s, 1, n)
Rest(s, n) == SubSeq(s, n + 1, Len(s))
AtMost(n, s) == IF n < Len(s) THEN n ELSE Len(s)

-----------------------------------------------------------------------------
(* The sender and TCP.  Body and MSGID of the k-th packet: the number k.   *)

Body(k, n) == [i \in 1..n |-> k]

(* What the size field of a body of n bytes says. *)
Announced(p, n) == IF p.announced = "body" THEN n ELSE n + 8

(* Mutant: the MSGID is written first. *)
convertSendMsg_IdFirst(k, n) ==
    Field(k) \o Field(Announced(proto, n)) \o Body(k, n)

convertSendMsg(k, n) ==
    Field(Announced(proto, n)) \o Field(k) \o Body(k, n)

(* How the bytes of a packet may arrive: in one piece, or split anywhere   *)
(* after the header; segments that arrive before a recv are read together. *)
Segments(p) ==
    IF proto.whole THEN << p >>
    ELSE << First(p, 8) >> \o [i \in 1..(Len(p) - 8) |-> << p[8 + i] >>]

SendPacket(n) ==
    /\ conn = "open"
    /\ Len(sent) < MaxPackets
    /\ proto.lockstep => Len(received) = Len(sent)
    /\ LET k == Len(sent) + 1 IN
       /\ sent' = Append(sent, [id |-> k, body |-> Body(k, n)])
       /\ flight' = flight \o Segments(convertSendMsg(k, n))
    /\ UNCHANGED <<proto, wire, conn, receiver>>

Close ==
    /\ conn = "open"
    /\ conn' = "closed"
    /\ UNCHANGED <<proto, sent, flight, wire, receiver>>

(* The connection breaks: what has not been read is gone. *)
Reset ==
    /\ conn # "reset"
    /\ conn' = "reset"
    /\ flight' = <<>>
    /\ wire' = <<>>
    /\ UNCHANGED <<proto, sent, receiver>>

Arrive ==
    /\ flight # <<>>
    /\ wire' = wire \o Head(flight)
    /\ flight' = Tail(flight)
    /\ UNCHANGED <<proto, sent, conn, receiver>>

-----------------------------------------------------------------------------
(* The receiver. *)

(* A byte of vecRcvBuf: zero until it is read into. *)
At(b, i) == IF i <= Len(b) THEN b[i] ELSE 0
FieldAt(b, i) == << At(b, i), At(b, i + 1), At(b, i + 2), At(b, i + 3) >>

(* The body is resized to the size in the header, at most the buffer.      *)
convertReceiveMsg(b) ==
    LET nSize == ReadField(FieldAt(b, 1))
        len == IF nSize < BufSize - 8 THEN nSize ELSE BufSize - 8
    IN  [id |-> ReadField(FieldAt(b, 5)), body |-> [i \in 1..len |-> At(b, 8 + i)]]

(* recv returns n > 0 bytes, 0 for a connection that is closed and read    *)
(* empty, and -1 once it is reset (where Linux then goes on to return 0).  *)
Recv(n) ==
    /\ wire # <<>>
    /\ buf' = buf \o First(wire, AtMost(n, wire))
    /\ total' = total + AtMost(n, wire)
    /\ wire' = Rest(wire, AtMost(n, wire))
    /\ UNCHANGED <<proto, sent, flight, conn>>

RecvZero == conn # "open" /\ flight = <<>> /\ wire = <<>>

RecvFails ==
    /\ conn = "reset"
    /\ total' = total - 1
    /\ UNCHANGED <<proto, sent, flight, wire, conn, buf>>

(* Mutant: the size counts from the byte after the header. *)
SetMaxSize_Body ==
    LET nTotalSize == ReadSize(FieldAt(buf', 1)) IN
    uMaxSize' = IF nTotalSize > 0 THEN nTotalSize + 8 ELSE BufSize

SetMaxSize ==
    LET nTotalSize == ReadSize(FieldAt(buf', 1)) IN
    uMaxSize' = IF nTotalSize > 0 THEN nTotalSize ELSE BufSize

(* int nSize = recv( ..., 4, 0 ): the size *)
RecvSize ==
    /\ phase = "size"
    /\ Recv(4) \/ RecvFails
    /\ SetMaxSize
    /\ phase' = "id"
    /\ UNCHANGED received

(* ... and the MSGID *)
RecvId ==
    /\ phase = "id"
    /\ Recv(4) \/ RecvFails
    /\ phase' = "rest"
    /\ UNCHANGED <<uMaxSize, received>>

(* recv returns 0 in the header: Receive returns 0 and the thread ends.    *)
RecvHeaderZero ==
    /\ phase \in {"size", "id"}
    /\ RecvZero
    /\ phase' = "ended"
    /\ UNCHANGED <<proto, sent, flight, wire, conn, buf, total, uMaxSize, received>>

(* What recv is asked for: uMaxSize - total in size_t, huge if "negative". *)
Wanted == IF uMaxSize >= total THEN uMaxSize - total ELSE Word

(* Mutant: Receive returns after one recv of the rest. *)
RecvRest_Once ==
    /\ phase = "rest"
    /\ \/ Wanted > 0 /\ Recv(Wanted)
       \/ RecvFails
    /\ phase' = "return"
    /\ UNCHANGED <<uMaxSize, received>>

(* do recv of the rest while( total < uMaxSize ): int against size_t, so   *)
(* that a negative total ends the loop.                                    *)
RecvRest ==
    /\ phase = "rest"
    /\ \/ Wanted > 0 /\ Recv(Wanted)
       \/ RecvFails
    /\ phase' = IF total' \in 0..(uMaxSize - 1) THEN "rest" ELSE "return"
    /\ UNCHANGED <<uMaxSize, received>>

(* recv returns 0, as it does when asked for nothing: the loop ends.       *)
RecvRestZero ==
    /\ phase = "rest"
    /\ Wanted = 0 \/ RecvZero
    /\ phase' = "return"
    /\ UNCHANGED <<proto, sent, flight, wire, conn, buf, total, uMaxSize, received>>

(* Mutant: total is not set to zero when Receive is called again. *)
Return_KeepsTotal ==
    /\ phase = "return"
    /\ received' = IF total > 0 THEN Append(received, convertReceiveMsg(buf))
                                ELSE received
    /\ phase' = IF total = 0 THEN "ended" ELSE "size"
    /\ buf' = <<>>
    /\ uMaxSize' = BufSize
    /\ UNCHANGED <<proto, sent, flight, wire, conn, total>>

(* Receive returns total.  The thread converts the buffer if it is         *)
(* positive, does nothing if it is negative, and calls Receive again.      *)
Return ==
    /\ phase = "return"
    /\ received' = IF total > 0 THEN Append(received, convertReceiveMsg(buf))
                                ELSE received
    /\ phase' = IF total = 0 THEN "ended" ELSE "size"
    /\ buf' = <<>>
    /\ total' = 0
    /\ uMaxSize' = BufSize
    /\ UNCHANGED <<proto, sent, flight, wire, conn>>

Receive == RecvSize \/ RecvId \/ RecvHeaderZero \/ RecvRest \/ RecvRestZero \/ Return

Next ==
    \/ \E n \in proto.sizes : SendPacket(n)
    \/ Close
    \/ Reset
    \/ Arrive
    \/ Receive

Spec == Init /\ [][Next]_vars

(* TCP delivers what was sent and the receive thread runs.                 *)
Fairness == WF_vars(Arrive) /\ WF_vars(Receive)

FairSpec == Spec /\ Fairness

-----------------------------------------------------------------------------
TypeOK ==
    /\ proto \in Protocols
    /\ Len(sent) <= MaxPackets
    /\ \A i \in 1..Len(sent) : sent[i].id = i /\ Len(sent[i].body) \in proto.sizes
    /\ conn \in {"open", "closed", "reset"}
    /\ phase \in {"size", "id", "rest", "return", "ended"}
    /\ total \in -3..Len(buf)
    /\ conn # "reset" => total = Len(buf)
    /\ uMaxSize \in 1..(Word - 1)

(* The packet r is s: its MSGID, and its body up to zero bytes appended.   *)
Carries(r, s) ==
    /\ r.id = s.id
    /\ Len(r.body) >= Len(s.body)
    /\ \A i \in 1..Len(r.body) : r.body[i] = At(s.body, i)

(* Only the last packet of a connection that was reset may be a fragment.  *)
Complete == 1..(IF conn = "reset" THEN Len(received) - 1 ELSE Len(received))

(***************************************************************************)
(* Where it works: Receive reads every size back, and either the size      *)
(* counts the header, or the bodies have 1 to 7 bytes and come in one      *)
(* piece with their header.                                                *)
(***************************************************************************)
GoodProtocol(p) ==
    \A n \in p.sizes :
        /\ Announced(p, n) \in 1..(Word - 1)
        /\ \A i \in 1..4 : Field(Announced(p, n))[i] < Half
        /\ p.announced = "total" \/ (p.whole /\ n \in 1..7)

(***************************************************************************)
(* Packets come out as they went in, in the order sent, none invented; the *)
(* last one alone may be cut short, and only by a reset.  (Some may be     *)
(* missing: the callers of SendAndWait then time out.)                     *)
(***************************************************************************)
SubsequenceOfSent ==
    \A i \in Complete :
        /\ \E k \in 1..Len(sent) : Carries(received[i], sent[k])
        /\ \A j \in 1..(i - 1) : received[j].id < received[i].id

(* Where the size counts the header, as TCPServer.cpp:7 has it, or packets *)
(* are sent one at a time.                                                 *)
Reliable == proto.announced = "total" \/ proto.lockstep

(***************************************************************************)
(* Every packet comes out, with all of its body (EXNetwork.cpp:57): there, *)
(* the i-th to be received is the i-th sent.                               *)
(***************************************************************************)
PacketsIntact ==
    Reliable => \A i \in Complete : i <= Len(sent) /\ Carries(received[i], sent[i])

(***************************************************************************)
(* There, a packet sent is received, unless the connection is reset.       *)
(***************************************************************************)
EveryPacketReceived ==
    \A k \in 1..MaxPackets :
        Len(sent) >= k ~> Len(received) >= k \/ conn = "reset" \/ ~Reliable

=============================================================================
