--------------------------- MODULE FramingProofs ----------------------------
(***************************************************************************)
(* Where the framing of packets works, for any number of packets, any      *)
(* sizes and any way TCP cuts the stream that the protocols allow: packets *)
(* come out as they went in, and none is held back.                        *)
(***************************************************************************)
EXTENDS Framing, WireFormatProofs, SequenceTheorems

(* The hypothesis of the theorems. *)
GoodProtocols ==
    /\ BufSize \in 1..(Word - 1)
    /\ \A p \in Protocols : GoodProtocol(p)

-----------------------------------------------------------------------------
(* The inductive invariant. *)

Size(k) == Len(sent[k].body)

(* What has been sent. *)
SentInv ==
    /\ proto \in Protocols
    /\ sent \in Seq([id : Nat, body : Seq(Nat)])
    /\ Len(sent) <= MaxPackets
    /\ \A k \in 1..Len(sent) :
        /\ Size(k) \in proto.sizes
        /\ sent[k] = [id |-> k, body |-> Body(k, Size(k))]

(* The variables of Receive, whatever happens to the connection. *)
ReceiveInv ==
    /\ conn \in {"open", "closed", "reset"}
    /\ phase \in {"size", "id", "rest", "return", "ended"}
    /\ buf \in Seq(Nat) /\ Len(buf) <= BufSize
    /\ total \in -3..Len(buf)
    /\ conn # "reset" => total = Len(buf)
    /\ phase = "size" => total = 0 /\ buf = <<>>
    /\ phase = "id" => total >= -1
    /\ phase = "rest" => total >= -2
    /\ uMaxSize \in 1..(Word - 1)
    /\ received \in Seq({convertReceiveMsg(b) : b \in Seq(Nat)})

(* The first m packets that were received came from the sender, in order.  *)
GoodPackets(m) ==
    /\ \A i \in 1..m :
        /\ received[i].id \in 1..Len(sent)
        /\ Carries(received[i], sent[received[i].id])
        /\ \A j \in 1..(i - 1) : received[j].id < received[i].id
    /\ Reliable => \A i \in 1..m : received[i].id = i

(* After a reset nothing arrives; what Receive has read may become one     *)
(* more packet, and is then gone.                                          *)
ResetInv ==
    conn = "reset" =>
        /\ wire = <<>> /\ flight = <<>>
        /\ GoodPackets(Len(received) - 1)
        /\ buf = <<>> \/ GoodPackets(Len(received))

(* Before it, the bytes sent so far are S, and packet k ends at pos[k]. *)
Stream(S, pos) ==
    /\ S \in Seq(Nat)
    /\ pos \in [0..Len(sent) -> Nat]
    /\ pos[0] = 0 /\ pos[Len(sent)] = Len(S)
    /\ \A j, k \in 0..Len(sent) : j <= k => pos[j] <= pos[k]
    /\ \A k \in 1..Len(sent) :
        /\ pos[k] = pos[k - 1] + 8 + Size(k)
        /\ \A i \in 1..(8 + Size(k)) : S[pos[k - 1] + i] = convertSendMsg(k, Size(k))[i]
    /\ \A k \in 0..Len(sent) : MaxPackets * pos[k] <= k * BufSize

(* TCP may cut the stream behind its first x bytes: never in a header. *)
Cut(pos, x) ==
    \E k \in 0..Len(sent) :
        \/ x = pos[k]
        \/ ~proto.whole /\ k < Len(sent) /\ x \in (pos[k] + 8)..pos[k + 1]

(* The n-th segment in flight begins behind f[n], ... *)
Flight(S, pos, f) ==
    /\ flight \in Seq(Seq(Nat))
    /\ f \in [1..(Len(flight) + 1) -> 0..Len(S)]
    /\ f[Len(flight) + 1] = Len(S)
    /\ \A n \in 1..Len(flight) :
        /\ f[n + 1] = f[n] + Len(flight[n])
        /\ \A i \in 1..Len(flight[n]) : flight[n][i] = S[f[n] + i]
    /\ \A n \in 1..(Len(flight) + 1) : Cut(pos, f[n])

(* ... the bytes up to a have arrived, ... *)
Arrived(S, a) ==
    /\ wire \in Seq(Nat)
    /\ Len(wire) <= a
    /\ \A i \in 1..Len(wire) : wire[i] = S[a - Len(wire) + i]

(* ... and Receive began to read behind packet c.  It ends at the end of a *)
(* packet, of the first where the size counts the header.                  *)
Reading(S, pos, c, a) ==
    /\ c \in 0..Len(sent)
    /\ pos[c] + Len(buf) + Len(wire) = a
    /\ \A i \in 1..Len(buf) : buf[i] = S[pos[c] + i]
    /\ phase = "id" => Len(buf) = 4
    /\ phase \in {"id", "rest", "return"} => c < Len(sent)
    /\ phase \in {"id", "rest"} => uMaxSize = Announced(proto, Size(c + 1))
    /\ phase = "rest" =>
          IF proto.announced = "total" THEN Len(buf) \in 8..(8 + Size(c + 1)) ELSE Len(buf) = 8
    /\ phase = "return" =>
          \E k \in (c + 1)..Len(sent) :
              pos[c] + Len(buf) = pos[k] /\ (proto.announced = "total" => k = c + 1)

(* What came out is of the first c packets. *)
Received(c) ==
    /\ GoodPackets(Len(received))
    /\ \A i \in 1..Len(received) : received[i].id <= c
    /\ Reliable => Len(received) = c
    /\ proto.lockstep => Len(sent) <= Len(received) + 1

Snapshot(S, pos, f, c) ==
    /\ Stream(S, pos) /\ Flight(S, pos, f) /\ Arrived(S, f[1])
    /\ Reading(S, pos, c, f[1])
    /\ Received(c)

StreamInv == conn # "reset" => \E S, pos, f, c : Snapshot(S, pos, f, c)

IInv == SentInv /\ ReceiveInv /\ ResetInv /\ StreamInv

-----------------------------------------------------------------------------
(* Lemmas about the operators. *)

LEMMA FirstRest ==
    ASSUME NEW s \in Seq(Nat), NEW m \in 0..Len(s)
    PROVE  /\ Len(s) \in Nat
           /\ First(s, m) \in Seq(Nat) /\ Len(First(s, m)) = m
           /\ \A i \in 1..m : First(s, m)[i] = s[i]
           /\ Rest(s, m) \in Seq(Nat) /\ Len(Rest(s, m)) = Len(s) - m
           /\ \A i \in 1..(Len(s) - m) : Rest(s, m)[i] = s[m + i]
<1>1. /\ Len(s) \in Nat /\ m \in Nat /\ m <= Len(s)
      /\ \A i \in 1..Len(s) : s[i] \in Nat
  BY LenProperties
<1>2. /\ SubSeq(s, 1, m) \in Seq(Nat) /\ Len(SubSeq(s, 1, m)) = m
      /\ \A i \in 1..m : SubSeq(s, 1, m)[i] = s[i]
  BY <1>1, SubSeqProperties
<1>3. /\ SubSeq(s, m + 1, Len(s)) \in Seq(Nat)
      /\ Len(SubSeq(s, m + 1, Len(s))) = Len(s) - m
      /\ \A i \in 1..(Len(s) - m) : SubSeq(s, m + 1, Len(s))[i] = s[m + i]
  BY <1>1, SubSeqProperties
<1>4. QED
  BY <1>1, <1>2, <1>3 DEF First, Rest

LEMMA FieldSeq ==
    ASSUME NEW n \in 0..(Word - 1)
    PROVE  Field(n) \in Seq(Nat) /\ Len(Field(n)) = 4
<1>1. PICK b1 \in 0..(Byte - 1), b2 \in 0..(Byte - 1), b3 \in 0..(Byte - 1), b4 \in 0..(Byte - 1) :
         Field(n) = <<b1, b2, b3, b4>>
  BY FieldBytes
<1>2. b1 \in Nat /\ b2 \in Nat /\ b3 \in Nat /\ b4 \in Nat
  BY Constants
<1>3. QED
  BY <1>1, <1>2

LEMMA BodySeq ==
    ASSUME NEW k \in Nat, NEW n \in Nat
    PROVE  /\ Body(k, n) \in Seq(Nat) /\ Len(Body(k, n)) = n
           /\ \A i \in 1..n : Body(k, n)[i] = k
<1>1. Body(k, n) \in [1..n -> Nat]
  BY DEF Body
<1>2. QED
  BY <1>1, SeqDef DEF Body

(* The sizes of a good protocol. *)
LEMMA GoodSizes ==
    ASSUME GoodProtocols, proto \in Protocols, NEW n \in proto.sizes, MaxPackets # 0
    PROVE  /\ n \in Nat /\ MaxPackets * (n + 8) <= BufSize /\ n + 8 <= BufSize
           /\ Announced(proto, n) \in 1..(Word - 1)
           /\ ReadSize(Field(Announced(proto, n))) = Announced(proto, n)
           /\ ReadField(Field(Announced(proto, n))) = Announced(proto, n)
           /\ proto.announced \in {"body", "total"}
           /\ proto.announced = "body" => proto.whole /\ n \in 1..7
<1>1. /\ n \in Nat /\ MaxPackets * (n + 8) <= BufSize /\ MaxPackets \in Nat /\ BufSize \in Nat
      /\ proto.announced \in {"body", "total"}
  BY FramingAssumption
<1>2. 1 * (n + 8) <= MaxPackets * (n + 8)
  BY <1>1, MulOrder
<1>3. /\ Announced(proto, n) \in 1..(Word - 1) /\ Word \in Nat
      /\ \A i \in 1..4 : Field(Announced(proto, n))[i] < Half
      /\ proto.announced = "total" \/ (proto.whole /\ n \in 1..7)
  BY Constants DEF GoodProtocols, GoodProtocol
<1>4. Announced(proto, n) \in 0..(Word - 1)
  BY <1>3
<1>5. QED
  BY <1>1, <1>2, <1>3, <1>4, FieldReadBack, ClearSizeReadBack

(* MSGIDs fit in a field. *)
LEMMA PacketIds ==
    /\ MaxPackets \in Nat /\ BufSize \in Nat
    /\ \A k \in 0..MaxPackets : k \in 0..(Word - 1)
<1>1. Half <= Word
  <2>1. \A x \in Nat : x <= x * Byte /\ x * Byte \in Nat
    BY Constants, MulOrder
  <2>2. QED
    BY <2>1, Constants
<1>2. QED
  BY <1>1, FramingAssumption, Constants

LEMMA Concat ==
    ASSUME NEW s \in Seq(Nat), NEW d \in Seq(Nat)
    PROVE  /\ s \o d \in Seq(Nat) /\ Len(s) \in Nat /\ Len(d) \in Nat
           /\ Len(s \o d) = Len(s) + Len(d)
           /\ \A i \in 1..Len(s) : (s \o d)[i] = s[i]
           /\ \A i \in 1..Len(d) : (s \o d)[Len(s) + i] = d[i]
  OBVIOUS

LEMMA ThreePieces ==
    ASSUME NEW s \in Seq(Nat), NEW d \in Seq(Nat), NEW b \in Seq(Nat)
    PROVE  /\ (s \o d) \o b \in Seq(Nat)
           /\ Len((s \o d) \o b) = Len(s) + Len(d) + Len(b)
           /\ \A i \in 1..Len(s) : ((s \o d) \o b)[i] = s[i]
           /\ \A i \in 1..Len(d) : ((s \o d) \o b)[Len(s) + i] = d[i]
           /\ \A i \in 1..Len(b) : ((s \o d) \o b)[Len(s) + Len(d) + i] = b[i]
<1>1. PICK t \in Seq(Nat) :
        /\ t = s \o d /\ Len(s) \in Nat /\ Len(d) \in Nat /\ Len(t) = Len(s) + Len(d)
        /\ \A i \in 1..Len(s) : t[i] = s[i]
        /\ \A i \in 1..Len(d) : t[Len(s) + i] = d[i]
  <2>1. /\ s \o d \in Seq(Nat) /\ Len(s) \in Nat /\ Len(d) \in Nat
        /\ Len(s \o d) = Len(s) + Len(d)
        /\ \A i \in 1..Len(s) : (s \o d)[i] = s[i]
        /\ \A i \in 1..Len(d) : (s \o d)[Len(s) + i] = d[i]
    BY Concat, Zenon
  <2>2. QED
    BY <2>1
<1>2. /\ t \o b \in Seq(Nat) /\ Len(b) \in Nat /\ Len(t \o b) = Len(t) + Len(b)
      /\ \A i \in 1..Len(t) : (t \o b)[i] = t[i]
      /\ \A i \in 1..Len(b) : (t \o b)[Len(t) + i] = b[i]
  BY Concat
<1>3. ASSUME NEW i \in 1..Len(s)
      PROVE  (t \o b)[i] = s[i]
  BY <1>1, <1>2
<1>4. ASSUME NEW i \in 1..Len(d)
      PROVE  (t \o b)[Len(s) + i] = d[i]
  BY <1>1, <1>2
<1>5. QED
  BY <1>1, <1>2, <1>3, <1>4

(* The bytes of a packet: size, MSGID, body. *)
LEMMA PacketBytes ==
    ASSUME GoodProtocols, proto \in Protocols, NEW n \in proto.sizes,
           NEW k \in 1..MaxPackets
    PROVE  /\ convertSendMsg(k, n) \in Seq(Nat)
           /\ Len(convertSendMsg(k, n)) = 8 + n
           /\ \A i \in 1..4 : convertSendMsg(k, n)[i] = Field(Announced(proto, n))[i]
           /\ \A i \in 1..4 : convertSendMsg(k, n)[4 + i] = Field(k)[i]
           /\ \A i \in 1..n : convertSendMsg(k, n)[8 + i] = k
<1>1. n \in Nat /\ Announced(proto, n) \in 0..(Word - 1) /\ k \in 0..(Word - 1) /\ k \in Nat
  BY GoodSizes, PacketIds
<1>2. /\ Field(Announced(proto, n)) \in Seq(Nat) /\ Len(Field(Announced(proto, n))) = 4
      /\ Field(k) \in Seq(Nat) /\ Len(Field(k)) = 4
      /\ Body(k, n) \in Seq(Nat) /\ Len(Body(k, n)) = n
      /\ \A i \in 1..n : Body(k, n)[i] = k
  BY <1>1, FieldSeq, BodySeq
<1>3. convertSendMsg(k, n) = (Field(Announced(proto, n)) \o Field(k)) \o Body(k, n)
  BY DEF convertSendMsg, Announced
<1>4. \A s, d, b \in Seq(Nat) :
         /\ (s \o d) \o b \in Seq(Nat)
         /\ Len((s \o d) \o b) = Len(s) + Len(d) + Len(b)
         /\ \A i \in 1..Len(s) : ((s \o d) \o b)[i] = s[i]
         /\ \A i \in 1..Len(d) : ((s \o d) \o b)[Len(s) + i] = d[i]
         /\ \A i \in 1..Len(b) : ((s \o d) \o b)[Len(s) + Len(d) + i] = b[i]
  BY ThreePieces
<1>5. PICK s \in Seq(Nat), d \in Seq(Nat), b \in Seq(Nat) :
         s = Field(Announced(proto, n)) /\ d = Field(k) /\ b = Body(k, n)
  BY <1>2, Zenon
<1>6. Len(s) = 4 /\ Len(d) = 4 /\ Len(b) = n /\ \A i \in 1..n : b[i] = k
  BY <1>2, <1>5
<1> DEFINE t == (s \o d) \o b
<1>7. /\ t \in Seq(Nat)
      /\ Len(t) = Len(s) + Len(d) + Len(b)
      /\ \A i \in 1..Len(s) : t[i] = s[i]
      /\ \A i \in 1..Len(d) : t[Len(s) + i] = d[i]
      /\ \A i \in 1..Len(b) : t[Len(s) + Len(d) + i] = b[i]
  BY <1>4, Zenon
<1>8. convertSendMsg(k, n) = t
  BY <1>3, <1>5
<1> HIDE DEF t
<1>9. /\ Len(t) = 4 + 4 + n
      /\ \A i \in 1..4 : t[i] = s[i]
      /\ \A i \in 1..4 : t[4 + i] = d[i]
      /\ \A i \in 1..n : t[4 + 4 + i] = b[i]
  BY <1>6, <1>7, Zenon
<1>10. Len(t) = 8 + n
  BY <1>1, <1>9
<1>11. ASSUME NEW i \in 1..n
       PROVE  t[8 + i] = k
  <2>1. 4 + 4 + i = 8 + i
    BY <1>1
  <2>2. QED
    BY <1>6, <1>9, <2>1
<1>12. QED
  BY <1>5, <1>7, <1>8, <1>9, <1>10, <1>11

LEMMA MulBound ==
    ASSUME NEW m \in Nat \ {0}, NEW k \in 0..m, NEW p \in Nat, NEW b \in Nat, m * p <= k * b
    PROVE  p <= b
<1>1. k * b <= m * b
  BY MulOrder
<1>2. SUFFICES ASSUME b + 1 <= p PROVE FALSE
  OBVIOUS
<1>3. (b + 1) * m <= p * m
  BY <1>2, MulOrder
<1>4. (b + 1) * m = m * b + m /\ p * m = m * p
  OBVIOUS
<1>5. m * b \in Int /\ m * p \in Int /\ k * b \in Int
  OBVIOUS
<1>6. QED
  BY <1>1, <1>3, <1>4, <1>5

LEMMA MulSum ==
    ASSUME NEW m \in Nat, NEW k \in Nat, NEW p \in Nat, NEW s \in Nat, NEW b \in Nat,
           m * p <= k * b, m * s <= b
    PROVE  m * (p + s) <= (k + 1) * b
<1>1. m * (p + s) = m * p + m * s /\ (k + 1) * b = k * b + b
  OBVIOUS
<1>2. m * s \in Int /\ m * p \in Int /\ k * b \in Int
  OBVIOUS
<1>3. QED
  BY <1>1, <1>2

(* The sequences of a state. *)
LEMMA SentFacts ==
    ASSUME GoodProtocols, SentInv
    PROVE  /\ proto \in Protocols /\ Len(sent) \in Nat /\ Len(sent) <= MaxPackets
           /\ \A k \in 1..Len(sent) :
               /\ k \in 1..MaxPackets /\ Size(k) \in proto.sizes /\ Size(k) \in Nat
               /\ MaxPackets * (Size(k) + 8) <= BufSize /\ Size(k) + 8 <= BufSize
               /\ sent[k] = [id |-> k, body |-> Body(k, Size(k))]
<1>1. proto \in Protocols /\ Len(sent) \in Nat /\ Len(sent) <= MaxPackets /\ MaxPackets \in Nat
  BY LenProperties, PacketIds DEF SentInv
<1>2. ASSUME NEW k \in 1..Len(sent)
      PROVE  /\ k \in 1..MaxPackets /\ Size(k) \in proto.sizes /\ Size(k) \in Nat
             /\ MaxPackets * (Size(k) + 8) <= BufSize /\ Size(k) + 8 <= BufSize
             /\ sent[k] = [id |-> k, body |-> Body(k, Size(k))]
  <2>1. Size(k) \in proto.sizes /\ sent[k] = [id |-> k, body |-> Body(k, Size(k))]
    BY DEF SentInv
  <2>2. k \in 1..MaxPackets /\ MaxPackets # 0
    BY <1>1
  <2>3. /\ Size(k) \in Nat /\ MaxPackets * (Size(k) + 8) <= BufSize /\ Size(k) + 8 <= BufSize
    BY <1>1, <2>1, <2>2, GoodSizes
  <2>4. QED
    BY <2>1, <2>2, <2>3
<1>3. QED
  BY <1>1, <1>2

(* The stream fits in the buffer. *)
LEMMA StreamFits ==
    ASSUME GoodProtocols, SentInv, NEW S, NEW pos, Stream(S, pos)
    PROVE  /\ Len(S) \in Nat /\ Len(S) <= BufSize
           /\ \A k \in 0..Len(sent) : pos[k] \in Nat /\ pos[k] <= Len(S)
<1>1. /\ Len(sent) \in Nat /\ Len(sent) <= MaxPackets /\ MaxPackets \in Nat /\ BufSize \in Nat
  BY SentFacts, PacketIds
<1>2. /\ pos[0] = 0 /\ pos[Len(sent)] = Len(S)
      /\ \A k \in 0..Len(sent) : pos[k] \in Nat /\ pos[k] <= pos[Len(sent)]
      /\ MaxPackets * pos[Len(sent)] <= Len(sent) * BufSize
  <2>1. Len(sent) \in 0..Len(sent) /\ \A k \in 0..Len(sent) : k <= Len(sent)
    BY <1>1
  <2>2. MaxPackets * pos[Len(sent)] <= Len(sent) * BufSize
    BY <2>1, Zenon DEF Stream
  <2>3. \A k \in 0..Len(sent) : pos[k] <= pos[Len(sent)]
    BY <2>1, Zenon DEF Stream
  <2>4. pos[0] = 0 /\ pos[Len(sent)] = Len(S) /\ \A k \in 0..Len(sent) : pos[k] \in Nat
    BY Zenon DEF Stream
  <2>5. QED
    BY <2>2, <2>3, <2>4
<1>3. pos[Len(sent)] <= BufSize
  <2>1. CASE Len(sent) = 0
    BY <1>1, <1>2, <2>1
  <2>2. CASE Len(sent) # 0
    <3>1. MaxPackets \in Nat \ {0} /\ Len(sent) \in 0..MaxPackets /\ pos[Len(sent)] \in Nat
      BY <1>1, <1>2, <2>2
    <3>2. QED
      BY <1>1, <1>2, <3>1, MulBound
  <2>3. QED
    BY <2>1, <2>2
<1>4. QED
  BY <1>1, <1>2, <1>3

-----------------------------------------------------------------------------
(* Reading a packet back from the buffer. *)

LEMMA HeaderBytes ==
    ASSUME NEW b \in Seq(Nat), NEW m \in 0..(Word - 1), NEW j \in Nat, Len(b) >= j + 4,
           \A i \in 1..4 : b[j + i] = Field(m)[i]
    PROVE  FieldAt(b, j + 1) = Field(m)
<1>1. PICK b1 \in 0..(Byte - 1), b2 \in 0..(Byte - 1), b3 \in 0..(Byte - 1), b4 \in 0..(Byte - 1) :
         Field(m) = <<b1, b2, b3, b4>>
  BY FieldBytes
<1>2. b[j + 1] = b1 /\ b[j + 2] = b2 /\ b[j + 3] = b3 /\ b[j + 4] = b4
  <2>1. \A i \in 1..4 : b[j + i] = <<b1, b2, b3, b4>>[i]
    BY <1>1
  <2>2. QED
    BY <2>1
<1>3. Len(b) \in Nat
  BY LenProperties
<1>4. /\ At(b, j + 1) = b[j + 1] /\ At(b, j + 2) = b[j + 2]
      /\ At(b, j + 3) = b[j + 3] /\ At(b, j + 4) = b[j + 4]
  <2>1. \A l \in Nat : l >= j + 4 => j + 1 <= l /\ j + 2 <= l /\ j + 3 <= l /\ j + 4 <= l
    OBVIOUS
  <2>2. j + 1 <= Len(b) /\ j + 2 <= Len(b) /\ j + 3 <= Len(b) /\ j + 4 <= Len(b)
    BY <1>3, <2>1
  <2>3. QED
    BY <2>2 DEF At
<1>5. FieldAt(b, j + 1) = <<At(b, j + 1), At(b, j + 2), At(b, j + 3), At(b, j + 4)>>
  <2>1. j + 1 + 1 = j + 2 /\ j + 1 + 2 = j + 3 /\ j + 1 + 3 = j + 4
    OBVIOUS
  <2>2. QED
    BY <2>1 DEF FieldAt
<1>6. QED
  BY <1>1, <1>2, <1>4, <1>5

(* An empty buffer reads as size zero. *)
LEMMA NoHeader == ReadSize(FieldAt(<<>>, 1)) = 0
<1>1. At(<<>>, 1) = 0 /\ At(<<>>, 2) = 0 /\ At(<<>>, 3) = 0 /\ At(<<>>, 4) = 0
  BY DEF At
<1>2. FieldAt(<<>>, 1) = <<0, 0, 0, 0>>
  BY <1>1 DEF FieldAt
<1>3. SignExtend(0) = 0 /\ ShiftIn(0, 0) = 0 /\ ShiftInChar(0, 0) = ShiftIn(0, 0)
  <2>1. 0 < Half
    BY Constants
  <2>2. (0 * Byte + 0) % Word = 0
    BY Constants
  <2>3. QED
    BY <2>1, <2>2 DEF SignExtend, ShiftIn, ShiftInChar
<1>4. QED
  BY <1>2, <1>3 DEF ReadSize

(* The packet k is at the front of the buffer, all of it. *)
AtFront(b, k) ==
    /\ Len(b) >= 8 + Size(k)
    /\ \A i \in 1..(8 + Size(k)) : b[i] = convertSendMsg(k, Size(k))[i]
    /\ proto.announced = "total" => Len(b) = 8 + Size(k)

LEMMA FrontHeader ==
    ASSUME GoodProtocols, SentInv, NEW k \in 1..Len(sent), NEW b \in Seq(Nat),
           Len(b) >= 4, \A i \in 1..4 : b[i] = convertSendMsg(k, Size(k))[i]
    PROVE  /\ ReadSize(FieldAt(b, 1)) = Announced(proto, Size(k))
           /\ ReadField(FieldAt(b, 1)) = Announced(proto, Size(k))
           /\ Announced(proto, Size(k)) \in 1..(Word - 1)
<1>1. k \in 1..MaxPackets /\ MaxPackets # 0 /\ Size(k) \in proto.sizes /\ proto \in Protocols
  <2>1. k \in 1..MaxPackets /\ MaxPackets \in Nat
    BY SentFacts, PacketIds
  <2>2. MaxPackets # 0
    BY <2>1
  <2>3. QED
    BY <2>1, <2>2, SentFacts
<1>2. /\ Announced(proto, Size(k)) \in 1..(Word - 1)
      /\ ReadSize(Field(Announced(proto, Size(k)))) = Announced(proto, Size(k))
      /\ ReadField(Field(Announced(proto, Size(k)))) = Announced(proto, Size(k))
  BY <1>1, GoodSizes
<1>3. \A i \in 1..4 : convertSendMsg(k, Size(k))[i] = Field(Announced(proto, Size(k)))[i]
  <2>1. k \in 1..MaxPackets /\ Size(k) \in proto.sizes /\ proto \in Protocols
    BY <1>1, Zenon
  <2>2. /\ convertSendMsg(k, Size(k)) \in Seq(Nat)
        /\ Len(convertSendMsg(k, Size(k))) = 8 + Size(k)
        /\ \A i \in 1..4 : convertSendMsg(k, Size(k))[i] = Field(Announced(proto, Size(k)))[i]
        /\ \A i \in 1..4 : convertSendMsg(k, Size(k))[4 + i] = Field(k)[i]
        /\ \A i \in 1..Size(k) : convertSendMsg(k, Size(k))[8 + i] = k
    BY <2>1, PacketBytes, Zenon
  <2>3. QED
    BY <2>2, Zenon
<1>4. \A i \in 1..4 : b[0 + i] = Field(Announced(proto, Size(k)))[i]
  <2>1. \A i \in 1..4 : 0 + i = i
    OBVIOUS
  <2>2. QED
    BY <1>3, <2>1, Zenon
<1>5. Len(b) >= 0 + 4 /\ Announced(proto, Size(k)) \in 0..(Word - 1)
  BY <1>2
<1>6. FieldAt(b, 0 + 1) = Field(Announced(proto, Size(k)))
  BY <1>4, <1>5, HeaderBytes, Zenon
<1>7. QED
  BY <1>2, <1>6

LEMMA FrontCarried ==
    ASSUME GoodProtocols, SentInv, NEW k \in 1..Len(sent), NEW b \in Seq(Nat), AtFront(b, k)
    PROVE  convertReceiveMsg(b).id = k /\ Carries(convertReceiveMsg(b), sent[k])
<1> DEFINE n == Size(k)
           len == IF Announced(proto, n) < BufSize - 8 THEN Announced(proto, n) ELSE BufSize - 8
<1>1. /\ k \in 1..MaxPackets /\ MaxPackets # 0 /\ n \in proto.sizes /\ proto \in Protocols
      /\ n \in Nat /\ n + 8 <= BufSize /\ sent[k] = [id |-> k, body |-> Body(k, n)]
      /\ BufSize \in Nat /\ k \in 0..(Word - 1) /\ k \in Nat
  BY SentFacts, PacketIds
<1>2. Len(b) \in Nat /\ Len(b) >= 8 + n
  BY LenProperties DEF AtFront
<1>3. \A i \in 1..4 : b[4 + i] = Field(k)[i]
  <2>1. \A i \in 1..4 : convertSendMsg(k, n)[4 + i] = Field(k)[i]
    <3>1. k \in 1..MaxPackets /\ n \in proto.sizes /\ proto \in Protocols
      BY <1>1, Zenon
    <3>2. /\ convertSendMsg(k, n) \in Seq(Nat)
          /\ Len(convertSendMsg(k, n)) = 8 + n
          /\ \A i \in 1..4 : convertSendMsg(k, n)[i] = Field(Announced(proto, n))[i]
          /\ \A i \in 1..4 : convertSendMsg(k, n)[4 + i] = Field(k)[i]
          /\ \A i \in 1..n : convertSendMsg(k, n)[8 + i] = k
      BY <3>1, PacketBytes, Zenon
    <3>3. QED
      BY <3>2, Zenon
  <2>2. \A i \in 1..4 : 4 + i \in 1..(8 + n)
    BY <1>1
  <2>3. QED
    BY <2>1, <2>2 DEF AtFront
<1>4. ReadField(FieldAt(b, 5)) = k
  <2>1. FieldAt(b, 4 + 1) = Field(k)
    <3>1. 4 \in Nat /\ k \in 0..(Word - 1) /\ Len(b) >= 4 + 4
      BY <1>1, <1>2
    <3>2. QED
      BY <1>3, <3>1, HeaderBytes, Zenon
  <2>2. k \in 0..(Word - 1)
    BY <1>1, Zenon
  <2>3. ReadField(FieldAt(b, 4 + 1)) = k
    BY <2>1, <2>2, FieldReadBack, Zenon
  <2>4. 4 + 1 = 5
    OBVIOUS
  <2>5. QED
    BY <2>3, <2>4, Zenon
<1>5. ReadField(FieldAt(b, 1)) = Announced(proto, n)
  <2>1. \A i \in 1..4 : i \in 1..(8 + n)
    BY <1>1
  <2>2. Len(b) >= 4 /\ \A i \in 1..4 : b[i] = convertSendMsg(k, n)[i]
    BY <1>1, <1>2, <2>1 DEF AtFront
  <2>3. QED
    BY <2>2, FrontHeader
<1>6. /\ len \in Nat /\ n <= len
      /\ proto.announced = "total" \/ len = n
  <2>1. Announced(proto, n) = n \/ (proto.announced = "total" /\ Announced(proto, n) = n + 8)
    BY <1>1, GoodSizes DEF Announced
  <2>2. QED
    BY <1>1, <2>1
<1> HIDE DEF n, len
<1>7. convertReceiveMsg(b) = [id |-> k, body |-> [i \in 1..len |-> At(b, 8 + i)]]
  BY <1>4, <1>5 DEF convertReceiveMsg, len
<1> DEFINE body == [i \in 1..len |-> At(b, 8 + i)]
<1>8. Len(body) = len /\ \A i \in 1..len : body[i] = At(b, 8 + i)
  BY <1>6
<1>9. Len(Body(k, n)) = n /\ \A i \in 1..n : Body(k, n)[i] = k
  BY <1>1, BodySeq
<1>10. ASSUME NEW i \in 1..len
       PROVE  At(b, 8 + i) = At(Body(k, n), i)
  <2>1. CASE i <= n
    <3>1. 8 + i \in 1..(8 + n) /\ 8 + i <= Len(b) /\ i \in 1..n
      BY <1>1, <1>2, <1>6, <2>1
    <3>2. b[8 + i] = k
      <4>1. \A j \in 1..n : convertSendMsg(k, n)[8 + j] = k
        BY <1>1, PacketBytes
      <4>2. QED
        BY <3>1, <4>1 DEF AtFront, n
    <3>3. QED
      BY <1>9, <2>1, <3>1, <3>2 DEF At
  <2>2. CASE ~(i <= n)
    <3>1. Len(b) = 8 + n
      BY <1>1, <1>6, <2>2 DEF AtFront, n
    <3>2. ~(8 + i <= Len(b))
      BY <1>1, <1>6, <2>2, <3>1
    <3>3. QED
      BY <1>9, <2>2, <3>2 DEF At
  <2>3. QED
    BY <2>1, <2>2
<1>11. QED
  BY <1>1, <1>6, <1>7, <1>8, <1>9, <1>10 DEF Carries

-----------------------------------------------------------------------------
(* Where Receive stands in the stream. *)

LEMMA FlightFacts ==
    ASSUME NEW S, NEW pos, NEW f, Len(S) \in Nat, Flight(S, pos, f)
    PROVE  /\ Len(flight) \in Nat
           /\ f[1] \in 0..Len(S) /\ f[1] \in Nat /\ f[1] <= Len(S) /\ Cut(pos, f[1])
           /\ flight = <<>> => f[1] = Len(S)
<1>1. Len(flight) \in Nat /\ (flight = <<>> => Len(flight) = 0)
  BY LenProperties DEF Flight
<1>2. 1 \in 1..(Len(flight) + 1)
  BY <1>1
<1>3. f[1] \in 0..Len(S) /\ Cut(pos, f[1])
  BY <1>2 DEF Flight
<1>4. ASSUME flight = <<>>
      PROVE  f[1] = Len(S)
  <2>1. Len(flight) + 1 = 1
    BY <1>1, <1>4
  <2>2. f[Len(flight) + 1] = Len(S)
    BY DEF Flight
  <2>3. QED
    BY <2>1, <2>2
<1>5. QED
  BY <1>1, <1>3, <1>4

(* Behind packet c comes all of the next header, and maybe more, up to a.  *)
NextPacket(S, pos, c, a) ==
    /\ c < Len(sent) /\ c + 1 \in 1..Len(sent)
    /\ pos[c] \in Nat /\ pos[c + 1] = pos[c] + 8 + Size(c + 1) /\ Size(c + 1) \in Nat
    /\ pos[c] + 8 <= a
    /\ proto.whole => \E k \in (c + 1)..Len(sent) : a = pos[k]
    /\ \A i \in 1..(8 + Size(c + 1)) : S[pos[c] + i] = convertSendMsg(c + 1, Size(c + 1))[i]

LEMMA PacketBehind ==
    ASSUME GoodProtocols, SentInv, NEW S, NEW pos, NEW a \in Nat, NEW c \in 0..Len(sent),
           Stream(S, pos), Cut(pos, a), a <= Len(S), pos[c] < a
    PROVE  NextPacket(S, pos, c, a)
<1> USE DEF NextPacket
<1>1. /\ Len(sent) \in Nat /\ c \in Nat
      /\ \A j, k \in 0..Len(sent) : j <= k => pos[j] <= pos[k]
      /\ \A k \in 0..Len(sent) : pos[k] \in Nat
      /\ pos[Len(sent)] = Len(S)
  <2>1. Len(sent) \in Nat /\ c \in Nat
    BY SentFacts
  <2>2. QED
    BY <2>1, Zenon DEF Stream
<1>2. c < Len(sent) /\ c + 1 \in 1..Len(sent) /\ c + 1 \in 0..Len(sent) /\ (c + 1) - 1 = c
  BY <1>1
<1>3. /\ pos[c + 1] = pos[c] + 8 + Size(c + 1)
      /\ \A i \in 1..(8 + Size(c + 1)) : S[pos[c] + i] = convertSendMsg(c + 1, Size(c + 1))[i]
  <2>1. /\ pos[c + 1] = pos[(c + 1) - 1] + 8 + Size(c + 1)
        /\ \A i \in 1..(8 + Size(c + 1)) :
              S[pos[(c + 1) - 1] + i] = convertSendMsg(c + 1, Size(c + 1))[i]
    BY <1>2, Zenon DEF Stream
  <2>2. QED
    BY <1>2, <2>1
<1>4. Size(c + 1) \in Nat
  BY <1>2, SentFacts
<1>5. PICK k \in 0..Len(sent) :
        \/ a = pos[k]
        \/ ~proto.whole /\ k < Len(sent) /\ a \in (pos[k] + 8)..pos[k + 1]
  BY DEF Cut
<1>6. CASE a = pos[k]
  <2>1. ~(k <= c)
    BY <1>1, <1>6
  <2>2. c + 1 <= k /\ k \in (c + 1)..Len(sent)
    BY <1>1, <2>1
  <2>3. pos[c + 1] <= a
    BY <1>1, <1>2, <1>6, <2>2
  <2>4. pos[c] + 8 <= a
    BY <1>1, <1>2, <1>3, <1>4, <2>3
  <2>5. QED
    BY <1>1, <1>2, <1>3, <1>4, <1>6, <2>2, <2>4
<1>7. CASE ~proto.whole /\ k < Len(sent) /\ a \in (pos[k] + 8)..pos[k + 1]
  <2>1. k \in Nat /\ k + 1 \in 0..Len(sent) /\ pos[k] + 8 <= a /\ a <= pos[k + 1]
    BY <1>1, <1>7
  <2>2. ~(k + 1 <= c)
    BY <1>1, <2>1
  <2>3. pos[c] <= pos[k]
    BY <1>1, <2>1, <2>2
  <2>4. pos[c] + 8 <= a
    BY <1>1, <2>1, <2>3
  <2>5. QED
    BY <1>1, <1>2, <1>3, <1>4, <1>7, <2>4
<1>8. QED
  BY <1>5, <1>6, <1>7

(* recv, asked for m bytes, moved n from the wire to the buffer.           *)
Moved(S, p, a, m, lb, lw, n) ==
    /\ Len(buf) = lb /\ Len(wire) = lw /\ p + lb + lw = a
    /\ lw <= m => n = lw
    /\ m <= lw => n = m
    /\ n <= m
    /\ buf' \in Seq(Nat) /\ Len(buf') = lb + n
    /\ total' = total + n
    /\ Len(wire') = lw - n
    /\ Arrived(S, a)' /\ p + Len(buf') + Len(wire') = a
    /\ \A i \in 1..Len(buf') : buf'[i] = S[p + i]

LEMMA RecvMoves ==
    ASSUME NEW S, NEW p \in Nat, NEW a \in Nat, NEW m \in Nat \ {0},
           buf \in Seq(Nat), Arrived(S, a), p + Len(buf) + Len(wire) = a,
           \A i \in 1..Len(buf) : buf[i] = S[p + i],
           Recv(m)
    PROVE  \E lb \in Nat, lw \in Nat \ {0} : \E n \in 1..lw : Moved(S, p, a, m, lb, lw, n)
<1>1. wire \in Seq(Nat) /\ Len(wire) \in Nat /\ Len(wire) # 0 /\ Len(buf) \in Nat
  BY LenProperties, EmptySeq DEF Arrived, Recv
<1>2. PICK lb \in Nat, lw \in Nat : Len(buf) = lb /\ Len(wire) = lw /\ lw # 0
  BY <1>1, Zenon
<1>3. PICK n \in 0..lw :
        /\ n = AtMost(m, wire) /\ n \in 1..m /\ n \in 1..lw
        /\ lw <= m => n = lw
        /\ m <= lw => n = m
  <2>1. AtMost(m, wire) = IF m < lw THEN m ELSE lw
    BY <1>2, Zenon DEF AtMost
  <2>2. QED
    BY <1>2, <2>1
<1>4. p + lb + lw = a
  BY <1>2, Zenon
<1>5. n \in 0..Len(wire)
  BY <1>2, <1>3, Zenon
<1>6. /\ First(wire, n) \in Seq(Nat) /\ Len(First(wire, n)) = n
      /\ \A i \in 1..n : First(wire, n)[i] = wire[i]
      /\ Rest(wire, n) \in Seq(Nat) /\ Len(Rest(wire, n)) = Len(wire) - n
      /\ \A i \in 1..(Len(wire) - n) : Rest(wire, n)[i] = wire[n + i]
  BY <1>1, <1>5, FirstRest, Zenon
<1>7. /\ buf \o First(wire, n) \in Seq(Nat)
      /\ Len(buf \o First(wire, n)) = Len(buf) + Len(First(wire, n))
      /\ \A i \in 1..Len(buf) : (buf \o First(wire, n))[i] = buf[i]
      /\ \A i \in 1..Len(First(wire, n)) :
            (buf \o First(wire, n))[Len(buf) + i] = First(wire, n)[i]
  BY <1>6, Concat, Zenon
<1>8. buf' = buf \o First(wire, n) /\ total' = total + n /\ wire' = Rest(wire, n)
  BY <1>3, Zenon DEF Recv
<1>9. /\ buf' \in Seq(Nat) /\ Len(buf') = lb + n
      /\ \A i \in 1..lb : buf'[i] = buf[i]
      /\ \A i \in 1..n : buf'[lb + i] = First(wire, n)[i]
  BY <1>2, <1>6, <1>7, <1>8, Zenon
<1>10. /\ wire' \in Seq(Nat) /\ Len(wire') = lw - n
       /\ \A i \in 1..(lw - n) : wire'[i] = wire[n + i]
  BY <1>2, <1>6, <1>8, Zenon
<1>11. \A i \in 1..n : buf'[lb + i] = wire[i]
  BY <1>6, <1>9, Zenon
<1>12. \A i \in 1..lw : wire[i] = S[p + lb + i]
  <2>1. a - lw = p + lb
    BY <1>4
  <2>2. \A i \in 1..lw : wire[i] = S[a - lw + i]
    BY <1>2, Zenon DEF Arrived
  <2>3. QED
    BY <2>1, <2>2, Zenon
<1>13. \A i \in 1..lb : buf[i] = S[p + i]
  BY <1>2, Zenon
<1>14. ASSUME NEW i \in 1..(lb + n)
       PROVE  buf'[i] = S[p + i]
  <2>1. CASE i <= lb
    <3>1. i \in 1..lb
      BY <2>1
    <3>2. QED
      BY <1>9, <1>13, <3>1, Zenon
  <2>2. CASE ~(i <= lb)
    <3>1. i - lb \in 1..n /\ i - lb \in 1..lw /\ lb + (i - lb) = i /\ p + lb + (i - lb) = p + i
      BY <2>2
    <3>2. buf'[lb + (i - lb)] = wire[i - lb] /\ wire[i - lb] = S[p + lb + (i - lb)]
      BY <1>11, <1>12, <3>1, Zenon
    <3>3. QED
      BY <3>1, <3>2, Zenon
  <2>3. QED
    BY <2>1, <2>2
<1>15. ASSUME NEW i \in 1..(lw - n)
       PROVE  wire'[i] = S[p + (lb + n) + i]
  <2>1. n + i \in 1..lw /\ p + lb + (n + i) = p + (lb + n) + i
    OBVIOUS
  <2>2. wire'[i] = wire[n + i] /\ wire[n + i] = S[p + lb + (n + i)]
    BY <1>10, <1>12, <2>1, Zenon
  <2>3. QED
    BY <2>1, <2>2, Zenon
<1>16. /\ lw - n <= a /\ a - (lw - n) = p + (lb + n) /\ p + (lb + n) + (lw - n) = a
       /\ n <= m /\ lw \in Nat \ {0}
  <2>1. lw # 0 /\ n \in 1..m
    BY <1>2, <1>3, Zenon
  <2>2. QED
    BY <1>4, <2>1
<1>17. Arrived(S, a)'
  <2>1. Len(wire') <= a
    BY <1>10, <1>16, Zenon
  <2>2. \A i \in 1..Len(wire') : wire'[i] = S[a - Len(wire') + i]
    BY <1>10, <1>15, <1>16, Zenon
  <2>3. QED
    BY <1>10, <2>1, <2>2, Zenon DEF Arrived
<1>18. p + Len(buf') + Len(wire') = a
  BY <1>9, <1>10, <1>16, Zenon
<1>19. \A i \in 1..Len(buf') : buf'[i] = S[p + i]
  BY <1>9, <1>14, Zenon
<1>20. /\ Len(buf) = lb /\ Len(wire) = lw /\ p + lb + lw = a
       /\ lw <= m => n = lw
       /\ m <= lw => n = m
       /\ n <= m /\ n \in 1..lw /\ lb \in Nat /\ lw \in Nat \ {0}
       /\ total' = total + n
  BY <1>2, <1>3, <1>4, <1>8, <1>16, Zenon
<1>21. QED
  BY <1>9, <1>10, <1>17, <1>18, <1>19, <1>20, Zenon DEF Moved

-----------------------------------------------------------------------------
(* Steps that leave parts of the state alone. *)

LEMMA SentSame ==
    ASSUME SentInv, UNCHANGED <<proto, sent>>
    PROVE  /\ SentInv'
           /\ \A k : Size(k)' = Size(k)
           /\ \A S, pos : Stream(S, pos) => Stream(S, pos)'
<1>1. \A k : Size(k)' = Size(k)
  BY DEF Size
<1>2. \A k, n : convertSendMsg(k, n)' = convertSendMsg(k, n)
  BY DEF convertSendMsg, Body
<1>3. SentInv'
  BY DEF SentInv, Size
<1>4. ASSUME NEW S, NEW pos, Stream(S, pos)
      PROVE  Stream(S, pos)'
  BY <1>1, <1>2, <1>4 DEF Stream
<1>5. QED
  BY <1>1, <1>3, <1>4

LEMMA FlightSame ==
    ASSUME UNCHANGED <<proto, sent, flight>>
    PROVE  \A S, pos, f : Flight(S, pos, f) => Flight(S, pos, f)'
<1>1. \A pos, x : Cut(pos, x)' <=> Cut(pos, x)
  BY DEF Cut
<1>2. QED
  BY <1>1 DEF Flight

LEMMA PacketsSame ==
    ASSUME UNCHANGED <<proto, sent, received>>
    PROVE  /\ \A m : GoodPackets(m) => GoodPackets(m)'
           /\ \A c : Received(c) => Received(c)'
<1>1. \A m : GoodPackets(m) => GoodPackets(m)'
  BY DEF GoodPackets, Carries, At, Reliable
<1>2. QED
  BY <1>1 DEF Received, Reliable

LEMMA SnapshotSame ==
    ASSUME SentInv, UNCHANGED <<proto, sent, flight, received>>,
           NEW S, NEW pos, NEW f, NEW c, Snapshot(S, pos, f, c),
           Arrived(S, f[1])', Reading(S, pos, c, f[1])'
    PROVE  Snapshot(S, pos, f, c)'
BY SentSame, FlightSame, PacketsSame, Zenon DEF Snapshot

LEMMA ReceiveType ==
    ASSUME conn # "reset", ReceiveInv, UNCHANGED <<conn, received>>,
           NEW l \in Nat, l <= BufSize, buf' \in Seq(Nat), Len(buf') = l, total' = l,
           phase' \in {"id", "rest", "return", "ended"}, uMaxSize' \in 1..(Word - 1)
    PROVE  ReceiveInv'
<1>1. l \in -3..l /\ l >= -1 /\ l >= -2
  OBVIOUS
<1>2. QED
  BY <1>1, Zenon DEF ReceiveInv

(* What IInv says of the state of a connection that was not reset. *)
LEMMA SnapshotFacts ==
    ASSUME GoodProtocols, SentInv, NEW S, NEW pos, NEW f, NEW c, Snapshot(S, pos, f, c)
    PROVE  /\ Stream(S, pos) /\ Flight(S, pos, f) /\ Arrived(S, f[1])
           /\ Reading(S, pos, c, f[1]) /\ Received(c)
           /\ Len(S) \in Nat /\ Len(S) <= BufSize
           /\ f[1] \in Nat /\ f[1] <= Len(S) /\ Cut(pos, f[1])
           /\ flight = <<>> => f[1] = Len(S)
           /\ c \in 0..Len(sent) /\ pos[c] \in Nat
           /\ pos[c] + Len(buf) + Len(wire) = f[1]
           /\ \A i \in 1..Len(buf) : buf[i] = S[pos[c] + i]
<1>1. /\ Stream(S, pos) /\ Flight(S, pos, f) /\ Arrived(S, f[1])
      /\ Reading(S, pos, c, f[1]) /\ Received(c)
  BY Zenon DEF Snapshot
<1>2. Len(S) \in Nat /\ Len(S) <= BufSize /\ \A k \in 0..Len(sent) : pos[k] \in Nat
  BY <1>1, StreamFits, Zenon
<1>3. f[1] \in Nat /\ f[1] <= Len(S) /\ Cut(pos, f[1]) /\ (flight = <<>> => f[1] = Len(S))
  BY <1>1, <1>2, FlightFacts, Zenon
<1>4. /\ c \in 0..Len(sent) /\ pos[c] + Len(buf) + Len(wire) = f[1]
      /\ \A i \in 1..Len(buf) : buf[i] = S[pos[c] + i]
  BY <1>1, Zenon DEF Reading
<1>5. QED
  BY <1>1, <1>2, <1>3, <1>4, Zenon

-----------------------------------------------------------------------------
(* The steps of Receive. *)

LEMMA ResetSame ==
    ASSUME conn = "reset", ResetInv,
           UNCHANGED <<proto, sent, flight, wire, conn, buf, received>>
    PROVE  ResetInv' /\ StreamInv'
<1>1. /\ wire' = <<>> /\ flight' = <<>> /\ conn' = "reset"
      /\ GoodPackets(Len(received) - 1)
      /\ buf = <<>> \/ GoodPackets(Len(received))
  BY DEF ResetInv
<1>2. Len(received') = Len(received) /\ buf' = buf
  OBVIOUS
<1>3. /\ GoodPackets(Len(received) - 1)'
      /\ buf' = <<>> \/ GoodPackets(Len(received))'
  BY <1>1, <1>2, PacketsSame
<1>4. QED
  BY <1>1, <1>3 DEF ResetInv, StreamInv

LEMMA ResetEmpty == ASSUME conn = "reset", ResetInv PROVE wire = <<>>
BY DEF ResetInv

LEMMA RecvSizeInv ==
    ASSUME GoodProtocols, IInv, RecvSize
    PROVE  IInv'
<1>1. SentInv /\ ReceiveInv /\ ResetInv /\ StreamInv
  BY DEF IInv
<1>2. /\ UNCHANGED <<proto, sent, flight, conn, received>>
      /\ phase' = "id" /\ buf = <<>> /\ total = 0
      /\ Recv(4) \/ RecvFails
      /\ uMaxSize' = LET nTotalSize == ReadSize(FieldAt(buf', 1)) IN
                     IF nTotalSize > 0 THEN nTotalSize ELSE BufSize
  BY <1>1 DEF RecvSize, Recv, RecvFails, SetMaxSize, ReceiveInv
<1>3. SentInv'
  BY <1>1, <1>2, SentSame
<1>4. CASE conn = "reset"
  <2>1. wire = <<>>
    BY <1>1, <1>4, ResetEmpty
  <2>2. total' = -1 /\ wire' = wire /\ buf' = buf
    BY <1>2, <2>1 DEF Recv, RecvFails
  <2>3. uMaxSize' = BufSize
    <3>1. FieldAt(buf', 1) = FieldAt(<<>>, 1)
      BY <1>2, <2>2
    <3>2. ~(ReadSize(FieldAt(buf', 1)) > 0)
      BY <3>1, NoHeader
    <3>3. QED
      BY <1>2, <3>2
  <2>4. uMaxSize' \in 1..(Word - 1)
    BY <2>3 DEF GoodProtocols
  <2>5. Len(buf) = 0 /\ -1 \in -3..0
    BY <1>2
  <2>6. ReceiveInv'
    BY <1>1, <1>2, <1>4, <2>2, <2>4, <2>5 DEF ReceiveInv
  <2>7. QED
    BY <1>2, <1>3, <1>4, <1>1, <2>2, <2>6, ResetSame DEF IInv
<1>5. CASE conn # "reset"
  <2>1. Recv(4)
    BY <1>2, <1>5 DEF RecvFails
  <2>2. PICK S, pos, f, c : Snapshot(S, pos, f, c)
    BY <1>1, <1>5 DEF StreamInv
  <2>3. /\ Stream(S, pos) /\ Flight(S, pos, f) /\ Arrived(S, f[1])
        /\ Reading(S, pos, c, f[1]) /\ Received(c)
        /\ Len(S) \in Nat /\ Len(S) <= BufSize
        /\ f[1] \in Nat /\ f[1] <= Len(S) /\ Cut(pos, f[1])
        /\ c \in 0..Len(sent) /\ pos[c] \in Nat
        /\ pos[c] + Len(buf) + Len(wire) = f[1]
        /\ \A i \in 1..Len(buf) : buf[i] = S[pos[c] + i]
    BY <1>1, <2>2, SnapshotFacts
  <2>4. PICK lb \in Nat, lw \in Nat \ {0} : \E n \in 1..lw :
          Moved(S, pos[c], f[1], 4, lb, lw, n)
    <3>1. buf \in Seq(Nat)
      BY <1>1 DEF ReceiveInv
    <3>2. 4 \in Nat \ {0}
      OBVIOUS
    <3>3. QED
      BY <2>1, <2>3, <3>1, <3>2, RecvMoves
  <2>5. lb = 0 /\ Len(wire) = lw /\ pos[c] + lb + lw = f[1]
    BY <1>2, <2>4 DEF Moved
  <2>6. pos[c] < f[1]
    BY <2>3, <2>4, <2>5
  <2>7. NextPacket(S, pos, c, f[1])
    BY <1>1, <2>3, <2>6, PacketBehind
  <2>8. 4 <= lw /\ 0 + 4 = 4
    BY <2>3, <2>4, <2>5, <2>7 DEF NextPacket
  <2>9. /\ buf' \in Seq(Nat) /\ Len(buf') = 4 /\ total' = 4
        /\ Arrived(S, f[1])' /\ pos[c] + Len(buf') + Len(wire') = f[1]
        /\ \A i \in 1..4 : buf'[i] = S[pos[c] + i]
    BY <1>2, <2>4, <2>5, <2>8, Zenon DEF Moved
  <2>10. \A i \in 1..4 : buf'[i] = convertSendMsg(c + 1, Size(c + 1))[i]
    <3>1. \A i \in 1..4 : i \in 1..(8 + Size(c + 1))
      BY <2>7 DEF NextPacket
    <3>2. QED
      BY <2>7, <2>9, <3>1, Zenon DEF NextPacket
  <2>11. uMaxSize' = Announced(proto, Size(c + 1)) /\ uMaxSize' \in 1..(Word - 1)
    <3>1. Len(buf') >= 4
      BY <2>9
    <3>2. /\ ReadSize(FieldAt(buf', 1)) = Announced(proto, Size(c + 1))
          /\ Announced(proto, Size(c + 1)) \in 1..(Word - 1)
      BY <1>1, <2>7, <2>9, <2>10, <3>1, FrontHeader, Zenon DEF NextPacket
    <3>3. QED
      BY <1>2, <3>2, Constants
  <2>12. 4 <= BufSize
    BY <2>3, <2>5, <2>8, PacketIds
  <2>13. ReceiveInv'
    BY <1>1, <1>2, <1>5, <2>9, <2>11, <2>12, ReceiveType
  <2>14. Reading(S, pos, c, f[1])'
    BY <1>2, <2>3, <2>7, <2>9, <2>11 DEF NextPacket, Reading, Size, Announced
  <2>15. Snapshot(S, pos, f, c)'
    BY <1>1, <1>2, <2>2, <2>9, <2>14, SnapshotSame, Zenon
  <2>16. ResetInv' /\ StreamInv'
    BY <1>2, <1>5, <2>15 DEF ResetInv, StreamInv
  <2>17. QED
    BY <1>3, <2>13, <2>16 DEF IInv
<1>6. QED
  BY <1>4, <1>5

LEMMA RecvIdInv ==
    ASSUME GoodProtocols, IInv, RecvId
    PROVE  IInv'
<1>1. SentInv /\ ReceiveInv /\ ResetInv /\ StreamInv
  BY DEF IInv
<1>2. /\ UNCHANGED <<proto, sent, flight, conn, uMaxSize, received>>
      /\ phase = "id" /\ phase' = "rest"
      /\ Recv(4) \/ RecvFails
  BY DEF RecvId, Recv, RecvFails
<1>3. SentInv'
  BY <1>1, <1>2, SentSame
<1>4. CASE conn = "reset"
  <2>1. wire = <<>>
    BY <1>1, <1>4, ResetEmpty
  <2>2. total' = total - 1 /\ wire' = wire /\ buf' = buf
    BY <1>2, <2>1 DEF Recv, RecvFails
  <2>3. Len(buf) \in Nat /\ total \in -3..Len(buf) /\ total >= -1
    BY <1>1, <1>2, LenProperties DEF ReceiveInv
  <2>4. total' >= -2 /\ total' \in -3..Len(buf)
    BY <2>2, <2>3
  <2>5. ReceiveInv'
    BY <1>1, <1>2, <1>4, <2>2, <2>4 DEF ReceiveInv
  <2>6. QED
    BY <1>1, <1>2, <1>3, <1>4, <2>2, <2>5, ResetSame DEF IInv
<1>5. CASE conn # "reset"
  <2>1. Recv(4)
    BY <1>2, <1>5 DEF RecvFails
  <2>2. PICK S, pos, f, c : Snapshot(S, pos, f, c)
    BY <1>1, <1>5 DEF StreamInv
  <2>3. /\ Stream(S, pos) /\ Flight(S, pos, f) /\ Arrived(S, f[1])
        /\ Reading(S, pos, c, f[1]) /\ Received(c)
        /\ Len(S) \in Nat /\ Len(S) <= BufSize
        /\ f[1] \in Nat /\ f[1] <= Len(S) /\ Cut(pos, f[1])
        /\ c \in 0..Len(sent) /\ pos[c] \in Nat
        /\ pos[c] + Len(buf) + Len(wire) = f[1]
        /\ \A i \in 1..Len(buf) : buf[i] = S[pos[c] + i]
    BY <1>1, <2>2, SnapshotFacts
  <2>4. PICK lb \in Nat, lw \in Nat \ {0} : \E n \in 1..lw :
          Moved(S, pos[c], f[1], 4, lb, lw, n)
    <3>1. buf \in Seq(Nat)
      BY <1>1 DEF ReceiveInv
    <3>2. 4 \in Nat \ {0}
      OBVIOUS
    <3>3. QED
      BY <2>1, <2>3, <3>1, <3>2, RecvMoves, Zenon
  <2>5. lb = 4 /\ total = 4 /\ Len(wire) = lw /\ pos[c] + lb + lw = f[1]
    BY <1>1, <1>2, <1>5, <2>3, <2>4 DEF Moved, Reading, ReceiveInv
  <2>6. pos[c] < f[1]
    BY <2>3, <2>4, <2>5
  <2>7. NextPacket(S, pos, c, f[1])
    BY <1>1, <2>3, <2>6, PacketBehind
  <2>8. 4 <= lw /\ 4 + 4 = 8
    BY <2>3, <2>4, <2>5, <2>7 DEF NextPacket
  <2>9. /\ buf' \in Seq(Nat) /\ Len(buf') = 8 /\ total' = 8
        /\ Arrived(S, f[1])' /\ pos[c] + Len(buf') + Len(wire') = f[1]
        /\ \A i \in 1..Len(buf') : buf'[i] = S[pos[c] + i]
    BY <1>2, <2>4, <2>5, <2>8, Zenon DEF Moved
  <2>10. 8 <= BufSize /\ 8 \in 8..(8 + Size(c + 1))
    <3>1. /\ pos[c] \in Nat /\ f[1] \in Nat /\ Len(S) \in Nat /\ BufSize \in Nat
          /\ pos[c] + 8 <= f[1] /\ f[1] <= Len(S) /\ Len(S) <= BufSize
          /\ Size(c + 1) \in Nat
      BY <2>3, <2>7, PacketIds, Zenon DEF NextPacket
    <3>2. QED
      BY <3>1
  <2>11. ReceiveInv'
    <3>1. uMaxSize' \in 1..(Word - 1)
      BY <1>1, <1>2 DEF ReceiveInv
    <3>2. QED
      BY <1>1, <1>2, <1>5, <2>9, <2>10, <3>1, ReceiveType
  <2>12. Reading(S, pos, c, f[1])'
    <3>1. c < Len(sent) /\ uMaxSize' = Announced(proto, Size(c + 1))
      BY <1>2, <2>3 DEF Reading
    <3>2. QED
      BY <1>2, <2>3, <2>9, <2>10, <3>1 DEF Reading, Size, Announced
  <2>13. Snapshot(S, pos, f, c)'
    BY <1>1, <1>2, <2>2, <2>9, <2>12, SnapshotSame, Zenon
  <2>14. ResetInv' /\ StreamInv'
    BY <1>2, <1>5, <2>13 DEF ResetInv, StreamInv
  <2>15. QED
    BY <1>3, <2>11, <2>14 DEF IInv
<1>6. QED
  BY <1>4, <1>5

LEMMA RecvHeaderZeroInv ==
    ASSUME GoodProtocols, IInv, RecvHeaderZero
    PROVE  IInv'
<1>1. SentInv /\ ReceiveInv /\ ResetInv /\ StreamInv
  BY DEF IInv
<1>2. /\ UNCHANGED <<proto, sent, flight, wire, conn, buf, total, uMaxSize, received>>
      /\ phase' = "ended"
  BY DEF RecvHeaderZero
<1>3. SentInv' /\ ReceiveInv'
  BY <1>1, <1>2, SentSame DEF ReceiveInv
<1>4. CASE conn = "reset"
  BY <1>1, <1>2, <1>3, <1>4, ResetSame DEF IInv
<1>5. CASE conn # "reset"
  <2>1. PICK S, pos, f, c : Snapshot(S, pos, f, c)
    BY <1>1, <1>5 DEF StreamInv
  <2>2. Arrived(S, f[1]) /\ Reading(S, pos, c, f[1])
    BY <2>1 DEF Snapshot
  <2>3. Arrived(S, f[1])' /\ Reading(S, pos, c, f[1])'
    BY <1>2, <2>2 DEF Arrived, Reading
  <2>4. Snapshot(S, pos, f, c)'
    BY <1>1, <1>2, <2>1, <2>3, SnapshotSame, Zenon
  <2>5. QED
    BY <1>2, <1>3, <1>5, <2>4 DEF IInv, ResetInv, StreamInv
<1>6. QED
  BY <1>4, <1>5

(* Receive has read the header of packet c + 1. *)
LEMMA InRest ==
    ASSUME GoodProtocols, SentInv, ReceiveInv, conn # "reset", phase = "rest",
           NEW S, NEW pos, NEW f, NEW c, Snapshot(S, pos, f, c)
    PROVE  /\ c + 1 \in 1..Len(sent) /\ c < Len(sent)
           /\ Size(c + 1) \in Nat /\ pos[c + 1] = pos[c] + 8 + Size(c + 1)
           /\ total = Len(buf) /\ Len(buf) \in Nat
           /\ \/ /\ proto.announced = "total"
                 /\ uMaxSize = Size(c + 1) + 8 /\ Len(buf) \in 8..(8 + Size(c + 1))
              \/ /\ proto.announced = "body" /\ proto.whole
                 /\ uMaxSize = Size(c + 1) /\ Size(c + 1) \in 1..7 /\ Len(buf) = 8
<1>1. /\ c \in 0..Len(sent) /\ c < Len(sent) /\ uMaxSize = Announced(proto, Size(c + 1))
      /\ IF proto.announced = "total" THEN Len(buf) \in 8..(8 + Size(c + 1)) ELSE Len(buf) = 8
  BY DEF Snapshot, Reading
<1>2. Len(sent) \in Nat /\ MaxPackets \in Nat
  BY SentFacts, PacketIds
<1>3. c + 1 \in 1..Len(sent) /\ (c + 1) - 1 = c
  BY <1>1, <1>2
<1>4. /\ Size(c + 1) \in Nat /\ Size(c + 1) \in proto.sizes /\ proto \in Protocols
      /\ c + 1 \in 1..MaxPackets
  BY <1>3, SentFacts
<1>5. MaxPackets # 0
  BY <1>2, <1>4
<1>6. /\ proto.announced \in {"body", "total"}
      /\ proto.announced = "body" => proto.whole /\ Size(c + 1) \in 1..7
  BY <1>4, <1>5, GoodSizes
<1>7. pos[c + 1] = pos[c] + 8 + Size(c + 1)
  <2>1. pos[c + 1] = pos[(c + 1) - 1] + 8 + Size(c + 1)
    BY <1>3, Zenon DEF Snapshot, Stream
  <2>2. QED
    BY <1>3, <2>1
<1>8. total = Len(buf) /\ Len(buf) \in Nat
  BY LenProperties DEF ReceiveInv
<1>9. Announced(proto, Size(c + 1)) =
         IF proto.announced = "body" THEN Size(c + 1) ELSE Size(c + 1) + 8
  BY DEF Announced
<1>10. CASE proto.announced = "total"
  BY <1>1, <1>3, <1>4, <1>7, <1>8, <1>9, <1>10
<1>11. CASE proto.announced = "body"
  <2>1. Len(buf) = 8 /\ uMaxSize = Size(c + 1)
    BY <1>1, <1>9, <1>11
  <2>2. QED
    BY <1>1, <1>3, <1>4, <1>6, <1>7, <1>8, <1>11, <2>1, Zenon
<1>12. QED
  BY <1>6, <1>10, <1>11

LEMMA RecvRestInv ==
    ASSUME GoodProtocols, IInv, RecvRest
    PROVE  IInv'
<1>1. SentInv /\ ReceiveInv /\ ResetInv /\ StreamInv
  BY DEF IInv
<1>2. /\ UNCHANGED <<proto, sent, flight, conn, uMaxSize, received>>
      /\ phase = "rest"
      /\ phase' = IF total' \in 0..(uMaxSize - 1) THEN "rest" ELSE "return"
      /\ (Wanted > 0 /\ Recv(Wanted)) \/ RecvFails
  BY DEF RecvRest, Recv, RecvFails
<1>3. SentInv'
  BY <1>1, <1>2, SentSame
<1>4. CASE conn = "reset"
  <2>1. wire = <<>>
    BY <1>1, <1>4, ResetEmpty
  <2>2. total' = total - 1 /\ wire' = wire /\ buf' = buf
    BY <1>2, <2>1 DEF Recv, RecvFails
  <2>3. Len(buf) \in Nat /\ total \in -3..Len(buf) /\ total >= -2
    BY <1>1, <1>2, LenProperties DEF ReceiveInv
  <2>4. total' \in -3..Len(buf) /\ (total' \in 0..(uMaxSize - 1) => total' >= -2)
    BY <2>2, <2>3
  <2>5. phase' \in {"rest", "return"} /\ (phase' = "rest" => total' >= -2)
    BY <1>2, <2>4
  <2>6. ReceiveInv'
    BY <1>1, <1>2, <1>4, <2>2, <2>4, <2>5 DEF ReceiveInv
  <2>7. QED
    BY <1>1, <1>2, <1>3, <1>4, <2>2, <2>6, ResetSame DEF IInv
<1>5. CASE conn # "reset"
  <2>1. PICK S, pos, f, c : Snapshot(S, pos, f, c)
    BY <1>1, <1>5 DEF StreamInv
  <2>2. /\ Stream(S, pos) /\ Flight(S, pos, f) /\ Arrived(S, f[1])
        /\ Reading(S, pos, c, f[1]) /\ Received(c)
        /\ Len(S) \in Nat /\ Len(S) <= BufSize
        /\ f[1] \in Nat /\ f[1] <= Len(S) /\ Cut(pos, f[1])
        /\ c \in 0..Len(sent) /\ pos[c] \in Nat
        /\ pos[c] + Len(buf) + Len(wire) = f[1]
        /\ \A i \in 1..Len(buf) : buf[i] = S[pos[c] + i]
    BY <1>1, <2>1, SnapshotFacts
  <2>3. /\ c + 1 \in 1..Len(sent) /\ c < Len(sent)
        /\ Size(c + 1) \in Nat /\ pos[c + 1] = pos[c] + 8 + Size(c + 1)
        /\ total = Len(buf)
        /\ \/ /\ proto.announced = "total"
              /\ uMaxSize = Size(c + 1) + 8 /\ Len(buf) \in 8..(8 + Size(c + 1))
           \/ /\ proto.announced = "body" /\ proto.whole
              /\ uMaxSize = Size(c + 1) /\ Size(c + 1) \in 1..7 /\ Len(buf) = 8
    BY <1>1, <1>2, <1>5, <2>1, InRest
  <2>4. PICK w \in Nat \ {0} : w = Wanted /\ Recv(w)
    <3>1. Recv(Wanted) /\ Wanted > 0
      BY <1>2, <1>5 DEF RecvFails
    <3>2. Wanted \in Int
      BY <1>1, Constants DEF Wanted, ReceiveInv
    <3>3. QED
      BY <3>1, <3>2
  <2>5. PICK lb \in Nat, lw \in Nat \ {0} : \E m \in 1..lw :
          Moved(S, pos[c], f[1], w, lb, lw, m)
    <3>1. buf \in Seq(Nat)
      BY <1>1 DEF ReceiveInv
    <3>2. QED
      BY <2>2, <2>4, <3>1, RecvMoves, Zenon
  <2>6. PICK n \in 1..lw : Moved(S, pos[c], f[1], w, lb, lw, n)
    BY <2>5
  <2>7. /\ Len(buf) = lb /\ pos[c] + lb + lw = f[1]
        /\ lw <= w => n = lw
        /\ n <= w
        /\ buf' \in Seq(Nat) /\ Len(buf') = lb + n /\ total' = lb + n
        /\ Arrived(S, f[1])' /\ pos[c] + Len(buf') + Len(wire') = f[1]
        /\ \A i \in 1..Len(buf') : buf'[i] = S[pos[c] + i]
    BY <2>3, <2>6, Zenon DEF Moved
  <2>8. PICK p \in Nat, a \in Nat, e \in Nat :
           /\ p = pos[c] /\ a = f[1] /\ a <= e /\ e <= BufSize
           /\ p + lb + lw = a /\ BufSize \in Nat
    BY <2>2, <2>7, PacketIds, Zenon
  <2>9. PICK l \in Nat : l = lb + n /\ l <= BufSize
    <3>1. lb + n \in Nat /\ lb + n <= BufSize
      BY <2>8
    <3>2. QED
      BY <3>1
  <2>10. /\ phase' \in {"rest", "return"}
         /\ phase' = "rest" =>
               IF proto.announced = "total" THEN l \in 8..(8 + Size(c + 1)) ELSE l = 8
         /\ phase' = "return" =>
               \E k \in (c + 1)..Len(sent) :
                  pos[c] + l = pos[k] /\ (proto.announced = "total" => k = c + 1)
    <3>1. PICK s \in Nat : s = Size(c + 1) /\ pos[c + 1] = pos[c] + 8 + s
      BY <2>3
    <3>2. phase' = IF l \in 0..(uMaxSize - 1) THEN "rest" ELSE "return"
      BY <1>2, <2>7, <2>9
    <3>3. CASE proto.announced = "total"
      <4>1. uMaxSize = s + 8 /\ lb \in 8..(8 + s) /\ total = lb
        BY <2>3, <2>7, <3>1, <3>3
      <4>2. w = s + 8 - lb
        BY <2>4, <3>1, <4>1 DEF Wanted
      <4>3. l \in 8..(8 + s)
        BY <2>7, <2>9, <4>1, <4>2
      <4>4. CASE l \in 0..(uMaxSize - 1)
        BY <3>1, <3>2, <3>3, <4>3, <4>4
      <4>5. CASE l \notin 0..(uMaxSize - 1)
        <5>1. phase' = "return"
          BY <3>2, <4>5
        <5>2. pos[c] + l = pos[c + 1]
          <6>1. l = 8 + s
            BY <4>1, <4>3, <4>5
          <6>2. p + (8 + s) = p + 8 + s
            OBVIOUS
          <6>3. QED
            BY <2>8, <3>1, <6>1, <6>2
        <5>3. c + 1 \in (c + 1)..Len(sent)
          BY <2>3
        <5>4. QED
          BY <5>1, <5>2, <5>3
      <4>6. QED
        BY <4>4, <4>5
    <3>4. CASE proto.announced = "body"
      <4>1. uMaxSize = s /\ s \in 1..7 /\ lb = 8 /\ total = lb /\ proto.whole
        BY <2>3, <2>7, <3>1, <3>4
      <4>2. w = Word
        BY <2>4, <4>1 DEF Wanted
      <4>3. lw <= w
        <5>1. lw <= BufSize /\ BufSize < Word
          <6>1. lw <= BufSize
            BY <2>8
          <6>2. BufSize \in 1..(Word - 1) /\ Word \in Nat
            BY Constants DEF GoodProtocols
          <6>3. QED
            BY <6>1, <6>2
        <5>2. QED
          BY <4>2, <5>1, PacketIds, Constants
      <4>4. pos[c] + l = f[1] /\ phase' = "return"
        <5>1. n = lw
          BY <2>7, <4>3
        <5>2. l \notin 0..(uMaxSize - 1)
          BY <2>9, <4>1
        <5>3. pos[c] + l = f[1]
          BY <2>2, <2>7, <2>9, <5>1
        <5>4. QED
          BY <3>2, <5>2, <5>3
      <4>5. pos[c] < f[1]
        <5>1. p < a
          BY <2>8
        <5>2. QED
          BY <2>8, <5>1
      <4>6. \E k \in (c + 1)..Len(sent) : f[1] = pos[k]
        <5>1. NextPacket(S, pos, c, f[1])
          BY <1>1, <2>2, <4>5, PacketBehind
        <5>2. QED
          BY <4>1, <5>1 DEF NextPacket
      <4>7. QED
        BY <3>4, <4>4, <4>6
    <3>5. QED
      BY <2>3, <3>3, <3>4
  <2>11. ReceiveInv'
    <3>1. uMaxSize' \in 1..(Word - 1)
      BY <1>1, <1>2 DEF ReceiveInv
    <3>2. buf' \in Seq(Nat) /\ Len(buf') = l /\ total' = l
      BY <2>7, <2>9, Zenon
    <3>3. QED
      BY <1>1, <1>2, <1>5, <2>9, <2>10, <3>1, <3>2, ReceiveType
  <2>12. Reading(S, pos, c, f[1])'
    <3>1. c < Len(sent) /\ uMaxSize' = Announced(proto, Size(c + 1))
      BY <1>2, <2>2 DEF Reading
    <3>2. Len(buf') = l
      BY <2>7, <2>9, Zenon
    <3>3. phase' # "id"
      BY <1>2
    <3>4. c \in 0..Len(sent') /\ c < Len(sent')
      BY <1>2, <2>2, <3>1
    <3>5. Size(c + 1)' = Size(c + 1) /\ Announced(proto, Size(c + 1))' = Announced(proto, Size(c + 1))
      BY <1>2 DEF Size, Announced
    <3>6. /\ phase' = "rest" =>
                IF proto'.announced = "total" THEN Len(buf') \in 8..(8 + Size(c + 1)') ELSE Len(buf') = 8
          /\ phase' = "return" =>
                \E k \in (c + 1)..Len(sent') :
                   pos[c] + Len(buf') = pos[k] /\ (proto'.announced = "total" => k = c + 1)
      BY <1>2, <2>10, <3>2, <3>5
    <3>7. QED
      BY <2>7, <3>1, <3>3, <3>4, <3>5, <3>6, Zenon DEF Reading
  <2>13. Snapshot(S, pos, f, c)'
    BY <1>1, <1>2, <2>1, <2>7, <2>12, SnapshotSame, Zenon
  <2>14. ResetInv' /\ StreamInv'
    BY <1>2, <1>5, <2>13 DEF ResetInv, StreamInv
  <2>15. QED
    BY <1>3, <2>11, <2>14 DEF IInv
<1>6. QED
  BY <1>4, <1>5

LEMMA RecvRestZeroInv ==
    ASSUME GoodProtocols, IInv, RecvRestZero
    PROVE  IInv'
<1>1. SentInv /\ ReceiveInv /\ ResetInv /\ StreamInv
  BY DEF IInv
<1>2. /\ UNCHANGED <<proto, sent, flight, wire, conn, buf, total, uMaxSize, received>>
      /\ phase = "rest" /\ phase' = "return"
      /\ Wanted = 0 \/ RecvZero
  BY DEF RecvRestZero
<1>3. SentInv' /\ ReceiveInv'
  BY <1>1, <1>2, SentSame DEF ReceiveInv
<1>4. CASE conn = "reset"
  BY <1>1, <1>2, <1>3, <1>4, ResetSame DEF IInv
<1>5. CASE conn # "reset"
  <2>1. PICK S, pos, f, c : Snapshot(S, pos, f, c)
    BY <1>1, <1>5 DEF StreamInv
  <2>2. /\ Stream(S, pos) /\ Arrived(S, f[1]) /\ Reading(S, pos, c, f[1])
        /\ Len(S) \in Nat /\ (flight = <<>> => f[1] = Len(S)) /\ pos[c] \in Nat
        /\ pos[c] + Len(buf) + Len(wire) = f[1]
    BY <1>1, <2>1, SnapshotFacts
  <2>3. /\ c + 1 \in 1..Len(sent) /\ c < Len(sent)
        /\ Size(c + 1) \in Nat /\ pos[c + 1] = pos[c] + 8 + Size(c + 1)
        /\ total = Len(buf) /\ Len(buf) \in Nat
        /\ \/ /\ proto.announced = "total"
              /\ uMaxSize = Size(c + 1) + 8 /\ Len(buf) \in 8..(8 + Size(c + 1))
           \/ /\ proto.announced = "body" /\ proto.whole
              /\ uMaxSize = Size(c + 1) /\ Size(c + 1) \in 1..7 /\ Len(buf) = 8
    BY <1>1, <1>2, <1>5, <2>1, InRest
  <2>4. PICK p \in Nat, lb \in Nat, s \in Nat :
          /\ p = pos[c] /\ lb = Len(buf) /\ s = Size(c + 1) /\ pos[c + 1] = p + 8 + s
    BY <2>2, <2>3, Zenon
  <2>5. \/ uMaxSize = s + 8 /\ lb \in 8..(8 + s)
        \/ uMaxSize = s /\ s \in 1..7 /\ lb = 8
    BY <2>3, <2>4, Zenon
  <2>6. lb = 8 + s
    <3>1. CASE Wanted = 0
      <4>1. Wanted = IF uMaxSize >= lb THEN uMaxSize - lb ELSE Word
        BY <2>3, <2>4, Zenon DEF Wanted
      <4>2. Word \in Nat \ {0}
        BY Constants
      <4>3. QED
        BY <2>5, <3>1, <4>1, <4>2
    <3>2. CASE RecvZero
      <4>1. f[1] = Len(S) /\ Len(wire) = 0
        BY <2>2, <3>2 DEF RecvZero
      <4>2. pos[c + 1] <= Len(S)
        <5>1. \A k \in 1..Len(sent) : k \in 0..Len(sent)
          OBVIOUS
        <5>2. QED
          BY <1>1, <2>2, <2>3, <5>1, StreamFits, Zenon
      <4>3. p + 8 + s <= p + lb + 0
        BY <2>2, <2>4, <4>1, <4>2, Zenon
      <4>4. QED
        BY <2>5, <4>3
    <3>3. QED
      BY <1>2, <3>1, <3>2
  <2>7. \E k \in (c + 1)..Len(sent) :
            pos[c] + Len(buf) = pos[k] /\ (proto.announced = "total" => k = c + 1)
    <3>1. c + 1 \in (c + 1)..Len(sent)
      BY <2>3
    <3>2. p + lb = p + 8 + s
      BY <2>6
    <3>3. pos[c] + Len(buf) = pos[c + 1]
      BY <2>4, <3>2, Zenon
    <3>4. QED
      BY <3>1, <3>3, Zenon
  <2>8. Reading(S, pos, c, f[1])'
    BY <1>2, <2>2, <2>3, <2>7 DEF Reading
  <2>9. Arrived(S, f[1])'
    BY <1>2, <2>2 DEF Arrived
  <2>10. Snapshot(S, pos, f, c)'
    BY <1>1, <1>2, <2>1, <2>8, <2>9, SnapshotSame, Zenon
  <2>11. QED
    BY <1>2, <1>3, <1>5, <2>10 DEF IInv, ResetInv, StreamInv
<1>6. QED
  BY <1>4, <1>5

(* Appending to what was received. *)
LEMMA PacketsAppend ==
    ASSUME NEW U, received \in Seq(U), NEW r \in U, received' = Append(received, r),
           UNCHANGED <<proto, sent>>
    PROVE  /\ received' \in Seq(U) /\ Len(received) \in Nat
           /\ Len(received') = Len(received) + 1
           /\ received'[Len(received) + 1] = r
           /\ \A i \in 1..Len(received) : received'[i] = received[i]
           /\ \A m \in 0..Len(received) : GoodPackets(m) => GoodPackets(m)'
<1>1. /\ received' \in Seq(U) /\ Len(received) \in Nat
      /\ Len(received') = Len(received) + 1
      /\ received'[Len(received) + 1] = r
      /\ \A i \in 1..Len(received) : received'[i] = received[i]
  BY AppendProperties, LenProperties
<1>2. ASSUME NEW m \in 0..Len(received), GoodPackets(m)
      PROVE  GoodPackets(m)'
  <2>1. \A i \in 1..m : received'[i] = received[i] /\ \A j \in 1..(i - 1) : received'[j] = received[j]
    BY <1>1
  <2>2. \A i \in 1..m :
          /\ received'[i].id \in 1..Len(sent)
          /\ Carries(received'[i], sent[received'[i].id])
          /\ \A j \in 1..(i - 1) : received'[j].id < received'[i].id
    BY <1>2, <2>1, Zenon DEF GoodPackets
  <2>3. Reliable => \A i \in 1..m : received'[i].id = i
    BY <1>2, <2>1, Zenon DEF GoodPackets
  <2>4. Reliable' <=> Reliable
    BY DEF Reliable
  <2>5. sent' = sent /\ \A x, y : Carries(x, y)' <=> Carries(x, y)
    BY DEF Carries, At
  <2>6. QED
    BY <2>2, <2>3, <2>4, <2>5 DEF GoodPackets
<1>3. QED
  BY <1>1, <1>2

LEMMA GoodFewer ==
    ASSUME NEW m \in Nat, GoodPackets(m)
    PROVE  GoodPackets(m - 1)
<1>1. \A i \in 1..(m - 1) : i \in 1..m
  OBVIOUS
<1>2. QED
  BY <1>1, Zenon DEF GoodPackets

LEMMA ReturnInv ==
    ASSUME GoodProtocols, IInv, Return
    PROVE  IInv'
<1> DEFINE U == {convertReceiveMsg(b) : b \in Seq(Nat)}
<1>1. SentInv /\ ReceiveInv /\ ResetInv /\ StreamInv
  BY DEF IInv
<1>2. /\ UNCHANGED <<proto, sent, flight, wire, conn>>
      /\ phase = "return" /\ phase' \in {"ended", "size"}
      /\ received' = IF total > 0 THEN Append(received, convertReceiveMsg(buf)) ELSE received
      /\ buf' = <<>> /\ total' = 0 /\ uMaxSize' = BufSize
  BY DEF Return
<1>3. SentInv'
  BY <1>1, <1>2, SentSame
<1>4. /\ received \in Seq(U) /\ convertReceiveMsg(buf) \in U
      /\ buf \in Seq(Nat) /\ Len(buf) \in Nat /\ total \in -3..Len(buf)
      /\ Len(received) \in Nat
  BY <1>1, LenProperties DEF ReceiveInv
<1>5. PICK L \in Nat : L = Len(received)
  BY <1>4
<1>6. ReceiveInv'
  <2>1. received' \in Seq(U)
    BY <1>2, <1>4, AppendProperties
  <2>2. uMaxSize' \in 1..(Word - 1)
    BY <1>2 DEF GoodProtocols
  <2>3. buf' \in Seq(Nat) /\ Len(buf') = 0 /\ 0 <= BufSize /\ 0 \in -3..0
    BY <1>2, PacketIds
  <2>4. phase' # "id" /\ phase' # "rest" /\ phase' \in {"size", "id", "rest", "return", "ended"}
    BY <1>2
  <2>5. conn' \in {"open", "closed", "reset"}
    BY <1>1, <1>2 DEF ReceiveInv
  <2>6. QED
    BY <1>2, <2>1, <2>2, <2>3, <2>4, <2>5, Zenon DEF ReceiveInv
<1>7. CASE conn = "reset"
  <2>1. /\ wire' = <<>> /\ flight' = <<>>
        /\ GoodPackets(L - 1)
        /\ buf = <<>> \/ GoodPackets(L)
    BY <1>1, <1>2, <1>7, <1>5 DEF ResetInv
  <2>2. \E m : m = Len(received') - 1 /\ GoodPackets(m)'
    <3>1. CASE total > 0
      <4>1. received' = Append(received, convertReceiveMsg(buf))
        BY <1>2, <3>1
      <4>2. buf # <<>>
        BY <1>4, <3>1
      <4>3. GoodPackets(L) /\ L \in 0..L /\ L + 1 - 1 = L
        BY <2>1, <4>2
      <4>4. Len(received') = L + 1 /\ GoodPackets(L)'
        BY <1>2, <1>4, <1>5, <4>1, <4>3, PacketsAppend, Zenon
      <4>5. QED
        BY <4>3, <4>4
    <3>2. CASE ~(total > 0)
      <4>1. received' = received
        BY <1>2, <3>2
      <4>2. GoodPackets(L - 1)'
        BY <1>2, <2>1, <4>1, PacketsSame
      <4>3. QED
        BY <1>5, <4>1, <4>2
    <3>3. QED
      BY <3>1, <3>2
  <2>3. ResetInv' /\ StreamInv'
    BY <1>2, <1>7, <2>1, <2>2 DEF ResetInv, StreamInv
  <2>4. QED
    BY <1>3, <1>6, <2>3 DEF IInv
<1>8. CASE conn # "reset"
  <2>1. PICK S, pos, f, c : Snapshot(S, pos, f, c)
    BY <1>1, <1>8 DEF StreamInv
  <2>2. /\ Stream(S, pos) /\ Flight(S, pos, f) /\ Arrived(S, f[1])
        /\ Reading(S, pos, c, f[1]) /\ Received(c)
        /\ c \in 0..Len(sent) /\ pos[c] \in Nat
        /\ pos[c] + Len(buf) + Len(wire) = f[1]
        /\ \A i \in 1..Len(buf) : buf[i] = S[pos[c] + i]
    BY <1>1, <2>1, SnapshotFacts
  <2>3. PICK k \in (c + 1)..Len(sent) :
            pos[c] + Len(buf) = pos[k] /\ (proto.announced = "total" => k = c + 1)
    BY <1>2, <2>2 DEF Reading
  <2>4. /\ Len(sent) \in Nat /\ c \in Nat /\ c + 1 \in 1..Len(sent) /\ c + 1 \in 0..Len(sent)
        /\ k \in Nat /\ k \in 1..Len(sent) /\ k \in 0..Len(sent) /\ c + 1 <= k /\ (c + 1) - 1 = c
    <3>1. Len(sent) \in Nat
      BY <1>1, SentFacts
    <3>2. QED
      BY <2>2, <2>3, <3>1
  <2>5. /\ pos[c + 1] = pos[c] + 8 + Size(c + 1) /\ pos[c + 1] <= pos[k]
        /\ \A i \in 1..(8 + Size(c + 1)) :
              S[pos[c] + i] = convertSendMsg(c + 1, Size(c + 1))[i]
    <3>1. /\ pos[c + 1] = pos[(c + 1) - 1] + 8 + Size(c + 1)
          /\ \A i \in 1..(8 + Size(c + 1)) :
                S[pos[(c + 1) - 1] + i] = convertSendMsg(c + 1, Size(c + 1))[i]
      BY <2>2, <2>4, Zenon DEF Stream
    <3>2. pos[c + 1] <= pos[k]
      BY <2>2, <2>4, Zenon DEF Stream
    <3>3. QED
      BY <2>4, <3>1, <3>2, Zenon
  <2>6. PICK p \in Nat, lb \in Nat, s \in Nat :
          /\ p = pos[c] /\ lb = Len(buf) /\ s = Size(c + 1)
          /\ p + 8 + s <= p + lb
          /\ proto.announced = "total" => p + lb = p + 8 + s
    <3>1. Size(c + 1) \in Nat
      BY <1>1, <2>4, SentFacts
    <3>2. QED
      <4>1. pos[c] + 8 + Size(c + 1) <= pos[c] + Len(buf)
        BY <2>3, <2>5, Zenon
      <4>2. proto.announced = "total" => pos[c] + Len(buf) = pos[c] + 8 + Size(c + 1)
        BY <2>3, <2>5, Zenon
      <4>3. QED
        BY <1>4, <2>2, <3>1, <4>1, <4>2, Zenon
  <2>7. lb >= 8 + s /\ (proto.announced = "total" => lb = 8 + s) /\ \A i \in 1..(8 + s) : i \in 1..lb
    <3>1. p + 8 + s <= p + lb /\ (proto.announced = "total" => p + lb = p + 8 + s)
      BY <2>6, Zenon
    <3>2. QED
      BY <3>1
  <2>8. AtFront(buf, c + 1)
    BY <2>2, <2>5, <2>6, <2>7, Zenon DEF AtFront
  <2>9. PICK r \in U : /\ r = convertReceiveMsg(buf)
                       /\ r.id = c + 1 /\ Carries(r, sent[c + 1])
    BY <1>1, <1>4, <2>4, <2>8, FrontCarried, Zenon
  <2>10. received' = Append(received, r)
    <3>1. total = lb
      BY <1>1, <1>8, <2>6 DEF ReceiveInv
    <3>2. total > 0
      BY <2>7, <3>1
    <3>3. QED
      BY <1>2, <2>9, <3>2
  <2>11. /\ Len(received') = L + 1 /\ received'[L + 1] = r
         /\ \A i \in 1..L : received'[i] = received[i]
         /\ \A m \in 0..L : GoodPackets(m) => GoodPackets(m)'
    BY <1>2, <1>4, <1>5, <2>9, <2>10, PacketsAppend, Zenon
  <2>12. /\ GoodPackets(L) /\ \A i \in 1..L : received[i].id <= c
         /\ Reliable => L = c
         /\ proto.lockstep => Len(sent) <= L + 1
    BY <1>5, <2>2 DEF Received
  <2>13. GoodPackets(L)' /\ GoodPackets(L) /\ \A i \in 1..L : received'[i].id <= c
    <3>1. L \in 0..L
      OBVIOUS
    <3>2. QED
      BY <2>11, <2>12, <3>1, Zenon
  <2>14. \A i \in 1..L :
            /\ received'[i].id \in 1..Len(sent')
            /\ Carries(received'[i], sent'[received'[i].id])
            /\ \A j \in 1..(i - 1) : received'[j].id < received'[i].id
            /\ Reliable' => received'[i].id = i
    BY <2>13, Zenon DEF GoodPackets
  <2>15. /\ received'[L + 1].id = c + 1 /\ c + 1 \in 1..Len(sent')
         /\ Carries(received'[L + 1], sent'[received'[L + 1].id])
    BY <1>2, <2>4, <2>9, <2>11
  <2>16. \A j \in 1..L : received'[j].id < c + 1
    <3>1. \A x \in 1..Len(sent') : x <= c => x < c + 1
      BY <2>4
    <3>2. QED
      BY <2>13, <2>14, <3>1, Zenon
  <2>17. Reliable' => L = c /\ L + 1 = c + 1
    BY <1>2, <2>12 DEF Reliable
  <2>18. GoodPackets(L + 1)'
    <3>1. ASSUME NEW i \in 1..(L + 1)
          PROVE  /\ received'[i].id \in 1..Len(sent')
                 /\ Carries(received'[i], sent'[received'[i].id])
                 /\ \A j \in 1..(i - 1) : received'[j].id < received'[i].id
                 /\ Reliable' => received'[i].id = i
      <4>1. CASE i = L + 1
        <5>1. \A j \in 1..(i - 1) : j \in 1..L
          BY <4>1
        <5>2. QED
          BY <2>15, <2>16, <2>17, <4>1, <5>1, Zenon
      <4>2. CASE i # L + 1
        <5>1. i \in 1..L
          BY <4>2
        <5>2. QED
          BY <2>14, <5>1, Zenon
      <4>3. QED
        BY <4>1, <4>2
    <3>2. QED
      BY <3>1, Zenon DEF GoodPackets
  <2>19. Received(k)'
    <3>1. ASSUME NEW i \in 1..(L + 1)
          PROVE  received'[i].id <= k
      <4>1. CASE i = L + 1
        BY <2>4, <2>15, <4>1
      <4>2. CASE i # L + 1
        <5>1. i \in 1..L
          BY <4>2
        <5>2. received'[i].id <= c /\ received'[i].id \in 1..Len(sent')
          BY <2>13, <2>14, <5>1, Zenon
        <5>3. QED
          BY <2>4, <5>2
      <4>3. QED
        BY <4>1, <4>2
    <3>2. Reliable' => L + 1 = k
      <4>1. ASSUME Reliable'
            PROVE  L + 1 = k
        <5>1. L + 1 = c + 1 /\ (proto.announced = "total" \/ proto.lockstep)
          BY <1>2, <2>17, <4>1 DEF Reliable
        <5>2. CASE proto.announced = "total"
          BY <2>3, <5>1, <5>2
        <5>3. CASE proto.lockstep
          <6>1. Len(sent) <= c + 1
            BY <2>12, <5>1, <5>3
          <6>2. QED
            BY <2>3, <2>4, <5>1, <6>1
        <5>4. QED
          BY <5>1, <5>2, <5>3
      <4>2. QED
        BY <4>1
    <3>3. proto'.lockstep => Len(sent') <= (L + 1) + 1
      <4>1. ASSUME proto.lockstep
            PROVE  Len(sent) <= (L + 1) + 1
        BY <2>4, <2>12, <4>1
      <4>2. QED
        BY <1>2, <4>1
    <3>4. QED
      BY <2>11, <2>18, <3>1, <3>2, <3>3, Zenon DEF Received
  <2>20. Reading(S, pos, k, f[1])'
    <3>1. Len(buf') = 0 /\ wire' = wire
      BY <1>2
    <3>2. pos[k] \in Nat /\ pos[k] + Len(wire) = f[1] /\ pos[k] + 0 = pos[k]
      <4>1. pos[k] \in Nat
        BY <2>2, <2>4, Zenon DEF Stream
      <4>2. QED
        BY <2>2, <2>3, <4>1
    <3>3. /\ k \in 0..Len(sent') /\ pos[k] + Len(buf') + Len(wire') = f[1]
          /\ \A i \in 1..Len(buf') : buf'[i] = S[pos[k] + i]
      BY <1>2, <2>4, <3>1, <3>2
    <3>4. QED
      BY <1>2, <3>3 DEF Reading
  <2>21. Stream(S, pos)' /\ Flight(S, pos, f)' /\ Arrived(S, f[1])'
    <3>1. Stream(S, pos)'
      BY <1>1, <1>2, <2>2, SentSame
    <3>2. Flight(S, pos, f)'
      BY <1>2, <2>2, FlightSame
    <3>3. Arrived(S, f[1])'
      BY <1>2, <2>2 DEF Arrived
    <3>4. QED
      BY <3>1, <3>2, <3>3
  <2>22. Snapshot(S, pos, f, k)'
    BY <2>19, <2>20, <2>21, Zenon DEF Snapshot
  <2>23. ResetInv' /\ StreamInv'
    BY <1>2, <1>8, <2>22 DEF ResetInv, StreamInv
  <2>24. QED
    BY <1>3, <1>6, <2>23 DEF IInv
<1>9. QED
  BY <1>7, <1>8

-----------------------------------------------------------------------------
(* The steps of the sender and of TCP. *)

LEMMA CloseInv ==
    ASSUME GoodProtocols, IInv, Close
    PROVE  IInv'
<1>1. SentInv /\ ReceiveInv /\ ResetInv /\ StreamInv
  BY DEF IInv
<1>2. /\ UNCHANGED <<proto, sent, flight, wire, phase, buf, total, uMaxSize, received>>
      /\ conn # "reset" /\ conn' = "closed"
  BY DEF Close, receiver
<1>3. SentInv' /\ ReceiveInv'
  BY <1>1, <1>2, SentSame DEF ReceiveInv
<1>4. PICK S, pos, f, c : Snapshot(S, pos, f, c)
  BY <1>1, <1>2 DEF StreamInv
<1>5. Arrived(S, f[1])' /\ Reading(S, pos, c, f[1])'
  BY <1>2, <1>4 DEF Snapshot, Arrived, Reading, Size
<1>6. Snapshot(S, pos, f, c)'
  BY <1>1, <1>2, <1>4, <1>5, SnapshotSame, Zenon
<1>7. QED
  BY <1>2, <1>3, <1>6 DEF IInv, ResetInv, StreamInv

LEMMA ResetStepInv ==
    ASSUME GoodProtocols, IInv, Reset
    PROVE  IInv'
<1>1. SentInv /\ ReceiveInv /\ ResetInv /\ StreamInv
  BY DEF IInv
<1>2. /\ UNCHANGED <<proto, sent, phase, buf, total, uMaxSize, received>>
      /\ conn # "reset" /\ conn' = "reset" /\ flight' = <<>> /\ wire' = <<>>
  BY DEF Reset, receiver
<1>3. SentInv' /\ ReceiveInv'
  BY <1>1, <1>2, SentSame DEF ReceiveInv
<1>4. GoodPackets(Len(received)) /\ Len(received) \in Nat
  BY <1>1, <1>2, LenProperties DEF StreamInv, Snapshot, Received, ReceiveInv
<1>5. PICK L \in Nat : L = Len(received) /\ GoodPackets(L) /\ GoodPackets(L - 1)
  BY <1>4, GoodFewer
<1>6. GoodPackets(L)' /\ GoodPackets(L - 1)'
  BY <1>2, <1>5, PacketsSame
<1>7. ResetInv' /\ StreamInv'
  BY <1>2, <1>5, <1>6 DEF ResetInv, StreamInv
<1>8. QED
  BY <1>3, <1>7 DEF IInv

LEMMA ArriveInv ==
    ASSUME GoodProtocols, IInv, Arrive
    PROVE  IInv'
<1>1. SentInv /\ ReceiveInv /\ ResetInv /\ StreamInv
  BY DEF IInv
<1>2. /\ UNCHANGED <<proto, sent, conn, phase, buf, total, uMaxSize, received>>
      /\ flight # <<>> /\ flight' = Tail(flight) /\ wire' = wire \o Head(flight)
  BY DEF Arrive, receiver
<1>3. SentInv' /\ ReceiveInv'
  BY <1>1, <1>2, SentSame DEF ReceiveInv
<1>4. conn # "reset"
  BY <1>1, <1>2 DEF ResetInv
<1>5. PICK S, pos, f, c : Snapshot(S, pos, f, c)
  BY <1>1, <1>4 DEF StreamInv
<1>6. /\ Stream(S, pos) /\ Flight(S, pos, f) /\ Arrived(S, f[1])
      /\ Reading(S, pos, c, f[1]) /\ Received(c)
      /\ Len(S) \in Nat /\ f[1] \in Nat /\ c \in 0..Len(sent) /\ pos[c] \in Nat
      /\ pos[c] + Len(buf) + Len(wire) = f[1]
  BY <1>1, <1>5, SnapshotFacts
<1>7. PICK h \in Seq(Nat) : h = Head(flight) /\ h = flight[1]
  <2>1. flight \in Seq(Seq(Nat))
    BY <1>6, Zenon DEF Flight
  <2>2. QED
    BY <1>2, <2>1, HeadTailProperties
<1>8. PICK lf \in Nat : Len(flight) = lf + 1 /\ Len(flight') = lf
  <2>1. Len(flight) \in Nat \ {0} /\ Len(flight') = Len(flight) - 1
    BY <1>2, <1>6, HeadTailProperties, LenProperties, EmptySeq DEF Flight
  <2>2. \A x \in Nat \ {0} : \E y \in Nat : x = y + 1 /\ x - 1 = y
    <3>1. \A x \in Nat \ {0} : x - 1 \in Nat /\ x = (x - 1) + 1
      OBVIOUS
    <3>2. QED
      BY <3>1
  <2>3. QED
    BY <2>1, <2>2, Zenon
<1>9. /\ flight' \in Seq(Seq(Nat))
      /\ \A n \in 1..lf : flight'[n] = flight[n + 1]
  BY <1>2, <1>6, <1>8, HeadTailProperties DEF Flight
<1>10. /\ f \in [1..(lf + 1 + 1) -> 0..Len(S)] /\ f[lf + 1 + 1] = Len(S)
       /\ \A n \in 1..(lf + 1) :
           /\ f[n + 1] = f[n] + Len(flight[n])
           /\ \A i \in 1..Len(flight[n]) : flight[n][i] = S[f[n] + i]
       /\ \A n \in 1..(lf + 1 + 1) : Cut(pos, f[n])
  BY <1>6, <1>8, Zenon DEF Flight
<1>11. PICK g : g = [n \in 1..(lf + 1) |-> f[n + 1]]
  OBVIOUS
<1>12. Flight(S, pos, g)'
  <2>1. g \in [1..(lf + 1) -> 0..Len(S)] /\ g[lf + 1] = Len(S)
    BY <1>10, <1>11
  <2>2. ASSUME NEW n \in 1..lf
        PROVE  /\ g[n + 1] = g[n] + Len(flight'[n])
               /\ \A i \in 1..Len(flight'[n]) : flight'[n][i] = S[g[n] + i]
    <3>1. n \in 1..(lf + 1) /\ n + 1 \in 1..(lf + 1)
      OBVIOUS
    <3>2. g[n] = f[n + 1] /\ g[n + 1] = f[(n + 1) + 1] /\ flight'[n] = flight[n + 1]
      BY <1>9, <1>11, <3>1
    <3>3. QED
      BY <1>10, <3>1, <3>2, Zenon
  <2>3. \A n \in 1..(lf + 1) : Cut(pos, g[n])
    BY <1>10, <1>11
  <2>4. \A x : Cut(pos, x)' <=> Cut(pos, x)
    BY <1>2 DEF Cut
  <2>5. QED
    BY <1>8, <1>9, <2>1, <2>2, <2>3, <2>4, Zenon DEF Flight
<1>13. PICK lw \in Nat, lh \in Nat, lb \in Nat, p \in Nat, a \in Nat :
         /\ lw = Len(wire) /\ lh = Len(h) /\ lb = Len(buf) /\ p = pos[c] /\ a = f[1]
         /\ p + lb + lw = a /\ lw <= a
  <2>1. Len(wire) \in Nat /\ Len(h) \in Nat /\ Len(buf) \in Nat /\ Len(wire) <= f[1]
    BY <1>1, <1>6, LenProperties DEF Arrived, ReceiveInv
  <2>2. QED
    BY <1>6, <2>1, Zenon
<1>14. g[1] = a + lh /\ \A i \in 1..lh : h[i] = S[a + i]
  <2>1. 1 \in 1..(lf + 1)
    OBVIOUS
  <2>2. f[1 + 1] = f[1] + Len(flight[1]) /\ \A i \in 1..Len(flight[1]) : flight[1][i] = S[f[1] + i]
    BY <1>10, <2>1, Zenon
  <2>3. g[1] = f[1 + 1]
    BY <1>11, <2>1
  <2>4. QED
    BY <1>7, <1>13, <2>2, <2>3, Zenon
<1>15. Arrived(S, a + lh)' /\ Len(wire') = lw + lh
  <2>1. wire \in Seq(Nat) /\ \A i \in 1..lw : wire[i] = S[a - lw + i]
    BY <1>6, <1>13, Zenon DEF Arrived
  <2>2. /\ wire \o h \in Seq(Nat) /\ Len(wire \o h) = Len(wire) + Len(h)
        /\ \A i \in 1..Len(wire) : (wire \o h)[i] = wire[i]
        /\ \A i \in 1..Len(h) : (wire \o h)[Len(wire) + i] = h[i]
    BY <2>1, Concat, Zenon
  <2>3. /\ wire' \in Seq(Nat) /\ Len(wire') = lw + lh
        /\ \A i \in 1..lw : wire'[i] = wire[i]
        /\ \A i \in 1..lh : wire'[lw + i] = h[i]
    BY <1>2, <1>7, <1>13, <2>2, Zenon
  <2>4. (a + lh) - (lw + lh) = a - lw /\ lw + lh <= a + lh
    <3>1. lw <= a
      BY <1>13, Zenon
    <3>2. QED
      BY <3>1
  <2>5. ASSUME NEW i \in 1..(lw + lh)
        PROVE  wire'[i] = S[a - lw + i]
    <3>1. CASE i <= lw
      <4>1. i \in 1..lw
        BY <3>1
      <4>2. QED
        BY <2>1, <2>3, <4>1, Zenon
    <3>2. CASE ~(i <= lw)
      <4>1. PICK j \in 1..lh : i = lw + j /\ a - lw + i = a + j
        <5>1. i - lw \in 1..lh /\ i = lw + (i - lw) /\ a - lw + i = a + (i - lw)
          BY <3>2
        <5>2. QED
          BY <5>1
      <4>2. QED
        BY <1>14, <2>3, <4>1, Zenon
    <3>3. QED
      BY <3>1, <3>2
  <2>6. QED
    BY <2>3, <2>4, <2>5, Zenon DEF Arrived
<1>16. Reading(S, pos, c, a + lh)'
  <2>1. p + lb + (lw + lh) = a + lh
    <3>1. p + lb + lw = a
      BY <1>13, Zenon
    <3>2. QED
      BY <3>1
  <2>2. pos[c] + Len(buf') + Len(wire') = a + lh
    BY <1>2, <1>13, <1>15, <2>1, Zenon
  <2>3. QED
    BY <1>2, <1>6, <2>2 DEF Reading, Size
<1>17. Stream(S, pos)' /\ Received(c)'
  BY <1>1, <1>2, <1>6, SentSame, PacketsSame
<1>18. Snapshot(S, pos, g, c)'
  BY <1>12, <1>14, <1>15, <1>16, <1>17, Zenon DEF Snapshot
<1>19. QED
  BY <1>2, <1>3, <1>4, <1>18 DEF IInv, ResetInv, StreamInv

(* The j-th of the ns segments seg of the bytes P, e of them, begins behind g[j]. *)
Pieces(P, e, seg, ns, g) ==
    /\ seg \in Seq(Seq(Nat)) /\ Len(seg) = ns
    /\ g \in [1..(ns + 1) -> 0..e] /\ g[1] = 0 /\ g[ns + 1] = e
    /\ \A j \in 1..ns :
        /\ g[j + 1] = g[j] + Len(seg[j])
        /\ \A i \in 1..Len(seg[j]) : seg[j][i] = P[g[j] + i]
    /\ \A j \in 1..(ns + 1) : g[j] = 0 \/ g[j] = e \/ (~proto.whole /\ g[j] >= 8)

LEMMA SegmentsPieces ==
    ASSUME NEW P \in Seq(Nat), NEW n \in Nat, Len(P) = 8 + n
    PROVE  \E ns \in Nat \ {0} : \E g : Pieces(P, 8 + n, Segments(P), ns, g)
<1>1. CASE proto.whole
  <2>1. Segments(P) = <<P>>
    BY <1>1 DEF Segments
  <2>2. PICK g : g = [j \in 1..2 |-> IF j = 1 THEN 0 ELSE 8 + n]
    OBVIOUS
  <2>3. g \in [1..(1 + 1) -> 0..(8 + n)] /\ g[1] = 0 /\ g[1 + 1] = 8 + n
    BY <2>2
  <2>4. <<P>> \in Seq(Seq(Nat)) /\ Len(<<P>>) = 1 /\ <<P>>[1] = P
    OBVIOUS
  <2>5. \A j \in 1..1 :
          /\ g[j + 1] = g[j] + Len(<<P>>[j])
          /\ \A i \in 1..Len(<<P>>[j]) : <<P>>[j][i] = P[g[j] + i]
    <3>1. 0 + (8 + n) = 8 + n /\ \A i \in 1..(8 + n) : 0 + i = i
      OBVIOUS
    <3>2. /\ g[1 + 1] = g[1] + Len(<<P>>[1])
          /\ \A i \in 1..Len(<<P>>[1]) : <<P>>[1][i] = P[g[1] + i]
      BY <2>3, <2>4, <3>1, Zenon
    <3>3. \A j \in 1..1 : j = 1
      OBVIOUS
    <3>4. QED
      BY <3>2, <3>3, Zenon
  <2>6. \A j \in 1..(1 + 1) : g[j] = 0 \/ g[j] = 8 + n
    BY <2>2
  <2>7. Pieces(P, 8 + n, <<P>>, 1, g)
    BY <2>3, <2>4, <2>5, <2>6, Zenon DEF Pieces
  <2>8. QED
    BY <2>1, <2>7
<1>2. CASE ~proto.whole
  <2> DEFINE h == First(P, 8)
             t == [i \in 1..n |-> <<P[8 + i]>>]
             seg == <<h>> \o t
  <2>1. h \in Seq(Nat) /\ Len(h) = 8 /\ \A i \in 1..8 : h[i] = P[i]
    <3>1. 8 \in 0..(8 + n)
      OBVIOUS
    <3>2. 8 \in 0..Len(P)
      BY <3>1, Zenon
    <3>3. QED
      BY <3>2, FirstRest, Zenon
  <2>2. t \in Seq(Seq(Nat)) /\ Len(t) = n /\ \A i \in 1..n : t[i] = <<P[8 + i]>>
    <3>1. \A i \in 1..n : P[8 + i] \in Nat
      <4>1. \A i \in 1..n : 8 + i \in 1..(8 + n)
        OBVIOUS
      <4>2. \A i \in 1..Len(P) : P[i] \in Nat
        BY ElementOfSeq
      <4>3. QED
        BY <4>1, <4>2, Zenon
    <3>2. t \in [1..n -> Seq(Nat)]
      BY <3>1
    <3>3. t \in Seq(Seq(Nat)) /\ Len(t) = n
      BY <3>2, SeqDef
    <3>4. QED
      BY <3>3
  <2> HIDE DEF t
  <2>3. PICK s \in Seq(Seq(Nat)) : s = <<h>> /\ Len(s) = 1 /\ s[1] = h
    <3>1. \A x \in Seq(Nat) : <<x>> \in Seq(Seq(Nat)) /\ Len(<<x>>) = 1 /\ <<x>>[1] = x
      OBVIOUS
    <3>2. QED
      BY <2>1, <3>1, Zenon
  <2>4. /\ seg \in Seq(Seq(Nat)) /\ Len(seg) = Len(s) + Len(t)
        /\ \A i \in 1..(Len(s) + Len(t)) :
               seg[i] = IF i <= Len(s) THEN s[i] ELSE t[i - Len(s)]
    <3>1. seg = s \o t
      BY <2>3
    <3>2. \A x, y \in Seq(Seq(Nat)) :
            /\ x \o y \in Seq(Seq(Nat)) /\ Len(x \o y) = Len(x) + Len(y)
            /\ \A i \in 1..(Len(x) + Len(y)) :
                   (x \o y)[i] = IF i <= Len(x) THEN x[i] ELSE y[i - Len(x)]
      BY ConcatProperties, Zenon
    <3>3. s \in Seq(Seq(Nat)) /\ t \in Seq(Seq(Nat))
      BY <2>2
    <3>4. /\ s \o t \in Seq(Seq(Nat)) /\ Len(s \o t) = Len(s) + Len(t)
          /\ \A i \in 1..(Len(s) + Len(t)) :
                 (s \o t)[i] = IF i <= Len(s) THEN s[i] ELSE t[i - Len(s)]
      BY <3>2, <3>3, Zenon
    <3>5. QED
      BY <3>1, <3>4
  <2>5. /\ Len(seg) = 1 + n
        /\ \A i \in 1..(1 + n) : seg[i] = IF i <= 1 THEN h ELSE t[i - 1]
    <3>1. \A i \in 1..(1 + n) : i <= 1 => i = 1
      OBVIOUS
    <3>2. QED
      BY <2>2, <2>3, <2>4, <3>1, Zenon
  <2> HIDE DEF seg, h
  <2>6. PICK g : g = [j \in 1..(1 + n + 1) |-> IF j = 1 THEN 0 ELSE 6 + j]
    OBVIOUS
  <2>7. g \in [1..(1 + n + 1) -> 0..(8 + n)] /\ g[1] = 0 /\ g[1 + n + 1] = 8 + n
    <3>1. g[1 + n + 1] = 6 + (1 + n + 1)
      BY <2>6
    <3>2. QED
      BY <2>6, <3>1
  <2>8. ASSUME NEW j \in 1..(1 + n)
        PROVE  /\ g[j + 1] = g[j] + Len(seg[j])
               /\ \A i \in 1..Len(seg[j]) : seg[j][i] = P[g[j] + i]
    <3>1. CASE j = 1
      <4>1. seg[j] = h /\ g[j] = 0 /\ g[j + 1] = 8
        BY <2>5, <2>6, <3>1
      <4>2. 0 + 8 = 8 /\ \A i \in 1..8 : 0 + i = i
        OBVIOUS
      <4>3. QED
        BY <2>1, <4>1, <4>2, Zenon
    <3>2. CASE j # 1
      <4>1. PICK i \in 1..n : j = i + 1 /\ j - 1 = i
        <5>1. j - 1 \in 1..n /\ j = (j - 1) + 1
          BY <3>2
        <5>2. QED
          BY <5>1
      <4>2. seg[j] = t[i]
        <5>1. ~(j <= 1)
          BY <4>1
        <5>2. QED
          BY <2>5, <4>1, <5>1, Zenon
      <4>3. seg[j] = <<P[8 + i]>> /\ Len(seg[j]) = 1 /\ seg[j][1] = P[8 + i]
        <5>1. \A x : Len(<<x>>) = 1 /\ <<x>>[1] = x
          OBVIOUS
        <5>2. seg[j] = <<P[8 + i]>>
          BY <2>2, <4>2, Zenon
        <5>3. QED
          BY <5>1, <5>2, Zenon
      <4>4. g[j] = 7 + i /\ g[j + 1] = (7 + i) + 1 /\ (7 + i) + 1 = 8 + i
        BY <2>6, <4>1
      <4>5. \A x \in 1..1 : x = 1
        OBVIOUS
      <4>6. QED
        BY <4>3, <4>4, <4>5, Zenon
    <3>3. QED
      BY <3>1, <3>2
  <2>9. \A j \in 1..(1 + n + 1) : g[j] = 0 \/ g[j] >= 8
    BY <2>6
  <2>10. Pieces(P, 8 + n, seg, 1 + n, g)
    BY <1>2, <2>4, <2>5, <2>7, <2>8, <2>9, Zenon DEF Pieces
  <2>11. Segments(P) = seg
    <3>1. Len(P) - 8 = n
      <4>1. (8 + n) - 8 = n
        OBVIOUS
      <4>2. QED
        BY <4>1, Zenon
    <3>2. Segments(P) = <<First(P, 8)>> \o [i \in 1..n |-> <<P[8 + i]>>]
      BY <1>2, <3>1 DEF Segments
    <3>3. QED
      BY <3>2 DEF seg, h, t
  <2>12. 1 + n \in Nat \ {0}
    OBVIOUS
  <2>13. QED
    BY <2>10, <2>11, <2>12, Zenon
<1>3. QED
  BY <1>1, <1>2

(* SendPacket(n) sends P as packet K + 1. *)
Sends(n, K, P) ==
    /\ n \in proto.sizes /\ K \in Nat /\ K = Len(sent) /\ K + 1 \in 1..MaxPackets
    /\ P = convertSendMsg(K + 1, n)
    /\ sent' = Append(sent, [id |-> K + 1, body |-> Body(K + 1, n)])
    /\ flight' = flight \o Segments(P)
    /\ proto.lockstep => Len(received) = K
    /\ conn = "open"
    /\ UNCHANGED <<proto, wire, conn, phase, buf, total, uMaxSize, received>>

LEMMA SentGrows ==
    ASSUME GoodProtocols, SentInv, NEW n, NEW K, NEW P, Sends(n, K, P)
    PROVE  /\ SentInv'
           /\ n \in Nat /\ MaxPackets * (n + 8) <= BufSize
           /\ P \in Seq(Nat) /\ Len(P) = 8 + n
           /\ Len(sent') = K + 1 /\ Size(K + 1)' = n
           /\ \A k \in 1..K : sent'[k] = sent[k] /\ Size(k)' = Size(k)
<1> DEFINE m == [id |-> K + 1, body |-> Body(K + 1, n)]
           T == [id : Nat, body : Seq(Nat)]
<1>1. /\ proto \in Protocols /\ n \in proto.sizes /\ K \in Nat /\ K = Len(sent)
      /\ K + 1 \in 1..MaxPackets /\ MaxPackets # 0 /\ MaxPackets \in Nat /\ K + 1 \in Nat
      /\ P = convertSendMsg(K + 1, n) /\ sent' = Append(sent, m) /\ proto' = proto
  <2>1. K \in Nat /\ K + 1 \in 1..MaxPackets /\ MaxPackets \in Nat
    BY PacketIds DEF Sends
  <2>2. MaxPackets # 0 /\ K + 1 \in Nat
    BY <2>1
  <2>3. QED
    BY <2>1, <2>2 DEF Sends, SentInv
<1>2. n \in Nat /\ MaxPackets * (n + 8) <= BufSize
  BY <1>1, GoodSizes
<1>3. P \in Seq(Nat) /\ Len(P) = 8 + n
  BY <1>1, PacketBytes
<1>4. Body(K + 1, n) \in Seq(Nat) /\ Len(Body(K + 1, n)) = n
  BY <1>1, <1>2, BodySeq
<1>5. m \in T /\ sent \in Seq(T)
  BY <1>1, <1>4 DEF SentInv
<1>6. /\ sent' \in Seq(T) /\ Len(sent') = K + 1 /\ sent'[K + 1] = m
      /\ \A k \in 1..K : sent'[k] = sent[k]
  <2> HIDE DEF m, T
  <2>1. QED
    BY <1>1, <1>5, AppendProperties
<1>7. Size(K + 1)' = n /\ \A k \in 1..K : Size(k)' = Size(k)
  BY <1>4, <1>6 DEF Size
<1>8. ASSUME NEW k \in 1..(K + 1)
      PROVE  /\ Size(k)' \in proto.sizes
             /\ sent'[k] = [id |-> k, body |-> Body(k, Size(k)')]
  <2>1. CASE k = K + 1
    BY <1>1, <1>6, <1>7, <2>1
  <2>2. CASE k # K + 1
    <3>1. k \in 1..K
      BY <1>1, <2>2
    <3>2. Size(k) \in proto.sizes /\ sent[k] = [id |-> k, body |-> Body(k, Size(k))]
      BY <1>1, <3>1 DEF SentInv
    <3>3. QED
      BY <1>6, <1>7, <3>1, <3>2
  <2>3. QED
    BY <2>1, <2>2
<1>9. SentInv'
  <2>1. Len(sent') <= MaxPackets
    BY <1>1, <1>6
  <2>2. \A x, y : Body(x, y)' = Body(x, y)
    BY DEF Body
  <2>3. QED
    BY <1>1, <1>6, <1>8, <2>1, <2>2 DEF SentInv
<1>10. QED
  BY <1>2, <1>3, <1>6, <1>7, <1>9

(* So the stream grows from S to S2. *)
Grows(n, K, P, S, pos, S2, pos2) ==
    /\ Len(S) \in Nat /\ Len(S2) = Len(S) + (8 + n)
    /\ \A i \in 1..Len(S) : S2[i] = S[i]
    /\ \A i \in 1..(8 + n) : S2[Len(S) + i] = P[i]
    /\ pos2[K] = Len(S) /\ pos2[K + 1] = Len(S2)
    /\ \A k \in 0..K : pos2[k] = pos[k]

LEMMA StreamGrows ==
    ASSUME GoodProtocols, SentInv, NEW n, NEW K, NEW P, Sends(n, K, P),
           NEW S, NEW pos, Stream(S, pos)
    PROVE  \E S2, pos2 : Stream(S2, pos2)' /\ Grows(n, K, P, S, pos, S2, pos2)
<1>1. /\ n \in Nat /\ MaxPackets * (n + 8) <= BufSize
      /\ P \in Seq(Nat) /\ Len(P) = 8 + n
      /\ Len(sent') = K + 1 /\ Size(K + 1)' = n
      /\ \A k \in 1..K : Size(k)' = Size(k)
  BY SentGrows
<1>2. K \in Nat /\ K = Len(sent) /\ P = convertSendMsg(K + 1, n) /\ proto' = proto
  BY DEF Sends
<1>3. /\ S \in Seq(Nat) /\ pos \in [0..K -> Nat] /\ pos[0] = 0 /\ pos[K] = Len(S)
      /\ \A j, k \in 0..K : j <= k => pos[j] <= pos[k]
      /\ \A k \in 1..K :
          /\ pos[k] = pos[k - 1] + 8 + Size(k)
          /\ \A i \in 1..(8 + Size(k)) : S[pos[k - 1] + i] = convertSendMsg(k, Size(k))[i]
      /\ \A k \in 0..K : MaxPackets * pos[k] <= k * BufSize
  BY <1>2, Zenon DEF Stream
<1>4. PICK LS \in Nat : LS = Len(S) /\ \A k \in 0..K : pos[k] \in Nat /\ pos[k] <= LS
  <2>1. Len(S) \in Nat /\ \A k \in 0..Len(sent) : pos[k] \in Nat /\ pos[k] <= Len(S)
    BY StreamFits
  <2>2. QED
    BY <1>2, <2>1, Zenon
<1>5. PICK S2 : /\ S2 \in Seq(Nat) /\ Len(S2) = LS + (8 + n)
                /\ \A i \in 1..LS : S2[i] = S[i]
                /\ \A i \in 1..(8 + n) : S2[LS + i] = P[i]
  <2>1. /\ S \o P \in Seq(Nat) /\ Len(S \o P) = Len(S) + Len(P)
        /\ \A i \in 1..Len(S) : (S \o P)[i] = S[i]
        /\ \A i \in 1..Len(P) : (S \o P)[Len(S) + i] = P[i]
    BY <1>1, <1>3, Concat, Zenon
  <2>2. QED
    BY <1>1, <1>4, <2>1, Zenon
<1>6. PICK pos2 : pos2 = [k \in 0..(K + 1) |-> IF k <= K THEN pos[k] ELSE LS + (8 + n)]
  OBVIOUS
<1>7. /\ pos2 \in [0..(K + 1) -> Nat] /\ pos2[0] = 0 /\ pos2[K + 1] = LS + (8 + n)
      /\ \A k \in 0..K : pos2[k] = pos[k]
  <2>1. pos2 \in [0..(K + 1) -> Nat]
    BY <1>1, <1>2, <1>4, <1>6
  <2>2. pos2[K + 1] = LS + (8 + n)
    BY <1>2, <1>6
  <2>3. \A k \in 0..K : pos2[k] = pos[k]
    BY <1>2, <1>6
  <2>4. pos2[0] = 0
    BY <1>2, <1>3, <2>3
  <2>5. QED
    BY <2>1, <2>2, <2>3, <2>4
<1>8. \A k \in 0..(K + 1) : k = K + 1 \/ k \in 0..K
  BY <1>2
<1>9. \A j, k \in 0..(K + 1) : j <= k => pos2[j] <= pos2[k]
  <2>1. ASSUME NEW j \in 0..(K + 1), NEW k \in 0..(K + 1), j <= k
        PROVE  pos2[j] <= pos2[k]
    <3>1. CASE k \in 0..K
      <4>1. j \in 0..K
        BY <1>2, <2>1, <3>1
      <4>2. QED
        BY <1>3, <1>7, <2>1, <3>1, <4>1, Zenon
    <3>2. CASE k = K + 1 /\ j \in 0..K
      <4>1. pos2[j] <= LS /\ pos2[j] \in Nat /\ pos2[k] = LS + (8 + n)
        BY <1>4, <1>7, <3>2
      <4>2. QED
        BY <1>1, <4>1
    <3>3. CASE k = K + 1 /\ j = K + 1
      <4>1. LS + (8 + n) <= LS + (8 + n)
        BY <1>1
      <4>2. QED
        BY <1>7, <3>3, <4>1, Zenon
    <3>4. QED
      BY <1>8, <3>1, <3>2, <3>3
  <2>2. QED
    BY <2>1
<1>10. \A x, y : convertSendMsg(x, y)' = convertSendMsg(x, y)
  BY <1>2 DEF convertSendMsg, Body
<1>11. ASSUME NEW k \in 1..(K + 1)
       PROVE  /\ pos2[k] = pos2[k - 1] + 8 + Size(k)'
              /\ \A i \in 1..(8 + Size(k)') : S2[pos2[k - 1] + i] = convertSendMsg(k, Size(k)')[i]
  <2>1. CASE k = K + 1
    <3>1. k - 1 = K /\ K \in 0..K
      BY <1>2, <2>1
    <3>2. pos2[k - 1] = LS /\ pos2[k] = LS + (8 + n) /\ LS + (8 + n) = LS + 8 + n
      <4>1. pos2[K] = LS
        BY <1>3, <1>4, <1>7, <3>1, Zenon
      <4>2. LS + (8 + n) = LS + 8 + n
        BY <1>1
      <4>3. QED
        BY <1>7, <2>1, <3>1, <4>1, <4>2, Zenon
    <3>3. QED
      BY <1>1, <1>2, <1>5, <2>1, <3>2, Zenon
  <2>2. CASE k # K + 1
    <3>1. k \in 1..K /\ k \in 0..K /\ k - 1 \in 0..K
      BY <1>2, <2>2
    <3>2. PICK s \in Nat : s = Size(k) /\ s = Size(k)'
      <4>1. Size(k) \in Nat
        BY <1>2, <3>1, SentFacts
      <4>2. QED
        BY <1>1, <3>1, <4>1
    <3>3. /\ pos[k] = pos[k - 1] + 8 + s
          /\ \A i \in 1..(8 + s) : S[pos[k - 1] + i] = convertSendMsg(k, s)[i]
      <4>1. /\ pos[k] = pos[k - 1] + 8 + Size(k)
            /\ \A i \in 1..(8 + Size(k)) : S[pos[k - 1] + i] = convertSendMsg(k, Size(k))[i]
        BY <1>3, <3>1
      <4>2. QED
        BY <3>2, <4>1, Zenon
    <3>4. ASSUME NEW i \in 1..(8 + s)
          PROVE  S2[pos[k - 1] + i] = S[pos[k - 1] + i]
      <4>1. pos[k - 1] \in Nat /\ pos[k] <= LS
        BY <1>4, <3>1
      <4>2. pos[k - 1] + i \in 1..LS
        BY <3>3, <4>1
      <4>3. QED
        BY <1>5, <4>2, Zenon
    <3>5. QED
      BY <1>7, <3>1, <3>2, <3>3, <3>4, Zenon
  <2>3. QED
    BY <2>1, <2>2
<1>12. ASSUME NEW k \in 0..(K + 1)
       PROVE  MaxPackets * pos2[k] <= k * BufSize
  <2>1. CASE k \in 0..K
    BY <1>3, <1>7, <2>1, Zenon
  <2>2. CASE k = K + 1
    <3>1. MaxPackets * LS <= K * BufSize
      <4>1. K \in 0..K
        BY <1>2
      <4>2. QED
        BY <1>3, <1>4, <4>1, Zenon
    <3>2. MaxPackets * (n + 8) <= BufSize /\ n + 8 \in Nat /\ n + 8 = 8 + n
      BY <1>1
    <3>3. MaxPackets * (LS + (n + 8)) <= (K + 1) * BufSize
      BY <1>2, <3>1, <3>2, PacketIds, MulSum
    <3>4. QED
      BY <1>7, <2>2, <3>2, <3>3, Zenon
  <2>3. QED
    BY <1>8, <2>1, <2>2
<1>13. Stream(S2, pos2)'
  BY <1>1, <1>5, <1>7, <1>9, <1>10, <1>11, <1>12, Zenon DEF Stream
<1>14. pos2[K] = LS
  <2>1. K \in 0..K
    BY <1>2
  <2>2. QED
    BY <1>3, <1>4, <1>7, <2>1, Zenon
<1>15. Grows(n, K, P, S, pos, S2, pos2)
  BY <1>4, <1>5, <1>7, <1>14, Zenon DEF Grows
<1>16. QED
  BY <1>13, <1>15

(* All that the next lemma is about. *)
GrowsBy(n, K, P, S, pos, f, S2, pos2, ns, g) ==
    /\ n \in Nat /\ K \in Nat /\ ns \in Nat \ {0}
    /\ Sends(n, K, P) /\ Flight(S, pos, f) /\ Grows(n, K, P, S, pos, S2, pos2)
    /\ Pieces(P, 8 + n, Segments(P), ns, g)

LEMMA FlightGrows ==
    ASSUME SentInv, NEW n, NEW K, NEW P, NEW S, NEW pos, NEW f, NEW S2, NEW pos2,
           NEW ns, NEW g, GrowsBy(n, K, P, S, pos, f, S2, pos2, ns, g)
    PROVE  \E f2 : Flight(S2, pos2, f2)' /\ f2[1] = f[1]
<1>0. /\ n \in Nat /\ K \in Nat /\ ns \in Nat \ {0}
      /\ Sends(n, K, P) /\ Flight(S, pos, f) /\ Grows(n, K, P, S, pos, S2, pos2)
      /\ Pieces(P, 8 + n, Segments(P), ns, g)
  BY DEF GrowsBy
<1> USE <1>0
<1>1. PICK seg \in Seq(Seq(Nat)) : seg = Segments(P) /\ Len(seg) = ns
  BY DEF Pieces
<1>2. /\ g \in [1..(ns + 1) -> 0..(8 + n)] /\ g[1] = 0 /\ g[ns + 1] = 8 + n
      /\ \A j \in 1..ns :
          /\ g[j + 1] = g[j] + Len(seg[j])
          /\ \A i \in 1..Len(seg[j]) : seg[j][i] = P[g[j] + i]
      /\ \A j \in 1..(ns + 1) : g[j] = 0 \/ g[j] = 8 + n \/ (~proto.whole /\ g[j] >= 8)
  BY <1>1, Zenon DEF Pieces
<1>3. PICK lf \in Nat, LS \in Nat : lf = Len(flight) /\ LS = Len(S)
  <2>1. Len(flight) \in Nat /\ Len(S) \in Nat
    BY LenProperties DEF Flight, Grows
  <2>2. QED
    BY <2>1, Zenon
<1>4. /\ flight \in Seq(Seq(Nat))
      /\ f \in [1..(lf + 1) -> 0..LS] /\ f[lf + 1] = LS
      /\ \A m \in 1..lf :
          /\ f[m + 1] = f[m] + Len(flight[m])
          /\ \A i \in 1..Len(flight[m]) : flight[m][i] = S[f[m] + i]
      /\ \A m \in 1..(lf + 1) : Cut(pos, f[m])
  BY <1>3, Zenon DEF Flight
<1>5. /\ flight' \in Seq(Seq(Nat)) /\ Len(flight') = lf + ns
      /\ \A m \in 1..(lf + ns) : flight'[m] = IF m <= lf THEN flight[m] ELSE seg[m - lf]
  <2>1. flight' = flight \o seg
    BY <1>1 DEF Sends
  <2>2. /\ flight \o seg \in Seq(Seq(Nat)) /\ Len(flight \o seg) = Len(flight) + Len(seg)
        /\ \A m \in 1..(Len(flight) + Len(seg)) :
              (flight \o seg)[m] = IF m <= Len(flight) THEN flight[m] ELSE seg[m - Len(flight)]
    <3>1. \A s, t \in Seq(Seq(Nat)) :
            /\ s \o t \in Seq(Seq(Nat)) /\ Len(s \o t) = Len(s) + Len(t)
            /\ \A m \in 1..(Len(s) + Len(t)) :
                  (s \o t)[m] = IF m <= Len(s) THEN s[m] ELSE t[m - Len(s)]
      BY ConcatProperties
    <3>2. QED
      BY <1>4, <3>1, Zenon
  <2>3. QED
    BY <1>1, <1>3, <2>1, <2>2, Zenon
<1>6. PICK f2 : f2 = [m \in 1..(lf + ns + 1) |-> IF m <= lf + 1 THEN f[m] ELSE LS + g[m - lf]]
  OBVIOUS
<1>7. \A m \in 1..(lf + 1) : f2[m] = f[m]
  BY <1>6
<1>8. ASSUME NEW j \in 1..(ns + 1)
      PROVE  f2[lf + j] = LS + g[j]
  <2>1. CASE j = 1
    <3>1. f2[lf + 1] = f[lf + 1]
      <4>1. lf + 1 \in 1..(lf + 1)
        OBVIOUS
      <4>2. QED
        BY <1>7, <4>1, Zenon
    <3>2. LS + 0 = LS
      OBVIOUS
    <3>3. QED
      BY <1>2, <1>4, <2>1, <3>1, <3>2, Zenon
  <2>2. CASE j # 1
    <3>1. lf + j \in 1..(lf + ns + 1) /\ ~(lf + j <= lf + 1) /\ (lf + j) - lf = j
      BY <2>2
    <3>2. QED
      BY <1>6, <3>1
  <2>3. QED
    BY <2>1, <2>2
<1>9. ASSUME NEW m \in 1..(lf + ns + 1)
      PROVE  m \in 1..(lf + 1) \/ \E j \in 1..(ns + 1) : m = lf + j
  <2>1. m \in 1..(lf + 1) \/ (m - lf \in 1..(ns + 1) /\ m = lf + (m - lf))
    OBVIOUS
  <2>2. QED
    BY <2>1
<1>10. ASSUME NEW m \in 1..(lf + ns)
       PROVE  m \in 1..lf \/ \E j \in 1..ns : m = lf + j
  <2>1. m \in 1..lf \/ (m - lf \in 1..ns /\ m = lf + (m - lf))
    OBVIOUS
  <2>2. QED
    BY <2>1
<1>11. PICK e \in Nat : e = LS + (8 + n)
  OBVIOUS
<1>12. /\ e = Len(S2) /\ pos2[K] = LS /\ pos2[K + 1] = e
       /\ \A i \in 1..LS : S2[i] = S[i]
       /\ \A i \in 1..(8 + n) : S2[LS + i] = P[i]
       /\ \A k \in 0..K : pos2[k] = pos[k]
  BY <1>3, <1>11, Zenon DEF Grows
<1>13. Len(sent') = K + 1
  BY AppendProperties DEF Sends, SentInv
<1>14. f2 \in [1..(lf + ns + 1) -> 0..e]
  <2>1. ASSUME NEW m \in 1..(lf + ns + 1)
        PROVE  f2[m] \in 0..e
    <3>1. CASE m \in 1..(lf + 1)
      <4>1. f[m] \in 0..LS /\ f2[m] = f[m]
        BY <1>4, <1>7, <3>1
      <4>2. QED
        BY <1>11, <4>1
    <3>2. ASSUME NEW j \in 1..(ns + 1), m = lf + j
          PROVE  f2[m] \in 0..e
      <4>1. g[j] \in 0..(8 + n) /\ f2[m] = LS + g[j]
        BY <1>2, <1>8, <3>2
      <4>2. QED
        BY <1>11, <4>1
    <3>3. QED
      BY <1>9, <3>1, <3>2
  <2>2. f2 = [m \in 1..(lf + ns + 1) |-> f2[m]]
    BY <1>6
  <2>3. QED
    BY <2>1, <2>2
<1>15. f2[(lf + ns) + 1] = e
  <2>1. (lf + ns) + 1 = lf + (ns + 1) /\ ns + 1 \in 1..(ns + 1)
    OBVIOUS
  <2>2. QED
    BY <1>2, <1>8, <1>11, <2>1, Zenon
<1>16. ASSUME NEW m \in 1..(lf + ns)
       PROVE  /\ f2[m + 1] = f2[m] + Len(flight'[m])
              /\ \A i \in 1..Len(flight'[m]) : flight'[m][i] = S2[f2[m] + i]
  <2>1. CASE m \in 1..lf
    <3>1. m <= lf /\ m \in 1..(lf + 1) /\ m + 1 \in 1..(lf + 1)
      BY <2>1
    <3>2. flight'[m] = flight[m] /\ f2[m] = f[m] /\ f2[m + 1] = f[m + 1]
      BY <1>5, <1>7, <3>1, Zenon
    <3>3. f[m] \in 0..LS /\ f[m + 1] \in 0..LS
      BY <1>4, <3>1
    <3>4. PICK l \in Nat : l = Len(flight[m])
      BY <1>3, <1>4, <2>1, ElementOfSeq, LenProperties
    <3>5. f[m + 1] = f[m] + l /\ \A i \in 1..l : flight[m][i] = S[f[m] + i]
      BY <1>4, <2>1, <3>4, Zenon
    <3>6. ASSUME NEW i \in 1..l
          PROVE  f[m] + i \in 1..LS
      <4>1. f[m] + l <= LS
        BY <3>3, <3>5
      <4>2. \A x \in 0..LS : x + l <= LS => x + i \in 1..LS
        OBVIOUS
      <4>3. QED
        BY <3>3, <4>1, <4>2, Zenon
    <3>7. \A i \in 1..l : S2[f[m] + i] = S[f[m] + i]
      BY <1>12, <3>6, Zenon
    <3>8. QED
      BY <3>2, <3>4, <3>5, <3>7, Zenon
  <2>2. ASSUME NEW j \in 1..ns, m = lf + j
        PROVE  /\ f2[m + 1] = f2[m] + Len(flight'[m])
               /\ \A i \in 1..Len(flight'[m]) : flight'[m][i] = S2[f2[m] + i]
    <3>1. /\ j \in 1..(ns + 1) /\ j + 1 \in 1..(ns + 1) /\ m + 1 = lf + (j + 1)
          /\ ~(m <= lf) /\ m - lf = j
      BY <2>2
    <3>2. flight'[m] = seg[j] /\ f2[m] = LS + g[j] /\ f2[m + 1] = LS + g[j + 1]
      BY <1>5, <1>8, <2>2, <3>1, Zenon
    <3>3. g[j] \in 0..(8 + n) /\ g[j + 1] \in 0..(8 + n)
      BY <1>2, <3>1
    <3>4. PICK l \in Nat : l = Len(seg[j])
      BY <1>1, ElementOfSeq, LenProperties
    <3>5. g[j + 1] = g[j] + l /\ \A i \in 1..l : seg[j][i] = P[g[j] + i]
      BY <1>2, <3>4, Zenon
    <3>6. LS + g[j + 1] = (LS + g[j]) + l
      <4>1. g[j + 1] = g[j] + l
        BY <3>5, Zenon
      <4>2. QED
        BY <3>3, <4>1
    <3>7. ASSUME NEW i \in 1..l
          PROVE  g[j] + i \in 1..(8 + n) /\ LS + (g[j] + i) = (LS + g[j]) + i
      <4>1. g[j] + l <= 8 + n
        <5>1. g[j + 1] = g[j] + l
          BY <3>5, Zenon
        <5>2. QED
          BY <3>3, <5>1
      <4>2. \A x \in 0..(8 + n) :
               x + l <= 8 + n => x + i \in 1..(8 + n) /\ LS + (x + i) = (LS + x) + i
        OBVIOUS
      <4>3. QED
        BY <3>3, <4>1, <4>2, Zenon
    <3>8. \A i \in 1..l : P[g[j] + i] = S2[(LS + g[j]) + i]
      BY <1>12, <3>7, Zenon
    <3>9. QED
      BY <3>2, <3>4, <3>5, <3>6, <3>8, Zenon
  <2>3. QED
    BY <1>10, <2>1, <2>2
<1>17. K = Len(sent) /\ proto' = proto
  BY DEF Sends
<1>18. ASSUME NEW x, Cut(pos, x)
       PROVE  Cut(pos2, x)'
  <2>1. PICK k \in 0..K : \/ x = pos[k]
                          \/ ~proto.whole /\ k < K /\ x \in (pos[k] + 8)..pos[k + 1]
    BY <1>17, <1>18 DEF Cut
  <2>2. k \in 0..Len(sent') /\ k < Len(sent') /\ pos2[k] = pos[k]
    <3>1. k \in 0..(K + 1) /\ k < K + 1
      OBVIOUS
    <3>2. QED
      BY <1>12, <1>13, <3>1, Zenon
  <2>3. CASE x = pos[k]
    BY <2>2, <2>3 DEF Cut
  <2>4. CASE ~proto.whole /\ k < K /\ x \in (pos[k] + 8)..pos[k + 1]
    <3>1. k + 1 \in 0..K
      BY <2>4
    <3>2. pos2[k + 1] = pos[k + 1]
      BY <1>12, <3>1, Zenon
    <3>3. QED
      BY <1>17, <2>2, <2>4, <3>2 DEF Cut
  <2>5. QED
    BY <2>1, <2>3, <2>4
<1>19. ASSUME NEW j \in 1..(ns + 1)
       PROVE  Cut(pos2, LS + g[j])'
  <2>1. K \in 0..Len(sent') /\ K + 1 \in 0..Len(sent') /\ K < Len(sent')
    BY <1>13
  <2>2. pos2[K] = LS /\ pos2[K + 1] = LS + (8 + n)
    BY <1>11, <1>12, Zenon
  <2>3. g[j] \in 0..(8 + n)
    BY <1>2
  <2>4. CASE g[j] = 0
    <3>1. LS + g[j] = pos2[K]
      BY <2>2, <2>4
    <3>2. QED
      BY <2>1, <3>1, Zenon DEF Cut
  <2>5. CASE g[j] = 8 + n
    <3>1. LS + g[j] = pos2[K + 1]
      BY <2>2, <2>5
    <3>2. QED
      BY <2>1, <3>1, Zenon DEF Cut
  <2>6. CASE ~proto.whole /\ g[j] >= 8
    <3>1. LS + g[j] \in (LS + 8)..(LS + (8 + n))
      BY <2>3, <2>6
    <3>2. LS + g[j] \in (pos2[K] + 8)..pos2[K + 1]
      BY <2>2, <3>1, Zenon
    <3>3. ~proto'.whole
      BY <1>17, <2>6
    <3>4. QED
      BY <2>1, <3>2, <3>3, Zenon DEF Cut
  <2>7. QED
    BY <1>2, <2>4, <2>5, <2>6
<1>20. ASSUME NEW m \in 1..(lf + ns + 1)
       PROVE  Cut(pos2, f2[m])'
  <2>1. CASE m \in 1..(lf + 1)
    <3>1. Cut(pos, f[m]) /\ f2[m] = f[m]
      BY <1>4, <1>7, <2>1, Zenon
    <3>2. QED
      BY <1>18, <3>1
  <2>2. ASSUME NEW j \in 1..(ns + 1), m = lf + j
        PROVE  Cut(pos2, f2[m])'
    <3>1. f2[m] = LS + g[j]
      BY <1>8, <2>2
    <3>2. QED
      BY <1>19, <3>1
  <2>3. QED
    BY <1>9, <2>1, <2>2
<1>21. Flight(S2, pos2, f2)'
  BY <1>5, <1>12, <1>14, <1>15, <1>16, <1>20, Zenon DEF Flight
<1>22. f2[1] = f[1]
  <2>1. 1 \in 1..(lf + 1)
    OBVIOUS
  <2>2. QED
    BY <1>7, <2>1, Zenon
<1>23. QED
  BY <1>21, <1>22

LEMMA SendPacketInv ==
    ASSUME GoodProtocols, IInv, NEW n \in proto.sizes, SendPacket(n)
    PROVE  IInv'
<1>1. SentInv /\ ReceiveInv /\ ResetInv /\ StreamInv
  BY DEF IInv
<1>2. PICK K \in Nat : K = Len(sent)
  BY <1>1, SentFacts
<1>3. PICK P : P = convertSendMsg(K + 1, n)
  OBVIOUS
<1>4. Sends(n, K, P)
  <2>1. K < MaxPackets /\ (proto.lockstep => Len(received) = K)
    BY <1>2 DEF SendPacket
  <2>2. K + 1 \in 1..MaxPackets
    BY <2>1, PacketIds
  <2>3. QED
    BY <1>2, <1>3, <2>1, <2>2 DEF SendPacket, Sends, receiver
<1>5. /\ conn = "open" /\ conn' = "open" /\ proto' = proto
      /\ UNCHANGED <<wire, conn, phase, buf, total, uMaxSize, received>>
      /\ proto.lockstep => Len(received) = K
  BY <1>4 DEF Sends
<1>6. ReceiveInv'
  BY <1>1, <1>5 DEF ReceiveInv
<1>7. /\ SentInv'
      /\ n \in Nat /\ P \in Seq(Nat) /\ Len(P) = 8 + n
      /\ Len(sent') = K + 1
      /\ \A k \in 1..K : sent'[k] = sent[k] /\ Size(k)' = Size(k)
  BY <1>1, <1>4, SentGrows
<1>8. PICK S, pos, f, c : Snapshot(S, pos, f, c)
  BY <1>1, <1>5 DEF StreamInv
<1>9. /\ Stream(S, pos) /\ Flight(S, pos, f) /\ Arrived(S, f[1])
      /\ Reading(S, pos, c, f[1]) /\ Received(c)
      /\ Len(S) \in Nat /\ f[1] \in Nat /\ f[1] <= Len(S)
      /\ c \in 0..Len(sent) /\ pos[c] \in Nat
      /\ pos[c] + Len(buf) + Len(wire) = f[1]
      /\ \A i \in 1..Len(buf) : buf[i] = S[pos[c] + i]
  BY <1>1, <1>8, SnapshotFacts
<1>10. PICK S2, pos2 : Stream(S2, pos2)' /\ Grows(n, K, P, S, pos, S2, pos2)
  BY <1>1, <1>4, <1>9, StreamGrows
<1>11. PICK ns \in Nat \ {0} : \E g : Pieces(P, 8 + n, Segments(P), ns, g)
  BY <1>7, SegmentsPieces
<1>12. PICK f2 : Flight(S2, pos2, f2)' /\ f2[1] = f[1]
  <2>1. PICK g : Pieces(P, 8 + n, Segments(P), ns, g)
    BY <1>11
  <2>2. GrowsBy(n, K, P, S, pos, f, S2, pos2, ns, g)
    BY <1>4, <1>7, <1>9, <1>10, <2>1, Zenon DEF GrowsBy
  <2>3. QED
    BY <1>1, <2>2, FlightGrows, SMT
<1>13. PICK p \in Nat, lb \in Nat, lw \in Nat, a \in Nat, LS \in Nat :
         /\ p = pos[c] /\ lb = Len(buf) /\ lw = Len(wire) /\ a = f[1] /\ LS = Len(S)
  <2>1. Len(buf) \in Nat /\ Len(wire) \in Nat
    BY <1>1, <1>9, LenProperties DEF ReceiveInv, Arrived
  <2>2. QED
    BY <1>9, <2>1, Zenon
<1>14. p + lb + lw = a /\ a <= LS
  BY <1>9, <1>13, Zenon
<1>15. /\ \A i \in 1..LS : S2[i] = S[i]
       /\ \A k \in 0..K : pos2[k] = pos[k]
  BY <1>10, <1>13, Zenon DEF Grows
<1>16. Arrived(S2, a)'
  <2>1. wire \in Seq(Nat) /\ lw <= a /\ \A i \in 1..lw : wire[i] = S[a - lw + i]
    BY <1>9, <1>13, Zenon DEF Arrived
  <2>2. \A i \in 1..lw : a - lw + i \in 1..LS
    BY <1>14
  <2>3. \A i \in 1..lw : wire[i] = S2[a - lw + i]
    BY <1>15, <2>1, <2>2, Zenon
  <2>4. wire' = wire
    BY <1>5
  <2>5. QED
    BY <1>13, <2>1, <2>3, <2>4, Zenon DEF Arrived
<1>17. c \in 0..K /\ c \in 0..(K + 1) /\ pos2[c] = p
  <2>1. c \in 0..K
    BY <1>2, <1>9, Zenon
  <2>2. c \in 0..(K + 1)
    BY <2>1
  <2>3. QED
    BY <1>13, <1>15, <2>1, <2>2, Zenon
<1>18. \A i \in 1..lb : buf[i] = S2[p + i]
  <2>1. \A i \in 1..lb : p + i \in 1..LS
    BY <1>14
  <2>2. \A i \in 1..lb : buf[i] = S[p + i]
    BY <1>9, <1>13, Zenon
  <2>3. QED
    BY <1>15, <2>1, <2>2, Zenon
<1>19. Reading(S2, pos2, c, a)'
  <2>1. /\ phase = "id" => Len(buf) = 4
        /\ phase \in {"id", "rest", "return"} => c < K
        /\ phase \in {"id", "rest"} => uMaxSize = Announced(proto, Size(c + 1))
        /\ phase = "rest" =>
              IF proto.announced = "total" THEN Len(buf) \in 8..(8 + Size(c + 1))
                                           ELSE Len(buf) = 8
        /\ phase = "return" =>
              \E k \in (c + 1)..K :
                 pos[c] + Len(buf) = pos[k] /\ (proto.announced = "total" => k = c + 1)
    BY <1>2, <1>9, Zenon DEF Reading
  <2>2. phase \in {"id", "rest", "return"} => c < K + 1 /\ Size(c + 1)' = Size(c + 1)
    <3>1. ASSUME c < K
          PROVE  c < K + 1 /\ c + 1 \in 1..K
      BY <1>17, <3>1
    <3>2. QED
      BY <1>7, <2>1, <3>1, Zenon
  <2>3. phase = "return" =>
           \E k \in (c + 1)..(K + 1) :
              p + Len(buf) = pos2[k] /\ (proto.announced = "total" => k = c + 1)
    <3>1. ASSUME phase = "return"
          PROVE  \E k \in (c + 1)..(K + 1) :
                    p + Len(buf) = pos2[k] /\ (proto.announced = "total" => k = c + 1)
      <4>1. PICK k \in (c + 1)..K :
               pos[c] + Len(buf) = pos[k] /\ (proto.announced = "total" => k = c + 1)
        BY <2>1, <3>1, Zenon
      <4>2. k \in (c + 1)..(K + 1) /\ k \in 0..K
        BY <1>17
      <4>3. p + Len(buf) = pos2[k]
        BY <1>13, <1>15, <4>1, <4>2, Zenon
      <4>4. QED
        BY <4>1, <4>2, <4>3, Zenon
    <3>2. QED
      BY <3>1
  <2>4. \A x : Announced(proto, x)' = Announced(proto, x)
    BY <1>5 DEF Announced
  <2>5. /\ phase' = phase /\ buf' = buf /\ uMaxSize' = uMaxSize /\ proto' = proto /\ wire' = wire
        /\ Len(sent') = K + 1 /\ pos2[c] = p
    BY <1>5, <1>7, <1>17
  <2>6. /\ c \in 0..(K + 1) /\ p + Len(buf) + Len(wire) = a
        /\ \A i \in 1..Len(buf) : buf[i] = S2[p + i]
    BY <1>13, <1>14, <1>17, <1>18, Zenon
  <2>7. phase = "rest" =>
           IF proto.announced = "total" THEN Len(buf) \in 8..(8 + Size(c + 1)')
                                        ELSE Len(buf) = 8
    BY <2>1, <2>2
  <2>8. phase \in {"id", "rest"} => uMaxSize = Announced(proto, Size(c + 1)')
    BY <2>1, <2>2
  <2>9. QED
    BY <2>1, <2>2, <2>3, <2>4, <2>5, <2>6, <2>7, <2>8 DEF Reading
<1>20. Received(c)'
  <2>1. /\ GoodPackets(Len(received)) /\ \A i \in 1..Len(received) : received[i].id <= c
        /\ Reliable => Len(received) = c
    BY <1>9 DEF Received
  <2>2. \A x \in 1..K : x \in 1..(K + 1)
    OBVIOUS
  <2>3. received' = received /\ Len(sent') = K + 1 /\ (Reliable' <=> Reliable)
    BY <1>5, <1>7 DEF Reliable
  <2>4. \A i \in 1..Len(received) :
           /\ received[i].id \in 1..Len(sent')
           /\ Carries(received[i], sent'[received[i].id])
           /\ \A j \in 1..(i - 1) : received[j].id < received[i].id
    <3>1. \A i \in 1..Len(received) :
             /\ received[i].id \in 1..K
             /\ Carries(received[i], sent[received[i].id])
             /\ \A j \in 1..(i - 1) : received[j].id < received[i].id
      BY <1>2, <2>1, Zenon DEF GoodPackets
    <3>2. \A i \in 1..Len(received) : sent'[received[i].id] = sent[received[i].id]
      BY <1>7, <3>1, Zenon
    <3>3. QED
      BY <2>2, <2>3, <3>1, <3>2, Zenon
  <2>5. Reliable => \A i \in 1..Len(received) : received[i].id = i
    BY <2>1, Zenon DEF GoodPackets
  <2>6. GoodPackets(Len(received))'
    BY <2>3, <2>4, <2>5, Zenon DEF GoodPackets
  <2>7. proto'.lockstep => Len(sent') <= Len(received') + 1
    <3>1. ASSUME proto.lockstep
          PROVE  Len(sent') <= Len(received') + 1
      <4>1. K + 1 <= K + 1
        OBVIOUS
      <4>2. QED
        BY <1>5, <2>3, <3>1, <4>1, Zenon
    <3>2. QED
      BY <1>5, <3>1
  <2>8. QED
    BY <2>1, <2>3, <2>6, <2>7, Zenon DEF Received
<1>21. Snapshot(S2, pos2, f2, c)'
  BY <1>10, <1>12, <1>13, <1>16, <1>19, <1>20, Zenon DEF Snapshot
<1>22. ResetInv' /\ StreamInv'
  BY <1>5, <1>21 DEF ResetInv, StreamInv
<1>23. QED
  BY <1>6, <1>7, <1>22 DEF IInv

-----------------------------------------------------------------------------
(* The invariance, and what follows from it. *)

LEMMA InitInv ==
    ASSUME GoodProtocols, Init
    PROVE  IInv
<1>1. /\ proto \in Protocols /\ sent = <<>> /\ flight = <<>> /\ wire = <<>>
      /\ conn = "open" /\ phase = "size" /\ buf = <<>> /\ total = 0
      /\ uMaxSize = BufSize /\ received = <<>>
  BY DEF Init
<1>2. /\ MaxPackets \in Nat /\ BufSize \in Nat /\ BufSize \in 1..(Word - 1)
  BY FramingAssumption DEF GoodProtocols
<1>3. \A T : <<>> \in Seq(T) /\ Len(<<>>) = 0
  OBVIOUS
<1>4. SentInv
  <2>1. Len(sent) = 0 /\ 0 <= MaxPackets /\ 1..0 = {}
    BY <1>1, <1>2, <1>3
  <2>2. QED
    BY <1>1, <1>3, <2>1 DEF SentInv
<1>5. ReceiveInv
  <2>1. 0 \in -3..0 /\ 0 <= BufSize
    BY <1>2
  <2>2. QED
    BY <1>1, <1>2, <1>3, <2>1 DEF ReceiveInv
<1>6. ResetInv
  BY <1>1 DEF ResetInv
<1>7. PICK S, pos, f :
         /\ S = <<>> /\ pos = [k \in 0..0 |-> 0] /\ f = [n \in 1..1 |-> 0]
  OBVIOUS
<1>8. Stream(S, pos)
  <2>1. pos \in [0..0 -> Nat] /\ \A k \in 0..0 : pos[k] = 0
    BY <1>7
  <2>2. \A k \in 0..0 : MaxPackets * 0 <= k * BufSize
    BY <1>2
  <2>3. Len(sent) = 0 /\ Len(S) = 0 /\ S \in Seq(Nat)
    BY <1>1, <1>3, <1>7
  <2>4. /\ pos[0] = 0 /\ \A j, k \in 0..0 : j <= k => pos[j] <= pos[k]
        /\ \A k \in 0..0 : MaxPackets * pos[k] <= k * BufSize
    BY <2>1, <2>2
  <2>5. 1..0 = {}
    OBVIOUS
  <2>6. QED
    BY <2>1, <2>3, <2>4, <2>5 DEF Stream
<1>9. Flight(S, pos, f)
  <2>1. /\ Len(flight) = 0 /\ Len(S) = 0 /\ Len(sent) = 0 /\ flight \in Seq(Seq(Nat))
    BY <1>1, <1>3, <1>7
  <2>2. f \in [1..(0 + 1) -> 0..0] /\ f[0 + 1] = 0 /\ \A n \in 1..(0 + 1) : f[n] = 0
    BY <1>7
  <2>3. Cut(pos, 0)
    BY <1>7, <2>1 DEF Cut
  <2>4. 1..0 = {}
    OBVIOUS
  <2>5. QED
    BY <2>1, <2>2, <2>3, <2>4 DEF Flight
<1>10. Arrived(S, f[1]) /\ Reading(S, pos, 0, f[1]) /\ Received(0)
  <2>1. /\ Len(wire) = 0 /\ Len(buf) = 0 /\ Len(received) = 0 /\ Len(sent) = 0
        /\ wire \in Seq(Nat) /\ f[1] = 0 /\ pos[0] = 0
    BY <1>1, <1>3, <1>7
  <2>2. 1..0 = {} /\ 0 + 0 + 0 = 0 /\ 0 <= 0 /\ 0 <= 0 + 1 /\ 0 \in 0..0
    OBVIOUS
  <2>3. GoodPackets(0)
    BY <2>2 DEF GoodPackets
  <2>4. Arrived(S, f[1])
    BY <2>1, <2>2 DEF Arrived
  <2>5. Reading(S, pos, 0, f[1])
    BY <1>1, <2>1, <2>2 DEF Reading
  <2>6. Received(0)
    BY <2>1, <2>2, <2>3 DEF Received
  <2>7. QED
    BY <2>4, <2>5, <2>6
<1>11. StreamInv
  BY <1>8, <1>9, <1>10 DEF StreamInv, Snapshot
<1>12. QED
  BY <1>4, <1>5, <1>6, <1>11 DEF IInv

LEMMA StutterInv ==
    ASSUME IInv, UNCHANGED vars
    PROVE  IInv'
<1>1. /\ SentInv /\ ReceiveInv /\ ResetInv /\ StreamInv
      /\ UNCHANGED <<proto, sent, flight, wire, conn, phase, buf, total, uMaxSize, received>>
  BY DEF IInv, vars, receiver
<1>2. SentInv' /\ ReceiveInv'
  BY <1>1, SentSame DEF ReceiveInv
<1>3. ResetInv'
  <2>1. CASE conn = "reset"
    BY <1>1, <2>1, ResetSame
  <2>2. CASE conn # "reset"
    BY <1>1, <2>2 DEF ResetInv
  <2>3. QED
    BY <2>1, <2>2
<1>4. StreamInv'
  <2>1. ASSUME conn # "reset"
        PROVE  StreamInv'
    <3>1. PICK S, pos, f, c : Snapshot(S, pos, f, c)
      BY <1>1, <2>1 DEF StreamInv
    <3>2. Arrived(S, f[1])' /\ Reading(S, pos, c, f[1])'
      BY <1>1, <3>1 DEF Snapshot, Arrived, Reading, Announced, Size
    <3>3. Snapshot(S, pos, f, c)'
      BY <1>1, <3>1, <3>2, SnapshotSame
    <3>4. QED
      BY <3>3 DEF StreamInv
  <2>2. QED
    BY <1>1, <2>1 DEF StreamInv
<1>5. QED
  BY <1>2, <1>3, <1>4 DEF IInv

LEMMA NextInv ==
    ASSUME GoodProtocols, IInv, [Next]_vars
    PROVE  IInv'
<1>1. ASSUME NEW n \in proto.sizes, SendPacket(n)
      PROVE  IInv'
  BY <1>1, SendPacketInv
<1>2. ASSUME Close \/ Reset \/ Arrive
      PROVE  IInv'
  BY <1>2, CloseInv, ResetStepInv, ArriveInv
<1>3. ASSUME Receive
      PROVE  IInv'
  BY <1>3, RecvSizeInv, RecvIdInv, RecvHeaderZeroInv, RecvRestInv, RecvRestZeroInv, ReturnInv
     DEF Receive
<1>4. CASE UNCHANGED vars
  BY <1>4, StutterInv
<1>5. QED
  BY <1>1, <1>2, <1>3, <1>4 DEF Next

(***************************************************************************)
(* Until a reset, what TCP still holds, what it has delivered and what     *)
(* Receive has read are consecutive bytes of the packets sent, and Receive *)
(* starts each time at the first byte of a packet (TCPServer.cpp:379-429). *)
(***************************************************************************)
THEOREM Invariance ==
    ASSUME GoodProtocols
    PROVE  Spec => []IInv
<1>1. Init => IInv
  BY InitInv
<1>2. IInv /\ [Next]_vars => IInv'
  BY NextInv
<1>3. QED
  BY <1>1, <1>2, PTL DEF Spec

(***************************************************************************)
(* The variables of Receive keep their types, and total counts what it     *)
(* read while no recv has failed (TCPServer.cpp:407-447).  That all        *)
(* packets fit into the buffer is assumed (FramingAssumption), not shown.  *)
(***************************************************************************)
THEOREM TypeCorrect ==
    ASSUME GoodProtocols
    PROVE  Spec => []TypeOK
<1>1. IInv => TypeOK
  <2>1. ASSUME IInv
        PROVE  TypeOK
    <3>1. SentInv /\ ReceiveInv
      BY <2>1 DEF IInv
    <3>2. \A i \in 1..Len(sent) : sent[i].id = i /\ Len(sent[i].body) \in proto.sizes
      <4>1. ASSUME NEW i \in 1..Len(sent)
            PROVE  sent[i].id = i /\ Len(sent[i].body) \in proto.sizes
        <5>1. /\ Len(sent[i].body) \in proto.sizes
              /\ sent[i] = [id |-> i, body |-> Body(i, Len(sent[i].body))]
          BY <3>1, Zenon DEF SentInv, Size
        <5>2. sent[i].id = i
          BY <5>1
        <5>3. QED
          BY <5>1, <5>2
      <4>2. QED
        BY <4>1
    <3>3. QED
      BY <3>1, <3>2 DEF TypeOK, SentInv, ReceiveInv
  <2>2. QED
    BY <2>1
<1>2. QED
  BY <1>1, Invariance, PTL

(* The packets that may not be fragments are good. *)
LEMMA CompleteGood ==
    ASSUME IInv
    PROVE  \E m : GoodPackets(m) /\ Complete = 1..m
<1>1. CASE conn = "reset"
  BY <1>1 DEF IInv, ResetInv, Complete
<1>2. CASE conn # "reset"
  <2>1. GoodPackets(Len(received))
    BY <1>2 DEF IInv, StreamInv, Snapshot, Received
  <2>2. QED
    BY <1>2, <2>1 DEF Complete
<1>3. QED
  BY <1>1, <1>2

(***************************************************************************)
(* Packets come out as they went in, in the order sent, none invented      *)
(* (convertReceiveMsg, EXNetwork.cpp:17-62): only the last one may be cut  *)
(* short, and only by a reset of the connection.                           *)
(***************************************************************************)
THEOREM Subsequence ==
    ASSUME GoodProtocols
    PROVE  Spec => []SubsequenceOfSent
<1>1. IInv => SubsequenceOfSent
  <2>1. ASSUME IInv
        PROVE  SubsequenceOfSent
    <3>1. PICK m : GoodPackets(m) /\ Complete = 1..m
      BY <2>1, CompleteGood
    <3>2. \A i \in 1..m :
             /\ received[i].id \in 1..Len(sent)
             /\ Carries(received[i], sent[received[i].id])
             /\ \A j \in 1..(i - 1) : received[j].id < received[i].id
      BY <3>1, Zenon DEF GoodPackets
    <3>3. QED
      BY <3>1, <3>2, Zenon DEF SubsequenceOfSent
  <2>2. QED
    BY <2>1
<1>2. QED
  BY <1>1, Invariance, PTL

(***************************************************************************)
(* Where the size counts the header, or packets are sent one at a time,    *)
(* the i-th packet to come out is the i-th that was sent, with all of its  *)
(* body (TCPServer.cpp:6-7 and :379-429).                                  *)
(***************************************************************************)
THEOREM Intact ==
    ASSUME GoodProtocols
    PROVE  Spec => []PacketsIntact
<1>1. IInv => PacketsIntact
  <2>1. ASSUME IInv, Reliable, NEW i \in Complete
        PROVE  i <= Len(sent) /\ Carries(received[i], sent[i])
    <3>1. PICK m : GoodPackets(m) /\ Complete = 1..m
      BY <2>1, CompleteGood
    <3>2. /\ received[i].id \in 1..Len(sent) /\ received[i].id = i
          /\ Carries(received[i], sent[received[i].id])
      BY <2>1, <3>1, Zenon DEF GoodPackets
    <3>3. Len(sent) \in Nat
      BY <2>1, LenProperties DEF IInv, SentInv
    <3>4. QED
      BY <3>2, <3>3
  <2>2. QED
    BY <2>1 DEF PacketsIntact
<1>2. QED
  BY <1>1, Invariance, PTL

-----------------------------------------------------------------------------
(* Nothing is withheld: where Receive is between two packets and TCP holds *)
(* nothing back, and where the receive thread has ended, all that was sent *)
(* has come out.                                                           *)

AllIn == flight = <<>> /\ wire = <<>>

NothingLeft ==
    conn # "reset" /\ Reliable =>
        /\ phase = "size" /\ AllIn => Len(received) = Len(sent)
        /\ phase = "ended" => Len(received) = Len(sent)

(* The thread ends only at an orderly close, with nothing left to read.    *)
EndInv == phase = "ended" /\ conn # "reset" => conn = "closed" /\ AllIn /\ buf = <<>>

(* Packet c + 1 lies behind packet c and has a header. *)
LEMMA NextEnd ==
    ASSUME GoodProtocols, SentInv, NEW S, NEW pos, Stream(S, pos),
           NEW c \in 0..Len(sent), NEW k \in (c + 1)..Len(sent)
    PROVE  pos[c] \in Nat /\ pos[k] \in Nat /\ pos[c] + 8 <= pos[k]
<1>1. /\ Len(sent) \in Nat /\ c \in Nat /\ k \in 0..Len(sent)
      /\ c + 1 \in 1..Len(sent) /\ c + 1 \in 0..Len(sent) /\ (c + 1) - 1 = c /\ c + 1 <= k
  BY SentFacts
<1>2. pos[c + 1] = pos[c] + 8 + Size(c + 1)
  <2>1. pos[c + 1] = pos[(c + 1) - 1] + 8 + Size(c + 1)
    BY <1>1, Zenon DEF Stream
  <2>2. QED
    BY <1>1, <2>1
<1>3. pos[c + 1] <= pos[k] /\ pos[c] \in Nat /\ pos[c + 1] \in Nat /\ pos[k] \in Nat
  BY <1>1, Zenon DEF Stream
<1>4. Size(c + 1) \in Nat
  BY <1>1, SentFacts
<1>5. pos[c] + 8 <= pos[c + 1]
  <2>1. PICK p \in Nat, q \in Nat, n \in Nat : p = pos[c] /\ q = pos[c + 1] /\ n = Size(c + 1)
    BY <1>3, <1>4, Zenon
  <2>2. q = p + 8 + n
    BY <1>2, <2>1, Zenon
  <2>3. p + 8 <= q
    BY <1>1, <2>2
  <2>4. QED
    BY <2>1, <2>3, Zenon
<1>6. QED
  BY <1>3, <1>5

(* With everything arrived, Receive is not in a header, and if it has read *)
(* nothing it has already returned every packet.                           *)
LEMMA AllRead ==
    ASSUME GoodProtocols, IInv, conn # "reset", AllIn
    PROVE  /\ phase # "id"
           /\ buf = <<>> /\ Reliable => Len(received) = Len(sent)
<1>1. SentInv /\ \E S, pos, f, c : Snapshot(S, pos, f, c)
  BY Zenon DEF IInv, StreamInv
<1>2. PICK S, pos, f, c : Snapshot(S, pos, f, c)
  BY <1>1, Zenon
<1>3. /\ Stream(S, pos) /\ Reading(S, pos, c, f[1]) /\ Received(c)
      /\ Len(S) \in Nat /\ f[1] \in Nat /\ f[1] <= Len(S) /\ Cut(pos, f[1])
      /\ flight = <<>> => f[1] = Len(S)
      /\ c \in 0..Len(sent) /\ pos[c] \in Nat
      /\ pos[c] + Len(buf) + Len(wire) = f[1]
  BY <1>1, <1>2, SnapshotFacts
<1>4. PICK lb \in Nat : Len(buf) = lb /\ (buf = <<>> => lb = 0) /\ Len(wire) = 0
  <2>1. buf \in Seq(Nat)
    BY Zenon DEF IInv, ReceiveInv
  <2>2. Len(buf) \in Nat /\ (buf = <<>> => Len(buf) = 0) /\ Len(wire) = 0
    BY <2>1 DEF AllIn
  <2>3. QED
    BY <2>2
<1>5. pos[c] + lb = Len(S) /\ f[1] = Len(S)
  BY <1>3, <1>4 DEF AllIn
<1>n. pos[c] \in Nat /\ Len(S) \in Nat
  BY <1>3, Zenon
<1>6. phase # "id"
  <2> SUFFICES ASSUME phase = "id" PROVE FALSE
    OBVIOUS
  <2>1. lb = 4
    BY <1>3, <1>4 DEF Reading
  <2>2. pos[c] < Len(S)
    BY <1>n, <1>5, <2>1
  <2>3. NextPacket(S, pos, c, Len(S))
    BY <1>1, <1>3, <1>5, <2>2, PacketBehind
  <2>4. pos[c] + 8 <= Len(S)
    BY <2>3, Zenon DEF NextPacket
  <2>5. QED
    BY <1>n, <1>5, <2>1, <2>4
<1>7. ASSUME buf = <<>>, Reliable
      PROVE  Len(received) = Len(sent)
  <2>1. pos[c] = Len(S)
    BY <1>3, <1>4, <1>5, <1>7
  <2>2. pos[Len(sent)] = Len(S)
    BY <1>3, Zenon DEF Stream
  <2>3. Len(sent) \in Nat
    BY <1>1, SentFacts
  <2>4. ~(c < Len(sent))
    <3> SUFFICES ASSUME c < Len(sent) PROVE FALSE
      OBVIOUS
    <3>1. Len(sent) \in (c + 1)..Len(sent)
      BY <1>3, <2>3
    <3>2. pos[c] + 8 <= pos[Len(sent)]
      BY <1>1, <1>3, <3>1, NextEnd, Zenon
    <3>3. QED
      BY <1>3, <2>1, <2>2, <3>2
  <2>5. c = Len(sent)
    BY <1>3, <2>3, <2>4
  <2>6. Len(received) = c
    BY <1>3, <1>7, Zenon DEF Received
  <2>7. QED
    BY <2>5, <2>6
<1>8. QED
  BY <1>6, <1>7

(* Receive never returns 0 but for a connection that is gone.              *)
LEMMA ReturnsBytes ==
    ASSUME GoodProtocols, IInv, conn # "reset", phase = "return"
    PROVE  total > 0
<1>1. /\ SentInv /\ (\E S, pos, f, c : Snapshot(S, pos, f, c))
      /\ buf \in Seq(Nat) /\ total = Len(buf)
  BY Zenon DEF IInv, StreamInv, ReceiveInv
<1>2. PICK S, pos, f, c : Snapshot(S, pos, f, c)
  BY <1>1, Zenon
<1>3. /\ Stream(S, pos) /\ Reading(S, pos, c, f[1])
      /\ Len(S) \in Nat /\ c \in 0..Len(sent)
  BY <1>1, <1>2, SnapshotFacts
<1>4. PICK k \in (c + 1)..Len(sent) : pos[c] + Len(buf) = pos[k]
  BY <1>3, Zenon DEF Reading
<1>5. pos[c] \in Nat /\ pos[k] \in Nat /\ pos[c] + 8 <= pos[k]
  BY <1>1, <1>3, NextEnd, Zenon
<1>6. PICK lb \in Nat : Len(buf) = lb
  BY <1>1, LenProperties
<1>7. lb > 0
  BY <1>4, <1>5, <1>6
<1>8. QED
  BY <1>1, <1>6, <1>7

LEMMA EndStep ==
    ASSUME GoodProtocols, IInv, EndInv, [Next]_vars
    PROVE  EndInv'
<1> USE DEF EndInv, AllIn
<1>1. ASSUME NEW n \in proto.sizes, SendPacket(n)
      PROVE  EndInv'
  BY <1>1 DEF SendPacket, receiver
<1>2. CASE Close
  BY <1>2 DEF Close, receiver
<1>3. CASE Reset
  BY <1>3 DEF Reset
<1>4. CASE Arrive
  BY <1>4 DEF Arrive, receiver
<1>5. CASE RecvSize \/ RecvId
  BY <1>5 DEF RecvSize, RecvId
<1>6. CASE RecvHeaderZero
  <2> SUFFICES ASSUME conn # "reset"
               PROVE  conn = "closed" /\ AllIn /\ buf = <<>>
    BY <1>6 DEF RecvHeaderZero
  <2>1. conn = "closed" /\ AllIn /\ phase \in {"size", "id"}
    BY <1>6 DEF RecvHeaderZero, RecvZero, IInv, ReceiveInv
  <2>2. phase = "size"
    BY <2>1, AllRead
  <2>3. QED
    BY <2>1, <2>2 DEF IInv, ReceiveInv
<1>7. CASE RecvRest \/ RecvRestZero
  BY <1>7 DEF RecvRest, RecvRestZero
<1>8. CASE Return
  <2>1. phase = "return" /\ conn' = conn /\ (phase' = "ended" => total = 0)
    BY <1>8 DEF Return
  <2>2. conn # "reset" => total # 0
    <3>1. conn # "reset" => total > 0
      BY <2>1, ReturnsBytes
    <3>2. QED
      BY <3>1
  <2>3. QED
    BY <2>1, <2>2
<1>9. CASE UNCHANGED vars
  BY <1>9 DEF vars, receiver
<1>10. QED
  BY <1>1, <1>2, <1>3, <1>4, <1>5, <1>6, <1>7, <1>8, <1>9 DEF Next, Receive

(***************************************************************************)
(* Where the size counts the header, or packets are sent one at a time,    *)
(* Receive holds nothing back: once all bytes have arrived and it goes to  *)
(* read the next header (TCPServer.cpp:387), every packet sent has come    *)
(* out, and the receive thread ends (EXNetwork.cpp:399-431) only then,     *)
(* unless the connection is reset.  It is what the liveness property       *)
(* EveryPacketReceived needs besides fairness.                             *)
(***************************************************************************)
THEOREM NothingWithheld ==
    ASSUME GoodProtocols
    PROVE  Spec => []NothingLeft
<1>1. Init => EndInv
  BY DEF Init, EndInv
<1>2. IInv /\ EndInv /\ [Next]_vars => EndInv'
  BY EndStep
<1>3. IInv /\ EndInv => NothingLeft
  <2>1. ASSUME IInv, EndInv, conn # "reset", Reliable, phase = "size" /\ AllIn
        PROVE  Len(received) = Len(sent)
    <3>1. buf = <<>>
      BY <2>1 DEF IInv, ReceiveInv
    <3>2. QED
      BY <2>1, <3>1, AllRead
  <2>2. ASSUME IInv, EndInv, conn # "reset", Reliable, phase = "ended"
        PROVE  Len(received) = Len(sent)
    BY <2>2, AllRead DEF EndInv
  <2>3. QED
    BY <2>1, <2>2 DEF NothingLeft
<1>4. QED
  BY <1>1, <1>2, <1>3, Invariance, PTL DEF Spec

=============================================================================
