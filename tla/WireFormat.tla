----------------------------- MODULE WireFormat -----------------------------
(***************************************************************************)
(* The eight header bytes of a packet: a size and a MSGID of four bytes    *)
(* each, most significant first.  convertSendMsg writes them, Receive      *)
(* reads the size to know how much to wait for, and convertReceiveMsg      *)
(* reads both again.                                                       *)
(***************************************************************************)
EXTENDS Integers, Sequences

CONSTANT Byte           \* number of values of a char: 256 in the code

ASSUME ByteAssumption == Byte \in Nat /\ Byte >= 2 /\ Byte % 2 = 0

Half == Byte \div 2     \* a char from here on is negative
Word == Byte * Byte * Byte * Byte    \* number of values of an unsigned int

(* convertSendMsg: static_cast<char>( ( n >> 24 ) & 0xFF ) ...             *)
Field(n) == << (n \div (Byte * Byte * Byte)) % Byte,
               (n \div (Byte * Byte)) % Byte,
               (n \div Byte) % Byte,
               n % Byte >>

(* ( n << 8 ) | static_cast<unsigned char>( b ), in 32 bits                *)
ShiftIn(n, b) == (n * Byte + b) % Word

(* Receive: vecChar holds plain chars, so a byte with its top bit set is   *)
(* sign-extended, and the bits above it in the result all become 1.        *)
SignExtend(b) == IF b < Half THEN b ELSE Word - Byte + b
ShiftInChar(n, b) == IF b < Half THEN ShiftIn(n, b) ELSE SignExtend(b)

ReadSize(f) ==
    ShiftInChar(ShiftInChar(ShiftInChar(SignExtend(f[1]), f[2]), f[3]), f[4])

(* Mutant: without the casts, as in Receive. *)
ReadField_PlainChars(f) == ReadSize(f)

(* convertReceiveMsg: each char is cast to unsigned char first.            *)
ReadField(f) == ShiftIn(ShiftIn(ShiftIn(f[1], f[2]), f[3]), f[4])

=============================================================================
