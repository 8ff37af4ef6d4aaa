-------------------------- MODULE WireFormatProofs --------------------------
(***************************************************************************)
(* The header fields of WireFormat, for chars of any even number of        *)
(* values: what the two readers make of the four bytes of a number.        *)
(***************************************************************************)
EXTENDS WireFormat, TLAPS

-----------------------------------------------------------------------------
(* Arithmetic. *)

LEMMA MulOrder ==
    ASSUME NEW x \in Int, NEW y \in Int, NEW d \in Nat, x <= y
    PROVE  x * d <= y * d
<1>1. y - x \in Nat /\ y = x + (y - x)
  OBVIOUS
<1>2. (y - x) * d \in Nat
  BY <1>1
<1>3. y * d = x * d + (y - x) * d
  OBVIOUS
<1>4. QED
  BY <1>2, <1>3

LEMMA DivMod ==
    ASSUME NEW n \in Nat, NEW d \in Nat \ {0}
    PROVE  /\ n \div d \in Nat
           /\ n % d \in 0..(d - 1)
           /\ n = (n \div d) * d + (n % d)
OBVIOUS

(* Quotient and remainder are the only ones. *)
LEMMA DivModUnique ==
    ASSUME NEW d \in Nat \ {0}, NEW q \in Nat, NEW r \in 0..(d - 1)
    PROVE  (q * d + r) \div d = q /\ (q * d + r) % d = r
<1> SUFFICES ASSUME NEW n \in Nat, n = q * d + r PROVE n \div d = q /\ n % d = r
  OBVIOUS
<1>1. n \div d = q
  OBVIOUS
<1>2. QED
  BY <1>1, DivMod

LEMMA DivDiv ==
    ASSUME NEW n \in Nat, NEW d \in Nat \ {0}, NEW e \in Nat \ {0}
    PROVE  (n \div d) \div e = n \div (e * d)
<1> DEFINE q == n \div d
           r == n % d
           p == q \div e
           s == q % e
<1>1. q \in Nat /\ r \in 0..(d - 1) /\ n = q * d + r
  BY DivMod
<1> HIDE DEF q, r
<1>2. p \in Nat /\ s \in 0..(e - 1) /\ q = p * e + s
  BY <1>1, DivMod
<1> HIDE DEF p, s
<1>3. s * d + r \in 0..(e * d - 1)
  <2>1. s * d <= (e - 1) * d
    BY <1>2, MulOrder
  <2>2. (e - 1) * d = e * d - d
    OBVIOUS
  <2>3. s * d \in Nat /\ e * d \in Nat
    BY <1>2
  <2>4. QED
    BY <1>1, <2>1, <2>2, <2>3
<1>4. n = p * (e * d) + (s * d + r)
  <2>1. (p * e + s) * d = p * (e * d) + s * d
    BY <1>2
  <2>2. QED
    BY <1>1, <1>2, <2>1
<1>5. e * d \in Nat \ {0}
  BY MulOrder
<1>6. n \div (e * d) = p
  BY <1>2, <1>3, <1>4, <1>5, DivModUnique
<1>7. QED
  BY <1>6 DEF p, q

-----------------------------------------------------------------------------
(* The constants, and the digits of a number. *)

LEMMA Constants ==
    /\ Byte \in Nat \ {0} /\ Half \in Nat \ {0} /\ Word \in Nat \ {0}
    /\ Byte = 2 * Half
    /\ Word = (((Half * Byte) * Byte) * Byte) * 2
<1>1. Byte \in Nat \ {0} /\ Half \in Nat \ {0} /\ Byte = 2 * Half
  BY ByteAssumption DEF Half
<1>2. Word = (((Half * Byte) * Byte) * Byte) * 2
  <2>1. \A h, b \in Nat : ((b * b) * b) * (2 * h) = (((h * b) * b) * b) * 2
    OBVIOUS
  <2>2. Word = ((Byte * Byte) * Byte) * (2 * Half)
    BY <1>1 DEF Word
  <2>3. QED
    BY <1>1, <2>1, <2>2
<1>3. Byte * Byte \in Nat \ {0}
  BY <1>1
<1>4. (Byte * Byte) * Byte \in Nat \ {0}
  BY <1>1, <1>3
<1>5. Word \in Nat \ {0}
  BY <1>1, <1>4 DEF Word
<1>6. QED
  BY <1>1, <1>2, <1>5

(* The number without its last digit, without its last two, ... *)
Shorter(n) == n \div Byte

LEMMA FieldDigits ==
    ASSUME NEW n \in 0..(Word - 1),
           NEW n1, n1 = Shorter(n), NEW n2, n2 = Shorter(n1), NEW n3, n3 = Shorter(n2)
    PROVE  /\ n1 \in 0..n /\ n2 \in 0..n1 /\ n3 \in 0..n2 /\ n3 < Byte
           /\ n = n1 * Byte + (n % Byte) /\ n % Byte \in 0..(Byte - 1)
           /\ n1 = n2 * Byte + (n1 % Byte) /\ n1 % Byte \in 0..(Byte - 1)
           /\ n2 = n3 * Byte + (n2 % Byte) /\ n2 % Byte \in 0..(Byte - 1)
           /\ Field(n) = <<n3, n2 % Byte, n1 % Byte, n % Byte>>
<1>1. \A m \in Nat : /\ Shorter(m) \in Nat
                     /\ m = Shorter(m) * Byte + (m % Byte)
                     /\ m % Byte \in 0..(Byte - 1)
  BY Constants, DivMod DEF Shorter
<1>2. \A m \in Nat : Shorter(m) <= m
  <2>1. ASSUME NEW m \in Nat, NEW q \in Nat, NEW r \in Nat, m = q * Byte + r
        PROVE  q <= m
    <3>1. q * 1 <= q * Byte
      BY Constants, MulOrder
    <3>2. QED
      BY <2>1, <3>1, Constants
  <2>2. \A m \in Nat : m % Byte \in Nat
    BY <1>1, Constants
  <2>3. QED
    BY <1>1, <2>1, <2>2, Zenon
<1>3. n \in Nat /\ n < Word
  BY Constants
<1>4. n1 \in 0..n /\ n2 \in 0..n1 /\ n3 \in 0..n2
  BY <1>1, <1>2, <1>3
<1>d. \A d \in Nat \ {0} : (n \div d) \div Byte = n \div (Byte * d)
  <2>1. Byte \in Nat \ {0}
    BY Constants
  <2>2. QED
    BY <1>3, <2>1, DivDiv
<1>5. n2 = n \div (Byte * Byte)
  <2>1. Byte \in Nat \ {0}
    BY Constants
  <2>2. QED
    BY <1>d, <2>1 DEF Shorter
<1>6. n3 = n \div ((Byte * Byte) * Byte)
  <2>1. Byte * Byte \in Nat \ {0}
    BY Constants
  <2>2. Byte * (Byte * Byte) = (Byte * Byte) * Byte
    BY Constants
  <2>3. QED
    BY <1>d, <1>5, <2>1, <2>2 DEF Shorter
<1>7. n3 < Byte
  <2> DEFINE d == (Byte * Byte) * Byte
  <2>1. d \in Nat \ {0} /\ Word = Byte * d
    <3>1. Byte * Byte \in Nat \ {0}
      BY Constants
    <3>2. QED
      BY <3>1, Constants DEF Word
  <2>a. n3 = n \div d
    BY <1>6
  <2> HIDE DEF d
  <2>2. n = n3 * d + (n % d) /\ n % d \in Nat
    BY <1>3, <2>1, <2>a, DivMod
  <2>3. CASE n3 >= Byte
    <3>1. Byte * d <= n3 * d
      BY <1>4, <2>1, <2>3, Constants, MulOrder
    <3>2. n3 * d \in Nat
      BY <1>4, <2>1
    <3>3. QED
      BY <1>3, <2>1, <2>2, <3>1, <3>2
  <2>4. QED
    BY <1>4, <2>3, Constants
<1>8. n3 % Byte = n3
  BY <1>4, <1>7, Constants
<1>9. QED
  BY <1>1, <1>3, <1>4, <1>5, <1>6, <1>7, <1>8 DEF Field, Shorter

LEMMA FieldBytes ==
    \A n \in 0..(Word - 1) :
        \E b1, b2, b3, b4 \in 0..(Byte - 1) : Field(n) = <<b1, b2, b3, b4>>
<1> SUFFICES ASSUME NEW n \in 0..(Word - 1),
                    NEW n1, n1 = Shorter(n), NEW n2, n2 = Shorter(n1), NEW n3, n3 = Shorter(n2)
             PROVE  \E b1, b2, b3, b4 \in 0..(Byte - 1) : Field(n) = <<b1, b2, b3, b4>>
  OBVIOUS
<1>1. n3 \in 0..(Byte - 1)
  BY FieldDigits, Constants
<1>2. QED
  BY <1>1, FieldDigits

-----------------------------------------------------------------------------
(* Shifting in the digits one after the other gives the number back.       *)

LEMMA ShiftInDigit ==
    ASSUME NEW m \in 0..(Word - 1), NEW q \in Nat, NEW b \in 0..(Byte - 1),
           m = q * Byte + b
    PROVE  ShiftIn(q, b) = m
BY Constants DEF ShiftIn

(***************************************************************************)
(* convertReceiveMsg reads back every size and MSGID that convertSendMsg   *)
(* wrote.                                                                  *)
(***************************************************************************)
THEOREM FieldReadBack == \A n \in 0..(Word - 1) : ReadField(Field(n)) = n
<1> SUFFICES ASSUME NEW n \in 0..(Word - 1),
                    NEW n1, n1 = Shorter(n), NEW n2, n2 = Shorter(n1), NEW n3, n3 = Shorter(n2)
             PROVE  ReadField(Field(n)) = n
  OBVIOUS
<1>1. /\ n2 \in 0..(Word - 1) /\ n1 \in 0..(Word - 1)
      /\ n1 \in Nat /\ n2 \in Nat /\ n3 \in Nat
  <2>1. n1 \in 0..n /\ n2 \in 0..n1 /\ n3 \in 0..n2
    BY FieldDigits
  <2>2. Word \in Nat
    BY Constants
  <2>3. QED
    BY <2>1, <2>2
<1>2. ShiftIn(n3, n2 % Byte) = n2
  BY <1>1, FieldDigits, ShiftInDigit
<1>3. ShiftIn(n2, n1 % Byte) = n1
  BY <1>1, FieldDigits, ShiftInDigit
<1>4. ShiftIn(n1, n % Byte) = n
  BY <1>1, FieldDigits, ShiftInDigit
<1>5. QED
  BY <1>2, <1>3, <1>4, FieldDigits DEF ReadField

-----------------------------------------------------------------------------
(* A sign-extended byte: the bits above it are set, and stay so.           *)

(* The number is at most d below 2^32. *)
High(v, d) == v \in (Word - d)..(Word - 1)

LEMMA ShiftInHigh ==
    ASSUME NEW d \in Nat, d * Byte <= Word, NEW v \in Nat, High(v, d), NEW b \in 0..(Byte - 1)
    PROVE  High(ShiftIn(v, b), d * Byte)
<1> DEFINE k == Word - v
           r == Word - k * Byte + b
<1>1. k \in 1..d /\ v = Word - k
  BY Constants DEF High
<1> HIDE DEF k
<1>2. k * Byte <= d * Byte /\ 1 * Byte <= k * Byte /\ k * Byte \in Nat
  BY <1>1, Constants, MulOrder
<1>3. r \in (Word - d * Byte)..(Word - 1) /\ r \in 0..(Word - 1)
  BY <1>2, Constants
<1>4. v * Byte + b = (Byte - 1) * Word + r
  <2>1. (Word - k) * Byte = Word * Byte - k * Byte
    BY <1>1, Constants
  <2>2. (Byte - 1) * Word = Word * Byte - Word
    BY Constants
  <2>3. QED
    BY <1>1, <1>2, <2>1, <2>2, Constants
<1> HIDE DEF r
<1>5. (v * Byte + b) % Word = r
  <2>1. Byte - 1 \in Nat
    BY Constants
  <2>2. ((Byte - 1) * Word + r) % Word = r
    BY <1>3, <2>1, Constants, DivModUnique
  <2>3. QED
    BY <1>4, <2>2
<1>6. QED
  BY <1>3, <1>5 DEF High, ShiftIn

LEMMA ExtendHigh ==
    ASSUME NEW b \in 0..(Byte - 1), b >= Half
    PROVE  High(SignExtend(b), Half) /\ SignExtend(b) \in Nat
<1>1. Half <= Word - Half
  <2>1. (((Half * Byte) * Byte) * Byte) >= Half
    <3>1. \A x \in Nat : x <= x * Byte
      BY Constants, MulOrder
    <3>2. Half \in Nat /\ Half * Byte \in Nat /\ (Half * Byte) * Byte \in Nat
      BY Constants
    <3>3. QED
      BY <3>1, <3>2, Constants
  <2>2. QED
    BY <2>1, Constants
<1>2. QED
  BY <1>1, Constants DEF High, SignExtend

LEMMA ShiftInCharHigh ==
    ASSUME NEW d \in Nat, Half <= d, d * Byte <= Word,
           NEW v \in 0..(Word - 1), NEW b \in 0..(Byte - 1), High(v, d) \/ b >= Half
    PROVE  High(ShiftInChar(v, b), d * Byte)
<1>1. CASE b >= Half
  <2>1. 1 * d <= Byte * d /\ d <= d * Byte
    BY Constants, MulOrder
  <2>2. High(SignExtend(b), Half) /\ ShiftInChar(v, b) = SignExtend(b)
    BY <1>1, Constants, ExtendHigh DEF ShiftInChar
  <2>3. d * Byte \in Nat
    BY Constants
  <2>4. QED
    BY <2>1, <2>2, <2>3, Constants DEF High
<1>2. CASE b < Half
  BY <1>2, Constants, ShiftInHigh DEF ShiftInChar
<1>3. QED
  BY <1>1, <1>2, Constants

(* Whatever is shifted in, the result is a 32-bit number. *)
LEMMA ShiftInCharType ==
    \A v \in 0..(Word - 1), b \in 0..(Byte - 1) : ShiftInChar(v, b) \in 0..(Word - 1)
<1> SUFFICES ASSUME NEW v \in 0..(Word - 1), NEW b \in 0..(Byte - 1)
             PROVE  ShiftInChar(v, b) \in 0..(Word - 1)
  OBVIOUS
<1>1. CASE b >= Half
  BY <1>1, Constants, ExtendHigh DEF ShiftInChar, High
<1>2. CASE b < Half
  <2>1. v * Byte + b \in Nat
    BY Constants
  <2>2. (v * Byte + b) % Word \in 0..(Word - 1)
    BY <2>1, Constants, DivMod
  <2>3. QED
    BY <1>2, <2>2, Constants DEF ShiftInChar, ShiftIn
<1>3. QED
  BY <1>1, <1>2, Constants

(***************************************************************************)
(* Receive reads back a size whose bytes all have a clear top bit.         *)
(***************************************************************************)
THEOREM ClearSizeReadBack ==
    \A n \in 0..(Word - 1) :
        (\A i \in 1..4 : Field(n)[i] < Half) => ReadSize(Field(n)) = n
<1> SUFFICES ASSUME NEW n \in 0..(Word - 1), \A i \in 1..4 : Field(n)[i] < Half
             PROVE  ReadSize(Field(n)) = n
  OBVIOUS
<1>1. ReadSize(Field(n)) = ReadField(Field(n))
  BY DEF ReadSize, ReadField, ShiftInChar, SignExtend
<1>2. QED
  BY <1>1, FieldReadBack

(***************************************************************************)
(* Receive takes any other size for one of at least 2^31 bytes: the byte   *)
(* that is sign-extended last leaves the top bit set.                      *)
(***************************************************************************)
THEOREM SignedSizeHuge ==
    \A n \in 0..(Word - 1) :
        (\E i \in 1..4 : Field(n)[i] >= Half)
            => ReadSize(Field(n)) >= Half * Byte * Byte * Byte
<1> SUFFICES ASSUME NEW n \in 0..(Word - 1), NEW i \in 1..4, Field(n)[i] >= Half
             PROVE  ReadSize(Field(n)) >= Half * Byte * Byte * Byte
  OBVIOUS
<1> DEFINE d2 == Half * Byte
           d3 == d2 * Byte
           d4 == d3 * Byte
<1>1. /\ d2 \in Nat /\ d3 \in Nat /\ d4 \in Nat /\ Word = d4 * 2
      /\ Half <= d2 /\ d2 <= d3 /\ d3 <= d4
      /\ Half * Byte = d2 /\ d2 * Byte = d3 /\ d3 * Byte = d4
      /\ Half * Byte * Byte * Byte = d4
  <2>1. \A x \in Nat : x <= x * Byte /\ x * Byte \in Nat
    BY Constants, MulOrder
  <2>2. QED
    BY <2>1, Constants
<1> HIDE DEF d2, d3, d4
<1>b. PICK b1 \in 0..(Byte - 1), b2 \in 0..(Byte - 1), b3 \in 0..(Byte - 1), b4 \in 0..(Byte - 1) :
         Field(n) = <<b1, b2, b3, b4>>
  BY FieldBytes
<1>c. b1 >= Half \/ b2 >= Half \/ b3 >= Half \/ b4 >= Half
  <2>1. i = 1 \/ i = 2 \/ i = 3 \/ i = 4
    OBVIOUS
  <2>2. QED
    BY <1>b, <2>1
<1> DEFINE v1 == SignExtend(b1)
           v2 == ShiftInChar(v1, b2)
           v3 == ShiftInChar(v2, b3)
           v4 == ShiftInChar(v3, b4)
<1>2. ReadSize(Field(n)) = v4
  BY <1>b DEF ReadSize
<1>3. v1 \in 0..(Word - 1) /\ (b1 >= Half => High(v1, Half))
  BY <1>1, Constants, ExtendHigh DEF SignExtend, High
<1> HIDE DEF v1
<1>4. /\ v2 \in 0..(Word - 1)
      /\ b1 >= Half \/ b2 >= Half => High(v2, d2)
  <2>1. v2 \in 0..(Word - 1)
    BY <1>3, ShiftInCharType
  <2>2. ASSUME High(v1, Half) \/ b2 >= Half PROVE High(v2, d2)
    <3>1. High(v2, Half * Byte)
      BY <1>1, <1>3, <2>2, Constants, ShiftInCharHigh
    <3>2. QED
      BY <1>1, <3>1
  <2>3. QED
    BY <1>3, <2>1, <2>2
<1> HIDE DEF v2
<1>5. /\ v3 \in 0..(Word - 1)
      /\ b1 >= Half \/ b2 >= Half \/ b3 >= Half => High(v3, d3)
  <2>1. v3 \in 0..(Word - 1)
    BY <1>4, ShiftInCharType
  <2>2. ASSUME High(v2, d2) \/ b3 >= Half PROVE High(v3, d3)
    <3>1. High(v3, d2 * Byte)
      BY <1>1, <1>4, <2>2, Constants, ShiftInCharHigh
    <3>2. QED
      BY <1>1, <3>1
  <2>3. QED
    BY <1>4, <2>1, <2>2
<1> HIDE DEF v3
<1>6. High(v4, d4)
  <2>1. High(v4, d3 * Byte)
    BY <1>1, <1>5, <1>c, Constants, ShiftInCharHigh
  <2>2. QED
    BY <1>1, <2>1
<1>7. ReadSize(Field(n)) >= d4
  BY <1>1, <1>2, <1>6 DEF High
<1>8. QED
  BY <1>1, <1>7

=============================================================================
