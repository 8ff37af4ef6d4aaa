------------------------- MODULE ConversionsProofs --------------------------
(***************************************************************************)
(* The conversions of MCConversions: the header fields, for chars of any   *)
(* even number of values, and the format strings of FormatString, of any   *)
(* items and arguments: they are rendered item by item, the parser is      *)
(* stopped by nothing but a name or an index beyond a short in a           *)
(* placeholder, and moves on otherwise.                                    *)
(* What the recursive functions compute is proved by induction in the form *)
(* of sets of numbers (Induct).                                            *)
(***************************************************************************)
EXTENDS MCConversions, WireFormatProofs, SequenceTheorems, FiniteSetTheorems,
        WellFoundedInduction

(***************************************************************************)
(* Every number that convertSendMsg can write into a header field is read  *)
(* back by convertReceiveMsg, and by Receive if its bytes have a clear top *)
(* bit.                                                                    *)
(***************************************************************************)
THEOREM HeadersReadBack == MCSpec => []HeaderReadBack
<1> DEFINE InWord == number \in 0..(Word - 1)
<1>1. MCInit => InWord
  BY DEF MCInit
<1>2. InWord /\ [MCNext]_<<vars, number>> => InWord'
  BY DEF MCNext
<1>3. InWord => HeaderReadBack
  <2> SUFFICES ASSUME InWord PROVE HeaderReadBack
    OBVIOUS
  <2>1. ReadField(Field(number)) = number
    BY FieldReadBack
  <2>2. (\A i \in 1..4 : Field(number)[i] < Half) => ReadSize(Field(number)) = number
    BY <2>1, ClearSizeReadBack
  <2>3. QED
    BY <2>1, <2>2 DEF HeaderReadBack
<1>4. QED
  BY <1>1, <1>2, <1>3, PTL DEF MCSpec

-----------------------------------------------------------------------------
(* A set of numbers has a least element: the order of Nat is well-founded. *)
LEMMA Least == ASSUME NEW T \in SUBSET Nat, T # {}
               PROVE  \E x \in T : \A y \in T : x <= y
<1>1. \E x \in T : \A y \in T : ~(<<y, x>> \in OpToRel(<, Nat))
  BY NatLessThanWellFounded, WFMin, Zenon
<1>2. \A x, y \in Nat : <<y, x>> \in OpToRel(<, Nat) <=> y < x
  BY DEF OpToRel
<1>3. PICK x \in T : \A y \in T : ~(<<y, x>> \in OpToRel(<, Nat))
  BY <1>1, Zenon
<1>4. \A y \in T : ~(y < x)
  BY <1>2, <1>3, Zenon
<1>5. QED
  BY <1>4

(* Induction in the form of a set that is closed under the successor.      *)
LEMMA Induct == ASSUME NEW T \in SUBSET Nat, 0 \in T, \A n \in T : n + 1 \in T
                PROVE  T = Nat
<1>1. SUFFICES ASSUME NEW z \in Nat, z \notin T PROVE FALSE
  OBVIOUS
<1>2. Nat \ T \in SUBSET Nat /\ Nat \ T # {}
  BY <1>1
<1>3. PICK x \in Nat \ T : \A y \in Nat \ T : x <= y
  BY <1>2, Least, Zenon
<1>4. x \in Nat /\ x # 0
  OBVIOUS
<1>5. x - 1 \in T
  BY <1>3, <1>4
<1>6. QED
  BY <1>4, <1>5

(* The tables of what a sequence of sequences s comes to, piece by piece.  *)
Steps(g, s, n) ==
    /\ g[1] = s[1]
    /\ \A i \in 1..n : i # 1 => g[i] = g[i-1] \o s[i]

(* There is such a table.                                                  *)
LEMMA StepsExist ==
  ASSUME NEW S, NEW n \in Nat, n # 0, NEW s \in [1..n -> Seq(S)]
  PROVE  \E g \in [1..n -> Seq(S)] : Steps(g, s, n)
<1> DEFINE T == {m \in Nat : m + 1 <= n => \E g \in [1..m+1 -> Seq(S)] : Steps(g, s, m + 1)}
<1>1. 0 \in T
  <2>1. [i \in 1..1 |-> s[1]] \in [1..1 -> Seq(S)]
    OBVIOUS
  <2>2. Steps([i \in 1..1 |-> s[1]], s, 1)
    BY DEF Steps
  <2>3. QED
    BY <2>1, <2>2
<1>2. ASSUME NEW m \in T PROVE m + 1 \in T
  <2>1. SUFFICES ASSUME m + 2 <= n
                 PROVE  \E g \in [1..m+2 -> Seq(S)] : Steps(g, s, m + 2)
    OBVIOUS
  <2>2. PICK g \in [1..m+1 -> Seq(S)] : Steps(g, s, m + 1)
    BY <2>1
  <2> DEFINE h == [i \in 1..m+2 |-> IF i = m + 2 THEN g[m+1] \o s[m+2] ELSE g[i]]
  <2>3. g[m+1] \o s[m+2] \in Seq(S)
    BY <2>1, ConcatProperties
  <2>4. h \in [1..m+2 -> Seq(S)]
    BY <2>3
  <2>5. Steps(h, s, m + 2)
    <3>1. h[1] = s[1]
      BY <2>2 DEF Steps
    <3>2. ASSUME NEW i \in 1..m+2, i # 1 PROVE h[i] = h[i-1] \o s[i]
      <4>1. CASE i = m + 2
        <5>1. m + 2 \in 1..m+2 /\ m + 1 \in 1..m+2 /\ m + 1 # m + 2 /\ i - 1 = m + 1
          BY <4>1
        <5>2. h[m+2] = g[m+1] \o s[m+2] /\ h[m+1] = g[m+1]
          BY <5>1, Zenon
        <5>3. QED
          BY <4>1, <5>1, <5>2, Zenon
      <4>2. CASE i # m + 2
        <5>1. i \in 1..m+1 /\ i - 1 \in 1..m+2 /\ i - 1 # m + 2
          BY <3>2, <4>2
        <5>2. h[i] = g[i] /\ h[i-1] = g[i-1]
          BY <4>2, <5>1, Zenon
        <5>3. g[i] = g[i-1] \o s[i]
          BY <2>2, <3>2, <5>1 DEF Steps
        <5>4. QED
          BY <5>2, <5>3
      <4>3. QED
        BY <4>1, <4>2
    <3>3. QED
      BY <3>1, <3>2 DEF Steps
  <2>6. QED
    BY <2>4, <2>5
<1>3. T = Nat
  BY <1>1, <1>2, Induct
<1>4. n - 1 \in Nat /\ (n - 1) + 1 = n
  OBVIOUS
<1>5. n - 1 \in T
  BY <1>3, <1>4, Zenon
<1>6. (n - 1) + 1 <= n => \E g \in [1..(n-1)+1 -> Seq(S)] : Steps(g, s, (n-1)+1)
  BY <1>5, Zenon
<1>7. QED
  BY <1>4, <1>6

(* The function that FlattenSeq defines.                                   *)
Flattened(s, n) == CHOOSE f : f = [i \in 1..n |-> IF i = 1 THEN s[i] ELSE f[i-1] \o s[i]]

(* FlattenSeq's recursive function is the table.                           *)
LEMMA FlattenedIsSteps ==
  ASSUME NEW S, NEW n \in Nat, n # 0, NEW s, NEW g \in [1..n -> Seq(S)], Steps(g, s, n)
  PROVE  Flattened(s, n)[n] = g[n]
<1> DEFINE f == Flattened(s, n)
<1>1. g = [i \in 1..n |-> IF i = 1 THEN s[i] ELSE g[i-1] \o s[i]]
  <2>1. \A i \in 1..n : g[i] = IF i = 1 THEN s[i] ELSE g[i-1] \o s[i]
    BY Zenon DEF Steps
  <2>2. QED
    BY <2>1
<1>2. f = [i \in 1..n |-> IF i = 1 THEN s[i] ELSE f[i-1] \o s[i]]
  BY <1>1, Zenon DEF Flattened
<1> HIDE DEF f
<1>3. \A i \in 1..n : f[i] = IF i = 1 THEN s[i] ELSE f[i-1] \o s[i]
  BY <1>2, Zenon
<1> DEFINE T == {m \in Nat : m + 1 <= n => f[m+1] = g[m+1]}
<1>5. 0 \in T
  BY <1>3 DEF Steps
<1>6. ASSUME NEW m \in T PROVE m + 1 \in T
  <2>1. SUFFICES ASSUME m + 2 <= n PROVE f[m+2] = g[m+2]
    BY DEF T
  <2>2. f[m+1] = g[m+1]
    BY <2>1
  <2>3. m + 2 \in 1..n /\ m + 2 # 1 /\ (m + 2) - 1 = m + 1
    BY <2>1
  <2>4. f[m+2] = f[m+1] \o s[m+2]
    BY <1>3, <2>3
  <2>5. g[m+2] = g[m+1] \o s[m+2]
    BY <2>3 DEF Steps
  <2>6. QED
    BY <2>2, <2>4, <2>5
<1>7. T = Nat
  BY <1>5, <1>6, Induct
<1>8. n - 1 \in Nat /\ (n - 1) + 1 = n
  OBVIOUS
<1>9. n - 1 \in T
  BY <1>7, <1>8, Zenon
<1>10. (n - 1) + 1 <= n => f[(n-1)+1] = g[(n-1)+1]
  BY <1>9, Zenon
<1>11. f[n] = g[n]
  BY <1>8, <1>10
<1>12. QED
  BY <1>11 DEF f

(* FlattenSeq, for the empty sequence too.                                 *)
LEMMA FlattenSeqIs ==
  ASSUME NEW S, NEW n \in Nat, NEW s \in [1..n -> Seq(S)]
  PROVE  FlattenSeq(s) = IF n = 0 THEN <<>> ELSE Flattened(s, n)[n]
<1>1. Len(s) = n
  OBVIOUS
<1>2. CASE n = 0
  <2>1. s = <<>>
    BY <1>2
  <2>2. QED
    BY <1>1, <1>2, <2>1, Zenon DEF FlattenSeq
<1>3. CASE n # 0
  <2>1. FlattenSeq(s) = Flattened(s, n)[n]
    BY <1>1, <1>3, Zenon DEF FlattenSeq, Flattened
  <2>2. QED
    BY <1>3, <2>1
<1>4. QED
  BY <1>2, <1>3

(* One piece more makes the result longer by that piece.                   *)
LEMMA FlattenStep ==
  ASSUME NEW S, NEW n \in Nat, NEW s \in [1..n+1 -> Seq(S)]
  PROVE  /\ FlattenSeq(s) \in Seq(S)
         /\ FlattenSeq([i \in 1..n |-> s[i]]) \in Seq(S)
         /\ FlattenSeq(s) = FlattenSeq([i \in 1..n |-> s[i]]) \o s[n+1]
<1> DEFINE r == [i \in 1..n |-> s[i]]
<1>1. n + 1 \in Nat /\ n + 1 # 0 /\ r \in [1..n -> Seq(S)]
  OBVIOUS
<1>2. PICK g \in [1..n+1 -> Seq(S)] : Steps(g, s, n + 1)
  BY <1>1, StepsExist
<1>3. FlattenSeq(s) = g[n+1]
  <2>1. Flattened(s, n + 1)[n+1] = g[n+1]
    BY <1>1, <1>2, FlattenedIsSteps
  <2>2. QED
    BY <1>1, <2>1, FlattenSeqIs
<1>4. g[n+1] \in Seq(S)
  OBVIOUS
<1>5. CASE n = 0
  <2>1. FlattenSeq(r) = <<>>
    BY <1>1, <1>5, FlattenSeqIs
  <2>2. g[n+1] = s[n+1]
    BY <1>2, <1>5 DEF Steps
  <2>3. s[n+1] \in Seq(S)
    OBVIOUS
  <2>4. <<>> \o s[n+1] = s[n+1] /\ <<>> \in Seq(S)
    BY <2>3, ConcatEmptySeq
  <2>5. QED
    BY <1>3, <1>4, <2>1, <2>2, <2>4
<1>6. CASE n # 0
  <2> DEFINE h == [i \in 1..n |-> g[i]]
  <2>1. h \in [1..n -> Seq(S)]
    OBVIOUS
  <2>2. Steps(h, r, n)
    <3>1. h[1] = r[1]
      BY <1>2, <1>6 DEF Steps
    <3>2. ASSUME NEW i \in 1..n, i # 1 PROVE h[i] = h[i-1] \o r[i]
      <4>1. g[i] = g[i-1] \o s[i]
        <5>1. i \in 1..n+1
          OBVIOUS
        <5>2. QED
          BY <1>2, <3>2, <5>1, Zenon DEF Steps
      <4>2. h[i] = g[i] /\ h[i-1] = g[i-1] /\ r[i] = s[i]
        BY <3>2
      <4>3. QED
        BY <4>1, <4>2, Zenon
    <3>3. QED
      BY <3>1, <3>2 DEF Steps
  <2>3. Flattened(r, n)[n] = h[n]
    BY <1>6, <2>1, <2>2, FlattenedIsSteps
  <2>4. h[n] = g[n] /\ g[n] \in Seq(S)
    BY <1>6
  <2>5. FlattenSeq(r) = g[n]
    BY <1>1, <1>6, <2>3, <2>4, FlattenSeqIs
  <2>6. n + 1 \in 1..n+1 /\ n + 1 # 1 /\ (n + 1) - 1 = n
    BY <1>6
  <2>7. g[n+1] = g[n] \o s[n+1]
    BY <1>2, <2>6 DEF Steps
  <2>8. QED
    BY <1>3, <1>4, <2>4, <2>5, <2>7
<1>7. QED
  BY <1>5, <1>6

(* A digit is one of ten characters and has a value.                       *)
LEMMA DigitChars == Digits = {"0", "1", "2", "3", "4", "5", "6", "7", "8", "9"}
BY DEF Digits, Numerals

LEMMA DigitValue == ASSUME NEW d \in Digits PROVE Value(d) \in 0..9
<1>1. PICK i \in 1..10 : i = CHOOSE j \in 1..10 : Numerals[j] = d
  BY DEF Digits
<1>2. i - 1 \in 0..9
  OBVIOUS
<1>3. QED
  BY <1>1, <1>2 DEF Value

(* Number is what its recursion says: digit by digit, ten times what was   *)
(* before and the digit.                                                   *)
LEMMA NumberTable ==
  ASSUME NEW n \in Nat, NEW s, Len(s) = n, \A i \in 1..n : s[i] \in Digits
  PROVE  /\ Number(s) \in [0..n -> Nat]
         /\ Number(s)[0] = 0
         /\ \A i \in 1..n : Number(s)[i] = 10 * Number(s)[i-1] + Value(s[i])
<1> DEFINE Table(g, m) ==
      /\ g[0] = 0
      /\ \A i \in 1..m : g[i] = 10 * g[i-1] + Value(s[i])
<1>1. \A i \in 1..n : Value(s[i]) \in Nat
  BY DigitValue
<1> HIDE DEF Table
<1>2. \E g \in [0..n -> Nat] : Table(g, n)
  <2> DEFINE T == {m \in Nat : m <= n => \E g \in [0..m -> Nat] : Table(g, m)}
  <2>1. 0 \in T
    <3>1. [i \in 0..0 |-> 0] \in [0..0 -> Nat] /\ Table([i \in 0..0 |-> 0], 0)
      BY DEF Table
    <3>2. QED
      BY <3>1
  <2>2. ASSUME NEW m \in T PROVE m + 1 \in T
    <3>1. SUFFICES ASSUME m + 1 <= n
                   PROVE  \E g \in [0..m+1 -> Nat] : Table(g, m + 1)
      OBVIOUS
    <3>2. PICK g \in [0..m -> Nat] : Table(g, m)
      BY <3>1
    <3>3. PICK x \in Nat : x = 10 * g[m] + Value(s[m+1])
      <4>1. g[m] \in Nat /\ Value(s[m+1]) \in Nat
        BY <1>1, <3>1
      <4>2. QED
        BY <4>1
    <3> DEFINE h == [i \in 0..m+1 |-> IF i = m + 1 THEN x ELSE g[i]]
    <3>4. h \in [0..m+1 -> Nat]
      OBVIOUS
    <3>5. Table(h, m + 1)
      <4>1. h[0] = 0
        BY <3>2 DEF Table
      <4>2. ASSUME NEW i \in 1..m+1 PROVE h[i] = 10 * h[i-1] + Value(s[i])
        <5>1. CASE i = m + 1
          <6>1. m + 1 \in 0..m+1 /\ m \in 0..m+1 /\ m # m + 1 /\ i - 1 = m
            BY <5>1
          <6>2. h[m+1] = x /\ h[m] = g[m]
            BY <6>1, Zenon
          <6>3. QED
            BY <3>3, <5>1, <6>1, <6>2, Zenon
        <5>2. CASE i # m + 1
          <6>1. i \in 1..m /\ i \in 0..m+1 /\ i - 1 \in 0..m+1 /\ i - 1 # m + 1
            BY <5>2
          <6>2. h[i] = g[i] /\ h[i-1] = g[i-1]
            BY <5>2, <6>1, Zenon
          <6>3. g[i] = 10 * g[i-1] + Value(s[i])
            BY <3>2, <6>1, Zenon DEF Table
          <6>4. QED
            BY <6>2, <6>3, Zenon
        <5>3. QED
          BY <5>1, <5>2
      <4>3. QED
        BY <4>1, <4>2 DEF Table
    <3>6. QED
      BY <3>4, <3>5
  <2>3. T = Nat
    BY <2>1, <2>2, Induct
  <2>4. n \in T
    BY <2>3, Zenon
  <2>5. n <= n
    OBVIOUS
  <2>6. QED
    BY <2>4, <2>5, Zenon
<1>3. PICK g \in [0..n -> Nat] : Table(g, n)
  BY <1>2
<1> DEFINE v == Number(s)
<1>4. g = [i \in 0..n |-> IF i = 0 THEN 0 ELSE 10 * g[i-1] + Value(s[i])]
  <2>1. \A i \in 0..n : g[i] = IF i = 0 THEN 0 ELSE 10 * g[i-1] + Value(s[i])
    <3>1. \A i \in 0..n : i # 0 => i \in 1..n
      OBVIOUS
    <3>2. QED
      BY <1>3, <3>1, Zenon DEF Table
  <2>2. QED
    BY <2>1
<1>5. v = [i \in 0..n |-> IF i = 0 THEN 0 ELSE 10 * v[i-1] + Value(s[i])]
  BY <1>4, Zenon DEF Number
<1> HIDE DEF v
<1>6. \A i \in 0..n : v[i] = IF i = 0 THEN 0 ELSE 10 * v[i-1] + Value(s[i])
  BY <1>5, Zenon
<1>7. \A i \in 0..n : v[i] = g[i]
  <2> DEFINE T == {m \in Nat : m <= n => v[m] = g[m]}
  <2>1. 0 \in T
    BY <1>3, <1>6 DEF Table
  <2>2. ASSUME NEW m \in T PROVE m + 1 \in T
    <3>1. SUFFICES ASSUME m + 1 <= n PROVE v[m+1] = g[m+1]
      BY DEF T
    <3>2. v[m] = g[m]
      BY <3>1
    <3>3. m + 1 \in 0..n /\ m + 1 # 0 /\ m + 1 \in 1..n /\ (m + 1) - 1 = m
      BY <3>1
    <3>4. v[m+1] = 10 * v[m] + Value(s[m+1])
      BY <1>6, <3>3, Zenon
    <3>5. g[m+1] = 10 * g[m] + Value(s[m+1])
      BY <1>3, <3>3, Zenon DEF Table
    <3>6. QED
      BY <3>2, <3>4, <3>5, Zenon
  <2>3. T = Nat
    BY <2>1, <2>2, Induct
  <2>4. \A i \in 0..n : i \in T /\ i <= n
    BY <2>3
  <2>5. QED
    BY <2>4
<1>8. v = g
  <2>1. DOMAIN v = 0..n
    BY <1>5, Zenon
  <2>2. QED
    BY <1>5, <1>7, <2>1
<1>9. QED
  BY <1>3, <1>8, Zenon DEF v, Table

-----------------------------------------------------------------------------
(***************************************************************************)
(* The inductive invariant of FormatString's Spec: where in the format     *)
(* string the loop is - between two items, within one, or beyond the end - *)
(* and what its variables hold there.  What was rendered and how many      *)
(* arguments were taken is the meaning of the items before, if the format  *)
(* string is one of those that RendersItems is about.                      *)
(***************************************************************************)

Chars == {"x", "{", "}", ":", "b"} \cup Digits

(* The text of the first k items, how long it is, what it means, and how   *)
(* many items in line and arguments it takes.                              *)
Text(k) == FlattenSeq([n \in 1..k |-> Written(items[n])])
Start(k) == Len(Text(k))
Rendered(k) == FlattenSeq([n \in 1..k |-> Meaning(n)])
InLineTo(k) == Cardinality({m \in 1..k : InLine(m)})
Taken(k) == IF InLineTo(k) <= Len(args) THEN InLineTo(k) ELSE Len(args)

(* The format strings RendersItems is about.                               *)
Good == ~LeavesType /\ ~HasTooLarge /\ ~(items # <<>> /\ Untyped(Len(items)))
SoFar(k) == Good => sRet = Rendered(k) /\ nArgsIdx = Taken(k)

TypeLeft(k) == \E n \in 1..k : IndexedBool(n) \/ TooLarge(n)

(* After k items.  An indexed bool, or one whose index wrapped, may have   *)
(* left isType set; the test of the end is skipped only after an item      *)
(* without a type.                                                         *)
Outside(k) ==
    /\ pos = Start(k) + 1
    /\ ~isPlaceHolder /\ ~isBracket
    /\ sType = <<>> /\ nIndex = -1
    /\ isType => TypeLeft(k)
    /\ fell /\ Good => k > 0 /\ Untyped(k)

(* After o characters of item k + 1, in {{}}.                              *)
InBraces(k, o) ==
    /\ items[k+1].kind = "braces"
    /\ o \in {1, 2}
    /\ isBracket <=> o = 2
    /\ isType => TypeLeft(k)
    /\ sType = <<>> /\ nIndex = -1

(* At the character that is no digit.                                      *)
InName(k, o) ==
    /\ items[k+1].kind = "name"
    /\ o = 1
    /\ ~isBracket /\ ~isType
    /\ sType = <<>> /\ nIndex = -1

(* Among the digits: nIndex is what those read so far come to, if that is  *)
(* a short.                                                                *)
InIndex(k, o) ==
    /\ items[k+1].kind \in {"arg", "bool", "other"}
    /\ o \in 1..Len(items[k+1].index) + 1
    /\ ~isBracket /\ ~isType
    /\ sType = <<>>
    /\ Number(items[k+1].index)[o-1] <= MaxShort =>
            nIndex = IF o = 1 THEN -1 ELSE Number(items[k+1].index)[o-1]

(* After the colon.                                                        *)
InType(k, o) ==
    LET it == items[k+1]
        t == IF it.kind = "bool" THEN "b" ELSE "x"
    IN  /\ it.kind \in {"bool", "other"}
        /\ o \in {Len(it.index) + 2, Len(it.index) + 3}
        /\ ~isBracket /\ isType
        /\ sType = IF o = Len(it.index) + 2 THEN <<>> ELSE <<t>>
        /\ ~TooLarge(k+1) =>
                nIndex = IF it.index = <<>> THEN -1 ELSE Number(it.index)[Len(it.index)]

(* In a placeholder that is taken for a type since isType was left set.    *)
InResidue(k, o) ==
    LET it == items[k+1]
    IN  /\ it.kind \in {"arg", "bool", "other", "name"}
        /\ o \in 1..Len(Written(it)) - 1
        /\ ~isBracket /\ isType /\ TypeLeft(k)
        /\ nIndex = -1
        /\ sType \in Seq(Chars)
        /\ IF o = 1 THEN sType = <<>> ELSE sType # <<>> /\ sType[1] # "b"

Inside(k, o) ==
    /\ pos = Start(k) + o + 1
    /\ isPlaceHolder /\ ~fell
    /\ InBraces(k, o) \/ InName(k, o) \/ InIndex(k, o) \/ InType(k, o) \/ InResidue(k, o)

(* Beyond the string, after its end was not tested.                        *)
Past == pos = Len(format) + 2 /\ ~Good

At(k) ==
    /\ SoFar(k)
    /\ \/ Outside(k)
       \/ k < Len(items) /\ \E o \in 1..Len(Written(items[k+1])) - 1 : Inside(k, o)

(* What format_trans is called with.                                       *)
Known ==
    /\ items \in SeqOf(Items, MaxItems)
    /\ args \in Arguments

IInv == Known /\ (Past \/ \E k \in 0..Len(items) : At(k))

-----------------------------------------------------------------------------
(* Short sequences.                                                        *)
LEMMA OneChar == ASSUME NEW S, NEW x \in S
                 PROVE  <<x>> \in Seq(S) /\ Len(<<x>>) = 1 /\ <<x>>[1] = x
OBVIOUS

LEMMA ThreeChars ==
  ASSUME NEW S, NEW x \in S, NEW y \in S, NEW z \in S
  PROVE  /\ <<x, y, z>> \in Seq(S) /\ Len(<<x, y, z>>) = 3
         /\ <<x, y, z>>[1] = x /\ <<x, y, z>>[2] = y /\ <<x, y, z>>[3] = z
OBVIOUS

LEMMA FourChars ==
  ASSUME NEW S, NEW u \in S, NEW x \in S, NEW y \in S, NEW z \in S
  PROVE  /\ <<u, x, y, z>> \in Seq(S) /\ Len(<<u, x, y, z>>) = 4
         /\ <<u, x, y, z>>[1] = u /\ <<u, x, y, z>>[2] = x
         /\ <<u, x, y, z>>[3] = y /\ <<u, x, y, z>>[4] = z
OBVIOUS

LEMMA AllChars == /\ "x" \in Chars /\ "{" \in Chars /\ "}" \in Chars
                  /\ ":" \in Chars /\ "b" \in Chars /\ Digits \subseteq Chars
BY DEF Chars

(* A concatenation, with the lengths' types.                               *)
LEMMA Cat ==
  ASSUME NEW S, NEW s \in Seq(S), NEW t \in Seq(S)
  PROVE  /\ Len(s) \in Nat /\ Len(t) \in Nat /\ s \o t \in Seq(S)
         /\ Len(s \o t) = Len(s) + Len(t)
         /\ \A i \in 1..Len(s) + Len(t) :
               (s \o t)[i] = IF i <= Len(s) THEN s[i] ELSE t[i - Len(s)]
<1>1. Len(s) \in Nat /\ Len(t) \in Nat
  OBVIOUS
<1>2. QED
  BY <1>1, ConcatProperties, Zenon

(* A placeholder: a brace, its index, and the rest.                        *)
LEMMA Bracketed ==
  ASSUME NEW s \in Seq(Chars), NEW u \in Seq(Chars)
  PROVE  /\ <<"{">> \o s \o u \in Seq(Chars)
         /\ Len(<<"{">> \o s \o u) = 1 + Len(s) + Len(u)
         /\ (<<"{">> \o s \o u)[1] = "{"
         /\ \A j \in 1..Len(s) : (<<"{">> \o s \o u)[1 + j] = s[j]
         /\ \A j \in 1..Len(u) : (<<"{">> \o s \o u)[1 + Len(s) + j] = u[j]
<1> DEFINE a == <<"{">>
           b == a \o s
<1>1. a \in Seq(Chars) /\ Len(a) = 1 /\ a[1] = "{"
  BY AllChars, OneChar, Zenon
<1> HIDE DEF a
<1>2. PICK l \in Nat, m \in Nat : l = Len(s) /\ m = Len(u)
  OBVIOUS
<1>3. /\ b \in Seq(Chars)
      /\ Len(b) = 1 + l
      /\ \A i \in 1..1 + l : b[i] = IF i <= 1 THEN a[i] ELSE s[i - 1]
  <2>1. /\ Len(a) \in Nat /\ Len(s) \in Nat /\ a \o s \in Seq(Chars)
        /\ Len(a \o s) = Len(a) + Len(s)
        /\ \A i \in 1..Len(a) + Len(s) :
              (a \o s)[i] = IF i <= Len(a) THEN a[i] ELSE s[i - Len(a)]
    BY <1>1, Cat, Zenon
  <2>2. QED
    BY <1>1, <1>2, <2>1, Zenon
<1> DEFINE w == b \o u
<1> HIDE DEF b
<1>4. /\ w \in Seq(Chars)
      /\ Len(w) = 1 + l + m
      /\ \A i \in 1..1 + l + m : w[i] = IF i <= 1 + l THEN b[i] ELSE u[i - (1 + l)]
  <2>1. /\ Len(b) \in Nat /\ Len(u) \in Nat /\ b \o u \in Seq(Chars)
        /\ Len(b \o u) = Len(b) + Len(u)
        /\ \A i \in 1..Len(b) + Len(u) :
              (b \o u)[i] = IF i <= Len(b) THEN b[i] ELSE u[i - Len(b)]
    BY <1>3, Cat, Zenon
  <2>2. QED
    BY <1>2, <1>3, <2>1, Zenon
<1> HIDE DEF w
<1>5. w[1] = "{"
  <2>1. 1 \in 1..1 + l + m /\ 1 \in 1..1 + l /\ 1 <= 1 /\ 1 <= 1 + l
    OBVIOUS
  <2>2. QED
    BY <1>1, <1>3, <1>4, <2>1, Zenon
<1>6. ASSUME NEW j \in 1..l PROVE w[1 + j] = s[j]
  <2>1. 1 + j \in 1..1 + l + m /\ 1 + j <= 1 + l /\ ~(1 + j <= 1) /\ 1 + j \in 1..1 + l /\ (1 + j) - 1 = j
    OBVIOUS
  <2>2. w[1 + j] = b[1 + j]
    BY <1>4, <2>1, Zenon
  <2>3. b[1 + j] = s[j]
    BY <1>3, <2>1, Zenon
  <2>4. QED
    BY <2>2, <2>3, Zenon
<1>7. ASSUME NEW j \in 1..m PROVE w[1 + l + j] = u[j]
  <2>1. 1 + l + j \in 1..1 + l + m /\ ~(1 + l + j <= 1 + l) /\ (1 + l + j) - (1 + l) = j
    OBVIOUS
  <2>2. QED
    BY <1>4, <2>1, Zenon
<1>8. QED
  BY <1>2, <1>4, <1>5, <1>6, <1>7, Zenon DEF a, b, w

(* The characters of an item of each kind.                                 *)
LEMMA Shape ==
  ASSUME NEW it \in Items
  PROVE  /\ Len(it.index) \in Nat /\ Written(it) \in Seq(Chars)
         /\ it.kind \in {"text", "braces", "arg", "bool", "other", "name"}
         /\ \A j \in 1..Len(it.index) : it.index[j] \in Digits
         /\ it.kind = "text" => Len(Written(it)) = 1 /\ Written(it)[1] = "x"
         /\ it.kind = "braces" =>
               /\ Len(Written(it)) = 4 /\ Written(it)[1] = "{" /\ Written(it)[2] = "{"
               /\ Written(it)[3] = "}" /\ Written(it)[4] = "}"
         /\ it.kind = "name" =>
               /\ Len(Written(it)) = 3 /\ Written(it)[1] = "{" /\ Written(it)[2] = "x"
               /\ Written(it)[3] = "}"
         /\ it.kind \in {"arg", "bool", "other"} =>
               /\ Written(it)[1] = "{"
               /\ \A j \in 1..Len(it.index) : Written(it)[1 + j] = it.index[j]
         /\ it.kind = "arg" =>
               /\ Len(Written(it)) = Len(it.index) + 2
               /\ Written(it)[Len(it.index) + 2] = "}"
         /\ it.kind \in {"bool", "other"} =>
               /\ Len(Written(it)) = Len(it.index) + 4
               /\ Written(it)[Len(it.index) + 2] = ":"
               /\ Written(it)[Len(it.index) + 3] = IF it.kind = "bool" THEN "b" ELSE "x"
               /\ Written(it)[Len(it.index) + 4] = "}"
<1>0. PICK w, l : w = Written(it) /\ l = Len(it.index)
  OBVIOUS
<1>1. it.kind \in {"text", "braces", "arg", "bool", "other", "name"} /\ it.index \in Seq(Digits)
  BY FormatAssumption
<1>2. l \in Nat /\ \A j \in 1..l : it.index[j] \in Digits
  BY <1>0, <1>1
<1>3. it.index \in Seq(Chars)
  BY <1>1, SeqMonotonic DEF Chars
<1> SUFFICES /\ l \in Nat /\ w \in Seq(Chars)
             /\ it.kind \in {"text", "braces", "arg", "bool", "other", "name"}
             /\ \A j \in 1..l : it.index[j] \in Digits
             /\ it.kind = "text" => Len(w) = 1 /\ w[1] = "x"
             /\ it.kind = "braces" =>
                   Len(w) = 4 /\ w[1] = "{" /\ w[2] = "{" /\ w[3] = "}" /\ w[4] = "}"
             /\ it.kind = "name" => Len(w) = 3 /\ w[1] = "{" /\ w[2] = "x" /\ w[3] = "}"
             /\ it.kind \in {"arg", "bool", "other"} =>
                   w[1] = "{" /\ \A j \in 1..l : w[1 + j] = it.index[j]
             /\ it.kind = "arg" => Len(w) = l + 2 /\ w[l + 2] = "}"
             /\ it.kind \in {"bool", "other"} =>
                   /\ Len(w) = l + 4
                   /\ w[l + 2] = ":"
                   /\ w[l + 3] = IF it.kind = "bool" THEN "b" ELSE "x"
                   /\ w[l + 4] = "}"
  BY <1>0, Zenon
<1>4. CASE it.kind = "text"
  <2>1. w = <<"x">>
    BY <1>0, <1>4 DEF Written
  <2>2. w \in Seq(Chars) /\ Len(w) = 1 /\ w[1] = "x"
    BY <2>1, AllChars, OneChar, Zenon
  <2>3. QED
    BY <1>2, <1>4, <2>2
<1>5. CASE it.kind = "braces"
  <2>1. w = <<"{", "{", "}", "}">>
    BY <1>0, <1>5 DEF Written
  <2> DEFINE u == <<"{", "{", "}", "}">>
  <2>2. u \in Seq(Chars) /\ Len(u) = 4 /\ u[1] = "{" /\ u[2] = "{" /\ u[3] = "}" /\ u[4] = "}"
    BY AllChars, FourChars, Zenon
  <2>3. QED
    BY <1>2, <1>5, <2>1, <2>2, Zenon
<1>6. CASE it.kind = "name"
  <2>1. w = <<"{", "x", "}">>
    BY <1>0, <1>6 DEF Written
  <2> DEFINE u == <<"{", "x", "}">>
  <2>2. u \in Seq(Chars) /\ Len(u) = 3 /\ u[1] = "{" /\ u[2] = "x" /\ u[3] = "}"
    BY AllChars, ThreeChars, Zenon
  <2>3. QED
    BY <1>2, <1>6, <2>1, <2>2, Zenon
<1>7. CASE it.kind = "arg"
  <2> DEFINE u == <<"}">>
  <2>1. w = <<"{">> \o it.index \o u
    BY <1>0, <1>7 DEF Written
  <2>2. u \in Seq(Chars) /\ Len(u) = 1 /\ u[1] = "}"
    BY AllChars, OneChar, Zenon
  <2> HIDE DEF u
  <2>3. /\ w \in Seq(Chars)
        /\ Len(w) = 1 + l + 1
        /\ w[1] = "{"
        /\ \A j \in 1..l : w[1 + j] = it.index[j]
        /\ \A j \in 1..1 : w[1 + l + j] = u[j]
    <3>1. /\ w \in Seq(Chars)
          /\ Len(w) = 1 + l + Len(u)
          /\ w[1] = "{"
          /\ \A j \in 1..l : w[1 + j] = it.index[j]
          /\ \A j \in 1..Len(u) : w[1 + l + j] = u[j]
      <4>1. /\ <<"{">> \o it.index \o u \in Seq(Chars)
            /\ Len(<<"{">> \o it.index \o u) = 1 + Len(it.index) + Len(u)
            /\ (<<"{">> \o it.index \o u)[1] = "{"
            /\ \A j \in 1..Len(it.index) : (<<"{">> \o it.index \o u)[1 + j] = it.index[j]
            /\ \A j \in 1..Len(u) : (<<"{">> \o it.index \o u)[1 + Len(it.index) + j] = u[j]
        BY <1>3, <2>2, Bracketed, Zenon
      <4>2. QED
        BY <1>0, <2>1, <4>1, Zenon
    <3>2. QED
      BY <2>2, <3>1, Zenon
  <2>4. Len(w) = l + 2
    <3>1. 1 + l + 1 = l + 2
      BY <1>2
    <3>2. QED
      BY <2>3, <3>1, Zenon
  <2>5. w[1 + l + 1] = "}"
    <3>1. 1 \in 1..1
      OBVIOUS
    <3>2. QED
      BY <2>2, <2>3, <3>1, Zenon
  <2>6. 1 + l + 1 = l + 2
    BY <1>2
  <2>7. QED
    BY <1>2, <1>7, <2>3, <2>4, <2>5, <2>6, Zenon
<1>8. CASE it.kind \in {"bool", "other"}
  <2> DEFINE t == IF it.kind = "bool" THEN "b" ELSE "x"
             u == <<":", t, "}">>
  <2>1. w = <<"{">> \o it.index \o u
    BY <1>0, <1>8 DEF Written
  <2>2. u \in Seq(Chars) /\ Len(u) = 3 /\ u[1] = ":" /\ u[2] = t /\ u[3] = "}"
    <3>1. t \in Chars
      BY AllChars
    <3>2. QED
      BY <3>1, AllChars, ThreeChars, Zenon
  <2> HIDE DEF u
  <2>3. /\ w \in Seq(Chars)
        /\ Len(w) = 1 + l + 3
        /\ w[1] = "{"
        /\ \A j \in 1..l : w[1 + j] = it.index[j]
        /\ \A j \in 1..3 : w[1 + l + j] = u[j]
    <3>1. /\ w \in Seq(Chars)
          /\ Len(w) = 1 + l + Len(u)
          /\ w[1] = "{"
          /\ \A j \in 1..l : w[1 + j] = it.index[j]
          /\ \A j \in 1..Len(u) : w[1 + l + j] = u[j]
      <4>1. /\ <<"{">> \o it.index \o u \in Seq(Chars)
            /\ Len(<<"{">> \o it.index \o u) = 1 + Len(it.index) + Len(u)
            /\ (<<"{">> \o it.index \o u)[1] = "{"
            /\ \A j \in 1..Len(it.index) : (<<"{">> \o it.index \o u)[1 + j] = it.index[j]
            /\ \A j \in 1..Len(u) : (<<"{">> \o it.index \o u)[1 + Len(it.index) + j] = u[j]
        BY <1>3, <2>2, Bracketed, Zenon
      <4>2. QED
        BY <1>0, <2>1, <4>1, Zenon
    <3>2. QED
      BY <2>2, <3>1, Zenon
  <2>4. Len(w) = l + 4
    <3>1. 1 + l + 3 = l + 4
      BY <1>2
    <3>2. QED
      BY <2>3, <3>1, Zenon
  <2>5. w[1 + l + 1] = ":" /\ w[1 + l + 2] = t /\ w[1 + l + 3] = "}"
    <3>1. 1 \in 1..3 /\ 2 \in 1..3 /\ 3 \in 1..3
      OBVIOUS
    <3>2. QED
      BY <2>2, <2>3, <3>1, Zenon
  <2>6. 1 + l + 1 = l + 2 /\ 1 + l + 2 = l + 3 /\ 1 + l + 3 = l + 4
    BY <1>2
  <2>7. w[l + 2] = ":" /\ w[l + 3] = t /\ w[l + 4] = "}"
    BY <2>5, <2>6, Zenon
  <2> HIDE DEF t
  <2>8. it.kind # "arg" /\ it.kind # "text" /\ it.kind # "braces" /\ it.kind # "name"
    BY <1>8
  <2>9. QED
    BY <1>1, <1>2, <2>3, <2>4, <2>7, <2>8, Zenon DEF t
<1>9. QED
  BY <1>1, <1>4, <1>5, <1>6, <1>7, <1>8

(* The types of what does not change.                                      *)
LEMMA KnownTypes ==
  ASSUME Known
  PROVE  /\ Len(items) \in Nat
         /\ \A n \in 1..Len(items) : items[n] \in Items
         /\ Len(args) \in Nat \ {0}
<1>1. PICK m \in 0..MaxItems : items \in [1..m -> Items]
  BY DEF Known, SeqOf
<1>2. m \in Nat
  BY FormatAssumption
<1>3. Len(items) = m
  BY <1>1, <1>2
<1>4. Len(args) \in 1..MaxShort
  BY FormatAssumption DEF Known
<1>5. \A n \in 1..MaxShort : n \in Nat \ {0}
  BY DEF MaxShort
<1>6. QED
  BY <1>1, <1>2, <1>3, <1>4, <1>5 DEF Known

(* One item more makes the text longer by what is written for it.          *)
LEMMA TextStep ==
  ASSUME Known, NEW k \in Nat, k < Len(items)
  PROVE  /\ Text(k) \in Seq(Chars)
         /\ Text(k + 1) \in Seq(Chars)
         /\ Text(k + 1) = Text(k) \o Written(items[k+1])
<1> DEFINE s == [n \in 1..k+1 |-> Written(items[n])]
<1>1. \A n \in 1..k+1 : n \in 1..Len(items)
  BY KnownTypes
<1>2. \A n \in 1..k+1 : Written(items[n]) \in Seq(Chars)
  BY <1>1, KnownTypes, Shape, Zenon
<1>3. s \in [1..k+1 -> Seq(Chars)]
  BY <1>2
<1>4. s[k+1] = Written(items[k+1])
  OBVIOUS
<1>5. [n \in 1..k |-> s[n]] = [n \in 1..k |-> Written(items[n])]
  OBVIOUS
<1> HIDE DEF s
<1>6. /\ FlattenSeq(s) \in Seq(Chars)
      /\ FlattenSeq([n \in 1..k |-> s[n]]) \in Seq(Chars)
      /\ FlattenSeq(s) = FlattenSeq([n \in 1..k |-> s[n]]) \o s[k+1]
  BY <1>3, FlattenStep, Zenon
<1>7. QED
  BY <1>4, <1>5, <1>6, Zenon DEF Text, s

LEMMA TextEmpty == Text(0) = <<>>
<1>1. [n \in 1..0 |-> Written(items[n])] = <<>>
  OBVIOUS
<1>2. Len(<<>>) = 0
  OBVIOUS
<1>3. QED
  BY <1>1, <1>2, Zenon DEF Text, FlattenSeq

(* In the format string, item k + 1 starts after the characters of the     *)
(* items before: they are where CharAt finds them.                         *)
LEMMA Positions ==
  ASSUME Known, NEW k \in Nat, k < Len(items)
  PROVE  /\ Start(k) \in Nat /\ Len(Written(items[k+1])) \in Nat
         /\ Start(k + 1) = Start(k) + Len(Written(items[k+1]))
         /\ Len(format) \in Nat /\ Start(k + 1) <= Len(format)
         /\ \A j \in 1..Len(Written(items[k+1])) :
               CharAt(Start(k) + j) = Written(items[k+1])[j]
<1>1. PICK n \in Nat : n = Len(items)
  BY KnownTypes
<1> DEFINE w == Written(items[k+1])
<1>2. k + 1 <= n /\ k + 1 \in Nat
  BY <1>1
<1>3. w \in Seq(Chars)
  <2>1. k + 1 \in 1..n
    BY <1>2
  <2>2. items[k+1] \in Items
    BY <1>1, <2>1, KnownTypes, Zenon
  <2>3. QED
    BY <2>2, Shape, Zenon
<1>4. Text(k) \in Seq(Chars) /\ Text(k + 1) = Text(k) \o w
  BY <1>1, TextStep
<1> HIDE DEF w
<1>5. PICK a \in Nat, l \in Nat : a = Len(Text(k)) /\ l = Len(w)
  BY <1>3, <1>4
<1>6. /\ Len(Text(k + 1)) = a + l
      /\ \A i \in 1..a + l : Text(k + 1)[i] = IF i <= a THEN Text(k)[i] ELSE w[i - a]
  <2>1. /\ Len(Text(k) \o w) = Len(Text(k)) + Len(w)
        /\ \A i \in 1..Len(Text(k)) + Len(w) :
              (Text(k) \o w)[i] = IF i <= Len(Text(k)) THEN Text(k)[i] ELSE w[i - Len(Text(k))]
    BY <1>3, <1>4, Cat, Zenon
  <2>2. QED
    BY <1>4, <1>5, <2>1, Zenon
<1> DEFINE Longer(m) == /\ Len(Text(m)) \in Nat /\ a + l <= Len(Text(m))
                        /\ \A i \in 1..a + l : Text(m)[i] = Text(k + 1)[i]
           T == {d \in Nat : k + 1 + d <= n => Longer(k + 1 + d)}
<1>7. 0 \in T
  <2>1. Longer(k + 1)
    <3>1. a + l \in Nat /\ a + l <= a + l
      OBVIOUS
    <3>2. QED
      BY <1>6, <3>1, Zenon
  <2>2. k + 1 + 0 = k + 1
    OBVIOUS
  <2> HIDE DEF Longer
  <2>3. QED
    BY <2>1, <2>2
<1>8. ASSUME NEW d \in T PROVE d + 1 \in T
  <2> HIDE DEF Longer
  <2>1. SUFFICES ASSUME k + 1 + (d + 1) <= n PROVE Longer(k + 1 + (d + 1))
    OBVIOUS
  <2>2. PICK m \in Nat : m = k + 1 + d
    OBVIOUS
  <2>3. m < n /\ k + 1 + (d + 1) = m + 1
    BY <2>1, <2>2
  <2>4. Longer(m)
    BY <2>2, <2>3
  <2> DEFINE x == Written(items[m+1])
  <2>5. x \in Seq(Chars)
    <3>1. m + 1 \in 1..n
      BY <2>3
    <3>2. items[m+1] \in Items
      BY <1>1, <3>1, KnownTypes, Zenon
    <3>3. QED
      BY <3>2, Shape, Zenon
  <2>6. Text(m) \in Seq(Chars) /\ Text(m + 1) = Text(m) \o x
    BY <1>1, <2>3, TextStep
  <2> HIDE DEF x
  <2>7. PICK p \in Nat, q \in Nat : p = Len(Text(m)) /\ q = Len(x)
    BY <2>5, <2>6
  <2>8. /\ Len(Text(m + 1)) = p + q
        /\ \A i \in 1..p + q : Text(m + 1)[i] = IF i <= p THEN Text(m)[i] ELSE x[i - p]
    <3>1. /\ Len(Text(m) \o x) = Len(Text(m)) + Len(x)
          /\ \A i \in 1..Len(Text(m)) + Len(x) :
                (Text(m) \o x)[i] = IF i <= Len(Text(m)) THEN Text(m)[i] ELSE x[i - Len(Text(m))]
      BY <2>5, <2>6, Cat, Zenon
    <3>2. QED
      BY <2>6, <2>7, <3>1, Zenon
  <2>9. a + l <= p /\ \A i \in 1..a + l : Text(m)[i] = Text(k + 1)[i]
    BY <2>4, <2>7, Zenon DEF Longer
  <2>10. \A i \in 1..a + l : i \in 1..p + q /\ i <= p
    <3>1. a + l <= p
      BY <2>9, Zenon
    <3>2. QED
      BY <3>1
  <2>11. p + q \in Nat /\ a + l <= p + q
    <3>1. a + l <= p
      BY <2>9, Zenon
    <3>2. QED
      BY <3>1
  <2>12. ASSUME NEW i \in 1..a + l PROVE Text(m + 1)[i] = Text(k + 1)[i]
    <3>1. i \in 1..p + q /\ i <= p
      BY <2>10, Zenon
    <3>2. Text(m + 1)[i] = Text(m)[i]
      BY <2>8, <3>1, Zenon
    <3>3. Text(m)[i] = Text(k + 1)[i]
      BY <2>9, Zenon
    <3>4. QED
      BY <3>2, <3>3, Zenon
  <2>13. Longer(m + 1)
    BY <2>8, <2>11, <2>12, Zenon DEF Longer
  <2>14. QED
    BY <2>3, <2>13, Zenon
<1> HIDE DEF Longer
<1>9. T = Nat
  BY <1>7, <1>8, Induct
<1>10. n - (k + 1) \in Nat /\ k + 1 + (n - (k + 1)) = n
  BY <1>2
<1>11. n - (k + 1) \in T
  BY <1>9, <1>10, Zenon
<1>12. k + 1 + (n - (k + 1)) <= n => Longer(k + 1 + (n - (k + 1)))
  BY <1>11, Zenon
<1>13. n <= n
  OBVIOUS
<1>14. Longer(n)
  BY <1>10, <1>12, <1>13, Zenon
<1>15. format = Text(n)
  BY <1>1, Zenon DEF format, Text
<1>16. PICK z \in Nat : z = Len(format)
  BY <1>14, <1>15, Zenon DEF Longer
<1>17. a + l <= z /\ \A i \in 1..a + l : format[i] = Text(k + 1)[i]
  BY <1>14, <1>15, <1>16, Zenon DEF Longer
<1>18. ASSUME NEW j \in 1..l PROVE CharAt(a + j) = w[j]
  <2>1. a + l <= z
    BY <1>17, Zenon
  <2>2. a + j \in 1..a + l /\ a + j <= z /\ ~(a + j <= a) /\ (a + j) - a = j
    BY <2>1
  <2>3. format[a + j] = w[j]
    BY <1>6, <1>17, <2>2, Zenon
  <2>4. QED
    BY <1>16, <2>2, <2>3, Zenon DEF CharAt
<1>19. QED
  BY <1>5, <1>6, <1>16, <1>17, <1>18, Zenon DEF Start, w

-----------------------------------------------------------------------------
(* The items in line are counted one by one.                               *)
LEMMA InLineStep ==
  ASSUME NEW k \in Nat
  PROVE  /\ InLineTo(k) \in Nat
         /\ InLineTo(k + 1) = IF InLine(k + 1) THEN InLineTo(k) + 1 ELSE InLineTo(k)
<1> DEFINE A == {m \in 1..k : InLine(m)}
           B == {m \in 1..k+1 : InLine(m)}
<1>1. IsFiniteSet(A) /\ k + 1 \notin A
  <2>1. IsFiniteSet(1..k)
    BY FS_Interval
  <2>2. A \in SUBSET (1..k)
    OBVIOUS
  <2>3. IsFiniteSet(A)
    BY <2>1, <2>2, FS_Subset, Zenon
  <2>4. QED
    BY <2>3
<1>2. Cardinality(A) \in Nat
  BY <1>1, FS_CardinalityType
<1>3. CASE InLine(k + 1)
  <2>1. B = A \cup {k + 1}
    BY <1>3
  <2>2. Cardinality(A \cup {k + 1}) = Cardinality(A) + 1
    BY <1>1, FS_AddElement
  <2>3. QED
    BY <1>2, <1>3, <2>1, <2>2, Zenon DEF InLineTo
<1>4. CASE ~InLine(k + 1)
  <2>1. B = A
    BY <1>4
  <2>2. QED
    BY <1>2, <1>4, <2>1, Zenon DEF InLineTo
<1>5. QED
  BY <1>3, <1>4

LEMMA InLineNone == InLineTo(0) = 0
<1>1. {m \in 1..0 : InLine(m)} = {}
  OBVIOUS
<1>2. QED
  BY <1>1, FS_EmptySet, Zenon DEF InLineTo

(* The argument an item asks for, by its index or by the count of those in *)
(* line.                                                                   *)
LEMMA Indexed ==
  ASSUME Known, NEW k \in Nat, k < Len(items), NEW l, l = Len(items[k+1].index)
  PROVE  /\ l \in Nat
         /\ items[k+1].index = <<>> <=> l = 0
         /\ Number(items[k+1].index) \in [0..l -> Nat]
         /\ Number(items[k+1].index)[0] = 0
         /\ \A i \in 1..l : /\ items[k+1].index[i] \in Digits
                            /\ Number(items[k+1].index)[i] =
                                  10 * Number(items[k+1].index)[i-1] + Value(items[k+1].index[i])
         /\ ~InLine(k + 1) => ArgumentOf(k + 1) = Number(items[k+1].index)[l] + 1
         /\ InLine(k + 1) => ArgumentOf(k + 1) = InLineTo(k) + 1
         /\ ArgumentOf(k + 1) \in Nat \ {0}
<1> DEFINE s == items[k+1].index
<1>1. k + 1 \in 1..Len(items)
  BY KnownTypes
<1>2. s \in Seq(Digits)
  BY <1>1, KnownTypes, FormatAssumption
<1>3. l \in Nat /\ \A i \in 1..l : s[i] \in Digits
  BY <1>2
<1>4. s = <<>> <=> l = 0
  BY <1>2, EmptySeq
<1> HIDE DEF s
<1>5. /\ Number(s) \in [0..l -> Nat]
      /\ Number(s)[0] = 0
      /\ \A i \in 1..l : Number(s)[i] = 10 * Number(s)[i-1] + Value(s[i])
  BY <1>3, NumberTable, Zenon DEF s
<1>6. ~InLine(k + 1) => ArgumentOf(k + 1) = Number(s)[l] + 1
  BY Zenon DEF ArgumentOf, s
<1>7. InLine(k + 1) => ArgumentOf(k + 1) = InLineTo(k) + 1
  <2>1. InLine(k + 1) => ArgumentOf(k + 1) = InLineTo(k + 1)
    BY Zenon DEF ArgumentOf, InLineTo
  <2>2. QED
    BY <2>1, InLineStep, Zenon
<1>8. ArgumentOf(k + 1) \in Nat \ {0}
  <2>1. PICK c \in Nat : c = InLineTo(k)
    BY InLineStep
  <2>2. PICK v \in Nat : v = Number(s)[l]
    BY <1>3, <1>5
  <2>3. c + 1 \in Nat \ {0} /\ v + 1 \in Nat \ {0}
    OBVIOUS
  <2>4. QED
    BY <1>6, <1>7, <2>1, <2>2, <2>3, Zenon
<1>9. QED
  BY <1>3, <1>4, <1>5, <1>6, <1>7, <1>8, Zenon DEF s

(* What a result is made of.                                               *)
Tokens == {"x", "{}", "true", "false"} \cup {args[i] : i \in 1..Len(args)}

(* What an item means is a sequence of tokens.                             *)
LEMMA MeaningType ==
  ASSUME Known, NEW n \in 1..Len(items)
  PROVE  Meaning(n) \in Seq(Tokens)
<1>1. PICK k \in Nat : k + 1 = n /\ k < Len(items)
  <2>1. n - 1 \in Nat /\ (n - 1) + 1 = n /\ n - 1 < Len(items)
    BY KnownTypes
  <2>2. QED
    BY <2>1
<1>2. ArgumentOf(n) \in Nat \ {0}
  BY <1>1, Indexed, Zenon
<1>3. /\ <<"x">> \in Seq(Tokens) /\ <<"{}">> \in Seq(Tokens)
      /\ <<"true">> \in Seq(Tokens) /\ <<"false">> \in Seq(Tokens)
      /\ <<>> \in Seq(Tokens)
  <2>1. "x" \in Tokens /\ "{}" \in Tokens /\ "true" \in Tokens /\ "false" \in Tokens
    BY DEF Tokens
  <2>2. QED
    BY <2>1, OneChar, EmptySeq, Zenon
<1>4. ~(ArgumentOf(n) > Len(args)) => <<args[ArgumentOf(n)]>> \in Seq(Tokens)
  <2>1. ~(ArgumentOf(n) > Len(args)) => ArgumentOf(n) \in 1..Len(args)
    BY <1>2, KnownTypes
  <2>2. ~(ArgumentOf(n) > Len(args)) => args[ArgumentOf(n)] \in Tokens
    BY <2>1 DEF Tokens
  <2>3. QED
    BY <2>2
<1>5. QED
  BY <1>3, <1>4 DEF Meaning

(* One item more makes the meaning longer by its own.                      *)
LEMMA RenderedStep ==
  ASSUME Known, NEW k \in Nat, k < Len(items)
  PROVE  /\ Rendered(k) \in Seq(Tokens)
         /\ Meaning(k + 1) \in Seq(Tokens)
         /\ Rendered(k + 1) = Rendered(k) \o Meaning(k + 1)
<1> DEFINE s == [n \in 1..k+1 |-> Meaning(n)]
<1>1. \A n \in 1..k+1 : n \in 1..Len(items)
  BY KnownTypes
<1>2. \A n \in 1..k+1 : Meaning(n) \in Seq(Tokens)
  BY <1>1, MeaningType, Zenon
<1>3. s \in [1..k+1 -> Seq(Tokens)]
  BY <1>2
<1>4. s[k+1] = Meaning(k + 1) /\ k + 1 \in 1..k+1
  OBVIOUS
<1>5. [n \in 1..k |-> s[n]] = [n \in 1..k |-> Meaning(n)]
  OBVIOUS
<1> HIDE DEF s
<1>6. /\ FlattenSeq(s) \in Seq(Tokens)
      /\ FlattenSeq([n \in 1..k |-> s[n]]) \in Seq(Tokens)
      /\ FlattenSeq(s) = FlattenSeq([n \in 1..k |-> s[n]]) \o s[k+1]
  BY <1>3, FlattenStep, Zenon
<1>7. QED
  BY <1>2, <1>4, <1>5, <1>6, Zenon DEF Rendered, s

(* What an item adds to the result and takes of the arguments.             *)
LEMMA Renders ==
  ASSUME Known, NEW k \in Nat, k < Len(items)
  PROVE  /\ Meaning(k + 1) = <<>> => Rendered(k + 1) = Rendered(k)
         /\ \A t \in Tokens : Meaning(k + 1) = <<t>> =>
               Rendered(k + 1) = Append(Rendered(k), t)
<1>1. /\ Rendered(k) \in Seq(Tokens)
      /\ Rendered(k + 1) = Rendered(k) \o Meaning(k + 1)
  BY RenderedStep
<1>2. Rendered(k) \o <<>> = Rendered(k)
  BY <1>1, ConcatEmptySeq, Zenon
<1>3. \A t \in Tokens : Append(Rendered(k), t) = Rendered(k) \o <<t>>
  BY <1>1, AppendIsConcat, Zenon
<1>4. QED
  BY <1>1, <1>2, <1>3, Zenon

(* An argument is there, or it is not.                                     *)
LEMMA ArgumentThere ==
  ASSUME Known, NEW k \in Nat, k < Len(items)
  PROVE  /\ ArgumentOf(k + 1) <= Len(args) <=> ~(ArgumentOf(k + 1) > Len(args))
         /\ ArgumentOf(k + 1) <= Len(args) => ArgumentOf(k + 1) \in 1..Len(args)
<1>1. PICK a \in Nat \ {0} : a = ArgumentOf(k + 1)
  BY Indexed
<1>2. PICK n \in Nat : n = Len(args)
  BY KnownTypes
<1>3. (a <= n <=> ~(a > n)) /\ (a <= n => a \in 1..n)
  OBVIOUS
<1>4. QED
  BY <1>1, <1>2, <1>3, Zenon

(* Only an item in line takes an argument.                                 *)
LEMMA TakesNone ==
  ASSUME NEW k \in Nat, ~InLine(k + 1)
  PROVE  Taken(k + 1) = Taken(k)
BY InLineStep, Zenon DEF Taken

(* At the } of a placeholder, the argument is the one of its meaning.      *)
LEMMA Closing ==
  ASSUME Known, NEW k \in Nat, k < Len(items), items[k+1].kind \in {"arg", "bool"},
         nIndex = IF items[k+1].index = <<>> THEN -1
                  ELSE Number(items[k+1].index)[Len(items[k+1].index)]
  PROVE  /\ nIndex # -1 <=> items[k+1].index # <<>>
         /\ nIndex # -1 => Wanted = ArgumentOf(k + 1)
         /\ nArgsIdx = Taken(k) =>
               /\ Exists <=> ArgumentOf(k + 1) <= Len(args)
               /\ Exists => Wanted = ArgumentOf(k + 1)
               /\ Taken(k + 1) = IF nIndex = -1 /\ Exists THEN nArgsIdx + 1 ELSE nArgsIdx
<1> DEFINE s == items[k+1].index
<1>1. PICK n \in Nat \ {0} : n = Len(args)
  BY KnownTypes
<1>2. PICK c \in Nat : c = InLineTo(k)
  BY InLineStep
<1>3. InLine(k + 1) <=> s = <<>>
  BY Zenon DEF InLine
<1>4. /\ Taken(k) = IF c <= n THEN c ELSE n
      /\ Taken(k + 1) = IF s = <<>> THEN IF c + 1 <= n THEN c + 1 ELSE n
                        ELSE IF c <= n THEN c ELSE n
  <2>1. InLineTo(k + 1) = IF s = <<>> THEN c + 1 ELSE c
    BY <1>2, <1>3, InLineStep, Zenon
  <2>2. QED
    BY <1>1, <1>2, <2>1, Zenon DEF Taken
<1>5. CASE s = <<>>
  <2>1. nIndex = -1 /\ Wanted = nArgsIdx + 1
    BY <1>5, Zenon DEF Wanted
  <2>2. ArgumentOf(k + 1) = c + 1
    BY <1>2, <1>3, <1>5, Indexed, Zenon
  <2>3. Exists <=> nArgsIdx + 1 <= n
    <3>1. -1 >= -1
      OBVIOUS
    <3>2. QED
      BY <1>1, <2>1, <3>1, Zenon DEF Exists
  <2>4. Taken(k + 1) = IF c + 1 <= n THEN c + 1 ELSE n
    BY <1>4, <1>5, Zenon
  <2>5. PICK t \in Nat : t = IF c <= n THEN c ELSE n
    OBVIOUS
  <2>6. /\ t + 1 <= n <=> c + 1 <= n
        /\ t + 1 <= n => t + 1 = c + 1
        /\ (IF c + 1 <= n THEN c + 1 ELSE n) = IF t + 1 <= n THEN t + 1 ELSE t
    BY <2>5
  <2>7. Taken(k) = t
    BY <1>4, <2>5, Zenon
  <2>8. QED
    BY <1>1, <1>5, <2>1, <2>2, <2>3, <2>4, <2>6, <2>7, Zenon
<1>6. CASE s # <<>>
  <2>1. PICK l \in Nat : l = Len(s)
    BY Indexed
  <2>2. PICK v \in Nat : v = Number(s)[l]
    BY <2>1, Indexed
  <2>3. nIndex = v
    BY <1>6, <2>1, <2>2, Zenon
  <2>4. v # -1 /\ v >= -1
    OBVIOUS
  <2>5. nIndex # -1 /\ nIndex >= -1
    BY <2>3, <2>4, Zenon
  <2>6. ArgumentOf(k + 1) = v + 1
    BY <1>3, <1>6, <2>1, <2>2, Indexed, Zenon
  <2>7. Wanted = v + 1
    BY <2>3, <2>5, Zenon DEF Wanted
  <2>8. Taken(k + 1) = Taken(k)
    BY <1>4, <1>6, Zenon
  <2>9. QED
    BY <1>1, <1>6, <2>5, <2>6, <2>7, <2>8, Zenon DEF Exists
<1>7. QED
  BY <1>5, <1>6, Zenon

(* In the format strings RendersItems is about every index is a short.     *)
LEMMA GoodFits ==
  ASSUME Known, NEW k \in Nat, k < Len(items), Good
  PROVE  ~TooLarge(k + 1)
<1>1. k + 1 \in 1..Len(items)
  BY KnownTypes
<1>2. QED
  BY <1>1, Zenon DEF Good, HasTooLarge

(* The call's parameters do not change.                                    *)
Same == items' = items /\ args' = args

(* All that depends on the items and arguments only stays as it is.        *)
LEMMA Fixed ==
  ASSUME Same
  PROVE  /\ Good' <=> Good
         /\ format' = format
         /\ items' = items /\ args' = args
         /\ \A k \in Nat : /\ Start(k)' = Start(k)
                           /\ Rendered(k)' = Rendered(k)
                           /\ Taken(k)' = Taken(k)
                           /\ Untyped(k)' <=> Untyped(k)
                           /\ TypeLeft(k)' <=> TypeLeft(k)
<1> USE DEF Same
<1>1. format' = format
  BY DEF format
<1>2. \A k \in Nat : Start(k)' = Start(k)
  BY DEF Start, Text
<1>3. \A k : ArgumentOf(k)' = ArgumentOf(k)
  BY DEF ArgumentOf, InLine
<1>4. \A k : Meaning(k)' = Meaning(k)
  BY <1>3 DEF Meaning
<1>5. \A k : Rendered(k)' = Rendered(k)
  BY <1>4 DEF Rendered
<1>6. \A k : Taken(k)' = Taken(k)
  BY DEF Taken, InLineTo, InLine
<1>7. \A k : Untyped(k)' <=> Untyped(k)
  BY <1>3 DEF Untyped
<1>8. \A k : IndexedBool(k)' <=> IndexedBool(k)
  BY <1>3 DEF IndexedBool
<1>9. \A k : TypeLeft(k)' <=> TypeLeft(k)
  BY <1>8 DEF TypeLeft, TooLarge
<1>10. (LeavesType' <=> LeavesType) /\ (HasTooLarge' <=> HasTooLarge)
  BY <1>8 DEF LeavesType, HasTooLarge, TooLarge
<1>11. Good' <=> Good
  BY <1>7, <1>10 DEF Good
<1>12. QED
  BY <1>1, <1>2, <1>5, <1>6, <1>7, <1>9, <1>11, Zenon

-----------------------------------------------------------------------------
(* The character and the flags leave format_trans one way.                 *)
LEMMA OneWay ==
  ASSUME InLoop, Next
  PROVE  /\ isBracket /\ isPlaceHolder => Bracket
         /\ ~isBracket /\ isPlaceHolder /\ Char = "{" => OpenBracket
         /\ ~isBracket /\ isPlaceHolder /\ isType /\ Char = "}" => TypeEnd
         /\ ~isBracket /\ isPlaceHolder /\ isType /\ Char # "{" /\ Char # "}" => TypeChar
         /\ ~isBracket /\ isPlaceHolder /\ ~isType /\ Char = "}" => ClosePlaceHolder \/ Stuck
         /\ ~isBracket /\ isPlaceHolder /\ ~isType /\ Char = ":" => Colon
         /\ ~isBracket /\ isPlaceHolder /\ ~isType /\ Char \in Digits => Digit
         /\ ~isBracket /\ isPlaceHolder /\ ~isType /\ Char = "x" => Stuck
         /\ ~isBracket /\ ~isPlaceHolder /\ Char = "{" => OpenPlaceHolder
         /\ ~isBracket /\ ~isPlaceHolder /\ Char # "{" => Literal
<1>1. format_trans
  BY DEF Next
<1>2. CASE isBracket
  BY <1>1, <1>2 DEF format_trans, TypeChar, TypeEnd, OpenBracket, ClosePlaceHolder, Colon, Digit,
     Stuck, OpenPlaceHolder, Literal
<1>3. CASE ~isBracket
  BY <1>1, <1>3, DigitChars DEF format_trans, Bracket, TypeChar, TypeEnd, OpenBracket, ClosePlaceHolder, Colon, Digit,
     Stuck, OpenPlaceHolder, Literal
<1>4. QED
  BY <1>2, <1>3

(* The o-th character of item k + 1 has been read.                         *)
LEMMA Here ==
  ASSUME Known, NEW k \in Nat, k < Len(items), NEW o \in 0..Len(Written(items[k+1])) - 1,
         pos = Start(k) + o + 1
  PROVE  /\ InLoop
         /\ Char = Written(items[k+1])[o+1]
         /\ pos + 1 = Start(k) + (o + 1) + 1
         /\ o + 1 = Len(Written(items[k+1])) => pos + 1 = Start(k + 1) + 1
         /\ o + 2 <= Len(Written(items[k+1])) => CharAt(pos + 1) = Written(items[k+1])[o+2]
         /\ o + 2 = Len(Written(items[k+1])) => pos + 2 = Start(k + 1) + 1
<1>1. PICK s \in Nat, l \in Nat, z \in Nat :
         s = Start(k) /\ l = Len(Written(items[k+1])) /\ z = Len(format)
  BY Positions
<1>2. /\ Start(k + 1) = s + l
      /\ s + l <= z
      /\ \A j \in 1..l : CharAt(s + j) = Written(items[k+1])[j]
  BY <1>1, Positions, Zenon
<1>3. s + l <= z
  BY <1>2, Zenon
<1>4. o \in 0..l - 1 /\ pos = s + o + 1
  BY <1>1, Zenon
<1>5. /\ o + 1 \in 1..l /\ s + (o + 1) = s + o + 1 /\ (s + o + 1) + 1 = s + (o + 1) + 1
      /\ s + o + 1 <= z
      /\ o + 1 = l => (s + o + 1) + 1 = s + l + 1
      /\ o + 2 <= l => o + 2 \in 1..l /\ s + (o + 2) = (s + o + 1) + 1
      /\ o + 2 = l => (s + o + 1) + 2 = s + l + 1
  BY <1>3, <1>4
<1>6. InLoop
  <2>1. s + o + 1 # z + 1 /\ ~(s + o + 1 > z + 1)
    BY <1>5
  <2>2. QED
    BY <1>1, <1>4, <2>1, Zenon DEF InLoop, Finished, Overrun
<1>7. QED
  BY <1>1, <1>2, <1>4, <1>5, <1>6, Zenon DEF Char

(* The step ends item k + 1.                                               *)
Ends(k) ==
    /\ Same
    /\ pos' = Start(k + 1) + 1
    /\ ~isPlaceHolder' /\ ~isBracket'
    /\ sType' = <<>> /\ nIndex' = -1
    /\ isType' => TypeLeft(k + 1)
    /\ fell' /\ Good => Untyped(k + 1)
    /\ Good => sRet' = Rendered(k + 1) /\ nArgsIdx' = Taken(k + 1)

(* Then the next item, or the end, is ahead.                               *)
LEMMA EndsItem ==
  ASSUME Known, NEW k \in Nat, k < Len(items), Ends(k)
  PROVE  IInv'
<1>1. Same
  BY DEF Ends
<1>2. k + 1 \in 0..Len(items) /\ k + 1 \in Nat /\ k + 1 > 0
  BY KnownTypes
<1>3. Outside(k + 1)'
  <2>1. pos' = Start(k + 1)' + 1
    BY <1>1, <1>2, Fixed, Zenon DEF Ends
  <2>2. isType' => TypeLeft(k + 1)'
    BY <1>1, <1>2, Fixed, Zenon DEF Ends
  <2>3. fell' /\ Good' => Untyped(k + 1)'
    BY <1>1, <1>2, Fixed, Zenon DEF Ends
  <2>4. QED
    BY <1>2, <2>1, <2>2, <2>3, Zenon DEF Ends, Outside
<1>4. SoFar(k + 1)'
  BY <1>1, <1>2, Fixed, Zenon DEF Ends, SoFar
<1>5. At(k + 1)'
  BY <1>3, <1>4, Zenon DEF At
<1>6. Known' /\ Len(items)' = Len(items)
  BY <1>1 DEF Same, Known
<1>7. QED
  BY <1>2, <1>5, <1>6, Zenon DEF IInv

(* The step goes on within item k + 1.                                     *)
GoesOn(k, o) ==
    /\ Same /\ SoFar(k)
    /\ pos' = Start(k) + o + 1
    /\ isPlaceHolder' /\ ~fell'
    /\ sRet' = sRet /\ nArgsIdx' = nArgsIdx

(* Then it stays in one of the phases of the item.                         *)
LEMMA GoesOnInside ==
  ASSUME Known, NEW k \in Nat, k < Len(items), NEW o \in 1..Len(Written(items[k+1])) - 1,
         GoesOn(k, o),
         (InBraces(k, o) \/ InName(k, o) \/ InIndex(k, o) \/ InType(k, o) \/ InResidue(k, o))'
  PROVE  IInv'
<1>1. Same
  BY DEF GoesOn
<1>2. k \in 0..Len(items)
  BY KnownTypes
<1>3. Inside(k, o)'
  BY <1>1, Fixed, Zenon DEF GoesOn, Inside
<1>4. SoFar(k)'
  BY <1>1, Fixed, Zenon DEF GoesOn, SoFar
<1>5. Known' /\ Len(items)' = Len(items) /\ Len(Written(items[k+1]))' = Len(Written(items[k+1]))
  BY <1>1 DEF Same, Known
<1>6. At(k)'
  BY <1>3, <1>4, <1>5, Zenon DEF At
<1>7. QED
  BY <1>2, <1>5, <1>6, Zenon DEF IInv

(* Items have at least a character, placeholders two, the first a brace.   *)
LEMMA Opens ==
  ASSUME NEW it \in Items
  PROVE  /\ Len(Written(it)) \in Nat \ {0}
         /\ it.kind # "text" => Written(it)[1] = "{" /\ Len(Written(it)) >= 2
<1> DEFINE w == Written(it)
<1>1. PICK l \in Nat : l = Len(it.index)
  BY Shape
<1>2. it.kind \in {"text", "braces", "arg", "bool", "other", "name"}
  BY FormatAssumption
<1> HIDE DEF w
<1>3. CASE it.kind = "text"
  <2>1. Len(w) = 1
    BY <1>3, Shape, Zenon DEF w
  <2>2. QED
    BY <1>3, <2>1 DEF w
<1>4. CASE it.kind = "braces"
  <2>1. Len(w) = 4 /\ w[1] = "{"
    BY <1>4, Shape, Zenon DEF w
  <2>2. 4 \in Nat \ {0} /\ 4 >= 2
    OBVIOUS
  <2>3. QED
    BY <2>1, <2>2, Zenon DEF w
<1>5. CASE it.kind = "name"
  <2>1. Len(w) = 3 /\ w[1] = "{"
    BY <1>5, Shape, Zenon DEF w
  <2>2. 3 \in Nat \ {0} /\ 3 >= 2
    OBVIOUS
  <2>3. QED
    BY <2>1, <2>2, Zenon DEF w
<1>6. CASE it.kind = "arg"
  <2>1. it.kind \in {"arg", "bool", "other"}
    BY <1>6
  <2>2. Len(w) = l + 2 /\ w[1] = "{"
    BY <1>1, <1>6, <2>1, Shape, Zenon DEF w
  <2>3. l + 2 \in Nat \ {0} /\ l + 2 >= 2
    OBVIOUS
  <2>4. QED
    BY <2>2, <2>3, Zenon DEF w
<1>7. CASE it.kind \in {"bool", "other"}
  <2>1. it.kind \in {"arg", "bool", "other"}
    BY <1>7
  <2>2. Len(w) = l + 4 /\ w[1] = "{"
    BY <1>1, <1>7, <2>1, Shape, Zenon DEF w
  <2>3. l + 4 \in Nat \ {0} /\ l + 4 >= 2
    OBVIOUS
  <2>4. QED
    BY <2>2, <2>3, Zenon DEF w
<1>8. QED
  BY <1>2, <1>3, <1>4, <1>5, <1>6, <1>7

(* Of the item ahead.                                                      *)
LEMMA ItemShape ==
  ASSUME Known, NEW k \in Nat, k < Len(items)
  PROVE  /\ k \in 0..Len(items) /\ k + 1 \in 1..Len(items)
         /\ items[k+1] \in Items
         /\ Len(Written(items[k+1])) \in Nat \ {0}
<1>1. k \in 0..Len(items) /\ k + 1 \in 1..Len(items)
  BY KnownTypes
<1>2. items[k+1] \in Items
  BY <1>1, KnownTypes, Zenon
<1>3. QED
  BY <1>1, <1>2, Opens, Zenon

(* The format string has a length.                                         *)
LEMMA FormatLength == ASSUME Known PROVE Len(format) \in Nat
<1>1. PICK n \in Nat : n = Len(items)
  BY KnownTypes
<1>2. CASE n = 0
  <2>1. format = Text(0)
    BY <1>1, <1>2, Zenon DEF format, Text
  <2>2. Len(<<>>) = 0
    OBVIOUS
  <2>3. QED
    BY <2>1, <2>2, TextEmpty
<1>3. CASE n # 0
  <2>1. n - 1 \in Nat /\ n - 1 < n
    BY <1>3
  <2>2. QED
    BY <1>1, <2>1, Positions, Zenon
<1>4. QED
  BY <1>2, <1>3

(* A step that changes nothing.                                            *)
LEMMA Stutter == ASSUME IInv, UNCHANGED vars PROVE IInv'
<1>1. /\ Same /\ pos' = pos
      /\ isPlaceHolder' = isPlaceHolder /\ isType' = isType /\ isBracket' = isBracket
      /\ sType' = sType /\ nIndex' = nIndex /\ nArgsIdx' = nArgsIdx
      /\ sRet' = sRet /\ fell' = fell
  BY DEF vars, flags, Same
<1>2. Known' /\ Len(items)' = Len(items)
  BY <1>1 DEF IInv, Known, Same
<1>3. CASE Past
  BY <1>1, <1>2, <1>3, Fixed DEF IInv, Past
<1>4. ASSUME NEW k \in 0..Len(items), At(k) PROVE At(k)'
  <2>1. k \in Nat
    BY KnownTypes DEF IInv
  <2>2. SoFar(k)'
    BY <1>1, <1>4, <2>1, Fixed, Zenon DEF At, SoFar
  <2>3. CASE Outside(k)
    BY <1>1, <2>1, <2>2, <2>3, Fixed, Zenon DEF At, Outside
  <2>4. CASE k < Len(items) /\ \E o \in 1..Len(Written(items[k+1])) - 1 : Inside(k, o)
    <3>1. items' = items
      BY <1>1 DEF Same
    <3>2. Len(Written(items[k+1]))' = Len(Written(items[k+1]))
      BY <3>1
    <3>3. ASSUME NEW o \in 1..Len(Written(items[k+1])) - 1, Inside(k, o) PROVE Inside(k, o)'
      <4>1. TypeLeft(k)' <=> TypeLeft(k)
        BY <1>1, <2>1, Fixed, Zenon
      <4>2. pos' = Start(k)' + o + 1
        BY <1>1, <2>1, <3>3, Fixed, Zenon DEF Inside
      <4>3. QED
        BY <1>1, <3>1, <3>3, <4>1, <4>2 DEF Inside, InBraces, InName, InIndex, InType, InResidue,
           TooLarge
    <3>4. QED
      BY <1>2, <2>2, <2>4, <3>2, <3>3, Zenon DEF At
  <2>5. QED
    BY <1>4, <2>3, <2>4, Zenon DEF At
<1>5. QED
  BY <1>2, <1>3, <1>4, Zenon DEF IInv

(* An indexed bool before item k is one before item k + 1.                 *)
LEMMA TypeStaysLeft ==
  ASSUME NEW k \in Nat, TypeLeft(k)
  PROVE  TypeLeft(k + 1)
<1>1. PICK n \in 1..k : IndexedBool(n) \/ TooLarge(n)
  BY DEF TypeLeft
<1>2. n \in 1..k+1
  OBVIOUS
<1>3. QED
  BY <1>1, <1>2, Zenon DEF TypeLeft

(* The first character of an item: text is copied, anything else opens a   *)
(* placeholder.                                                            *)
LEMMA FromOutside ==
  ASSUME Known, NEW k \in Nat, k < Len(items), SoFar(k), Outside(k), Next
  PROVE  IInv'
<1> DEFINE it == items[k+1]
<1>1. it \in Items /\ 0 \in 0..Len(Written(it)) - 1
  <2>1. Len(Written(it)) \in Nat \ {0} /\ it \in Items
    BY ItemShape, Zenon
  <2>2. QED
    BY <2>1
<1>2. /\ InLoop
      /\ Char = Written(it)[0+1]
      /\ pos + 1 = Start(k) + (0 + 1) + 1
      /\ 0 + 1 = Len(Written(it)) => pos + 1 = Start(k + 1) + 1
  <2>1. pos = Start(k) + 0 + 1
    <3>1. Start(k) \in Nat /\ pos = Start(k) + 1
      BY Positions, Zenon DEF Outside
    <3>2. QED
      BY <3>1
  <2>2. QED
    BY <1>1, <2>1, Here, Zenon
<1>3. Char = Written(it)[1] /\ pos + 1 = Start(k) + 1 + 1
  <2>1. 0 + 1 = 1
    OBVIOUS
  <2>2. QED
    BY <1>2, <2>1, Zenon
<1>4. CASE it.kind = "text"
  <2>1. Written(it)[1] = "x" /\ Len(Written(it)) = 1
    BY <1>1, <1>4, Shape, Zenon
  <2>2. Literal
    BY <1>2, <1>3, <2>1, OneWay DEF Outside
  <2>3. /\ Same /\ pos' = pos + 1 /\ sRet' = Append(sRet, "x") /\ nArgsIdx' = nArgsIdx
        /\ isPlaceHolder' = isPlaceHolder /\ isBracket' = isBracket /\ isType' = isType
        /\ sType' = sType /\ nIndex' = nIndex /\ fell' = FALSE
    BY <1>3, <2>1, <2>2 DEF Literal, Emit, Advance, flags, Same
  <2>4. pos + 1 = Start(k + 1) + 1
    BY <1>2, <2>1
  <2>5. Good => sRet' = Rendered(k + 1) /\ nArgsIdx' = Taken(k + 1)
    <3>1. Meaning(k + 1) = <<"x">> /\ ~InLine(k + 1)
      BY <1>4 DEF Meaning, InLine
    <3>2. "x" \in Tokens
      BY DEF Tokens
    <3>3. Rendered(k + 1) = Append(Rendered(k), "x") /\ Taken(k + 1) = Taken(k)
      BY <3>1, <3>2, Renders, TakesNone, Zenon
    <3>4. QED
      BY <2>3, <3>3, Zenon DEF SoFar
  <2>6. Ends(k)
    BY <2>3, <2>4, <2>5, TypeStaysLeft, Zenon DEF Ends, Outside
  <2>7. QED
    BY <2>6, EndsItem
<1>5. CASE it.kind # "text"
  <2>1. Written(it)[1] = "{" /\ 1 \in 1..Len(Written(it)) - 1
    <3>1. PICK n \in Nat : n = Len(Written(it)) /\ n >= 2
      BY <1>1, <1>5, Opens
    <3>2. 1 \in 1..n - 1
      BY <3>1
    <3>3. QED
      BY <1>1, <1>5, <3>1, <3>2, Opens, Zenon
  <2>2. OpenPlaceHolder
    BY <1>2, <1>3, <2>1, OneWay, Zenon DEF Outside
  <2>3. /\ Same /\ pos' = pos + 1 /\ sRet' = sRet /\ nArgsIdx' = nArgsIdx
        /\ isPlaceHolder' /\ isBracket' = isBracket /\ isType' = isType
        /\ sType' = sType /\ nIndex' = nIndex /\ fell' = FALSE
    BY <2>2 DEF OpenPlaceHolder, Advance, Same
  <2>4. GoesOn(k, 1)
    BY <1>3, <2>3, Zenon DEF GoesOn
  <2>5. CASE it.kind = "braces"
    <3>1. InBraces(k, 1)'
      <4>1. items' = items /\ (isType' => TypeLeft(k)')
        BY <2>3, Fixed, Zenon DEF Outside, Same
      <4>2. ~isBracket'
        BY <2>3, Zenon DEF Outside
      <4>3. QED
        BY <2>3, <2>5, <4>1, <4>2 DEF InBraces, Outside
    <3>2. QED
      BY <2>1, <2>4, <3>1, GoesOnInside, Zenon
  <2>6. CASE it.kind # "braces" /\ isType
    <3>1. it.kind \in {"arg", "bool", "other", "name"}
      BY <1>1, <1>5, <2>6, FormatAssumption
    <3>2. InResidue(k, 1)'
      <4>1. items' = items /\ TypeLeft(k)'
        BY <2>3, <2>6, Fixed, Zenon DEF Outside, Same
      <4>2. ~isBracket' /\ isType'
        BY <2>3, <2>6, Zenon DEF Outside
      <4>3. sType' = <<>> /\ <<>> \in Seq(Chars) /\ nIndex' = -1
        BY <2>3, EmptySeq, Zenon DEF Outside
      <4>4. QED
        BY <2>1, <3>1, <4>1, <4>2, <4>3, Zenon DEF InResidue
    <3>3. QED
      BY <2>1, <2>4, <3>2, GoesOnInside, Zenon
  <2>7. CASE it.kind = "name" /\ ~isType
    <3>1. InName(k, 1)'
      <4>1. items' = items /\ ~isBracket' /\ ~isType'
        BY <2>3, <2>7, Zenon DEF Outside, Same
      <4>2. QED
        BY <2>3, <2>7, <4>1, Zenon DEF InName, Outside
    <3>2. QED
      BY <2>1, <2>4, <3>1, GoesOnInside, Zenon
  <2>8. CASE it.kind \in {"arg", "bool", "other"} /\ ~isType
    <3>1. InIndex(k, 1)'
      <4>1. items' = items /\ ~isBracket' /\ ~isType'
        BY <2>3, <2>8, Zenon DEF Outside, Same
      <4>2. 1 \in 1..Len(it.index) + 1
        <5>1. Len(it.index) \in Nat
          BY <1>1, Shape
        <5>2. QED
          BY <5>1
      <4>3. QED
        BY <2>3, <2>8, <4>1, <4>2, Zenon DEF InIndex, Outside
    <3>2. QED
      BY <2>1, <2>4, <3>1, GoesOnInside, Zenon
  <2>9. QED
    BY <1>1, <1>5, <2>5, <2>6, <2>7, <2>8, FormatAssumption
<1>6. QED
  BY <1>4, <1>5

(* At the end of the string: the loop ends, or, if its end was not tested, *)
(* one character beyond it is read.                                        *)
LEMMA FromEnd ==
  ASSUME Known, SoFar(Len(items)), Outside(Len(items)), Next
  PROVE  IInv'
<1>1. pos = Len(format) + 1 /\ Len(items) \in Nat
  BY KnownTypes DEF Outside, Start, Text, format
<1>2. CASE ~fell
  <2>1. ~InLoop
    BY <1>1, <1>2 DEF InLoop, Finished
  <2>2. UNCHANGED vars
    BY <2>1 DEF Next, format_trans, Bracket, TypeChar, TypeEnd, OpenBracket, ClosePlaceHolder, Colon,
       Digit, Stuck, OpenPlaceHolder, Literal
  <2>3. At(Len(items)) /\ Len(items) \in 0..Len(items)
    BY <1>1 DEF At
  <2>4. IInv
    BY <2>3, Zenon DEF IInv
  <2>5. QED
    BY <2>2, <2>4, Stutter
<1>3. CASE fell
  <2>1. ~Good
    <3>1. Good => Len(items) > 0 /\ Untyped(Len(items))
      BY <1>3 DEF Outside
    <3>2. Len(items) > 0 => items # <<>>
      OBVIOUS
    <3>3. QED
      BY <3>1, <3>2, Zenon DEF Good
  <2>2. Len(format) \in Nat
    BY FormatLength
  <2>3. InLoop /\ Char = NUL
    BY <1>1, <1>3, <2>2 DEF InLoop, Finished, Overrun, Char, CharAt
  <2>4. Literal
    BY <2>3, OneWay DEF Outside, NUL
  <2>5. Same /\ pos' = pos + 1
    BY <2>4 DEF Literal, Advance, Same
  <2>6. pos' = Len(format) + 2
    BY <1>1, <2>2, <2>5
  <2>7. Known' /\ Past'
    BY <2>1, <2>5, <2>6, Fixed DEF Past, Known, Same
  <2>8. QED
    BY <2>7 DEF IInv
<1>4. QED
  BY <1>2, <1>3

(* The same, within an item.                                               *)
LEMMA HereInside ==
  ASSUME Known, NEW k \in Nat, k < Len(items), NEW o \in 1..Len(Written(items[k+1])) - 1,
         Inside(k, o)
  PROVE  /\ InLoop
         /\ Char = Written(items[k+1])[o+1]
         /\ pos + 1 = Start(k) + (o + 1) + 1
         /\ o + 1 = Len(Written(items[k+1])) => pos + 1 = Start(k + 1) + 1
         /\ o + 2 <= Len(Written(items[k+1])) => CharAt(pos + 1) = Written(items[k+1])[o+2]
         /\ o + 2 = Len(Written(items[k+1])) => pos + 2 = Start(k + 1) + 1
<1>1. PICK n \in Nat : n = Len(Written(items[k+1]))
  BY ItemShape
<1>2. o \in 0..n - 1
  BY <1>1
<1>3. pos = Start(k) + o + 1
  BY DEF Inside
<1>4. QED
  BY <1>1, <1>2, <1>3, Here, Zenon

(* Within {{}}.                                                            *)
LEMMA FromBraces ==
  ASSUME Known, NEW k \in Nat, k < Len(items), SoFar(k), Next,
         NEW o \in 1..Len(Written(items[k+1])) - 1, Inside(k, o), InBraces(k, o)
  PROVE  IInv'
<1> DEFINE it == items[k+1]
<1>1. /\ InLoop
      /\ Char = Written(it)[o+1]
      /\ pos + 1 = Start(k) + (o + 1) + 1
      /\ o + 1 = Len(Written(it)) => pos + 1 = Start(k + 1) + 1
      /\ o + 2 <= Len(Written(it)) => CharAt(pos + 1) = Written(it)[o+2]
      /\ o + 2 = Len(Written(it)) => pos + 2 = Start(k + 1) + 1
  BY HereInside, Zenon
<1>2. /\ it.kind = "braces" /\ it \in Items
      /\ isPlaceHolder /\ ~fell /\ sType = <<>> /\ nIndex = -1 /\ (isType => TypeLeft(k))
      /\ o \in {1, 2} /\ (isBracket <=> o = 2)
  BY ItemShape DEF Inside, InBraces
<1>3. /\ Len(Written(it)) = 4 /\ Written(it)[2] = "{"
      /\ Written(it)[3] = "}" /\ Written(it)[4] = "}"
  <2>1. it.kind = "braces" /\ it \in Items
    BY <1>2, Zenon
  <2>2. it.kind = "braces" =>
           /\ Len(Written(it)) = 4 /\ Written(it)[1] = "{" /\ Written(it)[2] = "{"
           /\ Written(it)[3] = "}" /\ Written(it)[4] = "}"
    BY <2>1, Shape, Zenon
  <2>3. QED
    BY <2>1, <2>2, Zenon
<1>4. CASE o = 1
  <2>1. o + 1 = 2
    BY <1>4
  <2>2. Char = "{" /\ ~isBracket
    BY <1>1, <1>2, <1>3, <1>4, <2>1
  <2>3. OpenBracket
    BY <1>1, <1>2, <2>2, OneWay, Zenon
  <2>4. /\ Same /\ pos' = pos + 1 /\ sRet' = sRet /\ nArgsIdx' = nArgsIdx
        /\ isPlaceHolder' = isPlaceHolder /\ isBracket' = TRUE /\ isType' = isType
        /\ sType' = sType /\ nIndex' = nIndex /\ fell' = fell
    BY <2>3 DEF OpenBracket, Advance, Same
  <2>5. GoesOn(k, 2)
    BY <1>1, <1>2, <2>1, <2>4, Zenon DEF GoesOn
  <2>6. InBraces(k, 2)'
    <3>1. items' = items /\ (isType' => TypeLeft(k)')
      BY <1>2, <2>4, Fixed, Zenon DEF Same
    <3>2. QED
      BY <1>2, <2>4, <3>1 DEF InBraces
  <2>7. 2 \in 1..4 - 1
    OBVIOUS
  <2>8. 2 \in 1..Len(Written(it)) - 1
    BY <1>3, <2>7, Zenon
  <2>9. QED
    BY <2>5, <2>6, <2>8, GoesOnInside, Zenon
<1>5. CASE o = 2
  <2>1. o + 1 = 3 /\ o + 2 = 4 /\ 4 <= 4 /\ (pos + 1) + 1 = pos + 2
    <3>1. pos \in Int
      <4>1. Start(k) \in Nat /\ pos = Start(k) + o + 1
        BY Positions, Zenon DEF Inside
      <4>2. QED
        BY <4>1
    <3>2. QED
      BY <1>5, <3>1
  <2>2. Char = "}" /\ CharAt(pos + 1) = "}" /\ pos + 2 = Start(k + 1) + 1
    BY <1>1, <1>3, <2>1, Zenon
  <2>3. Bracket
    BY <1>1, <1>2, <1>5, OneWay, Zenon
  <2>4. /\ Same /\ pos' = (pos + 1) + 1 /\ sRet' = Append(sRet, "{}") /\ nArgsIdx' = nArgsIdx
        /\ isPlaceHolder' = FALSE /\ isBracket' = FALSE /\ isType' = isType
        /\ sType' = sType /\ nIndex' = nIndex /\ fell' = FALSE
    BY <2>2, <2>3, Zenon DEF Bracket, Emit, Same
  <2>5. Good => sRet' = Rendered(k + 1) /\ nArgsIdx' = Taken(k + 1)
    <3>1. Meaning(k + 1) = <<"{}">> /\ ~InLine(k + 1)
      BY <1>2 DEF Meaning, InLine
    <3>2. "{}" \in Tokens
      BY DEF Tokens
    <3>3. Rendered(k + 1) = Append(Rendered(k), "{}") /\ Taken(k + 1) = Taken(k)
      BY <3>1, <3>2, Renders, TakesNone, Zenon
    <3>4. QED
      BY <2>4, <3>3, Zenon DEF SoFar
  <2>6. Ends(k)
    BY <1>2, <2>1, <2>2, <2>4, <2>5, TypeStaysLeft, Zenon DEF Ends
  <2>7. QED
    BY <2>6, EndsItem
<1>6. QED
  BY <1>2, <1>4, <1>5

(* At a character that is not a digit nothing changes any more.            *)
LEMMA FromName ==
  ASSUME Known, NEW k \in Nat, k < Len(items), SoFar(k), Next,
         NEW o \in 1..Len(Written(items[k+1])) - 1, Inside(k, o), InName(k, o)
  PROVE  IInv'
<1> DEFINE it == items[k+1]
<1>1. /\ InLoop
      /\ Char = Written(it)[o+1]
      /\ pos + 1 = Start(k) + (o + 1) + 1
      /\ o + 1 = Len(Written(it)) => pos + 1 = Start(k + 1) + 1
      /\ o + 2 <= Len(Written(it)) => CharAt(pos + 1) = Written(it)[o+2]
      /\ o + 2 = Len(Written(it)) => pos + 2 = Start(k + 1) + 1
  BY HereInside, Zenon
<1>2. it.kind = "name" /\ it \in Items /\ isPlaceHolder /\ ~isBracket /\ ~isType /\ o = 1
  BY ItemShape DEF Inside, InName
<1>3. Written(it)[2] = "x"
  BY <1>2, Shape, Zenon
<1>4. 1 + 1 = 2
  OBVIOUS
<1>5. Stuck
  BY <1>1, <1>2, <1>3, <1>4, OneWay, Zenon
<1>6. UNCHANGED vars
  BY <1>5 DEF Stuck
<1>7. k \in 0..Len(items)
  BY ItemShape
<1>8. IInv
  BY <1>7, Zenon DEF IInv, At
<1>9. QED
  BY <1>6, <1>8, Stutter

(* Among the digits of a placeholder, at its } or at its colon.            *)
LEMMA FromIndex ==
  ASSUME Known, NEW k \in Nat, k < Len(items), SoFar(k), Next,
         NEW o \in 1..Len(Written(items[k+1])) - 1, Inside(k, o), InIndex(k, o)
  PROVE  IInv'
<1> DEFINE it == items[k+1]
           Num == Number(it.index)
<1>1. /\ InLoop
      /\ Char = Written(it)[o+1]
      /\ pos + 1 = Start(k) + (o + 1) + 1
      /\ o + 1 = Len(Written(it)) => pos + 1 = Start(k + 1) + 1
  BY HereInside, Zenon
<1>2. PICK l \in Nat : l = Len(it.index)
  BY Indexed
<1>3. /\ it.kind \in {"arg", "bool", "other"} /\ o \in 1..l + 1
      /\ isPlaceHolder /\ ~fell /\ ~isBracket /\ ~isType /\ sType = <<>>
      /\ Num[o-1] <= MaxShort => nIndex = IF o = 1 THEN -1 ELSE Num[o-1]
  BY <1>2, Zenon DEF Inside, InIndex
<1>4. it \in Items
  BY ItemShape, Zenon
<1>5. /\ Num \in [0..l -> Nat] /\ Num[0] = 0
      /\ \A i \in 1..l : it.index[i] \in Digits /\ Num[i] = 10 * Num[i-1] + Value(it.index[i])
      /\ it.index = <<>> <=> l = 0
  BY <1>2, Indexed, Zenon
<1> HIDE DEF Num
<1>6. CASE o \in 1..l
  <2>1. Char = it.index[o] /\ Char \in Digits
    <3>1. it.kind \in {"arg", "bool", "other"} => \A j \in 1..l : Written(it)[1 + j] = it.index[j]
      BY <1>2, <1>4, Shape, Zenon
    <3>2. Written(it)[1 + o] = it.index[o]
      BY <1>3, <1>6, <3>1, Zenon
    <3>3. 1 + o = o + 1
      BY <1>6
    <3>4. it.index[o] \in Digits
      BY <1>5, <1>6, Zenon
    <3>5. QED
      BY <1>1, <3>2, <3>3, <3>4, Zenon
  <2>2. Digit
    BY <1>1, <1>3, <2>1, OneWay, Zenon
  <2>3. /\ Same /\ pos' = pos + 1 /\ sRet' = sRet /\ nArgsIdx' = nArgsIdx
        /\ isPlaceHolder' = isPlaceHolder /\ isBracket' = isBracket /\ isType' = isType
        /\ sType' = sType /\ fell' = fell
        /\ nIndex' = IF nIndex = -1 THEN Value(Char) ELSE Short(10 * nIndex + Value(Char))
    BY <2>2 DEF Digit, Advance, flags, Same
  <2>4. Num[o] <= MaxShort => nIndex' = Num[o]
    <3> SUFFICES ASSUME Num[o] <= MaxShort PROVE nIndex' = Num[o]
      OBVIOUS
    <3>1. Num[o] = 10 * Num[o-1] + Value(Char)
      BY <1>5, <1>6, <2>1, Zenon
    <3>2. PICK v \in Nat : v = Value(Char)
      BY <2>1, DigitValue
    <3>3. PICK n \in Nat : n = Num[o-1]
      <4>1. o - 1 \in 0..l
        BY <1>6
      <4>2. QED
        BY <1>5, <4>1
    <3>4. 10 * n + v <= MaxShort
      BY <3>1, <3>2, <3>3, Zenon
    <3>5. n <= MaxShort /\ n # -1
      BY <3>4 DEF MaxShort
    <3>6. nIndex = IF o = 1 THEN -1 ELSE n
      BY <1>3, <3>3, <3>5, Zenon
    <3>7. CASE o = 1
      <4>1. o - 1 = 0 /\ 10 * 0 + v = v
        BY <3>7
      <4>2. n = 0
        BY <1>5, <3>3, <4>1, Zenon
      <4>3. QED
        BY <2>3, <3>1, <3>2, <3>3, <3>6, <3>7, <4>1, <4>2, Zenon
    <3>8. CASE o # 1
      <4>1. Short(10 * n + v) = 10 * n + v
        BY <3>4 DEF Short, MaxShort
      <4>2. QED
        BY <2>3, <3>1, <3>2, <3>3, <3>5, <3>6, <3>8, <4>1, Zenon
    <3>9. QED
      BY <3>7, <3>8
  <2>5. GoesOn(k, o + 1)
    BY <1>1, <1>3, <2>3, Zenon DEF GoesOn
  <2>6. InIndex(k, o + 1)'
    <3>1. items' = items
      BY <2>3 DEF Same
    <3>2. o + 1 \in 1..l + 1 /\ o + 1 # 1 /\ (o + 1) - 1 = o
      BY <1>6
    <3>3. QED
      BY <1>2, <1>3, <2>3, <2>4, <3>1, <3>2, Zenon DEF InIndex, Num
  <2>7. o + 1 \in 1..Len(Written(it)) - 1
    <3>1. PICK n \in Nat : n = Len(Written(it)) /\ n >= l + 2
      <4>1. it.kind = "arg" => Len(Written(it)) = l + 2
        BY <1>2, <1>4, Shape, Zenon
      <4>2. it.kind \in {"bool", "other"} => Len(Written(it)) = l + 4
        BY <1>2, <1>4, Shape, Zenon
      <4>3. l + 2 \in Nat /\ l + 4 \in Nat /\ l + 2 >= l + 2 /\ l + 4 >= l + 2
        OBVIOUS
      <4>4. it.kind = "arg" \/ it.kind \in {"bool", "other"}
        BY <1>3
      <4>5. QED
        BY <4>1, <4>2, <4>3, <4>4, Zenon
    <3>2. o + 1 \in 1..n - 1
      BY <1>6, <3>1
    <3>3. QED
      BY <3>1, <3>2, Zenon
  <2>8. QED
    BY <2>5, <2>6, <2>7, GoesOnInside, Zenon
<1>7. CASE o = l + 1
  <2>1. ~TooLarge(k + 1) => nIndex = IF it.index = <<>> THEN -1 ELSE Num[l]
    <3>1. o = 1 <=> l = 0
      BY <1>7
    <3>2. o - 1 = l
      BY <1>7
    <3>3. PICK n \in Nat : n = Num[l]
      BY <1>5
    <3>4. ~(n > MaxShort) => n <= MaxShort
      BY DEF MaxShort
    <3>5. ~TooLarge(k + 1) => Num[l] <= MaxShort
      BY <1>2, <3>3, <3>4, Zenon DEF TooLarge, Num
    <3>6. QED
      BY <1>3, <1>5, <3>1, <3>2, <3>5, Zenon
  <2>2. o + 1 = l + 2
    BY <1>7
  <2>3. CASE it.kind = "arg"
    <3>1. Char = "}" /\ pos + 1 = Start(k + 1) + 1
      <4>1. it.kind = "arg" => Len(Written(it)) = l + 2 /\ Written(it)[l + 2] = "}"
        BY <1>2, <1>4, Shape, Zenon
      <4>2. QED
        BY <1>1, <2>2, <2>3, <4>1, Zenon
    <3>2. CASE Stuck
      <4>1. k \in 0..Len(items)
        BY KnownTypes
      <4>2. At(k)
        BY Zenon DEF At
      <4>3. IInv
        BY <4>1, <4>2, Zenon DEF IInv
      <4>4. UNCHANGED vars
        BY <3>2 DEF Stuck
      <4>5. QED
        BY <4>3, <4>4, Stutter
    <3> SUFFICES ASSUME ClosePlaceHolder PROVE IInv'
      BY <1>1, <1>3, <3>1, <3>2, OneWay, Zenon
    <3>3. /\ Same /\ pos' = pos + 1
          /\ sRet' = IF Exists THEN Append(sRet, args[Wanted]) ELSE sRet
          /\ nArgsIdx' = IF nIndex = -1 /\ Exists THEN nArgsIdx + 1 ELSE nArgsIdx
          /\ isPlaceHolder' = FALSE /\ isBracket' = isBracket /\ isType' = isType
          /\ sType' = sType /\ nIndex' = -1 /\ fell' = fell
      BY DEF ClosePlaceHolder, TakeInLine, Emit, Advance, Same
    <3>4. Good => sRet' = Rendered(k + 1) /\ nArgsIdx' = Taken(k + 1)
      <4>1. SUFFICES ASSUME Good PROVE sRet' = Rendered(k + 1) /\ nArgsIdx' = Taken(k + 1)
        OBVIOUS
      <4>2. sRet = Rendered(k) /\ nArgsIdx = Taken(k)
        BY <4>1 DEF SoFar
      <4>3. it.kind \in {"arg", "bool"}
        BY <2>3
      <4>4. /\ Exists <=> ArgumentOf(k + 1) <= Len(args)
            /\ Exists => Wanted = ArgumentOf(k + 1)
            /\ Taken(k + 1) = IF nIndex = -1 /\ Exists THEN nArgsIdx + 1 ELSE nArgsIdx
        <5>1. ~TooLarge(k + 1)
          BY <4>1, GoodFits, Zenon
        <5>2. QED
          BY <1>2, <2>1, <4>2, <4>3, <5>1, Closing, Zenon DEF Num
      <4>5. CASE Exists
        <5>1. ~(ArgumentOf(k + 1) > Len(args)) /\ ArgumentOf(k + 1) \in 1..Len(args)
          BY <4>4, <4>5, ArgumentThere, Zenon
        <5>2. Meaning(k + 1) = <<args[ArgumentOf(k + 1)]>>
          BY <2>3, <5>1 DEF Meaning
        <5>3. args[ArgumentOf(k + 1)] \in Tokens
          BY <5>1 DEF Tokens
        <5>4. Rendered(k + 1) = Append(Rendered(k), args[ArgumentOf(k + 1)])
          BY <5>2, <5>3, Renders, Zenon
        <5>5. QED
          BY <3>3, <4>2, <4>4, <4>5, <5>4, Zenon
      <4>6. CASE ~Exists
        <5>1. ArgumentOf(k + 1) > Len(args)
          BY <4>4, <4>6, ArgumentThere, Zenon
        <5>2. Meaning(k + 1) = <<>>
          BY <2>3, <5>1 DEF Meaning
        <5>3. QED
          BY <3>3, <4>2, <4>4, <4>6, <5>2, Renders, Zenon
      <4>7. QED
        BY <4>5, <4>6
    <3>5. Ends(k)
      BY <1>3, <3>1, <3>3, <3>4, Zenon DEF Ends
    <3>6. QED
      BY <3>5, EndsItem
  <2>4. CASE it.kind \in {"bool", "other"}
    <3>1. Char = ":" /\ Len(Written(it)) = l + 4
      <4>1. it.kind \in {"bool", "other"} => Len(Written(it)) = l + 4 /\ Written(it)[l + 2] = ":"
        BY <1>2, <1>4, Shape, Zenon
      <4>2. QED
        BY <1>1, <2>2, <2>4, <4>1, Zenon
    <3>2. Colon
      BY <1>1, <1>3, <3>1, OneWay, Zenon
    <3>3. /\ Same /\ pos' = pos + 1 /\ sRet' = sRet /\ nArgsIdx' = nArgsIdx
          /\ isPlaceHolder' = isPlaceHolder /\ isBracket' = isBracket /\ isType' = TRUE
          /\ sType' = sType /\ nIndex' = nIndex /\ fell' = fell
      BY <3>2 DEF Colon, Advance, Same
    <3>4. GoesOn(k, o + 1)
      BY <1>1, <1>3, <3>3, Zenon DEF GoesOn
    <3>5. InType(k, o + 1)'
      <4>1. items' = items
        BY <3>3 DEF Same
      <4>2. QED
        BY <1>2, <1>3, <2>1, <2>2, <2>4, <3>3, <4>1, Zenon DEF InType, TooLarge, Num
    <3>6. o + 1 \in 1..Len(Written(it)) - 1
      <4>1. o + 1 \in 1..(l + 4) - 1
        BY <2>2
      <4>2. QED
        BY <3>1, <4>1, Zenon
    <3>7. QED
      BY <3>4, <3>5, <3>6, GoesOnInside, Zenon
  <2>5. QED
    BY <1>3, <2>3, <2>4
<1>8. QED
  <2>1. o \in 1..l + 1
    BY <1>3, Zenon
  <2>2. o \in 1..l \/ o = l + 1
    BY <2>1
  <2>3. QED
    BY <1>6, <1>7, <2>2

(* After the colon, at the type or at the } that follows it.               *)
LEMMA FromType ==
  ASSUME Known, NEW k \in Nat, k < Len(items), SoFar(k), Next,
         NEW o \in 1..Len(Written(items[k+1])) - 1, Inside(k, o), InType(k, o)
  PROVE  IInv'
<1> DEFINE it == items[k+1]
           type == IF it.kind = "bool" THEN "b" ELSE "x"
<1>1. /\ InLoop
      /\ Char = Written(it)[o+1]
      /\ pos + 1 = Start(k) + (o + 1) + 1
      /\ o + 1 = Len(Written(it)) => pos + 1 = Start(k + 1) + 1
  BY HereInside, Zenon
<1>2. PICK l \in Nat : l = Len(it.index)
  BY Indexed
<1>3. /\ it.kind \in {"bool", "other"} /\ o \in {l + 2, l + 3}
      /\ isPlaceHolder /\ ~fell /\ ~isBracket /\ isType
      /\ sType = IF o = l + 2 THEN <<>> ELSE <<type>>
      /\ ~TooLarge(k + 1) => nIndex = IF it.index = <<>> THEN -1 ELSE Number(it.index)[l]
  BY <1>2, Zenon DEF Inside, InType
<1>4. it \in Items
  BY ItemShape, Zenon
<1>5. /\ Len(Written(it)) = l + 4
      /\ Written(it)[l + 3] = type
      /\ Written(it)[l + 4] = "}"
  BY <1>2, <1>3, <1>4, Shape, Zenon
<1>6. CASE o = l + 2
  <2>1. o + 1 = l + 3 /\ o # l + 3 /\ l + 3 \in 1..(l + 4) - 1
    BY <1>6
  <2>2. Char = type /\ type # "{" /\ type # "}"
    BY <1>1, <1>5, <2>1
  <2>3. TypeChar
    BY <1>1, <1>3, <2>2, OneWay, Zenon
  <2>4. /\ Same /\ pos' = pos + 1 /\ sRet' = sRet /\ nArgsIdx' = nArgsIdx
        /\ isPlaceHolder' = isPlaceHolder /\ isBracket' = isBracket /\ isType' = isType
        /\ sType' = Append(sType, Char) /\ nIndex' = nIndex /\ fell' = fell
    BY <2>3 DEF TypeChar, Advance, flags, Same
  <2>5. sType' = <<type>>
    <3>1. sType = <<>>
      BY <1>3, <1>6, Zenon
    <3>2. Append(<<>>, type) = <<type>>
      OBVIOUS
    <3>3. QED
      BY <2>2, <2>4, <3>1, <3>2, Zenon
  <2>6. GoesOn(k, l + 3)
    BY <1>1, <1>3, <2>1, <2>4, Zenon DEF GoesOn
  <2>7. InType(k, l + 3)'
    <3>1. items' = items
      BY <2>4 DEF Same
    <3>2. l + 3 # l + 2
      OBVIOUS
    <3>3. QED
      BY <1>2, <1>3, <2>4, <2>5, <3>1, <3>2, Zenon DEF InType, TooLarge
  <2>8. l + 3 \in 1..Len(Written(it)) - 1
    BY <1>5, <2>1, Zenon
  <2>9. QED
    BY <2>6, <2>7, <2>8, GoesOnInside, Zenon
<1>7. CASE o = l + 3
  <2>1. o + 1 = l + 4 /\ o # l + 2
    BY <1>7
  <2>2. Char = "}" /\ pos + 1 = Start(k + 1) + 1
    BY <1>1, <1>5, <2>1, Zenon
  <2>3. sType = <<type>>
    BY <1>3, <2>1, Zenon
  <2>4. TypeEnd
    BY <1>1, <1>3, <2>2, OneWay, Zenon
  <2>5. /\ Same /\ pos' = pos + 1 /\ isPlaceHolder' = FALSE /\ isBracket' = isBracket
        /\ sType' = <<>> /\ nIndex' = -1
    BY <2>4 DEF TypeEnd, Advance, Same
  <2>6. CASE it.kind = "other"
    <3>1. sType # <<"b">>
      <4>1. sType = <<"x">>
        BY <2>3, <2>6
      <4>2. <<"x">> # <<"b">>
        OBVIOUS
      <4>3. QED
        BY <4>1, <4>2, Zenon
    <3>2. isType' = FALSE /\ fell' = TRUE /\ sRet' = sRet /\ nArgsIdx' = nArgsIdx
      BY <2>4, <3>1 DEF TypeEnd
    <3>3. Untyped(k + 1) /\ Meaning(k + 1) = <<>> /\ ~InLine(k + 1)
      BY <2>6 DEF Untyped, Meaning, InLine
    <3>4. Rendered(k + 1) = Rendered(k) /\ Taken(k + 1) = Taken(k)
      BY <3>3, Renders, TakesNone, Zenon
    <3>5. Ends(k)
      BY <1>3, <2>2, <2>5, <3>2, <3>3, <3>4, Zenon DEF Ends, SoFar
    <3>6. QED
      BY <3>5, EndsItem
  <2>7. CASE it.kind = "bool"
    <3>1. sType = <<"b">>
      BY <2>3, <2>7, Zenon
    <3>2. IF Exists
          THEN /\ sRet' = Append(sRet, IF isTrue(args[Wanted]) THEN "true" ELSE "false")
               /\ nArgsIdx' = IF nIndex = -1 /\ Exists THEN nArgsIdx + 1 ELSE nArgsIdx
               /\ isType' = (nIndex # -1) /\ fell' = FALSE
          ELSE isType' = FALSE /\ fell' = TRUE /\ sRet' = sRet /\ nArgsIdx' = nArgsIdx
      BY <2>4, <3>1 DEF TypeEnd, TakeInLine, Emit
    <3>3. it.kind \in {"arg", "bool"}
      BY <2>7
    <3>4. ~TooLarge(k + 1) =>
             /\ nIndex # -1 <=> it.index # <<>>
             /\ nIndex # -1 => Wanted = ArgumentOf(k + 1)
             /\ nArgsIdx = Taken(k) =>
                   /\ Exists <=> ArgumentOf(k + 1) <= Len(args)
                   /\ Exists => Wanted = ArgumentOf(k + 1)
                   /\ Taken(k + 1) = IF nIndex = -1 /\ Exists THEN nArgsIdx + 1 ELSE nArgsIdx
      BY <1>2, <1>3, <3>3, Closing, Zenon
    <3>5. isType' => TypeLeft(k + 1)
      <4>1. SUFFICES ASSUME isType' PROVE TypeLeft(k + 1)
        OBVIOUS
      <4>2. Exists /\ nIndex # -1
        BY <3>2, <4>1
      <4>3. ~TooLarge(k + 1) => ArgumentOf(k + 1) <= Len(args)
        BY <3>4, <4>2, Zenon DEF Exists
      <4>4. IndexedBool(k + 1) \/ TooLarge(k + 1)
        BY <2>7, <3>4, <4>2, <4>3, Zenon DEF IndexedBool
      <4>5. k + 1 \in 1..k+1
        OBVIOUS
      <4>6. QED
        BY <4>4, <4>5, Zenon DEF TypeLeft
    <3>6. Good => /\ sRet' = Rendered(k + 1) /\ nArgsIdx' = Taken(k + 1)
                  /\ fell' => Untyped(k + 1)
      <4>1. SUFFICES ASSUME Good
                     PROVE  /\ sRet' = Rendered(k + 1) /\ nArgsIdx' = Taken(k + 1)
                            /\ fell' => Untyped(k + 1)
        OBVIOUS
      <4>2. sRet = Rendered(k) /\ nArgsIdx = Taken(k) /\ ~TooLarge(k + 1)
        BY <4>1, GoodFits DEF SoFar
      <4>3. CASE Exists
        <5>1. ~(ArgumentOf(k + 1) > Len(args)) /\ Wanted = ArgumentOf(k + 1)
          BY <3>4, <4>2, <4>3, ArgumentThere, Zenon
        <5> DEFINE word == IF isTrue(args[ArgumentOf(k + 1)]) THEN "true" ELSE "false"
        <5>2. Meaning(k + 1) = <<word>>
          BY <2>7, <5>1 DEF Meaning
        <5>3. word \in Tokens
          BY DEF Tokens
        <5>4. Rendered(k + 1) = Append(Rendered(k), word)
          BY <5>2, <5>3, Renders, Zenon
        <5>5. sRet' = Append(sRet, word) /\ fell' = FALSE
          BY <3>2, <4>3, <5>1, Zenon
        <5>6. nArgsIdx' = Taken(k + 1)
          BY <3>2, <3>4, <4>2, <4>3, Zenon
        <5>7. QED
          BY <4>2, <5>4, <5>5, <5>6, Zenon
      <4>4. CASE ~Exists
        <5>1. ArgumentOf(k + 1) > Len(args)
          BY <3>4, <4>2, <4>4, ArgumentThere, Zenon
        <5>2. Meaning(k + 1) = <<>>
          BY <2>7, <5>1 DEF Meaning
        <5>3. Untyped(k + 1)
          BY <2>7, <5>1, Zenon DEF Untyped
        <5>4. Rendered(k + 1) = Rendered(k)
          BY <5>2, Renders, Zenon
        <5>5. QED
          BY <3>2, <3>4, <4>2, <4>4, <5>3, <5>4, Zenon
      <4>5. QED
        BY <4>3, <4>4
    <3>7. Ends(k)
      BY <1>3, <2>2, <2>5, <3>5, <3>6, Zenon DEF Ends
    <3>8. QED
      BY <3>7, EndsItem
  <2>8. QED
    BY <1>3, <2>6, <2>7
<1>8. QED
  BY <1>3, <1>6, <1>7

(* Between its braces a placeholder has no brace, and does not start with  *)
(* b.                                                                      *)
LEMMA InnerChars ==
  ASSUME NEW it \in Items, it.kind \in {"arg", "bool", "other", "name"}
  PROVE  \E n \in Nat : /\ n = Len(Written(it))
                        /\ n >= 2 /\ Written(it)[n] = "}"
                        /\ \A j \in 2..n - 1 : Written(it)[j] \in {"x", ":", "b"} \cup Digits
                        /\ 2 < n => Written(it)[2] # "b"
<1> DEFINE w == Written(it)
           Inner == {"x", ":", "b"} \cup Digits
<1>1. PICK l \in Nat : l = Len(it.index) /\ \A j \in 1..l : it.index[j] \in Digits
  BY Shape
<1>2. it.kind \in {"arg", "bool", "other"} => \A j \in 1..l : w[1 + j] \in Digits
  BY <1>1, Shape, Zenon
<1> HIDE DEF w
<1>3. ASSUME it.kind \in {"arg", "bool", "other"}, NEW j \in 2..l + 1 PROVE w[j] \in Digits
  <2>1. j - 1 \in 1..l /\ 1 + (j - 1) = j
    OBVIOUS
  <2>2. QED
    BY <1>2, <1>3, <2>1, Zenon
<1>4. CASE it.kind = "name"
  <2>1. Len(w) = 3 /\ w[2] = "x" /\ w[3] = "}"
    BY <1>4, Shape, Zenon DEF w
  <2>2. 3 \in Nat /\ 3 >= 2
    OBVIOUS
  <2>3. \A j \in 2..3 - 1 : j = 2
    OBVIOUS
  <2>4. "x" \in Inner /\ "x" # "b"
    OBVIOUS
  <2>5. QED
    BY <2>1, <2>2, <2>3, <2>4, Zenon DEF w
<1>5. CASE it.kind = "arg"
  <2>1. Len(w) = l + 2 /\ w[l + 2] = "}"
    BY <1>1, <1>5, Shape, Zenon DEF w
  <2>2. it.kind \in {"arg", "bool", "other"}
    BY <1>5
  <2>3. l + 2 \in Nat /\ l + 2 >= 2 /\ (l + 2) - 1 = l + 1
    OBVIOUS
  <2>4. \A j \in 2..l + 1 : w[j] \in Inner
    BY <1>3, <2>2
  <2>5. 2 < l + 2 => w[2] # "b"
    <3>1. 2 < l + 2 => 2 \in 2..l + 1
      OBVIOUS
    <3>2. "b" \notin Digits
      BY DigitChars
    <3>3. QED
      BY <1>3, <2>2, <3>1, <3>2, Zenon
  <2>6. QED
    BY <2>1, <2>3, <2>4, <2>5, Zenon DEF w
<1>6. CASE it.kind \in {"bool", "other"}
  <2>1. Len(w) = l + 4 /\ w[l + 2] = ":" /\ w[l + 4] = "}"
    BY <1>1, <1>6, Shape, Zenon DEF w
  <2>2. w[l + 3] = IF it.kind = "bool" THEN "b" ELSE "x"
    BY <1>1, <1>6, Shape, Zenon DEF w
  <2>3. it.kind \in {"arg", "bool", "other"}
    BY <1>6
  <2>4. l + 4 \in Nat /\ l + 4 >= 2
    OBVIOUS
  <2>5. ASSUME NEW j \in 2..(l + 4) - 1 PROVE w[j] \in Inner
    <3>1. j \in 2..l + 1 \/ j = l + 2 \/ j = l + 3
      OBVIOUS
    <3>2. QED
      BY <1>3, <2>1, <2>2, <2>3, <3>1
  <2>6. w[2] # "b"
    <3>1. CASE l = 0
      <4>1. l + 2 = 2
        BY <3>1
      <4>2. w[2] = ":"
        BY <2>1, <4>1, Zenon
      <4>3. QED
        BY <4>2
    <3>2. CASE l # 0
      <4>1. 2 \in 2..l + 1
        BY <3>2
      <4>2. "b" \notin Digits
        BY DigitChars
      <4>3. QED
        BY <1>3, <2>3, <4>1, <4>2, Zenon
    <3>3. QED
      BY <3>1, <3>2
  <2>7. QED
    BY <2>1, <2>4, <2>5, <2>6, Zenon DEF w
<1>7. QED
  BY <1>4, <1>5, <1>6

(* In a placeholder that is read as a type, since {n:b} left isType set:   *)
(* its characters are collected, are never the type b, and come to         *)
(* nothing.                                                                *)
LEMMA FromResidue ==
  ASSUME Known, NEW k \in Nat, k < Len(items), SoFar(k), Next,
         NEW o \in 1..Len(Written(items[k+1])) - 1, Inside(k, o), InResidue(k, o)
  PROVE  IInv'
<1> DEFINE it == items[k+1]
<1>1. /\ InLoop
      /\ Char = Written(it)[o+1]
      /\ pos + 1 = Start(k) + (o + 1) + 1
      /\ o + 1 = Len(Written(it)) => pos + 1 = Start(k + 1) + 1
  BY HereInside, Zenon
<1>2. it \in Items
  BY ItemShape, Zenon
<1>3. /\ it.kind \in {"arg", "bool", "other", "name"}
      /\ isPlaceHolder /\ ~fell /\ ~isBracket /\ isType /\ TypeLeft(k) /\ nIndex = -1
      /\ sType \in Seq(Chars)
      /\ IF o = 1 THEN sType = <<>> ELSE sType # <<>> /\ sType[1] # "b"
  BY Zenon DEF Inside, InResidue
<1>4. PICK n \in Nat : /\ n = Len(Written(it))
                       /\ n >= 2 /\ Written(it)[n] = "}"
                       /\ \A j \in 2..n - 1 : Written(it)[j] \in {"x", ":", "b"} \cup Digits
                       /\ 2 < n => Written(it)[2] # "b"
  BY <1>2, <1>3, InnerChars, Zenon
<1>5. o \in 1..n - 1
  BY <1>4, Zenon
<1>6. CASE o + 1 < n
  <2>1. o + 1 \in 2..n - 1 /\ o + 1 # 1 /\ o + 1 \in 1..n - 1
    BY <1>5, <1>6
  <2>2. Char \in {"x", ":", "b"} \cup Digits
    BY <1>1, <1>4, <2>1, Zenon
  <2>3. Char # "{" /\ Char # "}" /\ Char \in Chars
    BY <2>2, DigitChars DEF Chars
  <2>4. TypeChar
    BY <1>1, <1>3, <2>3, OneWay, Zenon
  <2>5. /\ Same /\ pos' = pos + 1 /\ sRet' = sRet /\ nArgsIdx' = nArgsIdx
        /\ isPlaceHolder' = isPlaceHolder /\ isBracket' = isBracket /\ isType' = isType
        /\ sType' = Append(sType, Char) /\ nIndex' = nIndex /\ fell' = fell
    BY <2>4 DEF TypeChar, Advance, flags, Same
  <2>6. sType' \in Seq(Chars) /\ sType' # <<>> /\ sType'[1] # "b"
    <3>1. sType' \in Seq(Chars) /\ sType' # <<>>
      BY <1>3, <2>3, <2>5, AppendProperties, Zenon
    <3>2. CASE o = 1
      <4>1. 2 < n /\ o + 1 = 2
        BY <1>6, <3>2
      <4>2. Char # "b"
        BY <1>1, <1>4, <4>1, Zenon
      <4>3. Append(<<>>, Char)[1] = Char
        OBVIOUS
      <4>4. QED
        BY <1>3, <2>5, <3>1, <3>2, <4>2, <4>3, Zenon
    <3>3. CASE o # 1
      <4>1. sType # <<>> /\ sType[1] # "b"
        BY <1>3, <3>3, Zenon
      <4>2. 1 \in 1..Len(sType)
        BY <1>3, <4>1, EmptySeq
      <4>3. Append(sType, Char)[1] = sType[1]
        <5>1. /\ Append(sType, Char) \in Seq(Chars)
              /\ Append(sType, Char) # <<>>
              /\ Len(Append(sType, Char)) = Len(sType) + 1
              /\ \A i \in 1..Len(sType) : Append(sType, Char)[i] = sType[i]
              /\ Append(sType, Char)[Len(sType) + 1] = Char
          BY <1>3, <2>3, AppendProperties, Zenon
        <5>2. QED
          BY <4>2, <5>1, Zenon
      <4>4. QED
        BY <2>5, <3>1, <4>1, <4>3, Zenon
    <3>4. QED
      BY <3>2, <3>3
  <2>7. GoesOn(k, o + 1)
    BY <1>1, <1>3, <2>5, Zenon DEF GoesOn
  <2>8. o + 1 \in 1..Len(Written(it)) - 1
    BY <1>4, <2>1, Zenon
  <2>9. InResidue(k, o + 1)'
    <3>1. items' = items /\ TypeLeft(k)'
      BY <1>3, <2>5, Fixed, Zenon
    <3>2. QED
      BY <1>3, <2>1, <2>5, <2>6, <2>8, <3>1, Zenon DEF InResidue
  <2>10. QED
    BY <2>7, <2>8, <2>9, GoesOnInside, Zenon
<1>7. CASE o + 1 = n
  <2>1. Char = "}" /\ pos + 1 = Start(k + 1) + 1
    BY <1>1, <1>4, <1>7, Zenon
  <2>2. sType # <<"b">>
    <3>1. <<"b">> # <<>> /\ <<"b">>[1] = "b"
      OBVIOUS
    <3>2. QED
      BY <1>3, <3>1, Zenon
  <2>3. TypeEnd
    BY <1>1, <1>3, <2>1, OneWay, Zenon
  <2>4. /\ Same /\ pos' = pos + 1 /\ isPlaceHolder' = FALSE /\ isBracket' = isBracket
        /\ sType' = <<>> /\ nIndex' = -1
        /\ isType' = FALSE /\ fell' = TRUE /\ sRet' = sRet /\ nArgsIdx' = nArgsIdx
    BY <2>2, <2>3 DEF TypeEnd, Advance, Same
  <2>5. Good => it.kind = "other"
    <3>1. SUFFICES ASSUME it.kind # "other" PROVE LeavesType \/ HasTooLarge
      BY Zenon DEF Good
    <3>2. PICK m \in 1..k : IndexedBool(m) \/ TooLarge(m)
      BY <1>3 DEF TypeLeft
    <3>3. m \in 1..Len(items) /\ k + 1 \in m+1..Len(items)
      <4>1. PICK c \in Nat : c = Len(items) /\ k < c
        BY KnownTypes
      <4>2. m \in 1..c /\ k + 1 \in m+1..c
        BY <4>1
      <4>3. QED
        BY <4>1, <4>2, Zenon
    <3>4. it.kind \notin {"text", "braces", "other"}
      BY <1>3, <3>1
    <3>5. QED
      BY <3>2, <3>3, <3>4, Zenon DEF LeavesType, HasTooLarge
  <2>6. it.kind = "other" => Untyped(k + 1) /\ Meaning(k + 1) = <<>> /\ ~InLine(k + 1)
    BY DEF Untyped, Meaning, InLine
  <2>7. it.kind = "other" => Rendered(k + 1) = Rendered(k) /\ Taken(k + 1) = Taken(k)
    BY <2>6, Renders, TakesNone, Zenon
  <2>8. Ends(k)
    BY <1>3, <2>1, <2>4, <2>5, <2>6, <2>7, Zenon DEF Ends, SoFar
  <2>9. QED
    BY <2>8, EndsItem
<1>8. QED
  BY <1>5, <1>6, <1>7

(* Beyond the string nothing happens.                                      *)
LEMMA FromPast ==
  ASSUME Known, Past, Next
  PROVE  UNCHANGED vars
<1>1. ~InLoop
  BY FormatLength DEF Past, InLoop, Overrun
<1>2. QED
  BY <1>1 DEF Next, format_trans, Bracket, TypeChar, TypeEnd, OpenBracket, ClosePlaceHolder, Colon,
     Digit, Stuck, OpenPlaceHolder, Literal

(* Before the first character.                                             *)
LEMMA InitIInv == Init => IInv
<1> SUFFICES ASSUME Init PROVE IInv
  OBVIOUS
<1>1. Known
  BY DEF Init, Known
<1>2. 0 \in 0..Len(items)
  BY <1>1, KnownTypes
<1>3. Start(0) = 0
  BY TextEmpty DEF Start
<1>4. Rendered(0) = <<>>
  <2>1. [n \in 1..0 |-> Meaning(n)] = <<>> /\ Len(<<>>) = 0
    OBVIOUS
  <2>2. QED
    BY <2>1, Zenon DEF Rendered, FlattenSeq
<1>5. Taken(0) = 0
  <2>1. PICK n \in Nat : n = Len(args)
    BY <1>1, KnownTypes
  <2>2. 0 <= n
    OBVIOUS
  <2>3. QED
    BY <2>1, <2>2, InLineNone, Zenon DEF Taken
<1>6. Outside(0)
  BY <1>3 DEF Init, Outside
<1>7. SoFar(0)
  BY <1>4, <1>5 DEF Init, SoFar
<1>8. QED
  BY <1>1, <1>2, <1>6, <1>7, Zenon DEF IInv, At

(* Every step leads from one place to another.                             *)
LEMMA NextIInv == IInv /\ [Next]_vars => IInv'
<1> SUFFICES ASSUME IInv, [Next]_vars PROVE IInv'
  OBVIOUS
<1>1. CASE UNCHANGED vars
  BY <1>1, Stutter
<1>2. CASE Next /\ Past
  BY <1>2, FromPast, Stutter DEF IInv
<1>3. CASE Next /\ ~Past
  <2>1. PICK k \in 0..Len(items) : At(k)
    BY <1>3 DEF IInv
  <2>2. Known /\ SoFar(k) /\ k \in Nat
    BY <2>1, KnownTypes DEF IInv, At
  <2>3. CASE k < Len(items) /\ Outside(k)
    BY <1>3, <2>2, <2>3, FromOutside, Zenon
  <2>4. CASE k = Len(items) /\ Outside(k)
    BY <1>3, <2>2, <2>4, FromEnd, Zenon
  <2>5. CASE k < Len(items) /\ \E o \in 1..Len(Written(items[k+1])) - 1 : Inside(k, o)
    <3>1. PICK o \in 1..Len(Written(items[k+1])) - 1 : Inside(k, o)
      BY <2>5
    <3>2. InBraces(k, o) \/ InName(k, o) \/ InIndex(k, o) \/ InType(k, o) \/ InResidue(k, o)
      BY <3>1 DEF Inside
    <3>3. CASE InBraces(k, o)
      BY <1>3, <2>2, <2>5, <3>1, <3>3, FromBraces, Zenon
    <3>4. CASE InName(k, o)
      BY <1>3, <2>2, <2>5, <3>1, <3>4, FromName, Zenon
    <3>5. CASE InIndex(k, o)
      BY <1>3, <2>2, <2>5, <3>1, <3>5, FromIndex, Zenon
    <3>6. CASE InType(k, o)
      BY <1>3, <2>2, <2>5, <3>1, <3>6, FromType, Zenon
    <3>7. CASE InResidue(k, o)
      BY <1>3, <2>2, <2>5, <3>1, <3>7, FromResidue, Zenon
    <3>8. QED
      BY <3>2, <3>3, <3>4, <3>5, <3>6, <3>7
  <2>6. k < Len(items) \/ k = Len(items)
    BY <2>2, KnownTypes
  <2>7. QED
    BY <2>1, <2>3, <2>4, <2>5, <2>6, Zenon DEF At
<1>4. QED
  BY <1>1, <1>2, <1>3

(***************************************************************************)
(* format_trans is always at one of the places the invariant describes,    *)
(* whatever the format string's items and the arguments are.               *)
(***************************************************************************)
THEOREM Invariance == Spec => []IInv
BY InitIInv, NextIInv, PTL DEF Spec

(***************************************************************************)
(* The property of the run, for any number of items, any indexes and any   *)
(* arguments: format_trans renders a format string item by item, each      *)
(* placeholder with the argument it asks for, and reads nothing beyond the *)
(* string, with the exceptions that RendersItems names.                    *)
(***************************************************************************)
THEOREM ItemsRendered == Spec => []RendersItems
<1>1. IInv => RendersItems
  <2> SUFFICES ASSUME IInv, Good
               PROVE  ~Overrun /\ (Finished => sRet = Rendered(Len(items)))
    BY Zenon DEF RendersItems, Good, Rendered
  <2>1. PICK k \in 0..Len(items) : At(k)
    BY DEF IInv, Past
  <2>2. Known /\ SoFar(k) /\ k \in Nat
    BY <2>1, KnownTypes DEF IInv, At
  <2>3. PICK z \in Nat, n \in Nat : z = Len(format) /\ n = Len(items)
    BY <2>2, FormatLength, KnownTypes
  <2>4. CASE k < n /\ \E o \in 1..Len(Written(items[k+1])) - 1 : Inside(k, o)
    <3>1. InLoop
      BY <2>2, <2>3, <2>4, HereInside, Zenon
    <3>2. QED
      BY <3>1 DEF InLoop
  <2>5. CASE k < n /\ Outside(k)
    <3>1. PICK s \in Nat, l \in Nat \ {0} : s = Start(k) /\ l = Len(Written(items[k+1]))
      BY <2>2, <2>3, <2>5, Positions, ItemShape
    <3>2. s + l <= z
      BY <2>2, <2>3, <2>5, <3>1, Positions, Zenon
    <3>3. pos = s + 1
      BY <2>5, <3>1, Zenon DEF Outside
    <3>4. ~(pos > z + 1) /\ pos # z + 1
      BY <3>2, <3>3
    <3>5. QED
      BY <2>3, <3>4, Zenon DEF Overrun, Finished
  <2>6. CASE k = n /\ Outside(k)
    <3>1. pos = z + 1
      BY <2>3, <2>6, Zenon DEF Outside, Start, Text, format
    <3>2. ~(z + 1 > z + 1)
      OBVIOUS
    <3>3. sRet = Rendered(n)
      BY <2>2, <2>6, Zenon DEF SoFar
    <3>4. QED
      BY <2>3, <3>1, <3>2, <3>3, Zenon DEF Overrun
  <2>7. k < n \/ k = n
    BY <2>3
  <2>8. QED
    BY <2>1, <2>3, <2>4, <2>5, <2>6, <2>7, Zenon DEF At
<1>2. QED
  BY <1>1, Invariance, PTL

(* The guard of Stuck.                                                     *)
Blocked ==
    /\ InLoop /\ ~isBracket /\ isPlaceHolder /\ ~isType
    /\ \/ Char \notin {"{", "}", ":"} \cup Digits
       \/ Char = "}" /\ nIndex < -1

(* What alone lets it come to that.                                        *)
CanBlock == HasNames \/ HasTooLarge

(* What the character within an item may be.                               *)
LEMMA InsideChar ==
  ASSUME Known, NEW k \in Nat, k < Len(items), NEW o \in 1..Len(Written(items[k+1])) - 1,
         Inside(k, o)
  PROVE  /\ isBracket => Char = "}"
         /\ Blocked => CanBlock
<1> DEFINE it == items[k+1]
<1>1. Char = Written(it)[o+1] /\ it \in Items /\ k + 1 \in 1..Len(items)
  BY HereInside, ItemShape, Zenon
<1>2. CASE InBraces(k, o)
  <2>1. it.kind = "braces" /\ o \in {1, 2} /\ (isBracket <=> o = 2)
    BY <1>2 DEF InBraces
  <2>2. Written(it)[2] = "{" /\ Written(it)[3] = "}"
    BY <1>1, <2>1, Shape, Zenon
  <2>3. 1 + 1 = 2 /\ 2 + 1 = 3
    OBVIOUS
  <2>4. o = 1 => Char = "{"
    BY <1>1, <2>2, <2>3, Zenon
  <2>5. o = 2 => Char = "}"
    BY <1>1, <2>2, <2>3, Zenon
  <2>6. QED
    BY <2>1, <2>4, <2>5 DEF Blocked
<1>3. CASE InName(k, o)
  BY <1>1, <1>3, Zenon DEF InName, HasNames, CanBlock
<1>4. CASE InIndex(k, o)
  <2>1. PICK l \in Nat : l = Len(it.index)
    BY <1>1, Shape
  <2>2. /\ it.kind \in {"arg", "bool", "other"} /\ o \in 1..l + 1
        /\ ~isBracket
    BY <1>4, <2>1, Zenon DEF InIndex
  <2>3. CASE o \in 1..l
    <3>1. \A j \in 1..l : Written(it)[1 + j] = it.index[j] /\ it.index[j] \in Digits
      BY <1>1, <2>1, <2>2, Shape, Zenon
    <3>2. 1 + o = o + 1
      BY <2>3
    <3>3. Char \in Digits
      BY <1>1, <2>3, <3>1, <3>2, Zenon
    <3>4. QED
      BY <2>2, <3>3, DigitChars DEF Blocked
  <2>4. CASE o = l + 1
    <3>1. o + 1 = l + 2
      BY <2>4
    <3>2. it.kind = "arg" => Written(it)[l + 2] = "}"
      BY <1>1, <2>1, Shape, Zenon
    <3>3. it.kind \in {"bool", "other"} => Written(it)[l + 2] = ":"
      BY <1>1, <2>1, Shape, Zenon
    <3>4. Char \in {"}", ":"}
      BY <1>1, <2>2, <3>1, <3>2, <3>3
    <3>5. CASE TooLarge(k + 1)
      BY <1>1, <2>2, <3>4, <3>5 DEF CanBlock, HasTooLarge
    <3>6. CASE ~TooLarge(k + 1)
      <4>1. PICK v \in Nat : v = Number(it.index)[l]
        <5>1. l \in 0..l /\ Number(it.index) \in [0..l -> Nat]
          BY <2>1, Indexed
        <5>2. QED
          BY <5>1
      <4>2. v <= MaxShort /\ ~(v < -1) /\ ~(-1 < -1)
        BY <2>1, <3>6, <4>1 DEF TooLarge, MaxShort
      <4>3. o - 1 = l
        BY <2>4
      <4>4. nIndex = IF o = 1 THEN -1 ELSE v
        BY <1>4, <4>1, <4>2, <4>3, Zenon DEF InIndex
      <4>5. ~(nIndex < -1)
        BY <4>2, <4>4, Zenon
      <4>6. QED
        BY <2>2, <3>4, <4>5, Zenon DEF Blocked
    <3>7. QED
      BY <3>5, <3>6
  <2>5. o \in 1..l \/ o = l + 1
    BY <2>2
  <2>6. QED
    BY <2>3, <2>4, <2>5
<1>5. CASE InType(k, o) \/ InResidue(k, o)
  BY <1>5 DEF InType, InResidue, Blocked
<1>6. QED
  BY <1>2, <1>3, <1>4, <1>5 DEF Inside

(* The position is in the text, or one beyond its end.                     *)
LEMMA PosType ==
  ASSUME IInv
  PROVE  pos \in Nat /\ pos <= Len(format) + 2
<1>1. PICK z \in Nat, n \in Nat : z = Len(format) /\ n = Len(items)
  BY FormatLength, KnownTypes DEF IInv
<1>2. CASE Past
  BY <1>1, <1>2 DEF Past
<1>3. ASSUME NEW k \in 0..Len(items), At(k) PROVE pos \in Nat /\ pos <= z + 2
  <2>1. k \in 0..n /\ Known
    BY <1>1 DEF IInv
  <2>2. CASE k < n
    <3>1. PICK s \in Nat, l \in Nat \ {0} : s = Start(k) /\ l = Len(Written(items[k+1]))
      BY <1>1, <2>1, <2>2, Positions, ItemShape
    <3>2. s + l <= z
      <4>1. k \in Nat
        BY <2>1
      <4>2. Start(k + 1) = Start(k) + Len(Written(items[k+1])) /\ Start(k + 1) <= Len(format)
        BY <1>1, <2>1, <2>2, <4>1, Positions, Zenon
      <4>3. QED
        BY <1>1, <3>1, <4>2, Zenon
    <3>3. CASE Outside(k)
      <4>1. pos = s + 1
        BY <3>1, <3>3, Zenon DEF Outside
      <4>2. QED
        BY <3>2, <4>1
    <3>4. CASE \E o \in 1..Len(Written(items[k+1])) - 1 : Inside(k, o)
      <4>1. PICK o \in 1..l - 1 : pos = s + o + 1
        BY <3>1, <3>4, Zenon DEF Inside
      <4>2. QED
        BY <3>2, <4>1
    <3>5. QED
      BY <1>3, <3>3, <3>4, Zenon DEF At
  <2>3. CASE k = n
    <3>1. ~(n < n)
      OBVIOUS
    <3>2. Outside(n)
      BY <1>1, <1>3, <2>3, <3>1, Zenon DEF At
    <3>3. pos = z + 1
      BY <1>1, <3>2, Zenon DEF Outside, Start, Text, format
    <3>4. QED
      BY <3>3
  <2>4. QED
    BY <2>1, <2>2, <2>3
<1>4. QED
  BY <1>1, <1>2, <1>3, Zenon DEF IInv

(* The same, of any state.                                                 *)
LEMMA Inner ==
  ASSUME IInv, InLoop
  PROVE  (isBracket => isPlaceHolder /\ Char = "}") /\ (Blocked => CanBlock)
<1>1. Known
  BY DEF IInv
<1>2. ~Past
  BY <1>1, FormatLength DEF Past, InLoop, Overrun
<1>3. PICK k \in 0..Len(items) : At(k)
  BY <1>2 DEF IInv
<1>4. CASE Outside(k)
  BY <1>4 DEF Outside, Blocked
<1>5. CASE ~Outside(k)
  <2>1. PICK o \in 1..Len(Written(items[k+1])) - 1 : k < Len(items) /\ Inside(k, o)
    BY <1>3, <1>5, Zenon DEF At
  <2>2. k \in Nat
    BY <1>1, KnownTypes
  <2>3. QED
    BY <1>1, <2>1, <2>2, InsideChar, Zenon DEF Inside
<1>6. QED
  BY <1>4, <1>5

(***************************************************************************)
(* Only a character in a placeholder that is neither a digit nor a colon   *)
(* (the last else of the branch of placeholders of format_trans), or an    *)
(* index beyond what the short nIndex holds, can keep its loop going round *)
(* without advancing.                                                      *)
(***************************************************************************)
THEOREM NeverBlocked == Spec => [](Blocked => CanBlock)
<1>1. IInv => (Blocked => CanBlock)
  BY Inner DEF Blocked
<1>2. QED
  BY <1>1, Invariance, PTL

InText == pos \in Nat /\ pos <= Len(format) + 2

(***************************************************************************)
(* Every other way through the loop moves sFormatString on, and at most to *)
(* the character after the terminating zero.  With NeverBlocked this is    *)
(* what Terminates rests on: if no item is a name and no index too large,  *)
(* there are at most as many steps as characters.                          *)
(***************************************************************************)
THEOREM MovesOn == Spec => [][pos < pos' /\ pos' <= Len(format) + 2]_vars
<1>1. IInv => InText
  BY PosType DEF InText
<1>2. IInv /\ InText /\ InText' /\ [Next]_vars => [pos < pos' /\ pos' <= Len(format) + 2]_vars
  <2> SUFFICES ASSUME IInv, InText, InText', Next, ~UNCHANGED vars
               PROVE  pos < pos' /\ pos' <= Len(format) + 2
    OBVIOUS
  <2>1. pos \in Nat /\ pos' \in Nat /\ pos' <= Len(format)' + 2
    BY DEF InText
  <2>2. format_trans /\ InLoop
    BY DEF Next, format_trans, Bracket, TypeChar, TypeEnd, OpenBracket, ClosePlaceHolder, Colon,
       Digit, Stuck, OpenPlaceHolder, Literal
  <2>3. Same
    BY <2>2 DEF format_trans, Bracket, TypeChar, TypeEnd, OpenBracket, ClosePlaceHolder, Colon,
       Digit, Stuck, OpenPlaceHolder, Literal, Same
  <2>4. pos < pos'
    <3>1. CASE Bracket
      <4>1. Char = "}"
        BY <2>2, <3>1, Inner DEF Bracket
      <4>2. pos' = (pos + 1) + 1 \/ pos' = pos + 1
        BY <3>1, <4>1 DEF Bracket
      <4>3. QED
        BY <2>1, <4>2
    <3>2. CASE ~Bracket
      <4>1. pos' = pos + 1
        BY <2>2, <3>2 DEF format_trans, TypeChar, TypeEnd, OpenBracket, ClosePlaceHolder, Colon,
           Digit, Stuck, OpenPlaceHolder, Literal, Advance
      <4>2. QED
        BY <2>1, <4>1
    <3>3. QED
      BY <3>1, <3>2
  <2>5. format' = format
    BY <2>3, Fixed
  <2>6. QED
    BY <2>1, <2>4, <2>5, Zenon
<1>3. QED
  BY <1>1, <1>2, Invariance, PTL DEF Spec

=============================================================================
