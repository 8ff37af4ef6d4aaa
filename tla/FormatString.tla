---------------------------- MODULE FormatString ----------------------------
(***************************************************************************)
(* cFormat::format_trans, which puts arguments in the place of the         *)
(* placeholders of a format string: {}, {n}, {:b} and {n:b}; {{}} stands   *)
(* for a pair of braces.  One action is one way through the body of its    *)
(* loop.  A way that does not end in `continue' goes on with the next      *)
(* character without the loop's test for the end of the string.            *)
(***************************************************************************)
EXTENDS Integers, Sequences, SequencesExt, FiniteSets

CONSTANTS Items,        \* what format strings are made of: see Written
          MaxItems,     \* bound: how many of them
          Arguments     \* the argument lists that are tried

(* An argument is its text, and "yes" stands for those isTrue accepts; the *)
(* type "b" stands for "B" as well, and "x" for every other character.     *)
isTrue(arg) == arg = "yes"

Numerals == <<"0", "1", "2", "3", "4", "5", "6", "7", "8", "9">>
Digits == {Numerals[i] : i \in 1..10}
Value(d) == (CHOOSE i \in 1..10 : Numerals[i] = d) - 1

(* nIndex and nArgsIdx are shorts: what is assigned to one is cut to 16    *)
(* bits.                                                                   *)
MaxShort == 32767
Short(n) == ((n + MaxShort + 1) % (2 * (MaxShort + 1))) - (MaxShort + 1)

ASSUME FormatAssumption ==
    /\ Items \subseteq [kind : {"text", "braces", "arg", "bool", "other", "name"},
                        index : Seq(Digits)]
    /\ MaxItems \in Nat
    /\ \A args \in Arguments : Len(args) \in 1..MaxShort

VARIABLES items,            \* what the format string is made of
          args,             \* _vecArgs
          pos,              \* sFormatString, as an index
          isPlaceHolder, isType, isBracket,
          sType,            \* the characters after the colon
          nIndex,           \* the digits before it, -1 if there are none; a short
          nArgsIdx,         \* how many arguments {} and {:b} have taken
          sRet,             \* the result: characters, arguments, "true", "false"
          fell              \* the loop's test was skipped

flags == <<isPlaceHolder, isType, isBracket>>
vars == <<items, args, pos, flags, sType, nIndex, nArgsIdx, sRet, fell>>

(* How an item is written in the format string.                            *)
Written(it) ==
    CASE it.kind = "text"   -> <<"x">>
      [] it.kind = "braces" -> <<"{", "{", "}", "}">>
      [] it.kind = "arg"    -> <<"{">> \o it.index \o <<"}">>
      [] it.kind = "bool"   -> <<"{">> \o it.index \o <<":", "b", "}">>
      [] it.kind = "other"  -> <<"{">> \o it.index \o <<":", "x", "}">>
      [] it.kind = "name"   -> <<"{", "x", "}">>

format == FlattenSeq([n \in 1..Len(items) |-> Written(items[n])])

NUL == "NUL"
CharAt(n) == IF n <= Len(format) THEN format[n] ELSE NUL
Char == CharAt(pos)

Init ==
    /\ items \in SeqOf(Items, MaxItems)
    /\ args \in Arguments
    /\ pos = 1
    /\ isPlaceHolder = FALSE /\ isType = FALSE /\ isBracket = FALSE
    /\ sType = <<>>
    /\ nIndex = -1
    /\ nArgsIdx = 0
    /\ sRet = <<>>
    /\ fell = FALSE

(* The end of the string, tested; and beyond it, where the code goes on to *)
(* read what is not its own and the model stops.                           *)
Finished == pos = Len(format) + 1 /\ ~fell
Overrun == pos > Len(format) + 1

InLoop == ~Finished /\ ~Overrun

Emit(token) == sRet' = Append(sRet, token)
Advance == pos' = pos + 1

-----------------------------------------------------------------------------
(* After an opened bracket, {{: a } is skipped, and a second makes it {}.                     *)
Bracket ==
    /\ InLoop /\ isBracket
    /\ LET next == IF Char = "}" THEN pos + 1 ELSE pos
       IN IF CharAt(next) = "}"
          THEN Emit("{}") /\ pos' = next + 1 /\ fell' = FALSE
          ELSE Emit("{") /\ pos' = next /\ fell' = TRUE
    /\ isBracket' = FALSE
    /\ isPlaceHolder' = FALSE
    /\ UNCHANGED <<items, args, isType, sType, nIndex, nArgsIdx>>

TypeChar ==
    /\ InLoop /\ ~isBracket /\ isPlaceHolder /\ isType
    /\ Char \notin {"{", "}"}
    /\ sType' = Append(sType, Char)
    /\ Advance
    /\ UNCHANGED <<items, args, flags, nIndex, nArgsIdx, sRet, fell>>

(* The argument a placeholder stands for: the one at its index or the next *)
(* in line; there need not be one.  A nIndex below -1 is compared with the *)
(* number of arguments as an unsigned one, and is not found among them.    *)
Wanted == IF nIndex = -1 THEN nArgsIdx + 1 ELSE nIndex + 1
Exists == nIndex >= -1 /\ Wanted <= Len(args)
TakeInLine == nArgsIdx' = IF nIndex = -1 /\ Exists THEN nArgsIdx + 1 ELSE nArgsIdx

(* Mutant: the index survives the placeholder. *)
TypeEnd_KeepsIndex ==
    /\ InLoop /\ ~isBracket /\ isPlaceHolder /\ isType
    /\ Char = "}"
    /\ IF sType = <<"b">> /\ Exists
       THEN /\ Emit(IF isTrue(args[Wanted]) THEN "true" ELSE "false")
            /\ TakeInLine
            /\ isType' = (nIndex # -1)
            /\ fell' = FALSE
       ELSE isType' = FALSE /\ fell' = TRUE /\ UNCHANGED <<sRet, nArgsIdx>>
    /\ sType' = <<>>
    /\ isPlaceHolder' = FALSE
    /\ Advance
    /\ UNCHANGED <<items, args, isBracket, nIndex>>

(* The end of {:b} and {n:b}.  After {n:b} isType is left set.             *)
TypeEnd ==
    /\ InLoop /\ ~isBracket /\ isPlaceHolder /\ isType
    /\ Char = "}"
    /\ IF sType = <<"b">> /\ Exists
       THEN /\ Emit(IF isTrue(args[Wanted]) THEN "true" ELSE "false")
            /\ TakeInLine
            /\ isType' = (nIndex # -1)
            /\ fell' = FALSE
       ELSE isType' = FALSE /\ fell' = TRUE /\ UNCHANGED <<sRet, nArgsIdx>>
    /\ sType' = <<>>
    /\ nIndex' = -1
    /\ isPlaceHolder' = FALSE
    /\ Advance
    /\ UNCHANGED <<items, args, isBracket>>

OpenBracket ==
    /\ InLoop /\ ~isBracket /\ isPlaceHolder
    /\ Char = "{"
    /\ isBracket' = TRUE
    /\ Advance
    /\ UNCHANGED <<items, args, isPlaceHolder, isType, sType, nIndex, nArgsIdx, sRet, fell>>

(* The end of {} and {n}. *)
ClosePlaceHolder ==
    /\ InLoop /\ ~isBracket /\ isPlaceHolder /\ ~isType
    /\ Char = "}" /\ nIndex >= -1
    /\ IF Exists THEN Emit(args[Wanted]) ELSE UNCHANGED sRet
    /\ TakeInLine
    /\ nIndex' = -1
    /\ isPlaceHolder' = FALSE
    /\ Advance
    /\ UNCHANGED <<items, args, isType, isBracket, sType, fell>>

Colon ==
    /\ InLoop /\ ~isBracket /\ isPlaceHolder /\ ~isType
    /\ Char = ":"
    /\ isType' = TRUE
    /\ Advance
    /\ UNCHANGED <<items, args, isPlaceHolder, isBracket, sType, nIndex, nArgsIdx, sRet, fell>>

(* Mutant: the digit is not consumed. *)
Digit_Stays ==
    /\ InLoop /\ ~isBracket /\ isPlaceHolder /\ ~isType
    /\ Char \in Digits
    /\ nIndex' = Value(Char)
    /\ UNCHANGED <<items, args, pos, flags, sType, nArgsIdx, sRet, fell>>

Digit ==
    /\ InLoop /\ ~isBracket /\ isPlaceHolder /\ ~isType
    /\ Char \in Digits
    /\ nIndex' = IF nIndex = -1 THEN Value(Char) ELSE Short(10 * nIndex + Value(Char))
    /\ Advance
    /\ UNCHANGED <<items, args, flags, sType, nArgsIdx, sRet, fell>>

(* Anything else in a placeholder, or its end when nIndex has wrapped to   *)
(* less than -1: the loop goes round without advancing.                    *)
Stuck ==
    /\ InLoop /\ ~isBracket /\ isPlaceHolder /\ ~isType
    /\ \/ Char \notin {"{", "}", ":"} \cup Digits
       \/ Char = "}" /\ nIndex < -1
    /\ UNCHANGED vars

OpenPlaceHolder ==
    /\ InLoop /\ ~isPlaceHolder
    /\ Char = "{"
    /\ isPlaceHolder' = TRUE
    /\ fell' = FALSE
    /\ Advance
    /\ UNCHANGED <<items, args, isType, isBracket, sType, nIndex, nArgsIdx, sRet>>

(* Outside of placeholders, the end of the string too if it was not tested. *)
Literal ==
    /\ InLoop /\ ~isPlaceHolder
    /\ Char # "{"
    /\ Emit(Char)
    /\ fell' = FALSE
    /\ Advance
    /\ UNCHANGED <<items, args, flags, sType, nIndex, nArgsIdx>>

-----------------------------------------------------------------------------
format_trans ==
    \/ Bracket \/ TypeChar \/ TypeEnd \/ OpenBracket \/ ClosePlaceHolder
    \/ Colon \/ Digit \/ Stuck \/ OpenPlaceHolder \/ Literal

Next == format_trans \/ (~InLoop /\ UNCHANGED vars)

Spec == Init /\ [][Next]_vars /\ WF_vars(format_trans)

-----------------------------------------------------------------------------
(* What an item means by the comment at line 43: an item in line takes the *)
(* argument after those the items in line before it took, an indexed one   *)
(* the argument at its index; one without an argument, nothing.            *)
(* Number is the table of what the first digits of an index come to.       *)
InLine(n) == items[n].kind \in {"arg", "bool"} /\ items[n].index = <<>>
Number(digits) ==
    LET v[i \in 0..Len(digits)] == IF i = 0 THEN 0 ELSE 10 * v[i-1] + Value(digits[i])
    IN v
ArgumentOf(n) ==
    IF InLine(n) THEN Cardinality({m \in 1..n : InLine(m)})
    ELSE Number(items[n].index)[Len(items[n].index)] + 1

Meaning(n) ==
    CASE items[n].kind = "text" -> <<"x">>
      [] items[n].kind = "braces" -> <<"{}">>
      [] items[n].kind \in {"arg", "bool"} ->
            IF ArgumentOf(n) > Len(args) THEN <<>>
            ELSE LET arg == args[ArgumentOf(n)]
                 IN IF items[n].kind = "arg" THEN <<arg>>
                    ELSE IF isTrue(arg) THEN <<"true">> ELSE <<"false">>
      [] OTHER -> <<>>

HasNames == \E n \in 1..Len(items) : items[n].kind = "name"

(* {32768}, {65536}, ...: nIndex does not hold the number that is written. *)
TooLarge(n) == Number(items[n].index)[Len(items[n].index)] > MaxShort
HasTooLarge == \E n \in 1..Len(items) : TooLarge(n)

IndexedBool(n) ==
    items[n].kind = "bool" /\ items[n].index # <<>> /\ ArgumentOf(n) <= Len(args)

(* After {n:b} the next placeholder is read as if it were a type.          *)
LeavesType == \E n \in 1..Len(items) :
    IndexedBool(n) /\ \E m \in n+1..Len(items) : items[m].kind \notin {"text", "braces", "other"}

(* {:x}, or {:b} without an argument.                                      *)
Untyped(n) ==
    \/ items[n].kind = "other"
    \/ items[n].kind = "bool" /\ ArgumentOf(n) > Len(args)

(***************************************************************************)
(* Placeholders do not affect each other: the result is what the items     *)
(* mean one by one, and nothing is read beyond the string.  This is so for *)
(* strings without a second placeholder after {n:b} and without an index   *)
(* that is too large for a short, and unless the last item is of an        *)
(* unknown type or lacks its argument, after which the end of the string   *)
(* is not tested.                                                          *)
(***************************************************************************)
RendersItems ==
    ~LeavesType /\ ~HasTooLarge /\ ~(items # <<>> /\ Untyped(Len(items))) =>
        /\ ~Overrun
        /\ Finished => sRet = FlattenSeq([n \in 1..Len(items) |-> Meaning(n)])

(***************************************************************************)
(* format_trans returns (or leaves the string), unless a placeholder has a *)
(* character that is not a digit before its colon, or an index that is too *)
(* large for a short.                                                      *)
(***************************************************************************)
Terminates == <>(Finished \/ Overrun) \/ HasNames \/ HasTooLarge

=============================================================================
