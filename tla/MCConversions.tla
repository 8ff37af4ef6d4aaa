--------------------------- MODULE MCConversions ---------------------------
(* The library's conversions on bounded inputs, each against a reference:  *)
(* the format strings of FormatString, and the header fields of            *)
(* WireFormat, one number in each state.                                   *)
EXTENDS FormatString, WireFormat

VARIABLE number         \* a number written and read back

(* The largest index a short holds, and ones that wrap: to a negative      *)
(* number, to -1, which stands for no index, and to 0.                     *)
LargeIndexes == [kind : {"arg"}, index : {<<"3", "2", "7", "6", "7">>, <<"3", "2", "7", "6", "8">>,
                                          <<"6", "5", "5", "3", "6">>}]
                \cup [kind : {"bool"}, index : {<<"6", "5", "5", "3", "5">>}]
PlaceHolders == [kind : {"arg", "bool"}, index : {<<>>, <<"0">>, <<"1">>, <<"1", "0">>}]
OtherItems == [kind : {"text", "braces", "other", "name"}, index : {<<>>}]
AllItems == PlaceHolders \cup LargeIndexes \cup OtherItems

TwoArguments == {<<"yes">>, <<"no", "yes">>}

MCInit == /\ Init
          /\ number \in 0..(Word - 1)
          /\ number # 0 => items = <<>> /\ args = <<"yes">>
MCNext == Next /\ UNCHANGED number
MCSpec == MCInit /\ [][MCNext]_<<vars, number>> /\ WF_vars(format_trans /\ UNCHANGED number)

(***************************************************************************)
(* convertReceiveMsg reads back every size and MSGID convertSendMsg wrote. *)
(* Receive must do so too; it does when the bytes all have a clear top     *)
(* bit, and for the other sizes its plain chars (TCPServer.cpp:394, 399)   *)
(* make it fail, which is excepted here.                                   *)
(***************************************************************************)
HeaderReadBack ==
    /\ ReadField(Field(number)) = number
    /\ (\A i \in 1..4 : Field(number)[i] < Half) => ReadSize(Field(number)) = number

=============================================================================
