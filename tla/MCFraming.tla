----------------------------- MODULE MCFraming -----------------------------
(* Framing with the protocols of the runs. *)
EXTENDS Framing

Documented == [announced |-> "total", sizes |-> {1, 3}, lockstep |-> FALSE, whole |-> FALSE]

(* The code's size field and bodies of up to 7 bytes, packets back to back *)
(* or one at a time.                                                       *)
Small == [announced |-> "body", sizes |-> {1, 4, 7}, lockstep |-> FALSE, whole |-> TRUE]
SmallLockstep == [Small EXCEPT !.sizes = 1..7, !.lockstep = TRUE]

Large == [announced |-> "body", sizes |-> {9}, lockstep |-> TRUE, whole |-> TRUE]

Good == {Documented, Small, SmallLockstep}
Bad == {Large}

(* The theorems speak of such protocols. *)
ASSUME GoodAssumption == BufSize < Word /\ \A p \in Good : GoodProtocol(p)

=============================================================================
