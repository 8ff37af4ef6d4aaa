---------------------------- MODULE MCEventQueue ----------------------------
(* EventQueue with two threads of each kind. *)
EXTENDS EventQueue

CONSTANTS c1, c2, p1, p2, s1, s2, x1, x2

=============================================================================
