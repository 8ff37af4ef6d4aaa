-------------------------- MODULE MCModuleManager --------------------------
(* ModuleManager with two names. *)
EXTENDS ModuleManager

CONSTANTS t1, t2, o1, o2

TwoNames == 1..2

=============================================================================
