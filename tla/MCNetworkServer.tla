-------------------------- MODULE MCNetworkServer --------------------------
(* NetworkServer with two clients. *)
EXTENDS NetworkServer

CONSTANTS a, b

=============================================================================
