-------------------------- MODULE MCNetworkRequest --------------------------
(* NetworkRequest with two callers. *)
EXTENDS NetworkRequest

CONSTANTS a, b

=============================================================================
