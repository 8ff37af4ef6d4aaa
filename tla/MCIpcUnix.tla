----------------------------- MODULE MCIpcUnix -----------------------------
(* IpcUnix with two calling threads, in one process or in two. *)
EXTENDS IpcUnix, TLC

CONSTANTS a, b, pa, pb, va, vb

AnyPlacement == [{a, b} -> {pa, pb}]
TwoProcesses == {(a :> pa) @@ (b :> pb)}

Symmetric == Permutations({a, b}) \cup Permutations({pa, pb}) \cup Permutations({va, vb})

=============================================================================
