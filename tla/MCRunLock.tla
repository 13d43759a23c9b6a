------------------------------ MODULE MCRunLock ------------------------------
(* A small instance of RunLock for TLC: two processes with two clients each. *)
EXTENDS RunLock, TLC

CONSTANTS a, b, c, d, p, q

MCProcOf == (a :> p) @@ (b :> p) @@ (c :> q) @@ (d :> q)
=============================================================================
