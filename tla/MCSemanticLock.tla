--------------------------- MODULE MCSemanticLock ----------------------------
(* Small instances of SemanticLock for TLC.                                 *)
EXTENDS SemanticLock, TLC

CONSTANTS m1, m2, w1, w2, w3

MCMaintainersOf == (w1 :> m1) @@ (w2 :> m1) @@ (w3 :> m2)
=============================================================================
