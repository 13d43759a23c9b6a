-------------------------- MODULE MCSemanticRuntime --------------------------
(* A small instance of SemanticRuntime for TLC: two keys of one scope.      *)
EXTENDS SemanticRuntime, TLC

CONSTANTS k1, k2, s1

MCScopeOf == [k \in {k1, k2} |-> s1]
=============================================================================
