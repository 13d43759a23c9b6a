------------------------- MODULE MCSemanticPublication -------------------------
(* SemanticPublication for TLC. *)
EXTENDS SemanticPublication

(* Every generation is created in a second of its own. *)
InOrder == [g \in Generations |-> g]
================================================================================
