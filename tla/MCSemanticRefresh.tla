--------------------------- MODULE MCSemanticRefresh ---------------------------
(* SemanticRefresh for TLC. *)
EXTENDS SemanticRefresh

\* For the runs without liveness in which every parent is in the backlog.
Interchangeable == Permutations(Parents) \cup Permutations(Profiles)
================================================================================
