----------------------------- MODULE MCLocalGate -----------------------------
(* Small instances of LocalGate for TLC.                                    *)
EXTENDS LocalGate, TLC

Interchangeable == Permutations(Goroutines) \cup Permutations(Entries)
=============================================================================
