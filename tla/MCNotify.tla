------------------------------- MODULE MCNotify -------------------------------
(***************************************************************************)
(* Notify for TLC: failure types and providers are interchangeable.         *)
(***************************************************************************)
EXTENDS Notify, TLC

Symmetry == Permutations(Failures) \cup Permutations(Providers)
=============================================================================
