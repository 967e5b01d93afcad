----------------------------- MODULE MCCachify -----------------------------
(* Instances of Cachify for TLC. *)
EXTENDS Cachify, TLC

Symmetry == Permutations(Callers) \cup Permutations(Keys)
=============================================================================
