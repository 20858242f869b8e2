---------------------------- MODULE MCTokenCache ----------------------------
(* Instances of TokenCache for TLC. *)
EXTENDS TokenCache, TLC

CONSTANTS r1, r2, k1, k2, k3

Callers == {r1, r2}
ThreeKeys == {k1, k2, k3}

\* Neither callers nor keys are told apart by any definition.
Symmetry == Permutations(Callers) \cup Permutations(ThreeKeys)
=============================================================================
