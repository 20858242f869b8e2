----------------------------- MODULE MCShimCache -----------------------------
(* Instances of ShimCache for TLC. *)
EXTENDS ShimCache

CONSTANTS p1, p2

TwoProcesses == {p1, p2}

\* The first one cannot answer its kubectl, the second one can.
OneRefused == {p1}
=============================================================================
