------------------------------ MODULE MCListen ------------------------------
(* Instances of Listen for TLC. *)
EXTENDS Listen, TLC

CONSTANTS c1, c2, c3, c4

ThreeConns == {c1, c2, c3}
FourConns == {c1, c2, c3, c4}

\* Connections are interchangeable: no definition names one of them.
Symmetry3 == Permutations(ThreeConns)
Symmetry4 == Permutations(FourConns)
=============================================================================
