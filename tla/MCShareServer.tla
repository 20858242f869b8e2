---------------------------- MODULE MCShareServer ----------------------------
(* Instances of ShareServer for TLC. *)
EXTENDS ShareServer

CONSTANTS c1, c2, c3, c4

FourClients == {c1, c2, c3, c4}
=============================================================================
