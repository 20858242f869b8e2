---------------------------- MODULE MCStreamPair ----------------------------
(* Instances of StreamPair for TLC. *)
EXTENDS StreamPair
=============================================================================
