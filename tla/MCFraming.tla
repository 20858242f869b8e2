------------------------------ MODULE MCFraming ------------------------------
(* Instances of Framing for TLC. *)
EXTENDS Framing

\* Payload bytes may be taken for a legal length, or for one that is too long.
Bytes == {0, 1, 3}
=============================================================================
