--------------------------- MODULE MCTokenBroker ---------------------------
(* Instances of TokenBroker for TLC. *)
EXTENDS TokenBroker

CONSTANTS r1, r2, t1, k1

TwoRequests == {r1, r2, t1}
OneTick == {t1}
OneKey == {k1}
=============================================================================
