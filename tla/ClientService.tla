---------------------------- MODULE ClientService ----------------------------
(***************************************************************************)
(* What tunnel/listen.js promises a public client, without sockets, tables *)
(* or handshakes: a client that comes while there is no tunnel waits or is *)
(* turned away; the step that brings a tunnel up settles every client that *)
(* was waiting, who is then served or gone; a served client stays served   *)
(* until it is gone for good, and nobody starts being served without one.  *)
(***************************************************************************)
CONSTANT Conn

VARIABLES
    up,      \* a tunnel is established
    client   \* new, waiting, served or gone

vars == <<up, client>>

Init == up = FALSE /\ client = [c \in Conn |-> "new"]

\* A client is let in, made to wait, or turned away.
Arrive(c) ==
    /\ client[c] = "new"
    /\ \E s \in {"gone", IF up THEN "served" ELSE "waiting"} : client' = [client EXCEPT ![c] = s]
    /\ UNCHANGED up

\* Some clients are dropped, or leave.
Leave(S) ==
    /\ client' = [c \in Conn |-> IF c \in S /\ client[c] # "new" THEN "gone" ELSE client[c]]
    /\ UNCHANGED up

\* The tunnel comes up: those who wait are settled, and a connection that had
\* not said what it is may turn out to be a client.
Establish ==
    /\ ~up /\ up' = TRUE
    /\ \E S \in SUBSET Conn :
        /\ \A c \in S : client[c] \in {"new", "waiting"}
        /\ \A c \in Conn : client[c] = "waiting" => c \in S
        /\ \E f \in [S -> {"served", "gone"}] :
             client' = [c \in Conn |-> IF c \in S THEN f[c] ELSE client[c]]

Drop == up /\ up' = FALSE /\ UNCHANGED client

Next ==
    \/ \E c \in Conn : Arrive(c)
    \/ \E S \in SUBSET Conn : Leave(S)
    \/ Establish
    \/ Drop

Spec == Init /\ [][Next]_vars
=============================================================================
