----------------------------- MODULE ShareServer -----------------------------
(***************************************************************************)
(* share-all-server.js: the one-shot HTTP server that hands out a zip file *)
(* a limited number of times and then exits.  Requests that are refused    *)
(* for their method, path or token change nothing and are left out.        *)
(***************************************************************************)
EXTENDS Naturals, FiniteSets

CONSTANTS
    Client,        \* requests for the zip
    MaxDownloads,  \* MAX_DOWNLOADS, 0 for no cap
    Ttl            \* TTL_SECONDS > 0

ASSUME ShareServerAssumption == MaxDownloads \in Nat /\ Ttl \in BOOLEAN

VARIABLES
    up,         \* the process runs
    downloads,
    pull,       \* each request: none, streaming, complete, aborted, refused, cut
    exiting     \* the 100 ms timer that ends the process is armed

vars == <<up, downloads, pull, exiting>>

Init ==
    /\ up = TRUE /\ downloads = 0 /\ exiting = FALSE
    /\ pull = [c \in Client |-> "none"]

CapReachedLate == MaxDownloads > 0 /\ downloads > MaxDownloads  \* mutant: > for >=
CapReached == MaxDownloads > 0 /\ downloads >= MaxDownloads

-----------------------------------------------------------------------------
Pull(c) ==
    /\ up /\ pull[c] = "none" /\ ~CapReached
    /\ downloads' = downloads + 1
    /\ pull' = [pull EXCEPT ![c] = "streaming"]
    /\ UNCHANGED <<up, exiting>>

Gone(c) ==
    /\ up /\ pull[c] = "none" /\ CapReached
    /\ pull' = [pull EXCEPT ![c] = "refused"]
    /\ UNCHANGED <<up, downloads, exiting>>

ArmsExitNever == FALSE  \* mutant: nothing happens on 'close'
ArmsExit == CapReached

\* The response's 'close': it was sent whole, or the client hung up or the zip failed.
ResponseClosed(c) ==
    /\ up /\ pull[c] = "streaming"
    /\ \E how \in {"complete", "aborted"} : pull' = [pull EXCEPT ![c] = how]
    /\ exiting' = (exiting \/ ArmsExit)
    /\ UNCHANGED <<up, downloads>>

\* process.exit cuts the responses that are still being sent.
Exit ==
    /\ up' = FALSE
    /\ pull' = [c \in Client |-> IF pull[c] = "streaming" THEN "cut" ELSE pull[c]]
    /\ UNCHANGED <<downloads, exiting>>

ExitAfterCap == up /\ exiting /\ Exit
TtlElapsed == up /\ Ttl /\ Exit

Next ==
    \/ \E c \in Client : Pull(c) \/ Gone(c) \/ ResponseClosed(c)
    \/ ExitAfterCap \/ TtlElapsed

Spec == Init /\ [][Next]_vars

\* A response ends some day (Node's sockets fail, the zip process dies) and the
\* exit timer fires.  The TTL, which may be long, is not relied on.
Fairness ==
    /\ \A c \in Client : WF_vars(ResponseClosed(c))
    /\ WF_vars(ExitAfterCap)

FairSpec == Spec /\ Fairness

-----------------------------------------------------------------------------
(* Properties *)

Pulls(how) == {c \in Client : pull[c] = how}
Begun == Pulls("streaming") \cup Pulls("complete") \cup Pulls("aborted") \cup Pulls("cut")

\* However many requests overlap, at most MAX_DOWNLOADS of them ever get data.
CapHolds == MaxDownloads > 0 => Cardinality(Begun) <= MaxDownloads

\* Once the cap is reached the server ends, with no help of the TTL: the last
\* pulls to end arm the exit however they end.
ExitsAfterCap == (MaxDownloads > 0 /\ downloads >= MaxDownloads) ~> ~up

-----------------------------------------------------------------------------
(* A statement the code does not keep: see the README *)

\* Without a TTL the server stops only after MAX_DOWNLOADS pulls succeeded.
StopsAfterSuccess == ~Ttl /\ ~up => Cardinality(Pulls("complete")) >= MaxDownloads
=============================================================================
