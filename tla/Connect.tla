------------------------------- MODULE Connect -------------------------------
(***************************************************************************)
(* tunnel/connect.js: the dialing side (B) of the reverse tunnel, from the *)
(* dial of its control connection to the next one: handshake, first reply, *)
(* liveness watchdog, 'close', backoff.                                    *)
(*                                                                         *)
(* What the connection meets at A is the slot of module Listen, reduced to *)
(* who holds it: nobody, this connection, an earlier one that A has not    *)
(* found dead yet, or another connector.  The network may stop delivering  *)
(* without telling either side.  Delays are kept in units of the backoff   *)
(* step; no clock is modelled, so a watchdog fires when nothing will come, *)
(* or too early, a bounded number of times.                                *)
(***************************************************************************)
EXTENDS Naturals

CONSTANTS
    Step,        \* RECONNECT_STEP_MS
    MaxDelay,    \* RECONNECT_MAX_MS
    SinglePort,  \* A runs one listener for control and public connections
    MaxCuts,     \* bound: connections that go silent
    MaxOthers,   \* bound: times another connector gets the slot
    MaxEarly     \* bound: watchdogs that fire on a healthy tunnel

ASSUME ConnectAssumption ==
    /\ Step \in Nat \ {0} /\ MaxDelay \in Nat \ {0}
    /\ SinglePort \in BOOLEAN
    /\ MaxCuts \in Nat /\ MaxOthers \in Nat /\ MaxEarly \in Nat

VARIABLES
    control,         \* the socket: waiting to redial, dialing, open, destroyed
    reconnectDelay,
    established,     \* this connection received something
    intervals,       \* setInterval timers that run: pingTimer and liveTimer of each connection
    own,             \* those of them this connection's variables still name
    route,           \* what A made of the connection: none, candidate, tunnel, public, dropped
    slot,            \* who holds A's tunnel: free, us, stale, other
    cut,             \* the connection went silent
    cuts, others, early  \* counters of the bounds

budget == <<cuts, others, early>>
timers == <<intervals, own>>
peer == <<route, slot, cut>>
vars == <<control, reconnectDelay, established, timers, peer, budget>>

Init ==
    /\ control = "dialing" /\ reconnectDelay = 0 /\ established = FALSE
    /\ intervals = 0 /\ own = 0
    /\ route = "none" /\ slot = "free" /\ cut = FALSE
    /\ cuts = 0 /\ others = 0 /\ early = 0

-----------------------------------------------------------------------------
(* The control connection *)

\* The redial timer fires: everything per connection starts anew.
connectToServer ==
    /\ control = "waiting"
    /\ control' = "dialing"
    /\ established' = FALSE
    /\ own' = 0
    /\ route' = "none" /\ cut' = FALSE
    /\ UNCHANGED <<reconnectDelay, intervals, slot, budget>>

DialFails ==
    /\ control = "dialing"
    /\ control' = "destroyed"
    /\ UNCHANGED <<reconnectDelay, established, timers, peer, budget>>

\* 'connect': magic, AUTH and a PING are written and both timers are armed.  In
\* single-port mode A takes the connection for a public client if it has a tunnel.
Connected ==
    /\ control = "dialing"
    /\ control' = "open"
    /\ intervals' = intervals + 2 /\ own' = 2
    /\ route' = IF SinglePort /\ slot # "free" THEN "public" ELSE "candidate"
    /\ UNCHANGED <<reconnectDelay, established, slot, cut, budget>>

\* 'data', the first time: a PONG from A, or, when A forwarded this connection
\* to another connector's provider, bytes of the provider, which are no frames
\* and may be a framing error.
FirstData ==
    /\ control = "open" /\ ~cut /\ ~established
    /\ established' = TRUE
    /\ reconnectDelay' = 0
    /\ \/ route = "tunnel" /\ UNCHANGED control
       \/ route = "public" /\ slot = "other" /\ control' \in {"open", "destroyed"}
    /\ UNCHANGED <<timers, peer, budget>>

\* 'data' later on changes nothing but the clock of the watchdog.
MoreData ==
    /\ control = "open" /\ ~cut /\ established /\ route = "tunnel"
    /\ UNCHANGED vars

\* A reply is due: the PONGs, or the end of a connection that A refused.
Answered == route # "public" /\ ~cut

LivenessDestroys ==
    /\ control = "open"
    /\ control' = "destroyed"
    /\ intervals' = intervals - 1 /\ own' = own - 1
    /\ UNCHANGED <<reconnectDelay, established, peer>>

LivenessNever == FALSE  \* mutant: no watchdog on received data
LivenessTimeout == ~Answered /\ LivenessDestroys /\ UNCHANGED budget
LivenessTooEarly ==
    /\ Answered /\ early < MaxEarly
    /\ early' = early + 1
    /\ LivenessDestroys
    /\ UNCHANGED <<cuts, others>>

\* A destroyed its end, or the connection broke.
PeerClosed ==
    /\ control = "open" /\ route = "dropped" /\ ~cut
    /\ control' = "destroyed"
    /\ UNCHANGED <<reconnectDelay, established, timers, peer, budget>>

NextDelay(d) ==
    IF d = 0 THEN Step ELSE IF 2 * d < MaxDelay THEN 2 * d ELSE MaxDelay

\* mutant: the intervals are not cleared on 'close'
StillOwnedNone == 0
StillOwned == own

\* 'close': the timers are cleared and the redial is scheduled.  A learns of it later.
Closed ==
    /\ control = "destroyed"
    /\ control' = "waiting"
    /\ intervals' = intervals - StillOwned /\ own' = 0
    /\ reconnectDelay' = NextDelay(reconnectDelay)
    /\ slot' = IF slot = "us" THEN "stale" ELSE slot
    /\ route' = "dropped"
    /\ UNCHANGED <<established, cut, budget>>

-----------------------------------------------------------------------------
(* A, as module Listen has it, and the network *)

\* The AUTH frame is accepted if the slot is free.
Authenticated ==
    /\ control = "open" /\ ~cut /\ route = "candidate"
    /\ IF slot = "free"
       THEN slot' = "us" /\ route' = "tunnel"
       ELSE route' = "dropped" /\ UNCHANGED slot
    /\ UNCHANGED <<control, reconnectDelay, established, timers, cut, budget>>

\* A's tunnel is gone or found dead: teardown also drops the public clients.
ListenDrops ==
    /\ slot \in {"stale", "other"} \/ (slot = "us" /\ cut)
    /\ slot' = "free"
    /\ route' = IF route = "public" \/ slot = "us" THEN "dropped" ELSE route
    /\ UNCHANGED <<control, reconnectDelay, established, timers, cut, budget>>

\* A's watchdog fires on a healthy tunnel, or A restarts.
ListenDropsUs ==
    /\ slot = "us" /\ early < MaxEarly
    /\ early' = early + 1
    /\ slot' = "free" /\ route' = "dropped"
    /\ UNCHANGED <<control, reconnectDelay, established, timers, cut, cuts, others>>

OtherConnects ==
    /\ slot = "free" /\ others < MaxOthers
    /\ others' = others + 1
    /\ slot' = "other"
    /\ UNCHANGED <<control, reconnectDelay, established, timers, route, cut, cuts, early>>

GoesSilent ==
    /\ control = "open" /\ ~cut /\ cuts < MaxCuts
    /\ cuts' = cuts + 1
    /\ cut' = TRUE
    /\ UNCHANGED <<control, reconnectDelay, established, timers, route, slot, others, early>>

Next ==
    \/ connectToServer \/ DialFails \/ Connected \/ FirstData \/ MoreData
    \/ LivenessTimeout \/ LivenessTooEarly \/ PeerClosed \/ Closed
    \/ Authenticated \/ ListenDrops \/ ListenDropsUs \/ OtherConnects \/ GoesSilent

Spec == Init /\ [][Next]_vars

\* Timers fire, events are delivered, A's watchdog drops what is dead, other
\* connectors leave, and a host that is dialed for ever answers some day.
Fairness ==
    /\ WF_vars(connectToServer) /\ SF_vars(Connected)
    /\ WF_vars(FirstData) /\ WF_vars(Authenticated)
    /\ WF_vars(LivenessTimeout) /\ WF_vars(PeerClosed) /\ WF_vars(Closed)
    /\ WF_vars(ListenDrops)

FairSpec == Spec /\ Fairness

-----------------------------------------------------------------------------
(* Properties *)

\* Every variable keeps its type.
TypeOK ==
    /\ control \in {"waiting", "dialing", "open", "destroyed"}
    /\ reconnectDelay \in Nat
    /\ established \in BOOLEAN
    /\ intervals \in Nat /\ own \in 0 .. 2
    /\ route \in {"none", "candidate", "tunnel", "public", "dropped"}
    /\ slot \in {"free", "us", "stale", "other"}
    /\ cut \in BOOLEAN
    /\ cuts \in 0 .. MaxCuts /\ others \in 0 .. MaxOthers /\ early \in 0 .. MaxEarly

\* Reconnecting leaks no interval: those that run are the current connection's.
NoTimerLeak == intervals = own /\ (control \in {"waiting", "dialing"} => intervals = 0)

\* The backoff never exceeds its cap.
DelayCapped == reconnectDelay <= MaxDelay

\* Once the disturbances are over, B gets and keeps getting the tunnel, however
\* the connections before ended: refused, rejected, silent or taken for a client.
Recovers == []<>(slot = "us" /\ established /\ control = "open")

-----------------------------------------------------------------------------
(* A statement the code does not keep: see the README *)

\* What resets the backoff is a reply of the tunnel.
EstablishedIsTunnel == [][~established /\ established' => route = "tunnel"]_vars
=============================================================================
