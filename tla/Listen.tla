------------------------------- MODULE Listen -------------------------------
(***************************************************************************)
(* tunnel/listen.js: the exposed side (A) of the reverse tunnel.           *)
(*                                                                         *)
(* A accepts TCP connections and keeps, in module-level variables, the one *)
(* authenticated control socket (tunnel), the candidates that have not     *)
(* authenticated yet (pending), the clients held until a tunnel exists     *)
(* (parked), the served clients (streams) and the sockets it read-paused   *)
(* because the tunnel's write buffer was full (pausedForTunnel).           *)
(*                                                                         *)
(* One action is one event handler, run to completion as Node runs it.     *)
(* destroy() only marks a socket: its 'close' handler runs in a later      *)
(* event, and handlers of other sockets may run in between.  Payloads,     *)
(* clocks and logs are abstracted: a timer may fire whenever it is armed.  *)
(***************************************************************************)
EXTENDS Naturals, FiniteSets

CONSTANTS
    Conn,        \* connections; each one is accepted at most once
    NoConn,      \* the null of the code
    MaxStreams,  \* MAX_STREAMS: caps streams, and parked as well
    MaxPending,  \* MAX_PENDING
    MaxId,       \* the largest stream id (0xffffffff), where the counter wraps
    SinglePort,  \* control and public share one listener
    ParkMode     \* TUNNEL_NOT_READY = 'park' (otherwise 'reject')

ASSUME ListenAssumption ==
    /\ NoConn \notin Conn
    /\ MaxStreams \in Nat \ {0}
    /\ MaxPending \in Nat \ {0}
    /\ MaxId \in Nat
    /\ MaxStreams <= MaxId
    /\ SinglePort \in BOOLEAN
    /\ ParkMode \in BOOLEAN

Ids == 1 .. MaxId
Reasons == {"R_TUNNEL", "R_PEER"}

VARIABLES
    tunnel,           \* the current control socket, NoConn for null
    streams,          \* stream id -> client socket, NoConn when the id is free
    pausedForTunnel,  \* sockets paused because the tunnel was full
    pending,          \* candidates not authenticated
    parked,           \* clients waiting for a tunnel
    nextStreamId,
    full,             \* the tunnel owes a 'drain' event
    mode,             \* which handlers are attached to the socket
    st,               \* absent, open, destroyed ('close' still to come), closed
    hs,               \* handshake bytes read: none, part, magic, or junk (not magic)
    sid,              \* the stream id captured by the socket's handlers
    born,             \* history: the control socket that carried the stream's OPEN
    pf,               \* socket._pf: the reasons it is read-paused for
    flowing,          \* sockets in flowing mode: they emit 'data' and 'end'
    shut              \* halves that have ended: "in" ('end' seen), "out" (end() called)

slot == <<tunnel, full>>
table == <<streams, nextStreamId, sid, born>>
waiting == <<pending, parked>>
flow == <<pausedForTunnel, pf, flowing>>
vars == <<slot, table, waiting, flow, mode, st, hs, shut>>

Init ==
    /\ tunnel = NoConn
    /\ streams = [i \in Ids |-> NoConn]
    /\ pausedForTunnel = {}
    /\ pending = {}
    /\ parked = {}
    /\ nextStreamId = 1
    /\ full = FALSE
    /\ mode = [c \in Conn |-> "none"]
    /\ st = [c \in Conn |-> "absent"]
    /\ hs = [c \in Conn |-> "none"]
    /\ sid = [c \in Conn |-> 0]
    /\ born = [c \in Conn |-> NoConn]
    /\ pf = [c \in Conn |-> {}]
    /\ flowing = {}
    /\ shut = [c \in Conn |-> {}]

\* tunnel && !tunnel.destroyed
LiveTunnel == tunnel # NoConn /\ st[tunnel] = "open"

InUse == {i \in Ids : streams[i] # NoConn}
Free == Ids \ InUse
Served == {streams[i] : i \in InUse}

HasRoom == Cardinality(InUse) < MaxStreams

-----------------------------------------------------------------------------
(* Sockets and the table of streams *)

\* The write to the tunnel may leave its buffer above the high-water mark.
Sent == full' \in IF LiveTunnel THEN {full, TRUE} ELSE {full}

\* destroy() of every open socket of S: 'close' comes in a later event.
DestroyAll(S) ==
    st' = [c \in Conn |-> IF c \in S /\ st[c] = "open" THEN "destroyed" ELSE st[c]]

Destroy(c) ==
    /\ DestroyAll({c})
    /\ UNCHANGED <<slot, table, waiting, flow, mode, hs, shut>>

\* Steps of the wrapping counter from nextStreamId to id.
Ahead(id) == (id + MaxId - nextStreamId) % MaxId

\* mutant: ids in use are not skipped
AllocationsUnskipped(S) ==
    {f \in [S -> Ids] :
        /\ \A c, d \in S : c # d => f[c] # f[d]
        /\ \A c \in S : \A j \in Ids : Ahead(j) < Ahead(f[c]) => \E d \in S : f[d] = j}

\* The first Cardinality(S) ids the counter meets that are not in use, handed
\* out to the sockets of S in some order.
Allocations(S) ==
    {f \in [S -> Free] :
        /\ \A c, d \in S : c # d => f[c] # f[d]
        /\ \A c \in S : \A j \in Free : Ahead(j) < Ahead(f[c]) => \E d \in S : f[d] = j}

After(id) == 1 + (id % MaxId)

\* Every socket of S becomes a stream and an OPEN is sent for it.
OpenStreams(S) ==
    \E f \in Allocations(S) :
        /\ streams' = [i \in Ids |-> IF \E c \in S : f[c] = i
                                     THEN CHOOSE c \in S : f[c] = i ELSE streams[i]]
        /\ sid' = [c \in Conn |-> IF c \in S THEN f[c] ELSE sid[c]]
        /\ \/ S = {} /\ UNCHANGED nextStreamId
           \/ \E last \in S : /\ \A d \in S : Ahead(f[d]) <= Ahead(f[last])
                              /\ nextStreamId' = After(f[last])

StreamKept(id) == UNCHANGED streams  \* mutant: the entry is not deleted
StreamDeleted(id) == streams' = [streams EXCEPT ![id] = NoConn]

\* mutant: the paused sockets are not remembered
ThrottleUnlisted(T) ==
    /\ pf' = [c \in Conn |-> IF c \in T THEN pf[c] \cup {"R_TUNNEL"} ELSE pf[c]]
    /\ UNCHANGED pausedForTunnel

\* Sockets of T got false from sendToTunnel on their last chunk: pauseRead(socket, R_TUNNEL).
Throttle(T) ==
    /\ pf' = [c \in Conn |-> IF c \in T THEN pf[c] \cup {"R_TUNNEL"} ELSE pf[c]]
    /\ pausedForTunnel' = pausedForTunnel \cup T

PausedNow(T) == {c \in T : pf[c] = {}}

-----------------------------------------------------------------------------
(* Public clients *)

\* A socket dropped before any handler that outlives it was attached.
Refuse(c) ==
    /\ mode' = [mode EXCEPT ![c] = "refused"]
    /\ st' = [st EXCEPT ![c] = "closed"]
    /\ flowing' = flowing \ {c}
    /\ UNCHANGED <<slot, table, parked, pausedForTunnel, pf, shut>>

parkPublic(c) ==
    IF Cardinality(parked) >= MaxStreams
    THEN Refuse(c)
    ELSE /\ mode' = [mode EXCEPT ![c] = "parked"]
         /\ st' = [st EXCEPT ![c] = "open"]
         /\ parked' = parked \cup {c}
         /\ flowing' = flowing \ {c}
         /\ UNCHANGED <<slot, table, pausedForTunnel, pf, shut>>

\* initial: bytes were already read off the socket and are forwarded at once.
Serve(c, initial) ==
    /\ OpenStreams({c})
    /\ born' = [born EXCEPT ![c] = tunnel]
    /\ mode' = [mode EXCEPT ![c] = "public"]
    /\ st' = [st EXCEPT ![c] = "open"]
    /\ \/ /\ Sent
          /\ flowing' = flowing \cup {c}
          /\ UNCHANGED <<pf, pausedForTunnel>>
       \/ /\ initial
          /\ full' = TRUE
          /\ Throttle({c})
          /\ flowing' = flowing \ {c}
    /\ UNCHANGED <<tunnel, parked, shut>>

handlePublicConnection(c, initial) ==
    \/ ~LiveTunnel /\ ParkMode /\ parkPublic(c)
    \/ ~LiveTunnel /\ ~ParkMode /\ Refuse(c)
    \/ LiveTunnel /\ ~HasRoom /\ Refuse(c)
    \/ LiveTunnel /\ HasRoom /\ Serve(c, initial)

\* forward: a chunk met a tunnel that is full, destroyed or missing.
DataThrottled(c) ==
    /\ mode[c] = "public" /\ st[c] = "open" /\ c \in flowing /\ "in" \notin shut[c]
    /\ Throttle({c})
    /\ flowing' = flowing \ PausedNow({c})
    /\ full' = (full \/ LiveTunnel)
    /\ UNCHANGED <<tunnel, table, waiting, mode, st, hs, shut>>

\* 'end': the client's FIN, which a paused socket never reports.
ClientEnd(c) ==
    /\ mode[c] = "public" /\ st[c] = "open" /\ c \in flowing /\ "in" \notin shut[c]
    /\ shut' = [shut EXCEPT ![c] = @ \cup {"in"}]
    /\ Sent
    /\ UNCHANGED <<tunnel, table, waiting, flow, mode, st, hs>>

\* Node destroys a socket whose two halves have ended.
AutoDestroy(c) ==
    /\ mode[c] = "public" /\ st[c] = "open" /\ shut[c] = {"in", "out"}
    /\ Destroy(c)

ClientClose(c) ==
    /\ mode[c] = "public" /\ st[c] = "destroyed"
    /\ st' = [st EXCEPT ![c] = "closed"]
    /\ pausedForTunnel' = pausedForTunnel \ {c}
    /\ flowing' = flowing \ {c}
    /\ \/ streams[sid[c]] # NoConn /\ Sent  \* streams.delete(streamId): by id, whoever holds it
       \/ streams[sid[c]] = NoConn /\ UNCHANGED full
    /\ StreamDeleted(sid[c])
    /\ UNCHANGED <<tunnel, nextStreamId, sid, born, waiting, pf, mode, hs, shut>>

ParkTimeout(c) == c \in parked /\ st[c] = "open" /\ Destroy(c)

ParkedClose(c) ==
    /\ mode[c] = "parked" /\ st[c] = "destroyed"
    /\ st' = [st EXCEPT ![c] = "closed"]
    /\ parked' = parked \ {c}
    /\ UNCHANGED <<slot, table, pending, flow, mode, hs, shut>>

-----------------------------------------------------------------------------
(* Frames from B that change a stream.  B knows the streams whose OPEN it got. *)

Receives(c) == LiveTunnel /\ c \in Served /\ born[c] = tunnel

FramePause(c) ==
    /\ Receives(c)
    /\ pf' = [pf EXCEPT ![c] = @ \cup {"R_PEER"}]
    /\ flowing' = flowing \ PausedNow({c})
    /\ UNCHANGED <<slot, table, waiting, pausedForTunnel, mode, st, hs, shut>>

\* mutant: one reason to resume overrides the others
ResumeAnyway(S, r) ==
    /\ pf' = [c \in Conn |-> IF c \in S THEN pf[c] \ {r} ELSE pf[c]]
    /\ flowing' = flowing \cup S

\* resumeRead(s, r) for every s of S.
Resume(S, r) ==
    /\ pf' = [c \in Conn |-> IF c \in S THEN pf[c] \ {r} ELSE pf[c]]
    /\ flowing' = flowing \cup {c \in S : pf[c] = {r}}

FrameResume(c) ==
    /\ Receives(c)
    /\ Resume({c}, "R_PEER")
    /\ UNCHANGED <<slot, table, waiting, pausedForTunnel, mode, st, hs, shut>>

FrameShutdown(c) ==
    /\ Receives(c) /\ st[c] = "open"
    /\ shut' = [shut EXCEPT ![c] = @ \cup {"out"}]
    /\ UNCHANGED <<slot, table, waiting, flow, mode, st, hs>>

FrameClose(c) ==
    /\ Receives(c)
    /\ StreamDeleted(sid[c])
    /\ IF pf[c] # {}
       THEN DestroyAll({c}) /\ UNCHANGED shut
       ELSE /\ shut' = [shut EXCEPT ![c] = IF st[c] = "open" THEN @ \cup {"out"} ELSE @]
            /\ UNCHANGED st
    /\ UNCHANGED <<slot, nextStreamId, sid, born, waiting, flow, mode, hs>>

-----------------------------------------------------------------------------
(* Control sockets *)

attachControl(c) ==
    IF tunnel = NoConn /\ Cardinality(pending) >= MaxPending
    THEN Refuse(c) /\ UNCHANGED pending
    ELSE /\ mode' = [mode EXCEPT ![c] = "candidate"]
         /\ st' = [st EXCEPT ![c] = "open"]
         /\ pending' = pending \cup {c}
         /\ flowing' = flowing \cup {c}
         /\ UNCHANGED <<slot, table, parked, pausedForTunnel, pf, shut>>

Candidate(c) == mode[c] = "candidate" /\ st[c] = "open"

\* Part or all of CONTROL_MAGIC has been read.
FeedMagic(c) ==
    /\ Candidate(c) /\ hs[c] \in {"none", "part"}
    /\ \E h \in {"part", "magic"} : hs' = [hs EXCEPT ![c] = h]
    /\ UNCHANGED <<slot, table, waiting, flow, mode, st, shut>>

\* The bytes read are not CONTROL_MAGIC: not a connector.
FeedNotMagic(c) ==
    /\ Candidate(c) /\ hs[c] \in {"none", "part"}
    /\ hs' = [hs EXCEPT ![c] = "junk"]
    /\ IF SinglePort /\ ParkMode
       THEN pending' = pending \ {c} /\ handlePublicConnection(c, TRUE)
       ELSE DestroyAll({c}) /\ UNCHANGED <<slot, table, waiting, flow, mode, shut>>

\* Too many bytes before AUTH, a first frame other than AUTH, a wrong token.
FeedRefused(c) ==
    /\ Candidate(c)
    /\ hs' = [hs EXCEPT ![c] = IF @ = "none" THEN "part" ELSE @]
    /\ DestroyAll({c})
    /\ UNCHANGED <<slot, table, waiting, flow, mode, shut>>

\* A valid AUTH while a tunnel is active.
AuthRejected(c) == Candidate(c) /\ hs[c] = "magic" /\ LiveTunnel /\ Destroy(c)

MayAdoptAlways(c) == Candidate(c) /\ hs[c] = "magic"  \* mutant: a second tunnel is adopted
MayAdopt(c) == Candidate(c) /\ hs[c] = "magic" /\ ~LiveTunnel

DrainedForgotten == {}  \* mutant: parked is cleared, nobody is served

\* Candidates that sent nothing are taken for public clients.
Silent == {c \in pending : SinglePort /\ ParkMode /\ hs[c] = "none" /\ st[c] = "open"}
Drained == {c \in parked : st[c] = "open"}
MinOf(a, b) == IF a < b THEN a ELSE b

AdmittedUnbounded == {Silent \cup Drained}  \* mutant: MAX_STREAMS is not checked

\* Those of the waiting sockets that MAX_STREAMS lets become streams: the
\* candidates come first.
Admitted ==
    {A \in SUBSET (Silent \cup Drained) :
        /\ Cardinality(A) = MinOf(Cardinality(Silent \cup Drained), MaxStreams - Cardinality(InUse))
        /\ Silent \subseteq A \/ A \subseteq Silent}

\* A valid AUTH with no active tunnel: the socket becomes the tunnel, silent
\* candidates are reclassified, then drainParked serves the parked clients.
\* The clients of T sent bytes before parking, met a full tunnel and paused
\* themselves; drainParked resumes every parked socket regardless.
AuthAccepted(t) ==
    /\ MayAdopt(t)
    /\ tunnel' = t
    /\ \E A \in Admitted : \E T \in SUBSET {c \in A \cap Drained : hs[c] = "junk"} :
        LET refused == (Silent \cup Drained) \ A IN
        /\ OpenStreams(A)
        /\ born' = [c \in Conn |-> IF c \in A THEN t ELSE born[c]]
        /\ mode' = [c \in Conn |-> CASE c = t       -> "control"
                                     [] c \in A       -> "public"
                                     [] c \in refused -> "refused"
                                     [] OTHER         -> mode[c]]
        /\ st' = [c \in Conn |-> IF c \in refused THEN "closed" ELSE st[c]]
        /\ Throttle(T)
        /\ flowing' = (flowing \cup A) \ refused
        /\ full' \in IF A = {} THEN {FALSE} ELSE IF T = {} THEN BOOLEAN ELSE {TRUE}
    /\ pending' = pending \ ({t} \cup Silent)
    /\ parked' = {}
    /\ UNCHANGED <<hs, shut>>

\* The tunnel's buffer emptied: every source throttled by R_TUNNEL resumes.
TunnelDrain ==
    /\ LiveTunnel /\ full
    /\ full' = FALSE
    /\ Resume(pausedForTunnel, "R_TUNNEL")
    /\ pausedForTunnel' = {}
    /\ UNCHANGED <<tunnel, table, waiting, mode, st, hs, shut>>

\* PONG, PAUSE or RESUME: the answer to a PING, to a client that cannot keep
\* up, to its 'drain'.  The write may fill the tunnel's buffer.
TunnelReply ==
    /\ LiveTunnel
    /\ full' = TRUE
    /\ UNCHANGED <<tunnel, table, waiting, flow, mode, st, hs, shut>>

\* mutant: the first byte clears the timer
AuthTimeoutCleared(c) == Candidate(c) /\ hs[c] = "none" /\ Destroy(c)
AuthTimeout(c) == Candidate(c) /\ Destroy(c)

\* The peer's FIN, on a candidate or on the tunnel.
ControlEnd(c) == mode[c] \in {"candidate", "control"} /\ st[c] = "open" /\ Destroy(c)

\* The liveness watchdog, or a framing error.
TunnelDropped == LiveTunnel /\ Destroy(tunnel)

TornDownByAny(c) == tunnel # NoConn  \* mutant: a candidate's 'close' loses the tunnel
TornDown(c) == tunnel = c

StrandedForgotten == {}  \* mutant: the clients are not destroyed
Stranded == {d \in Served : st[d] = "open"}

StreamsCleared == streams' = [i \in Ids |-> NoConn]

\* The 'close' handler of a control socket: teardown.
ControlClose(c) ==
    /\ mode[c] \in {"candidate", "control"} /\ st[c] = "destroyed"
    /\ pending' = pending \ {c}
    /\ IF TornDown(c)
       THEN /\ tunnel' = NoConn
            /\ full' = FALSE
            /\ st' = [d \in Conn |-> CASE d = c -> "closed"
                                       [] d # c /\ d \in Stranded -> "destroyed"
                                       [] OTHER -> st[d]]
            /\ StreamsCleared
            /\ pausedForTunnel' = {}
       ELSE /\ st' = [st EXCEPT ![c] = "closed"]
            /\ UNCHANGED <<slot, streams, pausedForTunnel>>
    /\ UNCHANGED <<nextStreamId, sid, born, parked, pf, flowing, mode, hs, shut>>

-----------------------------------------------------------------------------
(* New connections *)

Public(c) == handlePublicConnection(c, FALSE) /\ UNCHANGED pending

\* One listener: a connection is classified by the tunnel's state.
dispatch(c) ==
    /\ SinglePort /\ mode[c] = "none"
    /\ IF LiveTunnel THEN Public(c) ELSE attachControl(c)
    /\ UNCHANGED hs

ControlConnection(c) == ~SinglePort /\ mode[c] = "none" /\ attachControl(c) /\ UNCHANGED hs
PublicConnection(c) == ~SinglePort /\ mode[c] = "none" /\ Public(c) /\ UNCHANGED hs

\* The peer resets the connection.
Reset(c) == st[c] = "open" /\ Destroy(c)

Client(c) ==
    \/ dispatch(c) \/ ControlConnection(c) \/ PublicConnection(c) \/ Reset(c)
    \/ DataThrottled(c) \/ ClientEnd(c)
Frame(c) == FramePause(c) \/ FrameResume(c) \/ FrameShutdown(c) \/ FrameClose(c)
Feed(c) == FeedMagic(c) \/ FeedNotMagic(c) \/ FeedRefused(c) \/ AuthRejected(c) \/ AuthAccepted(c)
Timeout(c) == ParkTimeout(c) \/ AuthTimeout(c)
Close(c) == AutoDestroy(c) \/ ClientClose(c) \/ ParkedClose(c) \/ ControlClose(c)

Next ==
    \/ \E c \in Conn : Client(c) \/ Frame(c) \/ Feed(c) \/ ControlEnd(c) \/ Timeout(c) \/ Close(c)
    \/ TunnelDrain
    \/ TunnelReply
    \/ TunnelDropped

Spec == Init /\ [][Next]_vars

\* Armed timers expire, and Node delivers 'close' and 'drain' events.
Fairness ==
    /\ \A c \in Conn : WF_vars(Timeout(c)) /\ WF_vars(Close(c))
    /\ WF_vars(TunnelDrain)

FairSpec == Spec /\ Fairness

-----------------------------------------------------------------------------
(* Properties *)

\* Every variable keeps its type.
TypeOK ==
    /\ tunnel \in Conn \cup {NoConn}
    /\ streams \in [Ids -> Conn \cup {NoConn}]
    /\ pausedForTunnel \subseteq Conn
    /\ pending \subseteq Conn
    /\ parked \subseteq Conn
    /\ nextStreamId \in Ids
    /\ full \in BOOLEAN
    /\ mode \in [Conn -> {"none", "candidate", "control", "parked", "public", "refused"}]
    /\ st \in [Conn -> {"absent", "open", "destroyed", "closed"}]
    /\ hs \in [Conn -> {"none", "part", "magic", "junk"}]
    /\ sid \in [Conn -> Ids \cup {0}]
    /\ born \in [Conn -> Conn \cup {NoConn}]
    /\ pf \in [Conn -> SUBSET Reasons]
    /\ flowing \subseteq Conn
    /\ shut \in [Conn -> SUBSET {"in", "out"}]

\* An authenticated control socket that is still open is the tunnel: a second
\* connector is never served beside the first, whatever 'close' events are late.
OneTunnel == \A c \in Conn : mode[c] = "control" /\ st[c] = "open" => tunnel = c

\* The stream table holds served sockets whose 'close' has not run, each under
\* the id its own handlers captured: no stale or foreign entry.
TableExact ==
    \A i \in InUse :
        /\ mode[streams[i]] = "public"
        /\ st[streams[i]] \in {"open", "destroyed"}
        /\ sid[streams[i]] = i

\* Without a tunnel there is no stream: teardown leaves none behind, and no
\* handler adds one while the slot is empty.
StreamsNeedTunnel == tunnel = NoConn => InUse = {}

\* While a tunnel is up nobody is parked, and in single-port park mode no
\* silent candidate is kept waiting: whoever came too early was served or dropped.
NobodyLeftWaiting ==
    LiveTunnel =>
        /\ parked = {}
        /\ \A c \in pending : SinglePort /\ ParkMode /\ st[c] = "open" => hs[c] # "none"

\* pending, parked and the stream table list a socket at most once between
\* them, and hold exactly the sockets whose 'close' handler will remove them.
WaitingExact ==
    /\ \A c \in pending : mode[c] = "candidate" /\ st[c] \in {"open", "destroyed"}
    /\ \A c \in Conn : mode[c] = "candidate" /\ st[c] \in {"open", "destroyed"} => c \in pending
    /\ \A c \in parked : mode[c] = "parked" /\ st[c] \in {"open", "destroyed"} /\ c \notin flowing
    /\ \A c \in Conn : mode[c] = "parked" /\ st[c] = "open" => c \in parked

\* The slot holds an authenticated control socket whose 'close' has not run:
\* teardown is the only way a tunnel leaves it without being replaced.
SlotHeld == tunnel # NoConn => mode[tunnel] = "control" /\ st[tunnel] \in {"open", "destroyed"}

\* pausedForTunnel names no socket whose 'close' already ran (no leak).
PausedNotClosed ==
    \A c \in pausedForTunnel : st[c] \in {"open", "destroyed"} /\ mode[c] = "public"

\* The inductive invariant: who holds the slot, who is in which table.
IInv ==
    /\ TypeOK
    /\ SlotHeld
    /\ OneTunnel
    /\ TableExact
    /\ StreamsNeedTunnel
    /\ WaitingExact
    /\ NobodyLeftWaiting
    /\ PausedNotClosed

\* MAX_STREAMS bounds the streams, and the parked clients, even when a tunnel
\* comes up with more clients waiting than there is room for.
StreamsBounded == Cardinality(InUse) <= MaxStreams /\ Cardinality(parked) <= MaxStreams

\* An open client whose write side was not ended, and which is not in the stream
\* table: neither frames from B nor the loss of the tunnel reach it.
Lost(c) == mode[c] = "public" /\ st[c] = "open" /\ "out" \notin shut[c] /\ streams[sid[c]] # c

\* The 'close' handler of another socket runs that was given the same id before.
LateClose(c) ==
    \E d \in Conn \ {c} :
        mode[d] = "public" /\ sid[d] = sid[c] /\ st[d] = "destroyed" /\ st'[d] = "closed"

\* No step loses a client, ids that wrap round included: teardown destroys whom
\* it drops from the table, a CLOSE ends whom it drops, no id in use is given
\* away.  The exception is in the code: 'close' deletes by id, whoever has it now.
NoLostClient == [][\A c \in Conn : Lost(c)' => Lost(c) \/ LateClose(c)]_vars

\* No lost wake-up: an open stream of the live tunnel that is paused for the
\* tunnel is in pausedForTunnel, and the tunnel owes the 'drain' that resumes it.
PauseHasWaker ==
    \A c \in Served :
        Receives(c) /\ st[c] = "open" /\ "R_TUNNEL" \in pf[c] => c \in pausedForTunnel /\ full

\* A served client reads exactly when no reason to pause it is left.
PauseEffective ==
    \A c \in Conn :
        mode[c] = "public" /\ st[c] = "open" => (c \in flowing <=> pf[c] = {})

\* The tunnel changes hands only from null or from a destroyed socket, never
\* from one that still carries streams.
SlotNeverStolen ==
    [][tunnel' # tunnel /\ tunnel # NoConn => st[tunnel] # "open"]_vars

\* Nobody waits forever: a candidate is adopted, handed over or dropped, and a
\* parked client is served or dropped, whatever the other sockets do.
WaitingEnds ==
    \A c \in Conn : (c \in pending ~> c \notin pending) /\ (c \in parked ~> c \notin parked)

-----------------------------------------------------------------------------
(* The service listen provides *)

\* What each connection is to ClientService.  Control sockets, and candidates
\* that have not been told apart yet, are not clients.
clientState ==
    [c \in Conn |->
        CASE mode[c] = "public" /\ st[c] = "open"  -> "served"
          [] mode[c] = "parked" /\ st[c] = "open"  -> "waiting"
          [] mode[c] \in {"none", "candidate", "control"} -> "new"
          [] OTHER -> "gone"]

Service == INSTANCE ClientService WITH up <- LiveTunnel, client <- clientState

\* listen implements the service: the step that adopts a tunnel serves or drops
\* every waiting client, and no client is served while there is no live tunnel.
ImplementsService == Service!Spec

-----------------------------------------------------------------------------
(* Statements the code does not keep: see the README *)

\* A client whose stream was closed by B without destroying it does not linger
\* read-paused with nobody left to resume it: paused, it would never report the
\* FIN that closes it.
NoLingeringPaused ==
    \A c \in Conn :
        mode[c] = "public" /\ st[c] = "open" /\ c \notin Served /\ pf[c] # {} => c \in pausedForTunnel

\* No client is ever lost, whatever ids have come round again.
ClientsListed == \A c \in Conn : ~Lost(c)

\* While a tunnel is up every open stream was opened on it.
StreamsOnTunnel ==
    \A c \in Served : LiveTunnel /\ st[c] = "open" => born[c] = tunnel

\* MAX_PENDING bounds the sockets that have not authenticated.
PendingBounded == Cardinality(pending) <= MaxPending
=============================================================================
