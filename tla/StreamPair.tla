----------------------------- MODULE StreamPair -----------------------------
(***************************************************************************)
(* One stream of the tunnel, end to end: the public client's socket in A   *)
(* (tunnel/listen.js) and the provider's socket in B (tunnel/connect.js),  *)
(* whose handlers are the same code, joined by the frames of one tunnel,   *)
(* which TCP delivers in order.  Covered: flow control with PAUSE and      *)
(* RESUME, half-close with SHUTDOWN, CLOSE, the provider's dial, and the   *)
(* loss of the tunnel, which each end finds out by itself.                 *)
(*                                                                         *)
(* Data is counted in chunks.  The application behind each socket sends up *)
(* to MaxChunks of them, may half-close, may be slow to read, may reset.   *)
(* What A does with a new tunnel is the subject of module Listen.          *)
(***************************************************************************)
EXTENDS Naturals, Sequences, FiniteSets

CONSTANTS
    MaxChunks,      \* bound: chunks each application sends
    MaxBeforeLoss,  \* bound: chunks both sent when the tunnel is lost
    HighWaterMark   \* chunks a socket buffers before write() returns false

ASSUME StreamPairAssumption == {MaxChunks, MaxBeforeLoss} \subseteq Nat /\ HighWaterMark \in Nat \ {0}

Ends == {"A", "B"}
Other(e) == IF e = "A" THEN "B" ELSE "A"

VARIABLES
    sock,       \* none, connecting (B dials), open, destroyed, closed
    inMap,      \* the ends whose table still holds the stream id
    ended,      \* the ends whose application's FIN was read ('end')
    ending,     \* the ends whose socket had end() called
    pf,         \* socket._pf
    flowing,    \* the ends whose socket emits 'data' and 'end'
    asked,      \* socket._askedPause
    needDrain,  \* a write() returned false and no 'drain' came since
    wbuf,       \* chunks in the socket's write buffer
    chan,       \* frames on their way to the end
    full,       \* the tunnel at this end owes a 'drain'
    control,    \* the end's socket of the tunnel: up, destroyed, closed
    taken,      \* chunks read from the application
    got,        \* chunks delivered to the application
    reset       \* history: an application reset, or the provider was not reached

app == <<taken, got, reset>>
halves == <<ended, ending>>
flow == <<pf, flowing, full>>
tables == <<inMap, control>>
out == <<asked, needDrain, wbuf>>
vars == <<sock, tables, halves, flow, out, chan, app>>

Both(x) == [e \in Ends |-> x]

\* A accepted the client, put it in the table and sent OPEN.
Init ==
    /\ sock = [e \in Ends |-> IF e = "A" THEN "open" ELSE "none"]
    /\ inMap = {"A"} /\ control = Both("up")
    /\ ended = {} /\ ending = {}
    /\ pf = Both({}) /\ flowing = Ends /\ full = Both(FALSE)
    /\ asked = {} /\ needDrain = {} /\ wbuf = Both(0)
    /\ chan = [e \in Ends |-> IF e = "B" THEN <<"OPEN">> ELSE << >>]
    /\ taken = Both(0) /\ got = Both(0) /\ reset = FALSE

-----------------------------------------------------------------------------
LiveOnceOpen(e) == sock[e] = "open"  \* mutant: bytes that come during the dial are dropped
Live(e) == sock[e] \in {"connecting", "open"}

\* A frame is lost with the tunnel, whichever end lost it.
Up == control = Both("up")

\* mutant: a frame overtakes those before it
SendFirst(e, frame) == chan' = [chan EXCEPT ![e] = <<frame>> \o @]
SendTo(e, frame) == chan' = IF Up THEN [chan EXCEPT ![e] = Append(@, frame)] ELSE chan
Receive(e, frame) ==
    /\ chan[e] # << >> /\ Head(chan[e]) = frame
    /\ chan' = [chan EXCEPT ![e] = Tail(@)]
\* The frame that was received is answered at once.
ReceiveAndSend(e, frame, answer) ==
    /\ chan[e] # << >> /\ Head(chan[e]) = frame
    /\ chan' = [chan EXCEPT ![e] = Tail(@), ![Other(e)] = IF Up THEN Append(@, answer) ELSE @]

pauseRead(e, r) ==
    /\ pf' = [pf EXCEPT ![e] = @ \cup {r}]
    /\ flowing' = IF pf[e] = {} THEN flowing \ {e} ELSE flowing

\* mutant: the reason is forgotten, the pause stays
ResumeDropped(e, r) == UNCHANGED <<pf, flowing>>
resumeRead(e, r) ==
    /\ pf' = [pf EXCEPT ![e] = @ \ {r}]
    /\ flowing' = IF pf[e] = {r} THEN flowing \cup {e} ELSE flowing

-----------------------------------------------------------------------------
(* Events of a socket *)

\* 'data': the chunk goes into the tunnel, whose buffer may be full; without a
\* tunnel the socket is paused as well.
Data(e) ==
    /\ sock[e] = "open" /\ e \in flowing /\ e \notin ended /\ taken[e] < MaxChunks
    /\ taken' = [taken EXCEPT ![e] = @ + 1]
    /\ SendTo(Other(e), "DATA")
    /\ \/ control[e] = "up" /\ UNCHANGED flow
       \/ pauseRead(e, "R_TUNNEL") /\ full' = [full EXCEPT ![e] = control[e] = "up"]
    /\ UNCHANGED <<sock, tables, halves, out, got, reset>>

\* 'end': the application's FIN, which a paused socket never reports.
End(e) ==
    /\ sock[e] = "open" /\ e \in flowing /\ e \notin ended
    /\ ended' = ended \cup {e}
    /\ SendTo(Other(e), "SHUTDOWN")
    /\ UNCHANGED <<sock, tables, ending, flow, out, app>>

\* The application reads a chunk.  When the buffer empties, Node emits 'drain'
\* if a write returned false, unless end() was called meanwhile.
Consume(e) ==
    /\ sock[e] = "open" /\ wbuf[e] > 0
    /\ wbuf' = [wbuf EXCEPT ![e] = @ - 1]
    /\ got' = [got EXCEPT ![e] = @ + 1]
    /\ IF wbuf[e] = 1 /\ e \in needDrain /\ e \notin ending
       THEN /\ needDrain' = needDrain \ {e}
            /\ asked' = asked \ {e}
            /\ IF e \in asked THEN SendTo(Other(e), "RESUME") ELSE UNCHANGED chan
       ELSE UNCHANGED <<needDrain, asked, chan>>
    /\ UNCHANGED <<sock, tables, halves, flow, taken, reset>>

\* The tunnel's buffer emptied: resume the source it throttled.
TunnelDrain(e) ==
    /\ full[e]
    /\ full' = [full EXCEPT ![e] = FALSE]
    /\ resumeRead(e, "R_TUNNEL")
    /\ UNCHANGED <<sock, tables, halves, out, chan, app>>

\* Node destroys a socket whose halves have both ended and that is flushed.
AutoDestroy(e) ==
    /\ sock[e] = "open" /\ e \in ended \cap ending /\ wbuf[e] = 0
    /\ sock' = [sock EXCEPT ![e] = "destroyed"]
    /\ UNCHANGED <<tables, halves, flow, out, chan, app>>

\* mutant: the peer is not told
CloseSilently(e) ==
    /\ sock[e] = "destroyed"
    /\ sock' = [sock EXCEPT ![e] = "closed"]
    /\ inMap' = inMap \ {e}
    /\ UNCHANGED <<control, chan, halves, flow, out, app>>

Close(e) ==
    /\ sock[e] = "destroyed"
    /\ sock' = [sock EXCEPT ![e] = "closed"]
    /\ IF e \in inMap THEN SendTo(Other(e), "CLOSE") ELSE UNCHANGED chan
    /\ inMap' = inMap \ {e}
    /\ UNCHANGED <<control, halves, flow, out, app>>

-----------------------------------------------------------------------------
(* Frames *)

\* B dials the provider.
FrameOpen ==
    /\ Receive("B", "OPEN")
    /\ sock' = [sock EXCEPT !["B"] = "connecting"]
    /\ inMap' = inMap \cup {"B"}
    /\ UNCHANGED <<control, halves, flow, out, app>>

FrameData(e) ==
    /\ IF e \notin inMap \/ ~Live(e)
       THEN Receive(e, "DATA") /\ UNCHANGED out
       ELSE LET congested == wbuf[e] + 1 >= HighWaterMark IN
            /\ wbuf' = [wbuf EXCEPT ![e] = @ + 1]
            /\ needDrain' = IF congested THEN needDrain \cup {e} ELSE needDrain
            /\ IF congested /\ e \notin asked
               THEN asked' = asked \cup {e} /\ ReceiveAndSend(e, "DATA", "PAUSE")
               ELSE Receive(e, "DATA") /\ UNCHANGED asked
    /\ UNCHANGED <<sock, tables, halves, flow, app>>

FramePause(e) ==
    /\ Receive(e, "PAUSE")
    /\ IF e \in inMap THEN pauseRead(e, "R_PEER") ELSE UNCHANGED <<pf, flowing>>
    /\ UNCHANGED <<sock, tables, halves, full, out, app>>

FrameResume(e) ==
    /\ Receive(e, "RESUME")
    /\ IF e \in inMap THEN resumeRead(e, "R_PEER") ELSE UNCHANGED <<pf, flowing>>
    /\ UNCHANGED <<sock, tables, halves, full, out, app>>

FrameShutdown(e) ==
    /\ Receive(e, "SHUTDOWN")
    /\ ending' = IF e \in inMap /\ Live(e) THEN ending \cup {e} ELSE ending
    /\ UNCHANGED <<sock, tables, ended, flow, out, app>>

\* A read-paused socket is destroyed, another one ends when it is flushed.
FrameClose(e) ==
    /\ Receive(e, "CLOSE")
    /\ inMap' = inMap \ {e}
    /\ \/ /\ e \in inMap /\ Live(e) /\ pf[e] # {}
          /\ sock' = [sock EXCEPT ![e] = "destroyed"]
          /\ UNCHANGED ending
       \/ /\ e \in inMap /\ Live(e) /\ pf[e] = {}
          /\ ending' = ending \cup {e}
          /\ UNCHANGED sock
       \/ /\ e \notin inMap \/ ~Live(e)
          /\ UNCHANGED <<sock, ending>>
    /\ UNCHANGED <<control, ended, flow, out, app>>

-----------------------------------------------------------------------------
(* The provider's dial, and the applications *)

ProviderConnected ==
    /\ sock["B"] = "connecting"
    /\ sock' = [sock EXCEPT !["B"] = "open"]
    /\ UNCHANGED <<tables, halves, flow, out, chan, app>>

\* The dial timer, or a refused connection.
DialFailed ==
    /\ sock["B"] = "connecting"
    /\ sock' = [sock EXCEPT !["B"] = "destroyed"]
    /\ reset' = TRUE
    /\ UNCHANGED <<tables, halves, flow, out, chan, taken, got>>

Reset(e) ==
    /\ sock[e] = "open"
    /\ sock' = [sock EXCEPT ![e] = "destroyed"]
    /\ reset' = TRUE
    /\ UNCHANGED <<tables, halves, flow, out, chan, taken, got>>

-----------------------------------------------------------------------------
(* The loss of the tunnel *)

\* The end's socket of the tunnel is destroyed: an error, a watchdog, or in the
\* end because the other one is.
ControlLost(e) ==
    /\ control[e] = "up" /\ (Up => taken["A"] + taken["B"] <= MaxBeforeLoss)
    /\ control' = [control EXCEPT ![e] = "destroyed"]
    /\ chan' = [chan EXCEPT ![e] = << >>]
    /\ full' = [full EXCEPT ![e] = FALSE]
    /\ UNCHANGED <<sock, inMap, halves, pf, flowing, out, app>>

OrphanKept(e) == sock  \* mutant: the sockets of the table outlive the tunnel
Orphaned(e) == IF e \in inMap /\ Live(e) THEN [sock EXCEPT ![e] = "destroyed"] ELSE sock

\* Its 'close': the sockets in the table are destroyed, and the table is emptied.
ControlClosed(e) ==
    /\ control[e] = "destroyed"
    /\ control' = [control EXCEPT ![e] = "closed"]
    /\ sock' = Orphaned(e)
    /\ inMap' = inMap \ {e}
    /\ UNCHANGED <<halves, flow, out, chan, app>>

-----------------------------------------------------------------------------
Frame(e) ==
    FrameData(e) \/ FramePause(e) \/ FrameResume(e) \/ FrameShutdown(e) \/ FrameClose(e)
Socket(e) ==
    Data(e) \/ Consume(e) \/ TunnelDrain(e) \/ AutoDestroy(e) \/ Close(e)
    \/ (~Up /\ ControlLost(e)) \/ ControlClosed(e)

Next ==
    \/ \E e \in Ends : Socket(e) \/ End(e) \/ Frame(e) \/ Reset(e) \/ ControlLost(e)
    \/ FrameOpen \/ ProviderConnected \/ DialFailed

Spec == Init /\ [][Next]_vars

\* The processes keep reading the tunnel and handling events, the applications
\* keep reading and sending, and a dial ends one way or the other; an end finds
\* out that the other one has lost the tunnel.  Nothing obliges an application
\* to half-close or to reset, or the tunnel to break.
Fairness ==
    /\ \A e \in Ends : WF_vars(Socket(e)) /\ WF_vars(Frame(e))
    /\ WF_vars(FrameOpen) /\ WF_vars(ProviderConnected \/ DialFailed)

FairSpec == Spec /\ Fairness
-----------------------------------------------------------------------------
(* Properties *)

FrameTypes == {"OPEN", "DATA", "PAUSE", "RESUME", "SHUTDOWN", "CLOSE"}

\* Every variable keeps its type.
TypeOK ==
    /\ sock \in [Ends -> {"none", "connecting", "open", "destroyed", "closed"}]
    /\ inMap \subseteq Ends /\ ended \subseteq Ends /\ ending \subseteq Ends
    /\ pf \in [Ends -> SUBSET {"R_TUNNEL", "R_PEER"}]
    /\ flowing \subseteq Ends /\ asked \subseteq Ends /\ needDrain \subseteq Ends
    /\ wbuf \in [Ends -> Nat]
    /\ chan \in [Ends -> Seq(FrameTypes)]
    /\ full \in [Ends -> BOOLEAN]
    /\ control \in [Ends -> {"up", "destroyed", "closed"}]
    /\ taken \in [Ends -> 0 .. MaxChunks]
    /\ got \in [Ends -> 0 .. MaxChunks]
    /\ reset \in BOOLEAN

InTransit(e, frame) == \E i \in DOMAIN chan[e] : chan[e][i] = frame
Count(e, frame) == Cardinality({i \in DOMAIN chan[e] : chan[e][i] = frame})

\* No chunk is lost or doubled on the way to a socket that is up: what it
\* delivered, buffers and has in the tunnel is what the other end's socket read.
Conserved ==
    \A e \in Ends :
        Up /\ (sock[e] = "none" \/ (Live(e) /\ e \in inMap)) =>
            taken[Other(e)] = Count(e, "DATA") + wbuf[e] + got[e]

\* No lost wake-up: a source that the peer paused and that has not reached its
\* FIN will hear from the peer again: the peer still has chunks to flush and
\* asked for the pause, or a RESUME or a CLOSE is on its way.
PauseIsLifted ==
    \A e \in Ends :
        Live(e) /\ e \in inMap /\ e \notin ended /\ "R_PEER" \in pf[e] =>
            \/ /\ Other(e) \in asked \cap needDrain
               /\ wbuf[Other(e)] > 0 /\ Other(e) \notin ending
               /\ Live(Other(e))
            \/ InTransit(e, "RESUME") \/ InTransit(e, "CLOSE")
            \/ sock[Other(e)] = "destroyed" \/ ~Up

\* What an application takes for the end of the stream: the FIN that follows the
\* last buffered chunk, or the end of its socket, which drops those buffered.
SeesFin(e) == (e \in ending /\ wbuf[e] = 0) \/ sock[e] \in {"destroyed", "closed"}

\* A FIN is truthful: if nobody reset, an application that comes to see the end
\* of the stream has every chunk the other one sent before its own FIN.  Two
\* steps cut a stream short: the end of this end's own tunnel, and a CLOSE that
\* finds the socket read-paused, whose destroy() drops the chunks still buffered
\* here (see TailFlushed) but none that is still on its way.
FinIsTruthful ==
    [][\A e \in Ends :
        ~reset' /\ ~SeesFin(e) /\ SeesFin(e)' =>
            \/ Other(e) \in ended' /\ got'[e] = taken'[Other(e)]
            \/ control[e] = "destroyed" /\ control'[e] = "closed"
            \/ /\ chan[e] # << >> /\ Head(chan[e]) = "CLOSE" /\ pf[e] # {}
               /\ Other(e) \in ended' /\ wbuf'[e] + got'[e] = taken'[Other(e)]]_vars

\* A CLOSE ends both tables: when nothing is in transit and one end forgot the
\* stream, the other end forgot it too, even if its socket's 'close' is to come.
TablesAgree ==
    Up /\ chan["A"] = << >> /\ chan["B"] = << >> => ("A" \in inMap <=> "B" \in inMap)

\* Once both ends have read their application's FIN, both tables forget the
\* stream and both sockets are closed.  If the tunnel breaks, at either end and
\* whenever it does, both tables forget it too.
StreamEnds ==
    (ended = Ends \/ ~Up) ~> (inMap = {} /\ (ended = Ends => \A e \in Ends : sock[e] = "closed"))

\* A source that a slow peer or a full tunnel paused resumes, or is closed,
\* unless its stream is closed already and then the tunnel breaks.
PauseEnds ==
    \A e \in Ends :
        (pf[e] # {} /\ e \notin ended) ~> (pf[e] = {} \/ ~Live(e) \/ (~Up /\ e \notin inMap))

-----------------------------------------------------------------------------
(* A statement the code does not keep: see the README *)

\* If nobody reset and the tunnel holds, no socket is destroyed while it still buffers chunks for
\* its application: graceful closes flush their tail.
TailFlushed ==
    \A e \in Ends : ~reset /\ Up /\ sock[e] \in {"destroyed", "closed"} => wbuf[e] = 0
=============================================================================
