---------------------------- MODULE ListenProofs ----------------------------
(* Theorems about Listen, for any set of connections and any limits. *)
EXTENDS Listen, FiniteSetTheorems, TLAPS

USE ListenAssumption

-----------------------------------------------------------------------------
(* What opening streams does to the table *)

\* Opening streams for the sockets of S only fills free ids, one per socket of
\* S, and records each id in the socket's handlers.
LEMMA OpenStreamsFacts ==
    ASSUME TypeOK, NEW S \in SUBSET Conn, OpenStreams(S)
    PROVE  /\ streams' \in [Ids -> Conn \cup {NoConn}]
           /\ sid' \in [Conn -> Ids \cup {0}]
           /\ nextStreamId' \in Ids
           /\ \A i \in Ids : \/ streams'[i] = streams[i]
                             \/ streams[i] = NoConn /\ streams'[i] \in S /\ sid'[streams'[i]] = i
           /\ \A c \in Conn \ S : sid'[c] = sid[c]
           /\ \A c \in S : streams[sid'[c]] = NoConn /\ streams'[sid'[c]] = c /\ sid'[c] \in Ids
<1> PICK f \in Allocations(S) :
        /\ streams' = [i \in Ids |-> IF \E c \in S : f[c] = i
                                     THEN CHOOSE c \in S : f[c] = i ELSE streams[i]]
        /\ sid' = [c \in Conn |-> IF c \in S THEN f[c] ELSE sid[c]]
        /\ \/ S = {} /\ UNCHANGED nextStreamId
           \/ \E last \in S : /\ \A d \in S : Ahead(f[d]) <= Ahead(f[last])
                              /\ nextStreamId' = After(f[last])
  BY DEF OpenStreams
<1>1. f \in [S -> Free] /\ \A c, d \in S : c # d => f[c] # f[d]
  BY DEF Allocations
<1>2. \A c \in S : f[c] \in Ids /\ streams[f[c]] = NoConn
  BY <1>1 DEF Free, InUse
<1>3. \A i \in Ids : (\E c \in S : f[c] = i) => streams'[i] \in S /\ f[streams'[i]] = i
  <2> SUFFICES ASSUME NEW i \in Ids, \E c \in S : f[c] = i
               PROVE  streams'[i] \in S /\ f[streams'[i]] = i
    OBVIOUS
  <2>1. streams'[i] = CHOOSE c \in S : f[c] = i
    OBVIOUS
  <2> QED BY <2>1
<1>4. \A i \in Ids : ~(\E c \in S : f[c] = i) => streams'[i] = streams[i]
  OBVIOUS
<1>5. \A c \in S : sid'[c] = f[c]
  OBVIOUS
<1>6. streams' \in [Ids -> Conn \cup {NoConn}]
  <2>1. \A i \in Ids : streams'[i] \in Conn \cup {NoConn}
    BY <1>3, <1>4 DEF TypeOK
  <2> QED BY <2>1
<1>7. nextStreamId' \in Ids
  <2>1. CASE S = {} /\ UNCHANGED nextStreamId
    BY <2>1 DEF TypeOK
  <2>2. ASSUME NEW last \in S, nextStreamId' = After(f[last])
        PROVE  nextStreamId' \in Ids
    <3>1. f[last] \in Nat /\ MaxId \in Nat \ {0}
      BY <1>2 DEF Ids
    <3>2. f[last] % MaxId \in 0 .. MaxId - 1
      BY <3>1
    <3> QED BY <2>2, <3>1, <3>2 DEF Ids, After
  <2> QED BY <2>1, <2>2
<1>8. \A i \in Ids : \/ streams'[i] = streams[i]
                     \/ streams[i] = NoConn /\ streams'[i] \in S /\ sid'[streams'[i]] = i
  BY <1>2, <1>3, <1>4, <1>5
<1>9. \A c \in S : streams[sid'[c]] = NoConn /\ streams'[sid'[c]] = c /\ sid'[c] \in Ids
  BY <1>1, <1>2, <1>3, <1>5
<1>10. sid' \in [Conn -> Ids \cup {0}]
  BY <1>2 DEF TypeOK
<1>11. \A c \in Conn \ S : sid'[c] = sid[c]
  OBVIOUS
<1> QED BY <1>6, <1>7, <1>8, <1>9, <1>10, <1>11

-----------------------------------------------------------------------------
(* Type correctness *)

\* The handler that serves, parks or refuses a client keeps the types.
LEMMA PublicType ==
    ASSUME TypeOK, NEW c \in Conn, NEW initial \in BOOLEAN,
           handlePublicConnection(c, initial),
           pending' \in SUBSET pending, hs' \in [Conn -> {"none", "part", "magic", "junk"}]
    PROVE  TypeOK'
<1>1. CASE Refuse(c)
  BY <1>1 DEF TypeOK, Refuse, slot, table
<1>2. CASE parkPublic(c)
  BY <1>1, <1>2 DEF TypeOK, parkPublic, slot, table
<1>3. CASE LiveTunnel /\ Serve(c, initial)
  <2>1. /\ streams' \in [Ids -> Conn \cup {NoConn}]
        /\ sid' \in [Conn -> Ids \cup {0}]
        /\ nextStreamId' \in Ids
    BY <1>3, OpenStreamsFacts DEF Serve
  <2>2. full' \in BOOLEAN /\ pf' \in [Conn -> SUBSET Reasons] /\ pausedForTunnel' \subseteq Conn
    <3>1. CASE Sent /\ UNCHANGED <<pf, pausedForTunnel>>
      BY <3>1 DEF Sent, TypeOK
    <3>2. CASE full' = TRUE /\ Throttle({c})
      BY <3>2 DEF Throttle, TypeOK, Reasons
    <3> QED BY <1>3, <3>1, <3>2 DEF Serve
  <2>3. flowing' \subseteq Conn
    BY <1>3 DEF Serve, TypeOK
  <2> QED BY <1>3, <2>1, <2>2, <2>3 DEF Serve, TypeOK
<1> QED BY <1>1, <1>2, <1>3 DEF handlePublicConnection

\* Every step keeps the types of the variables.
LEMMA TypeStep == TypeOK /\ [Next]_vars => TypeOK'
<1> SUFFICES ASSUME TypeOK, [Next]_vars PROVE TypeOK'
  OBVIOUS
<1> USE DEF slot, table, waiting, flow
<1>1. ASSUME NEW c \in Conn, Destroy(c) PROVE TypeOK'
  BY <1>1 DEF Destroy, DestroyAll, TypeOK
<1>2. ASSUME NEW c \in Conn, attachControl(c), UNCHANGED hs PROVE TypeOK'
  BY <1>2 DEF attachControl, Refuse, TypeOK
<1>3. ASSUME NEW c \in Conn, Client(c) PROVE TypeOK'
  <2>1. CASE dispatch(c)
    BY <2>1, <1>2, PublicType DEF dispatch, Public, TypeOK
  <2>2. CASE ControlConnection(c)
    BY <2>2, <1>2 DEF ControlConnection
  <2>3. CASE PublicConnection(c)
    BY <2>3, PublicType DEF PublicConnection, Public, TypeOK
  <2>4. CASE Reset(c)
    BY <2>4, <1>1 DEF Reset
  <2>5. CASE DataThrottled(c)
    BY <2>5 DEF DataThrottled, Throttle, TypeOK, Reasons
  <2>6. CASE ClientEnd(c)
    BY <2>6 DEF ClientEnd, Sent, TypeOK
  <2> QED BY <1>3, <2>1, <2>2, <2>3, <2>4, <2>5, <2>6 DEF Client
<1>4. ASSUME NEW c \in Conn, Frame(c) PROVE TypeOK'
  <2>1. CASE FramePause(c)
    BY <2>1 DEF FramePause, TypeOK, Reasons
  <2>2. CASE FrameResume(c)
    BY <2>2 DEF FrameResume, Resume, TypeOK, Reasons
  <2>3. CASE FrameShutdown(c)
    BY <2>3 DEF FrameShutdown, TypeOK
  <2>4. CASE FrameClose(c)
    <3>1. st' \in [Conn -> {"absent", "open", "destroyed", "closed"}]
      BY <2>4 DEF FrameClose, StreamDeleted, DestroyAll, TypeOK
    <3>2. shut' \in [Conn -> SUBSET {"in", "out"}]
      BY <2>4 DEF FrameClose, StreamDeleted, TypeOK
    <3>3. streams' \in [Ids -> Conn \cup {NoConn}]
      BY <2>4 DEF FrameClose, StreamDeleted, TypeOK
    <3> QED BY <2>4, <3>1, <3>2, <3>3 DEF FrameClose, StreamDeleted, TypeOK
  <2> QED BY <1>4, <2>1, <2>2, <2>3, <2>4 DEF Frame
<1>5. ASSUME NEW c \in Conn, Feed(c) PROVE TypeOK'
  <2>1. CASE FeedMagic(c)
    BY <2>1 DEF FeedMagic, TypeOK
  <2>2. CASE FeedNotMagic(c)
    <3>1. hs' \in [Conn -> {"none", "part", "magic", "junk"}]
      BY <2>2 DEF FeedNotMagic, TypeOK
    <3>2. CASE SinglePort /\ ParkMode
      BY <2>2, <3>1, <3>2, PublicType DEF FeedNotMagic
    <3>3. CASE ~(SinglePort /\ ParkMode)
      <4>1. DestroyAll({c}) /\ UNCHANGED <<slot, table, waiting, flow, mode, shut>>
        BY <2>2, <3>3 DEF FeedNotMagic
      <4> QED BY <3>1, <4>1 DEF DestroyAll, TypeOK
    <3> QED BY <3>2, <3>3
  <2>3. CASE FeedRefused(c)
    BY <2>3 DEF FeedRefused, DestroyAll, TypeOK
  <2>4. CASE AuthRejected(c)
    BY <2>4, <1>1 DEF AuthRejected
  <2>5. CASE AuthAccepted(c)
    <3>1. PICK A \in Admitted, T \in SUBSET Drained :
            /\ OpenStreams(A)
            /\ born' = [d \in Conn |-> IF d \in A THEN c ELSE born[d]]
            /\ mode' = [d \in Conn |-> CASE d = c -> "control"
                                         [] d \in A -> "public"
                                         [] d \in (Silent \cup Drained) \ A -> "refused"
                                         [] OTHER -> mode[d]]
            /\ st' = [d \in Conn |-> IF d \in (Silent \cup Drained) \ A THEN "closed" ELSE st[d]]
            /\ Throttle(T)
            /\ flowing' = (flowing \cup A) \ ((Silent \cup Drained) \ A)
            /\ full' \in BOOLEAN
      BY <2>5 DEF AuthAccepted
    <3>2. A \subseteq Conn /\ T \subseteq Conn
      BY DEF Admitted, Silent, Drained, TypeOK
    <3>3. /\ streams' \in [Ids -> Conn \cup {NoConn}]
          /\ sid' \in [Conn -> Ids \cup {0}]
          /\ nextStreamId' \in Ids
      BY <3>1, <3>2, OpenStreamsFacts
    <3>4. mode' \in [Conn -> {"none", "candidate", "control", "parked", "public", "refused"}]
      BY <3>1 DEF TypeOK
    <3>5. pf' \in [Conn -> SUBSET Reasons] /\ pausedForTunnel' \subseteq Conn
      BY <3>1, <3>2 DEF Throttle, TypeOK, Reasons
    <3>6. st' \in [Conn -> {"absent", "open", "destroyed", "closed"}]
      BY <3>1 DEF TypeOK
    <3> QED BY <2>5, <3>1, <3>2, <3>3, <3>4, <3>5, <3>6 DEF AuthAccepted, TypeOK
  <2> QED BY <1>5, <2>1, <2>2, <2>3, <2>4, <2>5 DEF Feed
<1>6. ASSUME NEW c \in Conn, ControlEnd(c) \/ Timeout(c) PROVE TypeOK'
  BY <1>1, <1>6 DEF ControlEnd, Timeout, ParkTimeout, AuthTimeout
<1>7. ASSUME NEW c \in Conn, Close(c) PROVE TypeOK'
  <2>1. CASE AutoDestroy(c)
    BY <2>1, <1>1 DEF AutoDestroy
  <2>2. CASE ClientClose(c)
    BY <2>2 DEF ClientClose, StreamDeleted, Sent, TypeOK
  <2>3. CASE ParkedClose(c)
    BY <2>3 DEF ParkedClose, TypeOK
  <2>4. CASE ControlClose(c)
    <3>1. st' \in [Conn -> {"absent", "open", "destroyed", "closed"}]
      BY <2>4 DEF ControlClose, TornDown, Stranded, StreamsCleared, TypeOK
    <3>2. streams' \in [Ids -> Conn \cup {NoConn}] /\ pausedForTunnel' \subseteq Conn
      BY <2>4 DEF ControlClose, TornDown, Stranded, StreamsCleared, TypeOK
    <3>3. tunnel' \in Conn \cup {NoConn} /\ full' \in BOOLEAN
      BY <2>4 DEF ControlClose, TornDown, Stranded, StreamsCleared, TypeOK
    <3> QED BY <2>4, <3>1, <3>2, <3>3 DEF ControlClose, TornDown, Stranded, StreamsCleared, TypeOK
  <2> QED BY <1>7, <2>1, <2>2, <2>3, <2>4 DEF Close
<1>8. CASE TunnelDrain
  BY <1>8 DEF TunnelDrain, Resume, TypeOK, Reasons
<1>9. CASE TunnelDropped
  BY <1>9, <1>1 DEF TunnelDropped, LiveTunnel, TypeOK
<1>10. CASE TunnelReply
  BY <1>10 DEF TunnelReply, TypeOK
<1>11. CASE UNCHANGED vars
  BY <1>11 DEF vars, TypeOK
<1> QED BY <1>3, <1>4, <1>5, <1>6, <1>7, <1>8, <1>9, <1>10, <1>11 DEF Next

\* The initial state is well typed.
LEMMA InitType == Init => TypeOK
<1>1. 1 \in Ids
  BY DEF Ids
<1>2. Init => streams \in [Ids -> Conn \cup {NoConn}]
  BY DEF Init
<1>6. Init => nextStreamId \in Ids /\ full \in BOOLEAN
  BY <1>1 DEF Init
<1>3. Init => pf \in [Conn -> SUBSET Reasons] /\ shut \in [Conn -> SUBSET {"in", "out"}]
  BY DEF Init
<1>4. Init => sid \in [Conn -> Ids \cup {0}] /\ born \in [Conn -> Conn \cup {NoConn}]
  BY DEF Init
<1>5. Init => /\ mode \in [Conn -> {"none", "candidate", "control", "parked", "public", "refused"}]
                /\ st \in [Conn -> {"absent", "open", "destroyed", "closed"}]
                /\ hs \in [Conn -> {"none", "part", "magic", "junk"}]
  BY DEF Init
<1> QED BY <1>2, <1>3, <1>4, <1>5, <1>6 DEF Init, TypeOK

\* Every reachable state of listen is well typed.
THEOREM TypeCorrect == Spec => []TypeOK
BY InitType, TypeStep, PTL DEF Spec

-----------------------------------------------------------------------------
(* The slot and the tables *)

Tables ==
    /\ SlotHeld
    /\ OneTunnel
    /\ TableExact
    /\ StreamsNeedTunnel
    /\ WaitingExact
    /\ NobodyLeftWaiting
    /\ PausedNotClosed

\* Steps that move no socket between tables: sockets may be destroyed, streams
\* may end, candidates may send bytes.
InPlaceStep ==
    /\ tunnel' = tunnel /\ sid' = sid /\ pending' = pending /\ parked' = parked /\ mode' = mode
    /\ \A i \in Ids : streams'[i] \in {streams[i], NoConn}
    /\ \A c \in Conn : st'[c] = st[c] \/ (st[c] = "open" /\ st'[c] = "destroyed")
    /\ \A c \in Conn : hs[c] # "none" => hs'[c] # "none"
    /\ \A c \in flowing' : c \in flowing \/ mode[c] = "public"
    /\ \A c \in pausedForTunnel' :
           c \in pausedForTunnel \/ (mode[c] = "public" /\ st[c] = "open")

\* Such a step keeps every relation between the slot and the tables.
LEMMA InPlace == ASSUME IInv, TypeOK', InPlaceStep PROVE Tables'
<1> USE DEF IInv, InPlaceStep
<1>1. SlotHeld' /\ OneTunnel'
  BY DEF SlotHeld, OneTunnel, TypeOK
<1>2. \A i \in InUse' : i \in InUse /\ streams'[i] = streams[i] /\ streams[i] \in Conn
  BY DEF InUse, TypeOK
<1>3. TableExact'
  BY <1>2 DEF TableExact, TypeOK
<1>4. StreamsNeedTunnel'
  BY <1>2 DEF StreamsNeedTunnel
<1>5. WaitingExact'
  BY DEF WaitingExact, TypeOK
<1>6. NobodyLeftWaiting'
  BY DEF NobodyLeftWaiting, LiveTunnel, TypeOK
<1>7. PausedNotClosed'
  BY DEF PausedNotClosed, TypeOK
<1> QED BY <1>1, <1>3, <1>4, <1>5, <1>6, <1>7 DEF Tables

\* A new socket, or a candidate taken out of pending, becomes a public client.
LEMMA PublicTables ==
    ASSUME IInv, TypeOK', NEW c \in Conn, NEW initial \in BOOLEAN,
           mode[c] \in {"none", "candidate"},
           handlePublicConnection(c, initial),
           pending' = pending \ {c},
           \A d \in Conn \ {c} : hs'[d] = hs[d]
    PROVE  Tables'
<1> USE DEF IInv
<1>a. /\ tunnel # c
      /\ \A i \in InUse : streams[i] # c /\ streams[i] \in Conn
      /\ c \notin parked
      /\ c \notin pausedForTunnel
  BY DEF SlotHeld, TableExact, WaitingExact, PausedNotClosed, InUse, TypeOK
<1>1. CASE Refuse(c)
  <2>1. /\ UNCHANGED <<tunnel, streams, sid, parked, pausedForTunnel>>
        /\ mode'[c] = "refused" /\ st'[c] = "closed"
        /\ \A d \in Conn \ {c} : mode'[d] = mode[d] /\ st'[d] = st[d]
        /\ flowing' \subseteq flowing
    BY <1>1 DEF Refuse, slot, table, TypeOK
  <2>2. SlotHeld' /\ OneTunnel' /\ PausedNotClosed'
    BY <1>a, <2>1 DEF SlotHeld, OneTunnel, PausedNotClosed, TypeOK
  <2>3. TableExact' /\ StreamsNeedTunnel'
    BY <1>a, <2>1 DEF TableExact, StreamsNeedTunnel, InUse
  <2>4. WaitingExact'
    BY <1>a, <2>1 DEF WaitingExact, TypeOK
  <2>5. NobodyLeftWaiting'
    BY <1>a, <2>1 DEF NobodyLeftWaiting, LiveTunnel, TypeOK
  <2> QED BY <2>2, <2>3, <2>4, <2>5 DEF Tables
<1>2. CASE ~LiveTunnel /\ parkPublic(c) /\ ~Refuse(c)
  <2>1. /\ UNCHANGED <<tunnel, streams, sid, pausedForTunnel>>
        /\ mode'[c] = "parked" /\ st'[c] = "open"
        /\ \A d \in Conn \ {c} : mode'[d] = mode[d] /\ st'[d] = st[d]
        /\ parked' = parked \cup {c}
        /\ flowing' = flowing \ {c}
    BY <1>2 DEF parkPublic, slot, table, TypeOK
  <2>2. SlotHeld' /\ OneTunnel' /\ PausedNotClosed'
    BY <1>a, <2>1 DEF SlotHeld, OneTunnel, PausedNotClosed, TypeOK
  <2>3. TableExact' /\ StreamsNeedTunnel'
    BY <1>a, <2>1 DEF TableExact, StreamsNeedTunnel, InUse
  <2>4. WaitingExact'
    BY <1>a, <2>1 DEF WaitingExact, TypeOK
  <2>5. NobodyLeftWaiting'
    BY <1>a, <1>2, <2>1 DEF NobodyLeftWaiting, LiveTunnel, TypeOK
  <2> QED BY <2>2, <2>3, <2>4, <2>5 DEF Tables
<1>3. CASE LiveTunnel /\ Serve(c, initial)
  <2>1. /\ UNCHANGED <<tunnel, parked>>
        /\ mode'[c] = "public" /\ st'[c] = "open"
        /\ \A d \in Conn \ {c} : mode'[d] = mode[d] /\ st'[d] = st[d]
        /\ flowing' \subseteq flowing \cup {c}
        /\ pausedForTunnel' \subseteq pausedForTunnel \cup {c}
    BY <1>3 DEF Serve, Throttle, TypeOK
  <2>2. /\ \A i \in Ids : \/ streams'[i] = streams[i]
                          \/ streams[i] = NoConn /\ streams'[i] = c /\ sid'[c] = i
        /\ \A d \in Conn \ {c} : sid'[d] = sid[d]
    BY <1>3, OpenStreamsFacts DEF Serve
  <2>3. SlotHeld' /\ OneTunnel' /\ PausedNotClosed'
    BY <1>a, <2>1 DEF SlotHeld, OneTunnel, PausedNotClosed, TypeOK
  <2>4. TableExact'
    <3> SUFFICES ASSUME NEW i \in InUse'
                 PROVE  /\ mode'[streams'[i]] = "public"
                        /\ st'[streams'[i]] \in {"open", "destroyed"}
                        /\ sid'[streams'[i]] = i
      BY DEF TableExact
    <3>1. CASE streams'[i] = streams[i]
      BY <1>a, <2>1, <2>2, <3>1 DEF TableExact, InUse
    <3>2. CASE streams'[i] = c /\ sid'[c] = i
      BY <2>1, <3>2
    <3> QED BY <2>2, <3>1, <3>2 DEF InUse
  <2>5. StreamsNeedTunnel'
    BY <1>3, <2>1 DEF StreamsNeedTunnel, LiveTunnel
  <2>6. WaitingExact'
    BY <1>a, <2>1 DEF WaitingExact, TypeOK
  <2>7. NobodyLeftWaiting'
    BY <1>a, <2>1 DEF NobodyLeftWaiting, LiveTunnel, TypeOK
  <2> QED BY <2>3, <2>4, <2>5, <2>6, <2>7 DEF Tables
<1> QED BY <1>1, <1>2, <1>3 DEF handlePublicConnection

\* A new control connection becomes a candidate, or is refused.
LEMMA ControlTables ==
    ASSUME IInv, TypeOK', NEW c \in Conn, mode[c] = "none", attachControl(c), UNCHANGED hs,
           SinglePort => ~LiveTunnel
    PROVE  Tables'
<1> USE DEF IInv
<1>a. /\ tunnel # c
      /\ \A i \in InUse : streams[i] # c /\ streams[i] \in Conn
      /\ c \notin parked /\ c \notin pending
      /\ c \notin pausedForTunnel
  BY DEF SlotHeld, TableExact, WaitingExact, PausedNotClosed, InUse, TypeOK
<1>1. /\ UNCHANGED <<tunnel, streams, sid, parked, pausedForTunnel>>
      /\ \A d \in Conn \ {c} : mode'[d] = mode[d] /\ st'[d] = st[d]
      /\ flowing' \subseteq flowing \cup {c}
      /\ \/ mode'[c] = "refused" /\ st'[c] = "closed" /\ pending' = pending
         \/ mode'[c] = "candidate" /\ st'[c] = "open" /\ pending' = pending \cup {c}
  BY DEF attachControl, Refuse, slot, table, TypeOK
<1>2. SlotHeld' /\ OneTunnel' /\ PausedNotClosed'
  BY <1>a, <1>1 DEF SlotHeld, OneTunnel, PausedNotClosed, TypeOK
<1>3. TableExact' /\ StreamsNeedTunnel'
  BY <1>a, <1>1 DEF TableExact, StreamsNeedTunnel, InUse
<1>4. WaitingExact'
  BY <1>a, <1>1 DEF WaitingExact, TypeOK
<1>5. NobodyLeftWaiting'
  BY <1>a, <1>1 DEF NobodyLeftWaiting, LiveTunnel, TypeOK
<1> QED BY <1>2, <1>3, <1>4, <1>5 DEF Tables

\* Adopting a tunnel: nobody waits any more, and those who waited are streams
\* under free ids, or are gone.
LEMMA AdoptTables ==
    ASSUME IInv, TypeOK', NEW t \in Conn, AuthAccepted(t)
    PROVE  Tables'
<1> USE DEF IInv
<1> PICK A \in Admitted, T \in SUBSET Drained :
      /\ T \subseteq A
      /\ OpenStreams(A)
      /\ mode' = [d \in Conn |-> CASE d = t -> "control"
                                   [] d \in A -> "public"
                                   [] d \in (Silent \cup Drained) \ A -> "refused"
                                   [] OTHER -> mode[d]]
      /\ st' = [d \in Conn |-> IF d \in (Silent \cup Drained) \ A THEN "closed" ELSE st[d]]
      /\ Throttle(T)
      /\ flowing' = (flowing \cup A) \ ((Silent \cup Drained) \ A)
  BY DEF AuthAccepted
<1> DEFINE W == Silent \cup Drained
<1>1. /\ A \subseteq W /\ W \subseteq Conn /\ t \notin W
      /\ \A c \in W : st[c] = "open" /\ mode[c] \in {"candidate", "parked"}
  BY DEF Admitted, Silent, Drained, AuthAccepted, MayAdopt, Candidate, WaitingExact, TypeOK
<1>2. /\ mode'[t] = "control" /\ st'[t] = "open" /\ st[t] = "open" /\ mode[t] = "candidate"
      /\ \A c \in A : mode'[c] = "public" /\ st'[c] = "open"
      /\ \A c \in W \ A : mode'[c] = "refused" /\ st'[c] = "closed"
      /\ \A c \in Conn \ (W \cup {t}) : mode'[c] = mode[c] /\ st'[c] = st[c]
  BY <1>1 DEF AuthAccepted, MayAdopt, Candidate
<1>3. /\ \A i \in Ids : \/ streams'[i] = streams[i]
                        \/ streams[i] = NoConn /\ streams'[i] \in A /\ sid'[streams'[i]] = i
      /\ \A c \in Conn \ A : sid'[c] = sid[c]
  BY <1>1, OpenStreamsFacts
<1>4. tunnel' = t /\ parked' = {} /\ pending' = pending \ ({t} \cup Silent) /\ ~LiveTunnel /\ hs' = hs
  BY DEF AuthAccepted, MayAdopt
<1>5. SlotHeld'
  BY <1>2, <1>4 DEF SlotHeld
<1>6. OneTunnel'
  BY <1>1, <1>2, <1>4 DEF OneTunnel, LiveTunnel
<1>7. \A i \in InUse : streams[i] \in Conn \ (W \cup {t})
  BY <1>1, <1>2 DEF TableExact, InUse, TypeOK
<1>8. TableExact'
  <2> SUFFICES ASSUME NEW i \in InUse'
               PROVE  /\ mode'[streams'[i]] = "public"
                      /\ st'[streams'[i]] \in {"open", "destroyed"}
                      /\ sid'[streams'[i]] = i
    BY DEF TableExact
  <2>1. CASE streams'[i] = streams[i]
    <3>1. i \in InUse
      BY <2>1 DEF InUse
    <3> QED BY <1>1, <1>2, <1>3, <1>7, <2>1, <3>1 DEF TableExact
  <2>2. CASE streams'[i] \in A /\ sid'[streams'[i]] = i
    BY <1>2, <2>2
  <2> QED BY <1>3, <2>1, <2>2 DEF InUse
<1>9. StreamsNeedTunnel'
  BY <1>4 DEF StreamsNeedTunnel
<1>10. WaitingExact'
  <2>1. \A c \in pending' : mode'[c] = "candidate" /\ st'[c] \in {"open", "destroyed"}
    <3> SUFFICES ASSUME NEW c \in pending'
                 PROVE  mode'[c] = "candidate" /\ st'[c] \in {"open", "destroyed"}
      OBVIOUS
    <3>1. c \in pending /\ c # t /\ c \notin Silent /\ c \in Conn
      BY <1>4 DEF TypeOK
    <3>2. c \notin Drained
      BY <3>1 DEF Drained, WaitingExact
    <3> QED BY <1>2, <3>1, <3>2 DEF WaitingExact
  <2>2. \A c \in Conn : mode'[c] = "candidate" /\ st'[c] \in {"open", "destroyed"} => c \in pending'
    <3> SUFFICES ASSUME NEW c \in Conn, mode'[c] = "candidate", st'[c] \in {"open", "destroyed"}
                 PROVE  c \in pending'
      OBVIOUS
    <3>1. c \notin W \cup {t}
      BY <1>2
    <3> QED BY <1>2, <1>4, <3>1 DEF WaitingExact
  <2>3. \A c \in Conn : ~(mode'[c] = "parked" /\ st'[c] = "open")
    <3> SUFFICES ASSUME NEW c \in Conn, mode'[c] = "parked", st'[c] = "open" PROVE FALSE
      OBVIOUS
    <3>1. c \notin W \cup {t}
      BY <1>2
    <3>2. c \in Drained
      BY <1>2, <3>1 DEF Drained, WaitingExact
    <3> QED BY <3>1, <3>2
  <2> QED BY <1>4, <2>1, <2>2, <2>3 DEF WaitingExact
<1>11. NobodyLeftWaiting'
  <2> SUFFICES ASSUME NEW c \in pending', SinglePort /\ ParkMode, st'[c] = "open"
               PROVE  hs'[c] # "none"
    BY <1>4 DEF NobodyLeftWaiting
  <2>1. c \in pending /\ c # t /\ c \notin Silent /\ c \in Conn
    BY <1>4 DEF TypeOK
  <2>2. st[c] = "open"
    BY <1>1, <1>2, <2>1
  <2> QED BY <1>4, <2>1, <2>2 DEF Silent
<1>12. PausedNotClosed'
  <2>1. pausedForTunnel' = pausedForTunnel \cup T
    BY DEF Throttle
  <2>2. \A c \in pausedForTunnel : c \in Conn \ (W \cup {t})
    BY <1>1, <1>2 DEF PausedNotClosed, TypeOK
  <2> QED BY <1>2, <2>1, <2>2 DEF PausedNotClosed
<1> QED BY <1>5, <1>6, <1>8, <1>9, <1>10, <1>11, <1>12 DEF Tables

\* Every step of listen preserves the inductive invariant.
LEMMA InvStep == IInv /\ [Next]_vars => IInv'
<1> SUFFICES ASSUME IInv, [Next]_vars PROVE IInv'
  OBVIOUS
<1>t. TypeOK /\ TypeOK'
  BY TypeStep DEF IInv
<1> USE <1>t DEF slot, table, waiting, flow
<1>q. Tables' => IInv'
  BY DEF IInv, Tables
<1>1. ASSUME NEW c \in Conn, Destroy(c) PROVE Tables'
  <2>1. InPlaceStep
    BY <1>1 DEF InPlaceStep, Destroy, DestroyAll, TypeOK
  <2> QED BY <2>1, InPlace
<1>2. ASSUME NEW c \in Conn, Client(c) PROVE Tables'
  <2>1. CASE dispatch(c)
    <3>1. c \notin pending
      BY <2>1 DEF dispatch, IInv, WaitingExact
    <3>2. CASE LiveTunnel
      BY <2>1, <3>1, <3>2, PublicTables DEF dispatch, Public
    <3>3. CASE ~LiveTunnel
      BY <2>1, <3>3, ControlTables DEF dispatch
    <3> QED BY <3>2, <3>3
  <2>2. CASE ControlConnection(c)
    BY <2>2, ControlTables DEF ControlConnection
  <2>3. CASE PublicConnection(c)
    <3>1. c \notin pending
      BY <2>3 DEF PublicConnection, IInv, WaitingExact
    <3> QED BY <2>3, <3>1, PublicTables DEF PublicConnection, Public
  <2>4. CASE Reset(c)
    BY <2>4, <1>1 DEF Reset
  <2>5. CASE DataThrottled(c)
    <3>1. InPlaceStep
      BY <2>5 DEF InPlaceStep, DataThrottled, Throttle, TypeOK
    <3> QED BY <3>1, InPlace
  <2>6. CASE ClientEnd(c)
    <3>1. InPlaceStep
      BY <2>6 DEF InPlaceStep, ClientEnd, TypeOK
    <3> QED BY <3>1, InPlace
  <2> QED BY <1>2, <2>1, <2>2, <2>3, <2>4, <2>5, <2>6 DEF Client
<1>3. ASSUME NEW c \in Conn, Frame(c) PROVE Tables'
  <2>0. mode[c] = "public"
    BY <1>3 DEF Frame, FramePause, FrameResume, FrameShutdown, FrameClose, Receives,
                Served, IInv, TableExact
  <2>1. CASE FramePause(c)
    <3>1. InPlaceStep
      BY <2>1 DEF InPlaceStep, FramePause
    <3> QED BY <3>1, InPlace
  <2>2. CASE FrameResume(c)
    <3>1. InPlaceStep
      BY <2>0, <2>2 DEF InPlaceStep, FrameResume, Resume
    <3> QED BY <3>1, InPlace
  <2>3. CASE FrameShutdown(c)
    <3>1. InPlaceStep
      BY <2>3 DEF InPlaceStep, FrameShutdown
    <3> QED BY <3>1, InPlace
  <2>4. CASE FrameClose(c)
    <3>1. InPlaceStep
      BY <2>4 DEF InPlaceStep, FrameClose, StreamDeleted, DestroyAll, TypeOK
    <3> QED BY <3>1, InPlace
  <2> QED BY <1>3, <2>1, <2>2, <2>3, <2>4 DEF Frame
<1>4. ASSUME NEW c \in Conn, Feed(c) PROVE Tables'
  <2>1. CASE FeedMagic(c)
    <3>1. InPlaceStep
      BY <2>1 DEF InPlaceStep, FeedMagic, TypeOK
    <3> QED BY <3>1, InPlace
  <2>2. CASE FeedNotMagic(c)
    <3>1. \A d \in Conn : d # c => hs'[d] = hs[d]
      BY <2>2 DEF FeedNotMagic, TypeOK
    <3>2. CASE SinglePort /\ ParkMode
      <4>1. mode[c] = "candidate" /\ pending' = pending \ {c} /\ handlePublicConnection(c, TRUE)
        BY <2>2, <3>2 DEF FeedNotMagic, Candidate
      <4> QED BY <3>1, <4>1, PublicTables
    <3>3. CASE ~(SinglePort /\ ParkMode)
      <4>1. DestroyAll({c}) /\ UNCHANGED <<slot, table, waiting, flow, mode, shut>>
        BY <2>2, <3>3 DEF FeedNotMagic
      <4>2. \A d \in Conn : hs[d] # "none" => hs'[d] # "none"
        BY <2>2 DEF FeedNotMagic, TypeOK
      <4>i. InPlaceStep
        BY <4>1, <4>2 DEF InPlaceStep, DestroyAll, TypeOK
      <4> QED BY <4>i, InPlace
    <3> QED BY <3>2, <3>3
  <2>3. CASE FeedRefused(c)
    <3>1. \A d \in Conn : hs[d] # "none" => hs'[d] # "none"
      BY <2>3 DEF FeedRefused, TypeOK
    <3>i. InPlaceStep
      BY <2>3, <3>1 DEF InPlaceStep, FeedRefused, DestroyAll, TypeOK
    <3> QED BY <3>i, InPlace
  <2>4. CASE AuthRejected(c)
    BY <2>4, <1>1 DEF AuthRejected
  <2>5. CASE AuthAccepted(c)
    BY <2>5, AdoptTables
  <2> QED BY <1>4, <2>1, <2>2, <2>3, <2>4, <2>5 DEF Feed
<1>5. ASSUME NEW c \in Conn, ControlEnd(c) \/ Timeout(c) PROVE Tables'
  BY <1>1, <1>5 DEF ControlEnd, Timeout, ParkTimeout, AuthTimeout
<1>6. ASSUME NEW c \in Conn, Close(c) PROVE Tables'
  <2> USE DEF IInv
  <2>1. CASE AutoDestroy(c)
    BY <2>1, <1>1 DEF AutoDestroy
  <2>2. CASE ClientClose(c)
    <3>1. /\ UNCHANGED <<tunnel, sid, pending, parked, mode, hs>>
          /\ streams' = [streams EXCEPT ![sid[c]] = NoConn]
          /\ mode[c] = "public" /\ st'[c] = "closed"
          /\ \A d \in Conn \ {c} : st'[d] = st[d]
          /\ pausedForTunnel' = pausedForTunnel \ {c}
          /\ flowing' \subseteq flowing
      BY <2>2 DEF ClientClose, StreamDeleted, TypeOK
    <3>2. \A i \in InUse' : i \in InUse /\ streams'[i] = streams[i] /\ streams[i] \in Conn \ {c}
      BY <3>1 DEF InUse, TableExact, TypeOK
    <3>3. SlotHeld' /\ OneTunnel' /\ PausedNotClosed'
      BY <3>1 DEF SlotHeld, OneTunnel, PausedNotClosed, TypeOK
    <3>4. TableExact' /\ StreamsNeedTunnel'
      BY <3>1, <3>2 DEF TableExact, StreamsNeedTunnel
    <3>5. WaitingExact'
      BY <3>1 DEF WaitingExact, TypeOK
    <3>6. NobodyLeftWaiting'
      BY <3>1 DEF NobodyLeftWaiting, LiveTunnel, SlotHeld, TypeOK
    <3> QED BY <3>3, <3>4, <3>5, <3>6 DEF Tables
  <2>3. CASE ParkedClose(c)
    <3>1. /\ UNCHANGED <<tunnel, streams, sid, pending, mode, hs, flowing, pausedForTunnel>>
          /\ mode[c] = "parked" /\ st'[c] = "closed"
          /\ \A d \in Conn \ {c} : st'[d] = st[d]
          /\ parked' = parked \ {c}
      BY <2>3 DEF ParkedClose, TypeOK
    <3>2. SlotHeld' /\ OneTunnel' /\ PausedNotClosed'
      BY <3>1 DEF SlotHeld, OneTunnel, PausedNotClosed, TypeOK
    <3>3. TableExact' /\ StreamsNeedTunnel'
      BY <3>1 DEF TableExact, StreamsNeedTunnel, InUse, TypeOK
    <3>4. WaitingExact'
      BY <3>1 DEF WaitingExact, TypeOK
    <3>5. NobodyLeftWaiting'
      BY <3>1 DEF NobodyLeftWaiting, LiveTunnel, SlotHeld, TypeOK
    <3> QED BY <3>2, <3>3, <3>4, <3>5 DEF Tables
  <2>4. CASE ControlClose(c)
    <3>1. /\ UNCHANGED <<sid, parked, mode, hs, flowing>>
          /\ pending' = pending \ {c}
          /\ mode[c] \in {"candidate", "control"} /\ st[c] = "destroyed" /\ st'[c] = "closed"
          /\ \A d \in Conn \ {c} :
               \/ st'[d] = st[d]
               \/ d \in Served /\ st[d] = "open" /\ st'[d] = "destroyed"
      BY <2>4 DEF ControlClose, TornDown, Stranded, StreamsCleared, TypeOK
    <3>2. \/ tunnel = c /\ tunnel' = NoConn /\ streams' = [i \in Ids |-> NoConn] /\ pausedForTunnel' = {}
          \/ tunnel # c /\ UNCHANGED <<tunnel, streams, pausedForTunnel>>
      BY <2>4 DEF ControlClose, TornDown, StreamsCleared
    <3>3. \A d \in Served : mode[d] = "public" /\ d # c
      BY <3>1 DEF Served, TableExact
    <3>4. SlotHeld' /\ OneTunnel'
      BY <3>1, <3>2, <3>3 DEF SlotHeld, OneTunnel, TypeOK
    <3>5. PausedNotClosed'
      BY <3>1, <3>2 DEF PausedNotClosed, TypeOK
    <3>6. TableExact' /\ StreamsNeedTunnel'
      <4>1. CASE tunnel = c
        BY <3>2, <4>1 DEF TableExact, StreamsNeedTunnel, InUse
      <4>2. CASE tunnel # c
        BY <3>1, <3>2, <3>3, <4>2 DEF TableExact, StreamsNeedTunnel, InUse, Served, TypeOK
      <4> QED BY <4>1, <4>2
    <3>7. WaitingExact'
      BY <3>1, <3>3 DEF WaitingExact, TypeOK
    <3>8. NobodyLeftWaiting'
      BY <3>1, <3>2, <3>3 DEF NobodyLeftWaiting, LiveTunnel, SlotHeld, TypeOK
    <3> QED BY <3>4, <3>5, <3>6, <3>7, <3>8 DEF Tables
  <2> QED BY <1>6, <2>1, <2>2, <2>3, <2>4 DEF Close
<1>7. ASSUME TunnelDrain PROVE Tables'
  <2>1. InPlaceStep
    BY <1>7 DEF InPlaceStep, TunnelDrain, Resume, IInv, PausedNotClosed
  <2> QED BY <2>1, InPlace
<1>8. ASSUME TunnelDropped PROVE Tables'
  BY <1>8, <1>1 DEF TunnelDropped, LiveTunnel, TypeOK
<1>9. ASSUME TunnelReply \/ UNCHANGED vars PROVE Tables'
  <2>1. InPlaceStep
    BY <1>9 DEF InPlaceStep, TunnelReply, vars
  <2> QED BY <2>1, InPlace
<1> QED BY <1>q, <1>2, <1>3, <1>4, <1>5, <1>6, <1>7, <1>8, <1>9 DEF Next

\* The invariant holds in every reachable state, for any number of connections
\* and any limits.
THEOREM InvHolds == Spec => []IInv
<1>1. Init => IInv
  <2> SUFFICES ASSUME Init PROVE IInv
    OBVIOUS
  <2>1. TypeOK
    BY InitType
  <2>2. SlotHeld /\ OneTunnel /\ PausedNotClosed
    BY DEF Init, SlotHeld, OneTunnel, PausedNotClosed
  <2>3. TableExact /\ StreamsNeedTunnel
    BY DEF Init, TableExact, StreamsNeedTunnel, InUse
  <2>4. WaitingExact
    BY DEF Init, WaitingExact
  <2>5. NobodyLeftWaiting
    BY DEF Init, NobodyLeftWaiting, LiveTunnel
  <2> QED BY <2>1, <2>2, <2>3, <2>4, <2>5 DEF IInv
<1> QED BY <1>1, InvStep, PTL DEF Spec

\* Never two tunnels: an authenticated control socket that is open is the tunnel.
THEOREM OneTunnelHolds == Spec => []OneTunnel
BY InvHolds, PTL DEF IInv

\* The stream table never holds a closed socket or one under a foreign id.
THEOREM TableExactHolds == Spec => []TableExact
BY InvHolds, PTL DEF IInv

\* Teardown leaves no stream behind.
THEOREM StreamsNeedTunnelHolds == Spec => []StreamsNeedTunnel
BY InvHolds, PTL DEF IInv

\* Once a tunnel is up, nobody who came too early is still waiting.
THEOREM NobodyLeftWaitingHolds == Spec => []NobodyLeftWaiting
BY InvHolds, PTL DEF IInv

\* The slot is only ever taken over from null or from a destroyed socket.
THEOREM SlotNeverStolenHolds == Spec => SlotNeverStolen
<1>1. IInv /\ [Next]_vars => [tunnel' # tunnel /\ tunnel # NoConn => st[tunnel] # "open"]_vars
  <2> SUFFICES ASSUME IInv, Next, tunnel' # tunnel, tunnel # NoConn, st[tunnel] = "open"
               PROVE  FALSE
    BY DEF vars
  <2>1. LiveTunnel
    BY DEF LiveTunnel
  <2> USE DEF slot
  <2>2. ASSUME NEW c \in Conn, Client(c) \/ Frame(c) \/ Feed(c) \/ ControlEnd(c) \/ Timeout(c) PROVE FALSE
    BY <2>1, <2>2 DEF Client, Frame, Feed, ControlEnd, Timeout, dispatch, ControlConnection,
       PublicConnection, Public, handlePublicConnection, parkPublic, Refuse, Serve, attachControl,
       Reset, Destroy, DataThrottled, ClientEnd, FramePause, FrameResume, FrameShutdown, FrameClose,
       FeedMagic, FeedNotMagic, FeedRefused, AuthRejected, AuthAccepted, MayAdopt, ParkTimeout, AuthTimeout
  <2>3. ASSUME NEW c \in Conn, Close(c) PROVE FALSE
    BY <2>3 DEF Close, AutoDestroy, Destroy, ClientClose, ParkedClose, ControlClose, TornDown
  <2> QED BY <2>2, <2>3 DEF Next, TunnelDrain, TunnelReply, TunnelDropped, Destroy
<1> QED BY <1>1, InvHolds, PTL DEF Spec, SlotNeverStolen

-----------------------------------------------------------------------------
(* listen implements ClientService *)

\* What a connection is to the service, by its handlers and its socket.
ClientOf(c, m, s) ==
    IF m[c] \in {"none", "candidate", "control"} THEN "new"
    ELSE IF s[c] # "open" THEN "gone"
    ELSE IF m[c] = "public" THEN "served"
    ELSE IF m[c] = "parked" THEN "waiting"
    ELSE "gone"

LEMMA ClientStateIs == clientState = [c \in Conn |-> ClientOf(c, mode, st)]
BY DEF clientState, ClientOf

LEMMA ClientStateNext == clientState' = [c \in Conn |-> ClientOf(c, mode', st')]
BY DEF clientState, ClientOf

\* A step that leaves the tunnel as it is and at most loses clients.
LEMMA LeaveStep ==
    ASSUME LiveTunnel' = LiveTunnel,
           \A c \in Conn : \/ ClientOf(c, mode', st') = ClientOf(c, mode, st)
                           \/ ClientOf(c, mode, st) # "new" /\ ClientOf(c, mode', st') = "gone"
    PROVE  Service!Next
<1> DEFINE S == {c \in Conn : ClientOf(c, mode', st') = "gone"}
<1>1. clientState' = [c \in Conn |-> IF c \in S /\ clientState[c] # "new" THEN "gone" ELSE clientState[c]]
  BY ClientStateIs, ClientStateNext
<1>2. Service!Leave(S)
  BY <1>1 DEF Service!Leave
<1> QED BY <1>2 DEF Service!Next

\* A step that keeps the tunnel and settles one connection that was new.
LEMMA ArriveStep ==
    ASSUME LiveTunnel' = LiveTunnel, NEW c \in Conn, ClientOf(c, mode, st) = "new",
           \A d \in Conn \ {c} : ClientOf(d, mode', st') = ClientOf(d, mode, st),
           ClientOf(c, mode', st') \in {"gone", IF LiveTunnel THEN "served" ELSE "waiting"}
    PROVE  Service!Next
<1>1. clientState[c] = "new"
  BY ClientStateIs
<1>2. clientState' = [clientState EXCEPT ![c] = ClientOf(c, mode', st')]
  BY ClientStateIs, ClientStateNext
<1>3. Service!Arrive(c)
  BY <1>1, <1>2 DEF Service!Arrive
<1> QED BY <1>3 DEF Service!Next

\* destroy() of one open socket: the tunnel is lost, or at most a client is.
LEMMA DestroyServes ==
    ASSUME IInv, NEW c \in Conn, st[c] = "open", st' = [st EXCEPT ![c] = "destroyed"],
           tunnel' = tunnel, mode' = mode
    PROVE  Service!Next
<1>1. \A d \in Conn \ {c} : ClientOf(d, mode', st') = ClientOf(d, mode, st)
  BY DEF ClientOf, IInv, TypeOK
<1>2. CASE tunnel = c
  <2>1. LiveTunnel /\ ~LiveTunnel' /\ mode[c] = "control"
    BY <1>2 DEF LiveTunnel, IInv, TypeOK, SlotHeld
  <2>2. ClientOf(c, mode', st') = ClientOf(c, mode, st)
    BY <2>1 DEF ClientOf
  <2>3. clientState' = clientState
    BY <1>1, <2>2, ClientStateIs, ClientStateNext
  <2> QED BY <2>1, <2>3 DEF Service!Drop, Service!Next
<1>3. CASE tunnel # c
  <2>1. LiveTunnel' = LiveTunnel
    BY <1>3 DEF LiveTunnel, IInv, TypeOK
  <2>2. \/ ClientOf(c, mode', st') = ClientOf(c, mode, st)
        \/ ClientOf(c, mode, st) # "new" /\ ClientOf(c, mode', st') = "gone"
    BY DEF ClientOf, IInv, TypeOK
  <2> QED BY <1>1, <2>1, <2>2, LeaveStep
<1> QED BY <1>2, <1>3

\* Serving, parking or refusing a client is an arrival.
LEMMA PublicServes ==
    ASSUME IInv, NEW c \in Conn, NEW initial \in BOOLEAN,
           mode[c] \in {"none", "candidate"}, handlePublicConnection(c, initial)
    PROVE  Service!Next
<1>1. tunnel # c /\ ClientOf(c, mode, st) = "new"
  BY DEF IInv, SlotHeld, ClientOf
<1>2. /\ tunnel' = tunnel
      /\ \A d \in Conn \ {c} : mode'[d] = mode[d] /\ st'[d] = st[d]
      /\ \/ mode'[c] = "refused" /\ st'[c] = "closed"
         \/ ~LiveTunnel /\ mode'[c] = "parked" /\ st'[c] = "open"
         \/ LiveTunnel /\ mode'[c] = "public" /\ st'[c] = "open"
  BY DEF handlePublicConnection, parkPublic, Refuse, Serve, slot, IInv, TypeOK
<1>3. LiveTunnel' = LiveTunnel
  BY <1>1, <1>2 DEF LiveTunnel, IInv, TypeOK
<1>4. \A d \in Conn \ {c} : ClientOf(d, mode', st') = ClientOf(d, mode, st)
  BY <1>2 DEF ClientOf
<1>5. ClientOf(c, mode', st') \in {"gone", IF LiveTunnel THEN "served" ELSE "waiting"}
  BY <1>2 DEF ClientOf
<1> QED BY <1>1, <1>3, <1>4, <1>5, ArriveStep

\* Attaching a control handler tells the service nothing, unless it refuses.
LEMMA ControlServes ==
    ASSUME IInv, NEW c \in Conn, mode[c] = "none", attachControl(c)
    PROVE  Service!Next
<1>1. tunnel # c /\ ClientOf(c, mode, st) = "new"
  BY DEF IInv, SlotHeld, ClientOf
<1>2. /\ tunnel' = tunnel
      /\ \A d \in Conn \ {c} : mode'[d] = mode[d] /\ st'[d] = st[d]
      /\ mode'[c] = "refused" \/ mode'[c] = "candidate"
  BY DEF attachControl, Refuse, slot, IInv, TypeOK
<1>3. LiveTunnel' = LiveTunnel
  BY <1>1, <1>2 DEF LiveTunnel, IInv, TypeOK
<1>4. \A d \in Conn \ {c} : ClientOf(d, mode', st') = ClientOf(d, mode, st)
  BY <1>2 DEF ClientOf
<1>5. CASE mode'[c] = "refused"
  <2>1. ClientOf(c, mode', st') = "gone"
    BY <1>5 DEF ClientOf
  <2> QED BY <1>1, <1>3, <1>4, <2>1, ArriveStep
<1>6. CASE mode'[c] = "candidate"
  <2>1. ClientOf(c, mode', st') = "new"
    BY <1>6 DEF ClientOf
  <2> QED BY <1>1, <1>3, <1>4, <2>1, LeaveStep
<1> QED BY <1>2, <1>5, <1>6

\* Adopting a tunnel settles every client that waited, and only those.
LEMMA AdoptServes ==
    ASSUME IInv, NEW t \in Conn, AuthAccepted(t)
    PROVE  Service!Next
<1> DEFINE W == Silent \cup Drained
<1> PICK A \in Admitted :
      /\ mode' = [d \in Conn |-> CASE d = t -> "control"
                                   [] d \in A -> "public"
                                   [] d \in W \ A -> "refused"
                                   [] OTHER -> mode[d]]
      /\ st' = [d \in Conn |-> IF d \in W \ A THEN "closed" ELSE st[d]]
  BY DEF AuthAccepted
<1>1. /\ A \subseteq W /\ W \subseteq Conn /\ t \notin W
      /\ \A c \in W : st[c] = "open" /\ mode[c] \in {"candidate", "parked"}
      /\ mode[t] = "candidate" /\ st[t] = "open"
  BY DEF Admitted, Silent, Drained, AuthAccepted, MayAdopt, Candidate, WaitingExact, IInv, TypeOK
<1>2. /\ mode'[t] = "control" /\ st'[t] = "open"
      /\ \A c \in A : mode'[c] = "public" /\ st'[c] = "open"
      /\ \A c \in W \ A : mode'[c] = "refused" /\ st'[c] = "closed"
      /\ \A c \in Conn \ (W \cup {t}) : mode'[c] = mode[c] /\ st'[c] = st[c]
  BY <1>1
<1>3. ~LiveTunnel /\ LiveTunnel'
  BY <1>2 DEF AuthAccepted, MayAdopt, LiveTunnel
<1>4. /\ \A c \in W : ClientOf(c, mode, st) \in {"new", "waiting"}
      /\ \A c \in Conn : ClientOf(c, mode, st) = "waiting" => c \in W
  BY <1>1 DEF ClientOf, Drained, WaitingExact, IInv
<1>5. \A c \in Conn : ClientOf(c, mode', st') = IF c \in A THEN "served" ELSE IF c \in W THEN "gone"
                                                ELSE ClientOf(c, mode, st)
  <2> SUFFICES ASSUME NEW c \in Conn
               PROVE  ClientOf(c, mode', st') = IF c \in A THEN "served" ELSE IF c \in W THEN "gone"
                                                ELSE ClientOf(c, mode, st)
    OBVIOUS
  <2>1. CASE c \in A
    BY <1>1, <1>2, <2>1 DEF ClientOf
  <2>2. CASE c \in W \ A
    BY <1>1, <1>2, <2>2 DEF ClientOf
  <2>3. CASE c = t
    BY <1>1, <1>2, <2>3 DEF ClientOf
  <2>4. CASE c \notin W \cup {t}
    BY <1>1, <1>2, <2>4 DEF ClientOf
  <2> QED BY <2>1, <2>2, <2>3, <2>4
<1> HIDE DEF W
<1> DEFINE f == [c \in W |-> IF c \in A THEN "served" ELSE "gone"]
<1>6. clientState' = [c \in Conn |-> IF c \in W THEN f[c] ELSE clientState[c]]
  BY <1>1, <1>5, ClientStateIs, ClientStateNext
<1>7. \A c \in W : clientState[c] \in {"new", "waiting"}
  BY <1>1, <1>4, ClientStateIs
<1>8. \A c \in Conn : clientState[c] = "waiting" => c \in W
  BY <1>4, ClientStateIs
<1>9. f \in [W -> {"served", "gone"}]
  OBVIOUS
<1>10. W \in SUBSET Conn
  BY <1>1
<1> HIDE DEF f
<1>11. Service!Establish
  BY <1>3, <1>6, <1>7, <1>8, <1>9, <1>10 DEF Service!Establish
<1> QED BY <1>11 DEF Service!Next

\* A step that leaves every handler and socket where it was is none of the service's.
LEMMA SameServes ==
    ASSUME tunnel' = tunnel, mode' = mode, st' = st
    PROVE  Service!Next
<1>1. LiveTunnel' = LiveTunnel
  BY DEF LiveTunnel
<1>2. \A c \in Conn : ClientOf(c, mode', st') = ClientOf(c, mode, st)
  BY DEF ClientOf
<1> QED BY <1>1, <1>2, LeaveStep

\* Closing a socket that was destroyed, and with a tunnel its streams, only
\* loses clients.
LEMMA CloseServes ==
    ASSUME IInv, NEW c \in Conn, Close(c)
    PROVE  Service!Next
<1>1. CASE AutoDestroy(c)
  BY <1>1, DestroyServes DEF AutoDestroy, Destroy, DestroyAll, slot, IInv, TypeOK
<1>2. CASE ClientClose(c) \/ ParkedClose(c)
  <2>1. /\ tunnel' = tunnel /\ mode' = mode /\ st[c] = "destroyed" /\ st'[c] = "closed"
        /\ mode[c] \in {"public", "parked"}
        /\ \A d \in Conn \ {c} : st'[d] = st[d]
    BY <1>2 DEF ClientClose, ParkedClose, slot, IInv, TypeOK
  <2>2. LiveTunnel' = LiveTunnel
    BY <2>1 DEF LiveTunnel, SlotHeld, IInv, TypeOK
  <2>3. \A d \in Conn : ClientOf(d, mode', st') = ClientOf(d, mode, st)
    BY <2>1 DEF ClientOf
  <2> QED BY <2>2, <2>3, LeaveStep
<1>3. CASE ControlClose(c)
  <2>1. /\ mode' = mode /\ st[c] = "destroyed" /\ st'[c] = "closed"
        /\ mode[c] \in {"candidate", "control"}
        /\ \A d \in Conn \ {c} : \/ st'[d] = st[d]
                                 \/ d \in Served /\ st[d] = "open" /\ st'[d] = "destroyed"
        /\ \/ tunnel = c /\ tunnel' = NoConn
           \/ tunnel # c /\ tunnel' = tunnel
    <3>1. CASE tunnel = c
      <4>1. /\ tunnel' = NoConn /\ mode' = mode /\ st[c] = "destroyed" /\ mode[c] \in {"candidate", "control"}
            /\ st' = [d \in Conn |-> CASE d = c -> "closed"
                                       [] d # c /\ d \in Stranded -> "destroyed"
                                       [] OTHER -> st[d]]
        BY <1>3, <3>1 DEF ControlClose, TornDown
      <4>2. /\ st'[c] = "closed"
            /\ \A d \in Conn \ {c} : \/ st'[d] = st[d]
                                     \/ d \in Stranded /\ st'[d] = "destroyed"
        BY <4>1
      <4> QED BY <3>1, <4>1, <4>2 DEF Stranded
    <3>2. CASE tunnel # c
      BY <1>3, <3>2 DEF ControlClose, TornDown, slot, IInv, TypeOK
    <3> QED BY <3>1, <3>2
  <2>2. \A d \in Served : d \in Conn /\ mode[d] = "public"
    BY DEF Served, InUse, TableExact, IInv, TypeOK
  <2>3. LiveTunnel' = LiveTunnel
    <3>1. CASE tunnel = c
      BY <2>1, <3>1 DEF LiveTunnel
    <3>2. CASE tunnel # c /\ tunnel' = tunnel
      <4>1. tunnel # NoConn => st'[tunnel] = st[tunnel]
        BY <2>1, <2>2, <3>2 DEF SlotHeld, IInv, TypeOK
      <4> QED BY <3>2, <4>1 DEF LiveTunnel
    <3> QED BY <2>1, <3>1, <3>2
  <2>4. \A d \in Conn : \/ ClientOf(d, mode', st') = ClientOf(d, mode, st)
                        \/ ClientOf(d, mode, st) # "new" /\ ClientOf(d, mode', st') = "gone"
    BY <2>1, <2>2 DEF ClientOf
  <2> QED BY <2>3, <2>4, LeaveStep
<1> QED BY <1>1, <1>2, <1>3 DEF Close

\* Every step of listen is a step of the service, or none of its concern.
LEMMA ServiceStep == IInv /\ [Next]_vars => [Service!Next]_(Service!vars)
<1> SUFFICES ASSUME IInv, [Next]_vars PROVE Service!Next \/ UNCHANGED Service!vars
  OBVIOUS
<1> USE DEF slot
<1>d. ASSUME NEW c \in Conn, Destroy(c), st[c] = "open" PROVE Service!Next
  BY <1>d, DestroyServes DEF Destroy, DestroyAll, IInv, TypeOK
<1>1. ASSUME NEW c \in Conn, Client(c) PROVE Service!Next
  <2>1. CASE dispatch(c)
    BY <2>1, PublicServes, ControlServes DEF dispatch, Public
  <2>2. CASE ControlConnection(c)
    BY <2>2, ControlServes DEF ControlConnection
  <2>3. CASE PublicConnection(c)
    BY <2>3, PublicServes DEF PublicConnection, Public
  <2>4. CASE Reset(c)
    BY <2>4, <1>d DEF Reset
  <2>5. CASE DataThrottled(c) \/ ClientEnd(c)
    BY <2>5, SameServes DEF DataThrottled, ClientEnd
  <2> QED BY <1>1, <2>1, <2>2, <2>3, <2>4, <2>5 DEF Client
<1>2. ASSUME NEW c \in Conn, Frame(c) PROVE Service!Next
  <2>1. CASE FramePause(c) \/ FrameResume(c) \/ FrameShutdown(c)
    BY <2>1, SameServes DEF FramePause, FrameResume, FrameShutdown
  <2>2. CASE FrameClose(c)
    <3>1. tunnel' = tunnel /\ mode' = mode
      BY <2>2 DEF FrameClose
    <3>2. CASE st' = st
      BY <3>1, <3>2, SameServes
    <3>3. CASE st[c] = "open" /\ st' = [st EXCEPT ![c] = "destroyed"]
      BY <3>1, <3>3, DestroyServes
    <3>4. st' = st \/ (st[c] = "open" /\ st' = [st EXCEPT ![c] = "destroyed"])
      <4>1. st' = st \/ DestroyAll({c})
        BY <2>2 DEF FrameClose
      <4> QED BY <4>1 DEF DestroyAll, IInv, TypeOK
    <3> QED BY <3>2, <3>3, <3>4
  <2> QED BY <1>2, <2>1, <2>2 DEF Frame
<1>3. ASSUME NEW c \in Conn, Feed(c) PROVE Service!Next
  <2>1. CASE FeedMagic(c)
    BY <2>1, SameServes DEF FeedMagic
  <2>2. CASE FeedNotMagic(c)
    <3>1. CASE SinglePort /\ ParkMode
      BY <2>2, <3>1, PublicServes DEF FeedNotMagic, Candidate
    <3>2. CASE ~(SinglePort /\ ParkMode)
      <4>1. /\ st[c] = "open" /\ DestroyAll({c}) /\ tunnel' = tunnel /\ mode' = mode
        BY <2>2, <3>2 DEF FeedNotMagic, Candidate
      <4> QED BY <4>1, DestroyServes DEF DestroyAll, IInv, TypeOK
    <3> QED BY <3>1, <3>2
  <2>3. CASE FeedRefused(c)
    <3>1. st[c] = "open" /\ DestroyAll({c}) /\ tunnel' = tunnel /\ mode' = mode
      BY <2>3 DEF FeedRefused, Candidate
    <3> QED BY <3>1, DestroyServes DEF DestroyAll, IInv, TypeOK
  <2>4. CASE AuthRejected(c)
    BY <2>4, <1>d DEF AuthRejected, Candidate
  <2>5. CASE AuthAccepted(c)
    BY <2>5, AdoptServes
  <2> QED BY <1>3, <2>1, <2>2, <2>3, <2>4, <2>5 DEF Feed
<1>4. ASSUME NEW c \in Conn, ControlEnd(c) \/ Timeout(c) PROVE Service!Next
  BY <1>4, <1>d DEF ControlEnd, Timeout, ParkTimeout, AuthTimeout, Candidate
<1>5. CASE TunnelDrain \/ TunnelReply
  BY <1>5, SameServes DEF TunnelDrain, TunnelReply
<1>6. CASE TunnelDropped
  <2>1. tunnel \in Conn /\ st[tunnel] = "open" /\ Destroy(tunnel)
    BY <1>6 DEF TunnelDropped, LiveTunnel, IInv, TypeOK
  <2> QED BY <2>1, <1>d
<1>7. CASE UNCHANGED vars
  <2>1. tunnel' = tunnel /\ mode' = mode /\ st' = st
    BY <1>7 DEF vars
  <2> QED BY <2>1, SameServes
<1> QED BY <1>1, <1>2, <1>3, <1>4, <1>5, <1>6, <1>7, CloseServes DEF Next

\* listen implements the service it promises its clients, for any number of
\* connections: each of its steps serves, parks, drops or settles clients as
\* ClientService lets it, or does not touch them.
THEOREM ServiceImplemented == Spec => ImplementsService
<1>1. Init => Service!Init
  <2> SUFFICES ASSUME Init PROVE Service!Init
    OBVIOUS
  <2>1. LiveTunnel = FALSE
    BY DEF Init, LiveTunnel
  <2>2. clientState = [c \in Conn |-> "new"]
    BY ClientStateIs DEF Init, ClientOf
  <2> QED BY <2>1, <2>2 DEF Service!Init
<1> QED BY <1>1, ServiceStep, InvHolds, PTL DEF Spec, ImplementsService, Service!Spec

-----------------------------------------------------------------------------
(* MAX_STREAMS *)

\* The bounds, and what counting needs: only finitely many sockets wait.
Bounds == IsFiniteSet(pending) /\ IsFiniteSet(parked) /\ StreamsBounded

\* The ids in use are finitely many.
LEMMA IdsFinite == \A S \in SUBSET Ids : IsFiniteSet(S) /\ Cardinality(S) \in Nat
<1>1. IsFiniteSet(Ids)
  BY FS_Interval DEF Ids
<1> QED BY <1>1, FS_Subset, FS_CardinalityType

\* Opening streams for the sockets of S takes at most one id each.
LEMMA OpenStreamsCount ==
    ASSUME TypeOK, NEW S \in SUBSET Conn, OpenStreams(S), IsFiniteSet(S)
    PROVE  Cardinality(InUse') <= Cardinality(InUse) + Cardinality(S)
<1> DEFINE New == InUse' \ InUse
<1>1. \A i \in New : streams'[i] \in S /\ sid'[streams'[i]] = i
  BY OpenStreamsFacts DEF InUse
<1>2. /\ InUse \in SUBSET Ids /\ New \in SUBSET Ids
      /\ IsFiniteSet(InUse) /\ IsFiniteSet(New) /\ IsFiniteSet(InUse \cap New) /\ IsFiniteSet(InUse \cup New)
      /\ Cardinality(InUse) \in Nat /\ Cardinality(New) \in Nat /\ Cardinality(InUse \cap New) = 0
      /\ Cardinality(InUse \cup New) = Cardinality(InUse) + Cardinality(New)
  <2>1. InUse \in SUBSET Ids /\ New \in SUBSET Ids /\ InUse \cap New = {}
    BY DEF InUse
  <2>2. IsFiniteSet(InUse) /\ IsFiniteSet(New) /\ Cardinality(InUse) \in Nat /\ Cardinality(New) \in Nat
    BY <2>1, IdsFinite
  <2> HIDE DEF New
  <2>3. Cardinality(InUse \cap New) = 0 /\ IsFiniteSet(InUse \cap New)
    BY <2>1, FS_EmptySet
  <2>4. /\ IsFiniteSet(InUse \cup New)
        /\ Cardinality(InUse \cup New)
             = Cardinality(InUse) + Cardinality(New) - Cardinality(InUse \cap New)
    BY <2>2, FS_Union
  <2> QED BY <2>1, <2>2, <2>3, <2>4
<1>3. Cardinality(S) \in Nat
  BY FS_CardinalityType
<1>4. Cardinality(New) <= Cardinality(S)
  <2>1. CASE New = {}
    <3>1. Cardinality(New) = 0
      BY <2>1, FS_EmptySet
    <3> HIDE DEF New
    <3> QED BY <1>3, <3>1
  <2>2. CASE New # {}
    <3> PICK n \in New : TRUE
      BY <2>2
    <3> DEFINE g == [c \in S |-> IF sid'[c] \in New THEN sid'[c] ELSE n]
    <3>1. g \in Surjection(S, New)
      <4>1. g \in [S -> New]
        OBVIOUS
      <4>2. \A i \in New : streams'[i] \in S /\ g[streams'[i]] = i
        BY <1>1
      <4> HIDE DEF g, New
      <4> QED BY <4>1, <4>2 DEF Surjection
    <3> HIDE DEF g, New
    <3> QED BY <3>1, FS_Surjection
  <2> QED BY <2>1, <2>2
<1>5. InUse' \subseteq InUse \cup New
  OBVIOUS
<1>6. InUse' \in SUBSET Ids /\ Cardinality(InUse') <= Cardinality(InUse \cup New) /\ Cardinality(InUse') \in Nat
  <2>1. InUse' \in SUBSET Ids
    BY DEF InUse
  <2> HIDE DEF New
  <2> QED BY <1>2, <1>5, <2>1, IdsFinite, FS_Subset
<1> HIDE DEF New
<1> QED BY <1>2, <1>3, <1>4, <1>6

\* A step that adds no stream and parks nobody keeps the bounds.
LEMMA ShrinkBounds ==
    ASSUME Bounds, TypeOK, NEW c \in Conn, InUse' \subseteq InUse, parked' \subseteq parked,
           pending' \subseteq pending \cup {c}
    PROVE  Bounds'
<1>1. IsFiniteSet(pending') /\ IsFiniteSet(parked')
  <2>1. IsFiniteSet(pending \cup {c})
    BY FS_AddElement DEF Bounds
  <2> QED BY <2>1, FS_Subset DEF Bounds
<1>2. Cardinality(InUse') <= Cardinality(InUse) /\ Cardinality(parked') <= Cardinality(parked)
  <2>1. InUse \in SUBSET Ids
    BY DEF InUse
  <2> QED BY <2>1, IdsFinite, FS_Subset DEF Bounds
<1>3. /\ Cardinality(InUse') \in Nat /\ Cardinality(InUse) \in Nat
      /\ Cardinality(parked') \in Nat /\ Cardinality(parked) \in Nat
  <2>1. InUse \in SUBSET Ids /\ InUse' \in SUBSET Ids
    BY DEF InUse
  <2> QED BY <1>1, <2>1, IdsFinite, FS_CardinalityType DEF Bounds
<1> QED BY <1>1, <1>2, <1>3 DEF Bounds, StreamsBounded

\* Serving or parking one more client keeps the bounds: each is counted first.
LEMMA PublicBounds ==
    ASSUME Bounds, TypeOK, NEW c \in Conn, NEW initial \in BOOLEAN,
           handlePublicConnection(c, initial), pending' \subseteq pending
    PROVE  Bounds'
<1>1. CASE Refuse(c)
  <2>1. InUse' = InUse /\ parked' = parked
    BY <1>1 DEF Refuse, slot, table, InUse
  <2> QED BY <2>1, ShrinkBounds
<1>2. CASE ~Refuse(c) /\ ~LiveTunnel
  <2>1. InUse' = InUse /\ parked' = parked \cup {c} /\ ~(Cardinality(parked) >= MaxStreams)
    BY <1>2 DEF handlePublicConnection, parkPublic, slot, table, InUse
  <2>2. IsFiniteSet(parked) /\ Cardinality(parked) \in Nat
    BY FS_CardinalityType DEF Bounds
  <2>3. /\ IsFiniteSet(parked')
        /\ Cardinality(parked') = IF c \in parked THEN Cardinality(parked) ELSE Cardinality(parked) + 1
    BY <2>1, <2>2, FS_AddElement
  <2>4. IsFiniteSet(pending')
    BY FS_Subset DEF Bounds
  <2>5. Cardinality(parked') <= MaxStreams
    BY <2>1, <2>2, <2>3
  <2> QED BY <2>1, <2>3, <2>4, <2>5 DEF Bounds, StreamsBounded
<1>3. CASE LiveTunnel /\ HasRoom /\ Serve(c, initial)
  <2>1. OpenStreams({c}) /\ parked' = parked
    BY <1>3 DEF Serve
  <2>2. IsFiniteSet({c}) /\ Cardinality({c}) = 1
    BY FS_Singleton
  <2>3. Cardinality(InUse') <= Cardinality(InUse) + 1
    BY <2>1, <2>2, OpenStreamsCount
  <2>4. Cardinality(InUse) \in Nat /\ Cardinality(InUse') \in Nat
    BY IdsFinite DEF InUse
  <2>5. Cardinality(InUse') <= MaxStreams
    BY <1>3, <2>3, <2>4 DEF HasRoom
  <2>6. IsFiniteSet(pending')
    BY FS_Subset DEF Bounds
  <2> QED BY <2>1, <2>5, <2>6 DEF Bounds, StreamsBounded
<1> QED BY <1>1, <1>2, <1>3 DEF handlePublicConnection

\* Adopting a tunnel serves as many of those who wait as there is room for.
LEMMA AdoptBounds ==
    ASSUME Bounds, TypeOK, NEW t \in Conn, AuthAccepted(t)
    PROVE  Bounds'
<1> DEFINE W == Silent \cup Drained
<1> PICK A \in Admitted : OpenStreams(A)
  BY DEF AuthAccepted
<1>1. /\ A \subseteq W /\ A \in SUBSET Conn
      /\ Cardinality(A) = MinOf(Cardinality(W), MaxStreams - Cardinality(InUse))
  BY DEF Admitted, Silent, Drained, TypeOK
<1>2. IsFiniteSet(W)
  <2>1. Silent \in SUBSET pending /\ Drained \in SUBSET parked
    BY DEF Silent, Drained
  <2>2. IsFiniteSet(Silent) /\ IsFiniteSet(Drained)
    BY <2>1, FS_Subset DEF Bounds
  <2> QED BY <2>2, FS_Union
<1> HIDE DEF W
<1>3. IsFiniteSet(A) /\ Cardinality(A) \in Nat /\ Cardinality(W) \in Nat
  BY <1>1, <1>2, FS_Subset, FS_CardinalityType
<1>4. Cardinality(InUse) \in Nat /\ Cardinality(InUse') \in Nat /\ Cardinality(InUse) <= MaxStreams
  BY IdsFinite DEF InUse, Bounds, StreamsBounded
<1>5. Cardinality(A) <= MaxStreams - Cardinality(InUse)
  BY <1>1, <1>3, <1>4 DEF MinOf
<1>6. Cardinality(InUse') <= Cardinality(InUse) + Cardinality(A)
  BY <1>1, <1>3, OpenStreamsCount
<1>7. Cardinality(InUse') <= MaxStreams
  BY <1>3, <1>4, <1>5, <1>6
<1>8. parked' = {} /\ pending' \subseteq pending
  BY DEF AuthAccepted
<1>9. IsFiniteSet(pending') /\ IsFiniteSet(parked') /\ Cardinality(parked') <= MaxStreams
  BY <1>8, FS_Subset, FS_EmptySet DEF Bounds
<1> QED BY <1>7, <1>9 DEF Bounds, StreamsBounded

\* Every step keeps the bounds.
LEMMA BoundsStep == TypeOK /\ Bounds /\ [Next]_vars => Bounds'
<1> SUFFICES ASSUME TypeOK, Bounds, [Next]_vars PROVE Bounds'
  OBVIOUS
<1> USE DEF slot, table, waiting
<1>0. ASSUME NEW c \in Conn, UNCHANGED <<streams, waiting>> PROVE Bounds'
  <2>1. InUse' = InUse /\ parked' = parked /\ pending' = pending
    BY <1>0 DEF InUse
  <2> QED BY <2>1, ShrinkBounds
<1>a. ASSUME NEW c \in Conn, attachControl(c) \/ (Refuse(c) /\ UNCHANGED pending) PROVE Bounds'
  <2>1. InUse' = InUse /\ parked' = parked /\ pending' \subseteq pending \cup {c}
    BY <1>a DEF attachControl, Refuse, InUse
  <2> QED BY <2>1, ShrinkBounds
<1>1. ASSUME NEW c \in Conn, Client(c) PROVE Bounds'
  <2>1. CASE dispatch(c) \/ ControlConnection(c) \/ PublicConnection(c)
    BY <1>a, <2>1, PublicBounds DEF dispatch, ControlConnection, PublicConnection, Public
  <2>2. CASE Reset(c) \/ DataThrottled(c) \/ ClientEnd(c)
    BY <1>0, <2>2 DEF Reset, Destroy, DataThrottled, ClientEnd
  <2> QED BY <1>1, <2>1, <2>2 DEF Client
<1>2. ASSUME NEW c \in Conn, Frame(c) PROVE Bounds'
  <2>1. CASE FramePause(c) \/ FrameResume(c) \/ FrameShutdown(c)
    BY <1>0, <2>1 DEF FramePause, FrameResume, FrameShutdown
  <2>2. CASE FrameClose(c)
    <3>1. InUse' \subseteq InUse /\ parked' = parked /\ pending' = pending
      BY <2>2 DEF FrameClose, StreamDeleted, InUse, TypeOK
    <3> QED BY <3>1, ShrinkBounds
  <2> QED BY <1>2, <2>1, <2>2 DEF Frame
<1>3. ASSUME NEW c \in Conn, Feed(c) PROVE Bounds'
  <2>1. CASE FeedMagic(c) \/ FeedRefused(c) \/ AuthRejected(c)
    BY <1>0, <2>1 DEF FeedMagic, FeedRefused, AuthRejected, Destroy
  <2>2. CASE FeedNotMagic(c)
    <3>1. CASE SinglePort /\ ParkMode
      <4>1. handlePublicConnection(c, TRUE) /\ pending' \subseteq pending
        BY <2>2, <3>1 DEF FeedNotMagic
      <4> QED BY <4>1, PublicBounds
    <3>2. CASE ~(SinglePort /\ ParkMode)
      BY <1>0, <2>2, <3>2 DEF FeedNotMagic
    <3> QED BY <3>1, <3>2
  <2>3. CASE AuthAccepted(c)
    BY <2>3, AdoptBounds
  <2> QED BY <1>3, <2>1, <2>2, <2>3 DEF Feed
<1>4. ASSUME NEW c \in Conn, ControlEnd(c) \/ Timeout(c) PROVE Bounds'
  BY <1>0, <1>4 DEF ControlEnd, Timeout, ParkTimeout, AuthTimeout, Destroy
<1>5. ASSUME NEW c \in Conn, Close(c) PROVE Bounds'
  <2>1. CASE AutoDestroy(c)
    BY <1>0, <2>1 DEF AutoDestroy, Destroy
  <2>2. CASE ClientClose(c)
    <3>1. InUse' \subseteq InUse /\ parked' = parked /\ pending' = pending
      BY <2>2 DEF ClientClose, StreamDeleted, InUse, TypeOK
    <3> QED BY <3>1, ShrinkBounds
  <2>3. CASE ParkedClose(c)
    <3>1. InUse' = InUse /\ parked' \subseteq parked /\ pending' = pending
      BY <2>3 DEF ParkedClose, InUse
    <3> QED BY <3>1, ShrinkBounds
  <2>4. CASE ControlClose(c)
    <3>1. parked' = parked /\ pending' \subseteq pending
      BY <2>4 DEF ControlClose
    <3>2. streams' = streams \/ streams' = [i \in Ids |-> NoConn]
      BY <2>4 DEF ControlClose, StreamsCleared
    <3>3. InUse' \subseteq InUse
      BY <3>2 DEF InUse
    <3> QED BY <3>1, <3>3, ShrinkBounds
  <2> QED BY <1>5, <2>1, <2>2, <2>3, <2>4 DEF Close
<1>6. CASE TunnelDrain \/ TunnelReply \/ TunnelDropped \/ UNCHANGED vars
  <2>1. InUse' = InUse /\ parked' = parked /\ pending' = pending
    BY <1>6 DEF TunnelDrain, TunnelReply, TunnelDropped, Destroy, vars, InUse
  <2>2. IsFiniteSet(pending') /\ IsFiniteSet(parked') /\ StreamsBounded'
    BY <2>1 DEF Bounds, StreamsBounded
  <2> QED BY <2>2 DEF Bounds
<1> QED BY <1>1, <1>2, <1>3, <1>4, <1>5, <1>6 DEF Next

\* There are never more than MAX_STREAMS streams, nor more clients parked, also
\* when a tunnel comes up with more clients waiting than there is room for.
THEOREM StreamsBoundedHolds == Spec => []StreamsBounded
<1>1. Init => Bounds
  <2> SUFFICES ASSUME Init PROVE Bounds
    OBVIOUS
  <2>1. pending = {} /\ parked = {} /\ InUse = {}
    BY DEF Init, InUse
  <2> QED BY <2>1, FS_EmptySet DEF Bounds, StreamsBounded
<1>2. Bounds => StreamsBounded
  BY DEF Bounds
<1> QED BY <1>1, <1>2, BoundsStep, TypeCorrect, PTL DEF Spec

-----------------------------------------------------------------------------
(* Reading paused by a full tunnel *)

\* Who is paused, and for which tunnel: a stream's OPEN was carried by a control
\* socket, and a socket that is not served has no reason to pause.
WakerInv ==
    /\ \A c \in Conn : born[c] # NoConn => mode[born[c]] = "control"
    /\ \A c \in Conn : mode[c] # "public" => pf[c] = {}
    /\ PauseHasWaker

\* Steps that open no stream, and pause for the tunnel only sockets that they
\* list, while the tunnel owes a 'drain'.
KeepsWakers ==
    /\ tunnel' \in {tunnel, NoConn} /\ born' = born
    /\ \A i \in Ids : streams'[i] \in {streams[i], NoConn}
    /\ \A c \in Conn : mode[c] \in {"control", "public"} => mode'[c] = mode[c] /\ (st'[c] = "open" => st[c] = "open")
    /\ \A c \in Conn : mode'[c] # "public" => pf'[c] \subseteq pf[c]
    /\ \A c \in Conn : mode[c] = "public" /\ "R_TUNNEL" \in pf'[c] /\ tunnel' = tunnel /\ LiveTunnel =>
        \/ c \in pausedForTunnel' /\ full'
        \/ /\ "R_TUNNEL" \in pf[c]
           /\ c \in pausedForTunnel /\ st'[c] = "open" => c \in pausedForTunnel'
           /\ full => full'

\* Served clients are public.
LEMMA ServedPublic == IInv => \A c \in Served : c \in Conn /\ mode[c] = "public"
BY DEF IInv, Served, InUse, TableExact, TypeOK

\* Such a step leaves no paused stream without its waker.
LEMMA WakerStep ==
    ASSUME IInv, TypeOK', WakerInv, KeepsWakers
    PROVE  WakerInv'
<1> USE DEF IInv, KeepsWakers
<1>1. \A c \in Conn : born'[c] # NoConn => mode'[born'[c]] = "control"
  BY DEF WakerInv, TypeOK
<1>2. \A c \in Conn : mode'[c] # "public" => pf'[c] = {}
  BY DEF WakerInv, TypeOK
<1>3. ASSUME NEW c \in Served', Receives(c)', st'[c] = "open", "R_TUNNEL" \in pf'[c]
      PROVE  c \in pausedForTunnel' /\ full'
  <2>0. c \in Served
    BY DEF Served, InUse, TypeOK
  <2>1. c \in Conn /\ mode[c] = "public"
    BY <2>0, ServedPublic
  <2>2. tunnel' # NoConn /\ tunnel' = tunnel /\ born[c] = tunnel /\ st'[tunnel] = "open"
    BY <1>3 DEF Receives, LiveTunnel
  <2>3. st[c] = "open" /\ st[tunnel] = "open"
    BY <1>3, <2>1, <2>2 DEF SlotHeld, TypeOK
  <2>4. LiveTunnel /\ Receives(c)
    BY <2>0, <2>2, <2>3 DEF Receives, LiveTunnel
  <2>5. "R_TUNNEL" \in pf[c] => c \in pausedForTunnel /\ full
    BY <2>0, <2>3, <2>4 DEF WakerInv, PauseHasWaker
  <2> QED BY <1>3, <2>1, <2>2, <2>4, <2>5
<1> QED BY <1>1, <1>2, <1>3 DEF WakerInv, PauseHasWaker

\* A client served at once pauses only with the tunnel full, and is listed then.
LEMMA ServeWaker ==
    ASSUME IInv, TypeOK', WakerInv, NEW c \in Conn, NEW initial \in BOOLEAN,
           mode[c] \in {"none", "candidate"}, LiveTunnel, Serve(c, initial)
    PROVE  WakerInv'
<1> USE DEF IInv
<1>1. /\ tunnel' = tunnel /\ tunnel \in Conn /\ tunnel # c /\ mode[tunnel] = "control"
      /\ born' = [born EXCEPT ![c] = tunnel]
      /\ mode' = [mode EXCEPT ![c] = "public"] /\ st' = [st EXCEPT ![c] = "open"]
  BY DEF Serve, LiveTunnel, SlotHeld, TypeOK
<1>2. /\ \A d \in Conn \ {c} : pf'[d] = pf[d]
      /\ pausedForTunnel \subseteq pausedForTunnel'
      /\ full => full'
      /\ "R_TUNNEL" \in pf'[c] => c \in pausedForTunnel' /\ full'
  <2>1. pf[c] = {}
    BY DEF WakerInv
  <2>2. CASE Sent /\ UNCHANGED <<pf, pausedForTunnel>>
    BY <2>1, <2>2 DEF Sent
  <2>3. CASE full' = TRUE /\ Throttle({c})
    BY <2>3 DEF Throttle, TypeOK
  <2> QED BY <2>2, <2>3 DEF Serve
<1>3. \A d \in Conn : born'[d] # NoConn => mode'[born'[d]] = "control"
  BY <1>1 DEF WakerInv, TypeOK
<1>4. \A d \in Conn : mode'[d] # "public" => pf'[d] = {}
  BY <1>1, <1>2 DEF WakerInv, TypeOK
<1>5. ASSUME NEW d \in Served', Receives(d)', st'[d] = "open", "R_TUNNEL" \in pf'[d]
      PROVE  d \in pausedForTunnel' /\ full'
  <2>1. CASE d = c
    BY <1>2, <1>5, <2>1
  <2>2. CASE d # c
    <3>1. d \in Served
      <4>1. \A i \in Ids : streams'[i] = streams[i] \/ streams'[i] \in {c}
        BY OpenStreamsFacts DEF Serve
      <4> QED BY <2>2, <4>1 DEF Served, InUse
    <3>2. d \in Conn
      BY <3>1, ServedPublic
    <3>3. Receives(d) /\ st[d] = "open" /\ "R_TUNNEL" \in pf[d]
      BY <1>1, <1>2, <1>5, <2>2, <3>1, <3>2 DEF Receives, TypeOK
    <3> QED BY <1>2, <3>1, <3>3 DEF WakerInv, PauseHasWaker
  <2> QED BY <2>1, <2>2
<1> QED BY <1>3, <1>4, <1>5 DEF WakerInv, PauseHasWaker

\* Nothing that was opened on an earlier tunnel is heard of on the new one, and
\* those it serves pause only if they filled it.
LEMMA AdoptWaker ==
    ASSUME IInv, TypeOK', WakerInv, NEW t \in Conn, AuthAccepted(t)
    PROVE  WakerInv'
<1> USE DEF IInv
<1> DEFINE W == Silent \cup Drained
<1> PICK A \in Admitted, T \in SUBSET Drained :
      /\ T \subseteq A
      /\ born' = [c \in Conn |-> IF c \in A THEN t ELSE born[c]]
      /\ mode' = [d \in Conn |-> CASE d = t -> "control"
                                   [] d \in A -> "public"
                                   [] d \in W \ A -> "refused"
                                   [] OTHER -> mode[d]]
      /\ Throttle(T)
      /\ full' \in IF A = {} THEN {FALSE} ELSE IF T = {} THEN BOOLEAN ELSE {TRUE}
  BY DEF AuthAccepted
<1>1. /\ A \subseteq W /\ W \subseteq Conn /\ t \notin W /\ mode[t] = "candidate"
      /\ \A c \in W : mode[c] \in {"candidate", "parked"}
  BY DEF Admitted, Silent, Drained, AuthAccepted, MayAdopt, Candidate, WaitingExact, TypeOK
<1>2. /\ mode'[t] = "control"
      /\ \A c \in A : mode'[c] = "public"
      /\ \A c \in W \ A : mode'[c] = "refused"
      /\ \A c \in Conn \ (W \cup {t}) : mode'[c] = mode[c]
  BY <1>1
<1> HIDE DEF W
<1>3. \A c \in Conn : born'[c] # NoConn => mode'[born'[c]] = "control"
  <2> SUFFICES ASSUME NEW c \in Conn, c \notin A, born[c] # NoConn
               PROVE  mode'[born[c]] = "control"
    BY <1>2
  <2>1. born[c] \in Conn /\ mode[born[c]] = "control"
    BY DEF WakerInv, TypeOK
  <2> QED BY <1>1, <1>2, <2>1
<1>4. \A c \in Conn : pf'[c] = IF c \in T THEN pf[c] \cup {"R_TUNNEL"} ELSE pf[c]
  BY DEF Throttle
<1>5. \A c \in Conn : mode'[c] # "public" => pf'[c] = {}
  <2> SUFFICES ASSUME NEW c \in Conn, mode'[c] # "public" PROVE pf'[c] = {}
    OBVIOUS
  <2>1. c \notin A /\ c \notin T
    BY <1>2
  <2>2. mode[c] # "public"
    BY <1>1, <1>2, <2>1
  <2> QED BY <1>4, <2>1, <2>2 DEF WakerInv
<1>6. ASSUME NEW c \in Served', Receives(c)', st'[c] = "open", "R_TUNNEL" \in pf'[c]
      PROVE  c \in pausedForTunnel' /\ full'
  <2>1. c \in Conn
    BY DEF Served, InUse, TypeOK
  <2>2. born'[c] = t
    BY <1>6 DEF Receives, AuthAccepted
  <2>3. c \in A
    BY <1>1, <2>1, <2>2 DEF WakerInv
  <2>4. pf[c] = {}
    BY <1>1, <2>1, <2>3 DEF WakerInv
  <2>5. c \in T
    BY <1>4, <1>6, <2>1, <2>4
  <2> QED BY <2>3, <2>5 DEF Throttle
<1> QED BY <1>3, <1>5, <1>6 DEF WakerInv, PauseHasWaker

\* Every step keeps the wakers.
LEMMA WakerNext == IInv /\ WakerInv /\ [Next]_vars => WakerInv'
<1> SUFFICES ASSUME IInv, WakerInv, [Next]_vars PROVE WakerInv'
  OBVIOUS
<1>t. TypeOK /\ TypeOK'
  BY TypeStep DEF IInv
<1> USE <1>t DEF slot, table, waiting, flow
<1>d. ASSUME NEW c \in Conn, Destroy(c) PROVE WakerInv'
  <2>1. KeepsWakers
    BY <1>d DEF KeepsWakers, Destroy, DestroyAll, TypeOK
  <2> QED BY <2>1, WakerStep
<1>p. ASSUME NEW c \in Conn, NEW initial \in BOOLEAN, mode[c] \in {"none", "candidate"},
             handlePublicConnection(c, initial)
      PROVE  WakerInv'
  <2>1. CASE LiveTunnel /\ HasRoom /\ Serve(c, initial)
    BY <1>p, <2>1, ServeWaker
  <2>2. CASE Refuse(c) \/ parkPublic(c)
    <3>1. KeepsWakers
      BY <1>p, <2>2 DEF KeepsWakers, parkPublic, Refuse, TypeOK
    <3> QED BY <3>1, WakerStep
  <2> QED BY <1>p, <2>1, <2>2 DEF handlePublicConnection
<1>a. ASSUME NEW c \in Conn, mode[c] = "none", attachControl(c) PROVE WakerInv'
  <2>1. KeepsWakers
    BY <1>a DEF KeepsWakers, attachControl, Refuse, TypeOK
  <2> QED BY <2>1, WakerStep
<1>1. ASSUME NEW c \in Conn, Client(c) PROVE WakerInv'
  <2>1. CASE dispatch(c) \/ ControlConnection(c) \/ PublicConnection(c)
    BY <1>p, <1>a, <2>1 DEF dispatch, ControlConnection, PublicConnection, Public
  <2>2. CASE Reset(c)
    BY <2>2, <1>d DEF Reset
  <2>3. CASE DataThrottled(c)
    <3>1. KeepsWakers
      BY <2>3 DEF KeepsWakers, DataThrottled, Throttle, TypeOK
    <3> QED BY <3>1, WakerStep
  <2>4. CASE ClientEnd(c)
    <3>1. KeepsWakers
      BY <2>4 DEF KeepsWakers, ClientEnd, Sent, TypeOK
    <3> QED BY <3>1, WakerStep
  <2> QED BY <1>1, <2>1, <2>2, <2>3, <2>4 DEF Client
<1>2. ASSUME NEW c \in Conn, Frame(c) PROVE WakerInv'
  <2>1. mode[c] = "public"
    BY <1>2, ServedPublic DEF Frame, FramePause, FrameResume, FrameShutdown, FrameClose, Receives
  <2>2. KeepsWakers
    <3>1. CASE FramePause(c)
      BY <2>1, <3>1 DEF KeepsWakers, FramePause, TypeOK
    <3>2. CASE FrameResume(c)
      BY <2>1, <3>2 DEF KeepsWakers, FrameResume, Resume, TypeOK
    <3>3. CASE FrameShutdown(c)
      BY <3>3 DEF KeepsWakers, FrameShutdown, TypeOK
    <3>4. CASE FrameClose(c)
      BY <3>4 DEF KeepsWakers, FrameClose, StreamDeleted, DestroyAll, TypeOK
    <3> QED BY <1>2, <3>1, <3>2, <3>3, <3>4 DEF Frame
  <2> QED BY <2>2, WakerStep
<1>3. ASSUME NEW c \in Conn, Feed(c) PROVE WakerInv'
  <2>1. CASE FeedMagic(c)
    <3>1. KeepsWakers
      BY <2>1 DEF KeepsWakers, FeedMagic, TypeOK
    <3> QED BY <3>1, WakerStep
  <2>2. CASE FeedNotMagic(c)
    <3>1. CASE SinglePort /\ ParkMode
      BY <1>p, <2>2, <3>1 DEF FeedNotMagic, Candidate
    <3>2. CASE ~(SinglePort /\ ParkMode)
      <4>1. DestroyAll({c}) /\ UNCHANGED <<slot, table, waiting, flow, mode, shut>>
        BY <2>2, <3>2 DEF FeedNotMagic
      <4>2. KeepsWakers
        BY <4>1 DEF KeepsWakers, DestroyAll, TypeOK
      <4> QED BY <4>2, WakerStep
    <3> QED BY <3>1, <3>2
  <2>3. CASE FeedRefused(c)
    <3>1. KeepsWakers
      BY <2>3 DEF KeepsWakers, FeedRefused, DestroyAll, TypeOK
    <3> QED BY <3>1, WakerStep
  <2>4. CASE AuthRejected(c)
    BY <2>4, <1>d DEF AuthRejected
  <2>5. CASE AuthAccepted(c)
    BY <2>5, AdoptWaker
  <2> QED BY <1>3, <2>1, <2>2, <2>3, <2>4, <2>5 DEF Feed
<1>4. ASSUME NEW c \in Conn, ControlEnd(c) \/ Timeout(c) PROVE WakerInv'
  BY <1>d, <1>4 DEF ControlEnd, Timeout, ParkTimeout, AuthTimeout
<1>5. ASSUME NEW c \in Conn, Close(c) PROVE WakerInv'
  <2>1. CASE AutoDestroy(c)
    BY <2>1, <1>d DEF AutoDestroy
  <2>2. CASE ClientClose(c)
    <3>1. KeepsWakers
      <4>1. /\ UNCHANGED <<tunnel, born, pf, mode>>
            /\ streams' = [streams EXCEPT ![sid[c]] = NoConn]
            /\ st' = [st EXCEPT ![c] = "closed"]
            /\ pausedForTunnel' = pausedForTunnel \ {c}
            /\ Sent \/ full' = full
        BY <2>2 DEF ClientClose, StreamDeleted
      <4>2. full => full'
        BY <4>1 DEF Sent
      <4> QED BY <4>1, <4>2 DEF KeepsWakers, TypeOK
    <3> QED BY <3>1, WakerStep
  <2>3. CASE ParkedClose(c)
    <3>1. KeepsWakers
      BY <2>3 DEF KeepsWakers, ParkedClose, TypeOK
    <3> QED BY <3>1, WakerStep
  <2>4. CASE ControlClose(c)
    <3>1. /\ born' = born /\ pf' = pf /\ mode' = mode
          /\ \A d \in Conn : st'[d] = "open" => st[d] = "open"
          /\ \/ tunnel' = NoConn /\ ~LiveTunnel /\ streams' = [i \in Ids |-> NoConn]
             \/ UNCHANGED <<tunnel, full, streams, pausedForTunnel>>
      <4>1. CASE tunnel = c
        <5>1. /\ st' = [d \in Conn |-> CASE d = c -> "closed"
                                         [] d # c /\ d \in Stranded -> "destroyed"
                                         [] OTHER -> st[d]]
              /\ st[c] = "destroyed" /\ tunnel' = NoConn /\ StreamsCleared
              /\ born' = born /\ pf' = pf /\ mode' = mode
          BY <2>4, <4>1 DEF ControlClose, TornDown
        <5>2. \A d \in Conn : st'[d] = "open" => st[d] = "open"
          BY <5>1
        <5> QED BY <4>1, <5>1, <5>2 DEF StreamsCleared, LiveTunnel
      <4>2. CASE tunnel # c
        BY <2>4, <4>2 DEF ControlClose, TornDown, TypeOK
      <4> QED BY <4>1, <4>2
    <3>2. KeepsWakers
      BY <3>1 DEF KeepsWakers, TypeOK
    <3> QED BY <3>2, WakerStep
  <2> QED BY <1>5, <2>1, <2>2, <2>3, <2>4 DEF Close
<1>6. CASE TunnelDrain
  <2>1. \A c \in Served : Receives(c) /\ st[c] = "open" /\ "R_TUNNEL" \in pf[c] => c \in pausedForTunnel
    BY DEF WakerInv, PauseHasWaker
  <2>2. WakerInv'
    BY <1>6, <2>1 DEF WakerInv, PauseHasWaker, TunnelDrain, Resume, Receives, LiveTunnel, Served, InUse, TypeOK
  <2> QED BY <2>2
<1>7. CASE TunnelReply
  <2>1. KeepsWakers
    BY <1>7 DEF KeepsWakers, TunnelReply, TypeOK
  <2> QED BY <2>1, WakerStep
<1>8. CASE TunnelDropped
  BY <1>8, <1>d DEF TunnelDropped, LiveTunnel, TypeOK
<1>9. CASE UNCHANGED vars
  <2>1. KeepsWakers
    BY <1>9 DEF KeepsWakers, vars, TypeOK
  <2> QED BY <2>1, WakerStep
<1> QED BY <1>1, <1>2, <1>3, <1>4, <1>5, <1>6, <1>7, <1>8, <1>9 DEF Next

LEMMA WakerHolds == Spec => []WakerInv
<1>1. Init => WakerInv
  <2> SUFFICES ASSUME Init PROVE WakerInv
    OBVIOUS
  <2>1. Served = {}
    BY DEF Init, Served, InUse
  <2>2. \A c \in Conn : born[c] = NoConn /\ pf[c] = {}
    BY DEF Init
  <2> QED BY <2>1, <2>2 DEF WakerInv, PauseHasWaker
<1> QED BY <1>1, WakerNext, InvHolds, PTL DEF Spec

\* No lost wake-up: an open stream that the live tunnel paused is listed for its
\* next 'drain', and the tunnel owes one.
THEOREM PauseHasWakerHolds == Spec => []PauseHasWaker
<1>1. WakerInv => PauseHasWaker
  BY DEF WakerInv
<1> QED BY <1>1, WakerHolds, PTL

-----------------------------------------------------------------------------
(* Reading and its reasons to pause, when nobody is parked *)

EffectiveInv == parked = {} /\ PauseEffective

\* Steps that park nobody, and of a served client keep both its reading and its
\* reasons to pause, or end it.
KeepsReading ==
    /\ parked' = {}
    /\ \A c \in Conn : mode'[c] = "public" /\ st'[c] = "open" =>
        /\ mode[c] = "public" /\ st[c] = "open"
        /\ pf'[c] = pf[c]
        /\ c \in flowing' <=> c \in flowing

LEMMA ReadingStep == ASSUME EffectiveInv, KeepsReading PROVE EffectiveInv'
BY DEF EffectiveInv, KeepsReading, PauseEffective

LEMMA EffectiveNext ==
    ASSUME ~ParkMode
    PROVE  IInv /\ WakerInv /\ EffectiveInv /\ [Next]_vars => EffectiveInv'
<1> SUFFICES ASSUME IInv, WakerInv, EffectiveInv, [Next]_vars PROVE EffectiveInv'
  OBVIOUS
<1>t. TypeOK /\ TypeOK' /\ parked = {}
  BY TypeStep DEF IInv, EffectiveInv
<1>e. \A c \in Conn : mode[c] = "public" /\ st[c] = "open" => (c \in flowing <=> pf[c] = {})
  BY DEF EffectiveInv, PauseEffective
<1>f. \A c \in Conn : mode[c] # "public" => pf[c] = {}
  BY DEF WakerInv
<1> USE <1>t DEF slot, table, waiting, flow
<1>d. ASSUME NEW c \in Conn, Destroy(c) PROVE EffectiveInv'
  <2>1. KeepsReading
    BY <1>d DEF KeepsReading, Destroy, DestroyAll, TypeOK
  <2> QED BY <2>1, ReadingStep
<1>p. ASSUME NEW c \in Conn, NEW initial \in BOOLEAN, mode[c] \in {"none", "candidate"},
             handlePublicConnection(c, initial)
      PROVE  EffectiveInv'
  <2>1. CASE LiveTunnel /\ HasRoom /\ Serve(c, initial)
    <3>1. /\ parked' = {} /\ mode' = [mode EXCEPT ![c] = "public"] /\ st' = [st EXCEPT ![c] = "open"]
          /\ \A d \in Conn \ {c} : pf'[d] = pf[d] /\ (d \in flowing' <=> d \in flowing)
      BY <2>1 DEF Serve, Throttle
    <3>2. c \in flowing' <=> pf'[c] = {}
      <4>1. pf[c] = {}
        BY <1>f, <1>p
      <4>2. CASE flowing' = flowing \cup {c} /\ pf' = pf
        BY <4>1, <4>2
      <4>3. CASE Throttle({c}) /\ flowing' = flowing \ {c}
        BY <4>1, <4>3 DEF Throttle
      <4> QED BY <2>1, <4>2, <4>3 DEF Serve
    <3> QED BY <1>e, <3>1, <3>2 DEF EffectiveInv, PauseEffective, TypeOK
  <2>2. CASE Refuse(c)
    <3>1. KeepsReading
      BY <1>p, <2>2 DEF KeepsReading, Refuse, TypeOK
    <3> QED BY <3>1, ReadingStep
  <2> QED BY <1>p, <2>1, <2>2 DEF handlePublicConnection
<1>a. ASSUME NEW c \in Conn, mode[c] = "none", attachControl(c) PROVE EffectiveInv'
  <2>1. KeepsReading
    BY <1>a DEF KeepsReading, attachControl, Refuse, TypeOK
  <2> QED BY <2>1, ReadingStep
<1>1. ASSUME NEW c \in Conn, Client(c) PROVE EffectiveInv'
  <2>1. CASE dispatch(c) \/ ControlConnection(c) \/ PublicConnection(c)
    BY <1>p, <1>a, <2>1 DEF dispatch, ControlConnection, PublicConnection, Public
  <2>2. CASE Reset(c)
    BY <2>2, <1>d DEF Reset
  <2>3. CASE DataThrottled(c)
    <3>1. /\ UNCHANGED <<mode, st, parked>> /\ pf[c] = {}
          /\ pf'[c] # {} /\ c \notin flowing'
          /\ \A d \in Conn \ {c} : pf'[d] = pf[d] /\ (d \in flowing' <=> d \in flowing)
      BY <1>e, <2>3 DEF DataThrottled, Throttle, PausedNow, TypeOK
    <3> QED BY <1>e, <3>1 DEF EffectiveInv, PauseEffective
  <2>4. CASE ClientEnd(c)
    <3>1. KeepsReading
      BY <2>4 DEF KeepsReading, ClientEnd, TypeOK
    <3> QED BY <3>1, ReadingStep
  <2> QED BY <1>1, <2>1, <2>2, <2>3, <2>4 DEF Client
<1>r. ASSUME NEW S \in SUBSET Conn, NEW r \in Reasons, Resume(S, r), UNCHANGED <<mode, st, parked>>
      PROVE  EffectiveInv'
  <2>1. ASSUME NEW c \in Conn, mode[c] = "public", st[c] = "open" PROVE c \in flowing' <=> pf'[c] = {}
    <3>1. c \in flowing <=> pf[c] = {}
      BY <1>e, <2>1
    <3>2. CASE c \in S
      <4>1. pf'[c] = pf[c] \ {r}
        BY <1>r, <3>2 DEF Resume
      <4>2. c \in flowing' <=> c \in flowing \/ pf[c] = {r}
        BY <1>r, <3>2 DEF Resume
      <4>3. pf[c] \ {r} = {} <=> pf[c] = {} \/ pf[c] = {r}
        OBVIOUS
      <4> QED BY <3>1, <4>1, <4>2, <4>3
    <3>3. CASE c \notin S
      BY <1>r, <3>1, <3>3 DEF Resume
    <3> QED BY <3>2, <3>3
  <2> QED BY <1>r, <2>1 DEF EffectiveInv, PauseEffective
<1>2. ASSUME NEW c \in Conn, Frame(c) PROVE EffectiveInv'
  <2>1. CASE FramePause(c)
    <3>1. /\ UNCHANGED <<mode, st, parked>>
          /\ pf' = [pf EXCEPT ![c] = @ \cup {"R_PEER"}]
          /\ flowing' = flowing \ PausedNow({c})
      BY <2>1 DEF FramePause
    <3>2. \A d \in Conn \ {c} : pf'[d] = pf[d] /\ (d \in flowing' <=> d \in flowing)
      BY <3>1 DEF PausedNow, TypeOK
    <3>3. mode[c] = "public" /\ st[c] = "open" => pf'[c] # {} /\ c \notin flowing'
      BY <1>e, <3>1 DEF PausedNow, TypeOK
    <3> QED BY <1>e, <3>1, <3>2, <3>3 DEF EffectiveInv, PauseEffective
  <2>2. CASE FrameResume(c)
    BY <1>r, <2>2 DEF FrameResume, Reasons
  <2>3. CASE FrameShutdown(c)
    <3>1. KeepsReading
      BY <2>3 DEF KeepsReading, FrameShutdown, TypeOK
    <3> QED BY <3>1, ReadingStep
  <2>4. CASE FrameClose(c)
    <3>1. KeepsReading
      BY <2>4 DEF KeepsReading, FrameClose, DestroyAll, TypeOK
    <3> QED BY <3>1, ReadingStep
  <2> QED BY <1>2, <2>1, <2>2, <2>3, <2>4 DEF Frame
<1>3. ASSUME NEW c \in Conn, Feed(c) PROVE EffectiveInv'
  <2>1. CASE FeedMagic(c)
    <3>1. KeepsReading
      BY <2>1 DEF KeepsReading, FeedMagic, TypeOK
    <3> QED BY <3>1, ReadingStep
  <2>2. CASE FeedNotMagic(c)
    <3>1. DestroyAll({c}) /\ UNCHANGED <<slot, table, waiting, flow, mode, shut>>
      BY <2>2 DEF FeedNotMagic
    <3>2. KeepsReading
      BY <3>1 DEF KeepsReading, DestroyAll, TypeOK
    <3> QED BY <3>2, ReadingStep
  <2>3. CASE FeedRefused(c)
    <3>1. KeepsReading
      BY <2>3 DEF KeepsReading, FeedRefused, DestroyAll, TypeOK
    <3> QED BY <3>1, ReadingStep
  <2>4. CASE AuthRejected(c)
    BY <2>4, <1>d DEF AuthRejected
  <2>5. CASE AuthAccepted(c)
    <3>1. Silent = {} /\ Drained = {}
      BY DEF Silent, Drained
    <3>2. /\ mode' = [d \in Conn |-> IF d = c THEN "control" ELSE mode[d]]
          /\ st' = st /\ pf' = pf /\ flowing' = flowing /\ parked' = {}
      <4> PICK A \in Admitted, T \in SUBSET Drained :
            /\ mode' = [d \in Conn |-> CASE d = c -> "control"
                                         [] d \in A -> "public"
                                         [] d \in (Silent \cup Drained) \ A -> "refused"
                                         [] OTHER -> mode[d]]
            /\ st' = [d \in Conn |-> IF d \in (Silent \cup Drained) \ A THEN "closed" ELSE st[d]]
            /\ Throttle(T)
            /\ flowing' = (flowing \cup A) \ ((Silent \cup Drained) \ A)
        BY <2>5 DEF AuthAccepted
      <4>1. A = {} /\ T = {}
        BY <3>1 DEF Admitted
      <4>2. parked' = {}
        BY <2>5 DEF AuthAccepted
      <4>3. \A d \in Conn : mode'[d] = IF d = c THEN "control" ELSE mode[d]
        BY <3>1, <4>1
      <4>4. st' = st /\ pf' = pf
        BY <3>1, <4>1 DEF Throttle, TypeOK
      <4>5. mode' = [d \in Conn |-> mode'[d]]
        BY DEF TypeOK
      <4> QED BY <3>1, <4>1, <4>2, <4>3, <4>4, <4>5
    <3>3. KeepsReading
      BY <3>2 DEF KeepsReading, TypeOK
    <3> QED BY <3>3, ReadingStep
  <2> QED BY <1>3, <2>1, <2>2, <2>3, <2>4, <2>5 DEF Feed
<1>4. ASSUME NEW c \in Conn, ControlEnd(c) \/ Timeout(c) PROVE EffectiveInv'
  BY <1>d, <1>4 DEF ControlEnd, Timeout, ParkTimeout, AuthTimeout
<1>5. ASSUME NEW c \in Conn, Close(c) PROVE EffectiveInv'
  <2>1. CASE AutoDestroy(c)
    BY <2>1, <1>d DEF AutoDestroy
  <2>2. CASE ClientClose(c)
    <3>1. KeepsReading
      BY <2>2 DEF KeepsReading, ClientClose, TypeOK
    <3> QED BY <3>1, ReadingStep
  <2>3. CASE ParkedClose(c)
    <3>1. KeepsReading
      BY <2>3 DEF KeepsReading, ParkedClose, TypeOK
    <3> QED BY <3>1, ReadingStep
  <2>4. CASE ControlClose(c)
    <3>1. UNCHANGED <<pf, flowing, mode, parked>>
      BY <2>4 DEF ControlClose
    <3>2. \A d \in Conn : st'[d] = "open" => st[d] = "open"
      <4>1. CASE tunnel = c
        <5>1. st' = [d \in Conn |-> CASE d = c -> "closed"
                                      [] d # c /\ d \in Stranded -> "destroyed"
                                      [] OTHER -> st[d]]
          BY <2>4, <4>1 DEF ControlClose, TornDown
        <5> QED BY <5>1
      <4>2. CASE tunnel # c
        BY <2>4, <4>2 DEF ControlClose, TornDown, TypeOK
      <4> QED BY <4>1, <4>2
    <3>3. KeepsReading
      BY <3>1, <3>2 DEF KeepsReading
    <3> QED BY <3>3, ReadingStep
  <2> QED BY <1>5, <2>1, <2>2, <2>3, <2>4 DEF Close
<1>6. CASE TunnelDrain
  BY <1>6, <1>r DEF TunnelDrain, TypeOK, Reasons
<1>7. CASE TunnelReply
  <2>1. KeepsReading
    BY <1>7 DEF KeepsReading, TunnelReply, TypeOK
  <2> QED BY <2>1, ReadingStep
<1>8. CASE TunnelDropped
  BY <1>8, <1>d DEF TunnelDropped, LiveTunnel, TypeOK
<1>9. CASE UNCHANGED vars
  <2>1. KeepsReading
    BY <1>9 DEF KeepsReading, vars, TypeOK
  <2> QED BY <2>1, ReadingStep
<1> QED BY <1>1, <1>2, <1>3, <1>4, <1>5, <1>6, <1>7, <1>8, <1>9 DEF Next

\* Where nobody is parked (TUNNEL_NOT_READY = 'reject'), a served client reads
\* exactly when no reason to pause it is left.
THEOREM PauseEffectiveHolds == ASSUME ~ParkMode PROVE Spec => []PauseEffective
<1>1. Init => EffectiveInv
  BY DEF Init, EffectiveInv, PauseEffective
<1>2. EffectiveInv => PauseEffective
  BY DEF EffectiveInv
<1>3. IInv /\ WakerInv /\ EffectiveInv /\ [Next]_vars => EffectiveInv'
  BY EffectiveNext
<1>4. Spec => []WakerInv
  BY WakerHolds
<1> QED BY <1>1, <1>2, <1>3, <1>4, InvHolds, PTL DEF Spec

-----------------------------------------------------------------------------
(* No step loses a client *)

\* Steps that open no stream, and delete the entry of no client whose write
\* side stays open.
KeepsClients ==
    /\ UNCHANGED <<sid, nextStreamId>>
    /\ \A c \in Conn : mode'[c] = "public" <=> mode[c] = "public"
    /\ \A c \in Conn : mode[c] = "public" /\ st'[c] = "open" /\ "out" \notin shut'[c] =>
        /\ st[c] = "open" /\ "out" \notin shut[c]
        /\ streams'[sid[c]] = streams[sid[c]]

\* Every socket of S becomes a stream, and no other client changes.
Opens(S) ==
    /\ \A c \in S : mode[c] # "public"
    /\ OpenStreams(S)
    /\ \A c \in Conn : mode'[c] = "public" <=> mode[c] = "public" \/ c \in S
    /\ \A c \in Conn \ S : mode'[c] = "public" => st'[c] = st[c]
    /\ UNCHANGED shut

\* The entry under c's id is deleted, c's own one, or c's 'close' runs: c ends.
DropsEntry(c) ==
    /\ mode[c] = "public"
    /\ UNCHANGED <<sid, nextStreamId, mode>>
    /\ streams' = [streams EXCEPT ![sid[c]] = NoConn]
    /\ \A d \in Conn : st'[d] = "open" => st[d] = "open"
    /\ \A d \in Conn : shut[d] \subseteq shut'[d]
    /\ st'[c] = "open" => "out" \in shut'[c]
    /\ streams[sid[c]] = c \/ (st[c] = "destroyed" /\ st'[c] = "closed")

\* Teardown: whoever is in the table is destroyed.
DropsAll ==
    /\ UNCHANGED <<sid, nextStreamId, mode, shut>>
    /\ \A c \in Conn : st'[c] = "open" => st[c] = "open" /\ c \notin Stranded

ClientStep ==
    \/ KeepsClients
    \/ \E S \in SUBSET Conn : Opens(S)
    \/ \E c \in Conn : DropsEntry(c)
    \/ DropsAll

\* What a step may do to the clients.
LEMMA ClientSteps == IInv /\ [Next]_vars => ClientStep
<1> SUFFICES ASSUME IInv, [Next]_vars PROVE ClientStep
  OBVIOUS
<1>t. TypeOK /\ TypeOK'
  BY TypeStep DEF IInv
<1> USE <1>t DEF slot, table, waiting, flow
<1>d. ASSUME NEW c \in Conn, Destroy(c) PROVE ClientStep
  <2>1. KeepsClients
    BY <1>d DEF KeepsClients, Destroy, DestroyAll, TypeOK
  <2> QED BY <2>1 DEF ClientStep
<1>p. ASSUME NEW c \in Conn, NEW initial \in BOOLEAN, mode[c] \in {"none", "candidate"},
             handlePublicConnection(c, initial)
      PROVE  ClientStep
  <2>1. CASE LiveTunnel /\ HasRoom /\ Serve(c, initial)
    <3>1. /\ OpenStreams({c}) /\ UNCHANGED shut
          /\ mode' = [mode EXCEPT ![c] = "public"] /\ st' = [st EXCEPT ![c] = "open"]
      BY <2>1 DEF Serve
    <3>2. /\ \A d \in Conn : mode'[d] = "public" <=> mode[d] = "public" \/ d \in {c}
          /\ \A d \in Conn \ {c} : mode'[d] = "public" => st'[d] = st[d]
      BY <3>1 DEF TypeOK
    <3>3. {c} \in SUBSET Conn /\ \A d \in {c} : mode[d] # "public"
      BY <1>p
    <3>4. Opens({c})
      BY <3>1, <3>2, <3>3 DEF Opens
    <3> QED BY <3>4 DEF ClientStep
  <2>2. CASE Refuse(c) \/ parkPublic(c)
    <3>1. KeepsClients
      BY <1>p, <2>2 DEF KeepsClients, parkPublic, Refuse, TypeOK
    <3> QED BY <3>1 DEF ClientStep
  <2> QED BY <1>p, <2>1, <2>2 DEF handlePublicConnection
<1>a. ASSUME NEW c \in Conn, mode[c] = "none", attachControl(c) PROVE ClientStep
  <2>1. KeepsClients
    BY <1>a DEF KeepsClients, attachControl, Refuse, TypeOK
  <2> QED BY <2>1 DEF ClientStep
<1>1. ASSUME NEW c \in Conn, Client(c) PROVE ClientStep
  <2>1. CASE dispatch(c) \/ ControlConnection(c) \/ PublicConnection(c)
    BY <1>p, <1>a, <2>1 DEF dispatch, ControlConnection, PublicConnection, Public
  <2>2. CASE Reset(c)
    BY <2>2, <1>d DEF Reset
  <2>3. CASE DataThrottled(c)
    <3>1. KeepsClients
      BY <2>3 DEF KeepsClients, DataThrottled, TypeOK
    <3> QED BY <3>1 DEF ClientStep
  <2>4. CASE ClientEnd(c)
    <3>1. KeepsClients
      BY <2>4 DEF KeepsClients, ClientEnd, TypeOK
    <3> QED BY <3>1 DEF ClientStep
  <2> QED BY <1>1, <2>1, <2>2, <2>3, <2>4 DEF Client
<1>2. ASSUME NEW c \in Conn, Frame(c) PROVE ClientStep
  <2>1. mode[c] = "public"
    BY <1>2, ServedPublic DEF Frame, FramePause, FrameResume, FrameShutdown, FrameClose, Receives
  <2>2. CASE FramePause(c) \/ FrameResume(c) \/ FrameShutdown(c)
    <3>1. KeepsClients
      <4>1. CASE FramePause(c)
        BY <4>1 DEF KeepsClients, FramePause, TypeOK
      <4>2. CASE FrameResume(c)
        BY <4>2 DEF KeepsClients, FrameResume, TypeOK
      <4>3. CASE FrameShutdown(c)
        BY <4>3 DEF KeepsClients, FrameShutdown, TypeOK
      <4> QED BY <2>2, <4>1, <4>2, <4>3
    <3> QED BY <3>1 DEF ClientStep
  <2>3. CASE FrameClose(c)
    <3>1. /\ UNCHANGED <<sid, nextStreamId, mode>>
          /\ streams' = [streams EXCEPT ![sid[c]] = NoConn]
          /\ \A d \in Conn : st'[d] = "open" => st[d] = "open"
          /\ \A d \in Conn : shut[d] \subseteq shut'[d]
          /\ st'[c] = "open" => "out" \in shut'[c]
      <4>1. CASE pf[c] # {}
        BY <2>3, <4>1 DEF FrameClose, StreamDeleted, DestroyAll, TypeOK
      <4>2. CASE pf[c] = {}
        BY <2>3, <4>2 DEF FrameClose, StreamDeleted, TypeOK
      <4> QED BY <4>1, <4>2
    <3>2. streams[sid[c]] = c
      BY <2>3 DEF FrameClose, Receives, Served, IInv, TableExact
    <3>3. DropsEntry(c)
      BY <2>1, <3>1, <3>2 DEF DropsEntry
    <3> QED BY <3>3 DEF ClientStep
  <2> QED BY <1>2, <2>2, <2>3 DEF Frame
<1>3. ASSUME NEW c \in Conn, Feed(c) PROVE ClientStep
  <2>1. CASE FeedMagic(c)
    <3>1. KeepsClients
      BY <2>1 DEF KeepsClients, FeedMagic, TypeOK
    <3> QED BY <3>1 DEF ClientStep
  <2>2. CASE FeedNotMagic(c)
    <3>1. CASE SinglePort /\ ParkMode
      BY <1>p, <2>2, <3>1 DEF FeedNotMagic, Candidate
    <3>2. CASE ~(SinglePort /\ ParkMode)
      <4>1. DestroyAll({c}) /\ UNCHANGED <<slot, table, waiting, flow, mode, shut>>
        BY <2>2, <3>2 DEF FeedNotMagic
      <4>2. KeepsClients
        BY <4>1 DEF KeepsClients, DestroyAll, TypeOK
      <4> QED BY <4>2 DEF ClientStep
    <3> QED BY <3>1, <3>2
  <2>3. CASE FeedRefused(c)
    <3>1. KeepsClients
      BY <2>3 DEF KeepsClients, FeedRefused, DestroyAll, TypeOK
    <3> QED BY <3>1 DEF ClientStep
  <2>4. CASE AuthRejected(c)
    BY <2>4, <1>d DEF AuthRejected
  <2>5. CASE AuthAccepted(c)
    <3> DEFINE W == Silent \cup Drained
    <3> PICK A \in Admitted :
          /\ OpenStreams(A)
          /\ mode' = [d \in Conn |-> CASE d = c -> "control"
                                       [] d \in A -> "public"
                                       [] d \in W \ A -> "refused"
                                       [] OTHER -> mode[d]]
          /\ st' = [d \in Conn |-> IF d \in W \ A THEN "closed" ELSE st[d]]
      BY <2>5 DEF AuthAccepted
    <3>1. /\ A \subseteq W /\ W \subseteq Conn /\ c \notin W /\ mode[c] = "candidate"
          /\ \A d \in W : mode[d] \in {"candidate", "parked"}
      BY <2>5 DEF Admitted, Silent, Drained, AuthAccepted, MayAdopt, Candidate, IInv, WaitingExact, TypeOK
    <3>2. /\ mode'[c] = "control"
          /\ \A d \in A : mode'[d] = "public"
          /\ \A d \in W \ A : mode'[d] = "refused"
          /\ \A d \in Conn \ (W \cup {c}) : mode'[d] = mode[d]
          /\ \A d \in Conn \ (W \ A) : st'[d] = st[d]
      BY <3>1
    <3> HIDE DEF W
    <3>3. A \in SUBSET Conn /\ (\A d \in A : mode[d] # "public") /\ UNCHANGED shut
      BY <2>5, <3>1 DEF AuthAccepted
    <3>4. \A d \in Conn : mode'[d] = "public" <=> mode[d] = "public" \/ d \in A
      BY <3>1, <3>2
    <3>5. \A d \in Conn \ A : mode'[d] = "public" => st'[d] = st[d]
      BY <3>1, <3>2
    <3>6. Opens(A)
      BY <3>3, <3>4, <3>5 DEF Opens
    <3> QED BY <3>3, <3>6 DEF ClientStep
  <2> QED BY <1>3, <2>1, <2>2, <2>3, <2>4, <2>5 DEF Feed
<1>4. ASSUME NEW c \in Conn, ControlEnd(c) \/ Timeout(c) PROVE ClientStep
  BY <1>d, <1>4 DEF ControlEnd, Timeout, ParkTimeout, AuthTimeout
<1>5. ASSUME NEW c \in Conn, Close(c) PROVE ClientStep
  <2>1. CASE AutoDestroy(c)
    BY <2>1, <1>d DEF AutoDestroy
  <2>2. CASE ClientClose(c)
    <3>1. /\ UNCHANGED <<sid, nextStreamId, mode, shut>> /\ mode[c] = "public"
          /\ streams' = [streams EXCEPT ![sid[c]] = NoConn]
          /\ st[c] = "destroyed" /\ st' = [st EXCEPT ![c] = "closed"]
      BY <2>2 DEF ClientClose, StreamDeleted
    <3>2. DropsEntry(c)
      BY <3>1 DEF DropsEntry, TypeOK
    <3> QED BY <3>2 DEF ClientStep
  <2>3. CASE ParkedClose(c)
    <3>1. KeepsClients
      BY <2>3 DEF KeepsClients, ParkedClose, TypeOK
    <3> QED BY <3>1 DEF ClientStep
  <2>4. CASE ControlClose(c)
    <3>1. UNCHANGED <<sid, nextStreamId, mode, shut>> /\ mode[c] # "public"
      BY <2>4 DEF ControlClose
    <3>2. CASE tunnel = c
      <4>1. st' = [d \in Conn |-> CASE d = c -> "closed"
                                    [] d # c /\ d \in Stranded -> "destroyed"
                                    [] OTHER -> st[d]]
        BY <2>4, <3>2 DEF ControlClose, TornDown
      <4>2. DropsAll
        BY <3>1, <4>1 DEF DropsAll, TypeOK
      <4> QED BY <4>2 DEF ClientStep
    <3>3. CASE tunnel # c
      <4>1. UNCHANGED streams /\ st' = [st EXCEPT ![c] = "closed"]
        BY <2>4, <3>3 DEF ControlClose, TornDown
      <4>2. KeepsClients
        BY <3>1, <4>1 DEF KeepsClients, TypeOK
      <4> QED BY <4>2 DEF ClientStep
    <3> QED BY <3>2, <3>3
  <2> QED BY <1>5, <2>1, <2>2, <2>3, <2>4 DEF Close
<1>6. CASE TunnelDrain
  <2>1. KeepsClients
    BY <1>6 DEF KeepsClients, TunnelDrain, TypeOK
  <2> QED BY <2>1 DEF ClientStep
<1>7. CASE TunnelReply
  <2>1. KeepsClients
    BY <1>7 DEF KeepsClients, TunnelReply, TypeOK
  <2> QED BY <2>1 DEF ClientStep
<1>8. CASE TunnelDropped
  BY <1>8, <1>d DEF TunnelDropped, LiveTunnel, TypeOK
<1>9. CASE UNCHANGED vars
  <2>1. KeepsClients
    BY <1>9 DEF KeepsClients, vars, TypeOK
  <2> QED BY <2>1 DEF ClientStep
<1> QED BY <1>1, <1>2, <1>3, <1>4, <1>5, <1>6, <1>7, <1>8, <1>9 DEF Next

\* A client has an id.
PublicHasId == \A c \in Conn : mode[c] = "public" => sid[c] \in Ids

LEMMA HasIdNext == IInv /\ PublicHasId /\ [Next]_vars => PublicHasId'
<1> SUFFICES ASSUME IInv, PublicHasId, [Next]_vars PROVE PublicHasId'
  OBVIOUS
<1>1. CASE KeepsClients
  BY <1>1 DEF KeepsClients, PublicHasId
<1>2. ASSUME NEW S \in SUBSET Conn, Opens(S) PROVE PublicHasId'
  <2>1. /\ \A c \in Conn \ S : sid'[c] = sid[c]
        /\ \A c \in S : sid'[c] \in Ids
        /\ \A c \in Conn : mode'[c] = "public" => mode[c] = "public" \/ c \in S
    BY <1>2, OpenStreamsFacts DEF Opens, IInv
  <2> QED BY <2>1 DEF PublicHasId
<1>3. CASE (\E c \in Conn : DropsEntry(c)) \/ DropsAll
  BY <1>3 DEF DropsEntry, DropsAll, PublicHasId
<1> QED BY <1>1, <1>2, <1>3, ClientSteps DEF ClientStep

\* No step loses a client, for any number of connections and of ids: only the
\* late 'close' of an earlier holder of its id takes a client out of the table.
THEOREM NoLostClientHolds == Spec => NoLostClient
<1>1. Init => PublicHasId
  BY DEF Init, PublicHasId
<1>2. IInv /\ PublicHasId /\ [Next]_vars => PublicHasId'
  BY HasIdNext
<1>3. IInv /\ PublicHasId /\ [Next]_vars => [\A c \in Conn : Lost(c)' => Lost(c) \/ LateClose(c)]_vars
  <2> SUFFICES ASSUME IInv, PublicHasId, [Next]_vars, NEW c \in Conn,
                      mode'[c] = "public", st'[c] = "open", "out" \notin shut'[c], streams'[sid'[c]] # c,
                      mode[c] = "public" /\ st[c] = "open" /\ "out" \notin shut[c] => streams[sid[c]] = c
               PROVE  LateClose(c)
    BY DEF Lost
  <2>1. CASE KeepsClients
    BY <2>1 DEF KeepsClients
  <2>2. ASSUME NEW S \in SUBSET Conn, Opens(S) PROVE FALSE
    <3>1. /\ \A i \in Ids : streams'[i] = streams[i] \/ streams[i] = NoConn
          /\ sid'[c] = sid[c] /\ c \notin S
      BY <2>2, OpenStreamsFacts DEF Opens, IInv
    <3>2. streams[sid[c]] = c /\ sid[c] \in Ids
      BY <2>2, <3>1 DEF Opens, PublicHasId
    <3> QED BY <3>1, <3>2
  <2>3. ASSUME NEW d \in Conn, DropsEntry(d) PROVE LateClose(c)
    <3>1. /\ mode[c] = "public" /\ st[c] = "open" /\ "out" \notin shut[c] /\ d # c
          /\ UNCHANGED sid /\ streams' = [streams EXCEPT ![sid[d]] = NoConn]
      BY <2>3 DEF DropsEntry
    <3>2. streams[sid[c]] = c /\ sid[c] = sid[d]
      BY <3>1 DEF IInv, TypeOK, PublicHasId
    <3> QED BY <2>3, <3>1, <3>2 DEF DropsEntry, LateClose
  <2>4. CASE DropsAll
    <3>1. streams[sid[c]] = c /\ sid[c] \in Ids /\ c \notin Stranded /\ st[c] = "open"
      BY <2>4 DEF DropsAll, PublicHasId
    <3> QED BY <3>1 DEF Stranded, Served, InUse
  <2> QED BY <2>1, <2>2, <2>3, <2>4, ClientSteps DEF ClientStep
<1> QED BY <1>1, <1>2, <1>3, InvHolds, PTL DEF Spec, NoLostClient

-----------------------------------------------------------------------------
(* Each id is given out once, as long as A accepts fewer connections than ids *)

\* The remainder of a sum that is less than twice the modulus.
LEMMA ModOnce ==
    ASSUME NEW n \in Nat \ {0}, NEW a \in 0 .. 2 * n - 1
    PROVE  a % n = IF a >= n THEN a - n ELSE a
<1>1. a % n \in 0 .. n - 1 /\ a = n * (a \div n) + (a % n) /\ a \div n \in Int
  OBVIOUS
<1> DEFINE q == a \div n
<1>2. q \in Int /\ a = n * q + (a % n)
  BY <1>1
<1>3. q = 0 \/ q = 1
  <2> HIDE DEF q
  <2>1. q < 2
    <3> SUFFICES ASSUME q >= 2 PROVE FALSE
      BY <1>2
    <3>1. n * q >= n * 2
      BY <1>2
    <3> QED BY <1>1, <1>2, <3>1
  <2>2. q > -1
    <3> SUFFICES ASSUME q <= -1 PROVE FALSE
      BY <1>2
    <3>1. n * q <= n * (-1)
      BY <1>2
    <3> QED BY <1>1, <1>2, <3>1
  <2> QED BY <1>2, <2>1, <2>2
<1> HIDE DEF q
<1>4. CASE q = 0
  BY <1>1, <1>2, <1>4
<1>5. CASE q = 1
  BY <1>1, <1>2, <1>5
<1> QED BY <1>3, <1>4, <1>5

LEMMA AheadIs ==
    ASSUME nextStreamId \in Ids, NEW id \in Ids
    PROVE  Ahead(id) = IF id >= nextStreamId THEN id - nextStreamId ELSE id + MaxId - nextStreamId
<1> DEFINE a == id + MaxId - nextStreamId
<1>1. MaxId \in Nat \ {0} /\ a \in 0 .. 2 * MaxId - 1
  BY DEF Ids
<1>2. a % MaxId = IF a >= MaxId THEN a - MaxId ELSE a
  <2> HIDE DEF a
  <2> QED BY <1>1, ModOnce
<1>3. id \in Nat /\ nextStreamId \in Nat /\ MaxId \in Nat
  BY DEF Ids
<1>4. CASE id >= nextStreamId
  <2>1. a >= MaxId /\ a - MaxId = id - nextStreamId
    BY <1>3, <1>4
  <2> QED BY <1>2, <1>4, <2>1 DEF Ahead
<1>5. CASE ~(id >= nextStreamId)
  <2>1. ~(a >= MaxId)
    BY <1>3, <1>5
  <2> QED BY <1>2, <1>5, <2>1 DEF Ahead
<1> QED BY <1>4, <1>5

FewConnections == IsFiniteSet(Conn) /\ Cardinality(Conn) < MaxId

\* Ids are handed out in order, each to one client, and the counter has not
\* come round; the table still has every client whose write side is open.
IdsInv ==
    /\ \A c \in Conn : mode[c] # "public" => sid[c] = 0
    /\ \A c \in Conn : mode[c] = "public" => sid[c] \in 1 .. nextStreamId - 1
    /\ \A c, d \in Conn : mode[c] = "public" /\ mode[d] = "public" /\ sid[c] = sid[d] => c = d
    /\ \A i \in 1 .. nextStreamId - 1 : \E c \in Conn : sid[c] = i
    /\ ClientsListed

\* The ids given to the sockets of S are the next ones, each given once.
LEMMA FreshIds ==
    ASSUME FewConnections, IInv, IdsInv, NEW S \in SUBSET Conn, \A c \in S : mode[c] # "public",
           OpenStreams(S)
    PROVE  /\ nextStreamId' \in Nat /\ nextStreamId' >= nextStreamId
           /\ \A c \in S : sid'[c] \in nextStreamId .. nextStreamId' - 1
           /\ \A c, d \in S : sid'[c] = sid'[d] => c = d
           /\ \A i \in nextStreamId .. nextStreamId' - 1 : \E c \in S : sid'[c] = i
<1> USE DEF IInv
<1> PICK f \in Allocations(S) :
        /\ sid' = [c \in Conn |-> IF c \in S THEN f[c] ELSE sid[c]]
        /\ \/ S = {} /\ UNCHANGED nextStreamId
           \/ \E last \in S : /\ \A d \in S : Ahead(f[d]) <= Ahead(f[last])
                              /\ nextStreamId' = After(f[last])
  BY DEF OpenStreams
<1>1. /\ f \in [S -> Free] /\ \A c, d \in S : c # d => f[c] # f[d]
      /\ \A c \in S : \A j \in Free : Ahead(j) < Ahead(f[c]) => \E d \in S : f[d] = j
  BY DEF Allocations
<1>2. nextStreamId \in Ids /\ nextStreamId \in Nat /\ MaxId \in Nat /\ Ids \subseteq Nat
  BY DEF TypeOK, Ids
<1>3. \A c \in S : f[c] \in Ids
  BY <1>1 DEF Free
<1>4. \A j \in Ids : j >= nextStreamId => j \in Free
  <2> SUFFICES ASSUME NEW j \in Ids, j >= nextStreamId, j \in InUse PROVE FALSE
    BY DEF Free
  <2>1. streams[j] \in Conn /\ mode[streams[j]] = "public" /\ sid[streams[j]] = j
    BY DEF TableExact, InUse, TypeOK
  <2>2. j \in 1 .. nextStreamId - 1
    BY <2>1 DEF IdsInv
  <2> QED BY <1>2, <2>2
<1>5. \A c \in S : \A j \in Ids : j >= nextStreamId /\ (f[c] < nextStreamId \/ j < f[c])
                                    => \E d \in S : f[d] = j
  <2> SUFFICES ASSUME NEW c \in S, NEW j \in Ids, j >= nextStreamId, f[c] < nextStreamId \/ j < f[c]
               PROVE  \E d \in S : f[d] = j
    OBVIOUS
  <2>1. Ahead(j) = j - nextStreamId
    BY <1>2, AheadIs
  <2>2. Ahead(f[c]) = IF f[c] >= nextStreamId THEN f[c] - nextStreamId ELSE f[c] + MaxId - nextStreamId
    BY <1>2, <1>3, AheadIs
  <2>3. j \in 1 .. MaxId /\ f[c] \in 1 .. MaxId
    BY <1>3 DEF Ids
  <2>4. Ahead(j) < Ahead(f[c])
    BY <1>2, <2>1, <2>2, <2>3
  <2> QED BY <1>1, <1>4, <2>4
<1>6. \A c \in S : f[c] >= nextStreamId /\ f[c] < MaxId
  <2> SUFFICES ASSUME NEW c \in S, f[c] < nextStreamId \/ f[c] >= MaxId PROVE FALSE
    <3>1. ASSUME NEW c \in S, ~(f[c] >= nextStreamId /\ f[c] < MaxId)
          PROVE  f[c] < nextStreamId \/ f[c] >= MaxId
      <4>1. f[c] \in Nat
        BY <1>2, <1>3
      <4> QED BY <1>2, <3>1, <4>1
    <3> QED BY <3>1
  <2>1. \A j \in Ids : j >= nextStreamId => \E d \in S : sid'[d] = j
    <3> SUFFICES ASSUME NEW j \in Ids, j >= nextStreamId PROVE \E d \in S : f[d] = j
      OBVIOUS
    <3>1. f[c] < nextStreamId \/ j < f[c] \/ j = f[c]
      BY <1>2, <1>3 DEF Ids
    <3> QED BY <1>5, <3>1
  <2>2. \A j \in Ids : ~(j >= nextStreamId) => \E d \in Conn : sid'[d] = j
    <3> SUFFICES ASSUME NEW j \in Ids, ~(j >= nextStreamId) PROVE \E d \in Conn : sid'[d] = j
      OBVIOUS
    <3>1. j \in 1 .. nextStreamId - 1
      BY <1>2 DEF Ids
    <3>2. PICK d \in Conn : sid[d] = j
      BY <3>1 DEF IdsInv
    <3>3. d \notin S
      BY <3>1, <3>2 DEF IdsInv
    <3> QED BY <3>2, <3>3
  <2> DEFINE g == [d \in Conn |-> IF sid'[d] \in Ids THEN sid'[d] ELSE nextStreamId]
  <2>3. g \in Surjection(Conn, Ids)
    <3>1. g \in [Conn -> Ids]
      BY <1>2
    <3>2. \A j \in Ids : \E d \in Conn : g[d] = j
      BY <2>1, <2>2
    <3> QED BY <3>1, <3>2 DEF Surjection
  <2> HIDE DEF g
  <2>4. Cardinality(Ids) <= Cardinality(Conn)
    BY <2>3, FS_Surjection DEF FewConnections
  <2>5. Cardinality(Ids) = MaxId
    BY FS_Interval, <1>2 DEF Ids
  <2>6. Cardinality(Conn) \in Nat
    BY FS_CardinalityType DEF FewConnections
  <2> QED BY <1>2, <2>4, <2>5, <2>6 DEF FewConnections
<1>7. CASE S = {} /\ UNCHANGED nextStreamId
  BY <1>2, <1>7
<1>8. ASSUME NEW last \in S, \A d \in S : Ahead(f[d]) <= Ahead(f[last]), nextStreamId' = After(f[last])
      PROVE  /\ nextStreamId' \in Nat /\ nextStreamId' >= nextStreamId
             /\ \A c \in S : sid'[c] \in nextStreamId .. nextStreamId' - 1
             /\ \A i \in nextStreamId .. nextStreamId' - 1 : \E c \in S : sid'[c] = i
  <2>1. f[last] \in Nat /\ f[last] >= nextStreamId /\ f[last] < MaxId
    BY <1>2, <1>3, <1>6
  <2>2. f[last] % MaxId = f[last]
    <3> DEFINE m == f[last]
    <3>1. m \in 0 .. 2 * MaxId - 1 /\ ~(m >= MaxId) /\ MaxId \in Nat \ {0}
      BY <1>2, <2>1
    <3> HIDE DEF m
    <3>2. m % MaxId = m
      BY <3>1, ModOnce
    <3> QED BY <3>2 DEF m
  <2>3. nextStreamId' = f[last] + 1
    BY <1>8, <2>1, <2>2 DEF After
  <2>4. \A c \in S : f[c] <= f[last]
    <3> SUFFICES ASSUME NEW c \in S PROVE f[c] <= f[last]
      OBVIOUS
    <3>1. f[c] \in Nat /\ f[c] >= nextStreamId
      BY <1>2, <1>3, <1>6
    <3>2. Ahead(f[c]) = f[c] - nextStreamId /\ Ahead(f[last]) = f[last] - nextStreamId
      BY <1>2, <1>3, <2>1, <3>1, AheadIs
    <3>3. Ahead(f[c]) <= Ahead(f[last])
      BY <1>8
    <3> QED BY <1>2, <2>1, <3>1, <3>2, <3>3
  <2>5. \A c \in S : f[c] \in nextStreamId .. f[last]
    <3> SUFFICES ASSUME NEW c \in S PROVE f[c] \in nextStreamId .. f[last]
      OBVIOUS
    <3>1. f[c] \in Nat /\ f[c] >= nextStreamId /\ f[c] <= f[last]
      BY <1>2, <1>3, <1>6, <2>4
    <3> QED BY <1>2, <2>1, <3>1
  <2>6. \A i \in nextStreamId .. f[last] : \E c \in S : f[c] = i
    <3> SUFFICES ASSUME NEW i \in nextStreamId .. f[last] PROVE \E c \in S : f[c] = i
      OBVIOUS
    <3>1. i \in Ids /\ i >= nextStreamId /\ (i < f[last] \/ i = f[last])
      BY <1>2, <2>1 DEF Ids
    <3> QED BY <1>5, <3>1
  <2> QED BY <1>2, <2>1, <2>3, <2>5, <2>6
<1>9. \A c, d \in S : sid'[c] = sid'[d] => c = d
  BY <1>1
<1> QED BY <1>7, <1>8, <1>9

\* Serving the sockets of S loses nobody: their ids are new.
LEMMA ServeKeepsIds ==
    ASSUME FewConnections, IInv, IdsInv, TypeOK', NEW S \in SUBSET Conn, \A c \in S : mode[c] # "public",
           OpenStreams(S),
           \A c \in Conn : mode'[c] = "public" <=> mode[c] = "public" \/ c \in S,
           \A c \in Conn \ S : mode'[c] = "public" => st'[c] = st[c],
           UNCHANGED shut
    PROVE  IdsInv'
<1>1. /\ nextStreamId \in Nat /\ nextStreamId' \in Nat /\ nextStreamId' >= nextStreamId
      /\ \A c \in S : sid'[c] \in nextStreamId .. nextStreamId' - 1
      /\ \A c, d \in S : sid'[c] = sid'[d] => c = d
      /\ \A i \in nextStreamId .. nextStreamId' - 1 : \E c \in S : sid'[c] = i
  <2>1. nextStreamId \in Nat
    BY DEF IInv, TypeOK, Ids
  <2> QED BY FreshIds, <2>1
<1>2. \A c \in Conn \ S : sid'[c] = sid[c]
  BY OpenStreamsFacts DEF IInv
<1>3. \A c \in Conn : mode'[c] # "public" => sid'[c] = 0
  <2> SUFFICES ASSUME NEW c \in Conn, mode'[c] # "public" PROVE sid'[c] = 0
    OBVIOUS
  <2>1. mode[c] # "public" /\ c \notin S
    OBVIOUS
  <2> QED BY <1>2, <2>1 DEF IdsInv
<1>4. \A c \in Conn \ S : mode[c] = "public" => sid[c] \in 1 .. nextStreamId - 1
  BY DEF IdsInv
<1>5. \A c \in Conn : mode'[c] = "public" => sid'[c] \in 1 .. nextStreamId' - 1
  <2> SUFFICES ASSUME NEW c \in Conn, mode'[c] = "public" PROVE sid'[c] \in 1 .. nextStreamId' - 1
    OBVIOUS
  <2>1. nextStreamId >= 1
    BY DEF IInv, TypeOK, Ids
  <2> QED BY <1>1, <1>2, <1>4, <2>1
<1>6. ASSUME NEW c \in Conn, NEW d \in Conn, mode'[c] = "public", mode'[d] = "public", sid'[c] = sid'[d]
      PROVE  c = d
  <2>1. CASE c \in S /\ d \in S
    BY <1>1, <1>6, <2>1
  <2>2. CASE c \notin S /\ d \notin S
    BY <1>2, <1>6, <2>2 DEF IdsInv
  <2>3. CASE c \in S /\ d \notin S
    <3>1. sid[d] \in 1 .. nextStreamId - 1 /\ sid'[c] \in nextStreamId .. nextStreamId' - 1
      BY <1>1, <1>4, <1>6, <2>3
    <3> QED BY <1>1, <1>2, <1>6, <2>3, <3>1
  <2>4. CASE c \notin S /\ d \in S
    <3>1. sid[c] \in 1 .. nextStreamId - 1 /\ sid'[d] \in nextStreamId .. nextStreamId' - 1
      BY <1>1, <1>4, <1>6, <2>4
    <3> QED BY <1>1, <1>2, <1>6, <2>4, <3>1
  <2> QED BY <2>1, <2>2, <2>3, <2>4
<1>7. ASSUME NEW i \in 1 .. nextStreamId' - 1 PROVE \E c \in Conn : sid'[c] = i
  <2>1. CASE i \in nextStreamId .. nextStreamId' - 1
    BY <1>1, <2>1
  <2>2. CASE i \in 1 .. nextStreamId - 1
    <3>1. PICK c \in Conn : sid[c] = i
      BY <2>2 DEF IdsInv
    <3>2. c \notin S
      BY <2>2, <3>1 DEF IdsInv
    <3> QED BY <1>2, <3>1, <3>2
  <2> QED BY <1>1, <1>7, <2>1, <2>2
<1>8. ASSUME NEW c \in Conn, mode'[c] = "public", st'[c] = "open", "out" \notin shut'[c]
      PROVE  streams'[sid'[c]] = c
  <2>1. CASE c \in S
    BY <2>1, OpenStreamsFacts DEF IInv
  <2>2. CASE c \notin S
    <3>0. mode[c] = "public" /\ st[c] = "open" /\ "out" \notin shut[c]
      BY <1>8, <2>2
    <3>1. streams[sid[c]] = c /\ sid[c] \in 1 .. nextStreamId - 1 /\ sid[c] \in Ids
      <4>1. sid[c] \in 1 .. nextStreamId - 1
        BY <1>4, <2>2, <3>0
      <4>2. nextStreamId \in 1 .. MaxId
        BY DEF IInv, TypeOK, Ids
      <4>3. sid[c] \in Ids
        BY <1>1, <4>1, <4>2 DEF Ids
      <4> QED BY <3>0, <4>1, <4>3 DEF IdsInv, ClientsListed, Lost
    <3>2. \/ streams'[sid[c]] = streams[sid[c]]
          \/ streams'[sid[c]] \in S /\ sid'[streams'[sid[c]]] = sid[c]
      <4>1. \A i \in Ids : \/ streams'[i] = streams[i]
                           \/ streams[i] = NoConn /\ streams'[i] \in S /\ sid'[streams'[i]] = i
        BY OpenStreamsFacts DEF IInv
      <4> QED BY <3>1, <4>1
    <3>3. \A d \in S : sid'[d] # sid[c]
      BY <1>1, <3>1
    <3> QED BY <1>2, <2>2, <3>1, <3>2, <3>3
  <2> QED BY <2>1, <2>2
<1> QED BY <1>3, <1>5, <1>6, <1>7, <1>8 DEF IdsInv, ClientsListed, Lost

\* Such a step keeps the ids as they are.
LEMMA KeepsIds == ASSUME IdsInv, KeepsClients PROVE IdsInv'
<1>1. \A c \in Conn : (mode'[c] = "public" <=> mode[c] = "public") /\ sid'[c] = sid[c]
  BY DEF KeepsClients
<1>2. ClientsListed'
  <2> SUFFICES ASSUME NEW c \in Conn, mode'[c] = "public", st'[c] = "open", "out" \notin shut'[c]
               PROVE  streams'[sid'[c]] = c
    BY DEF ClientsListed, Lost
  <2>1. mode[c] = "public" /\ st[c] = "open" /\ "out" \notin shut[c] /\ streams'[sid[c]] = streams[sid[c]]
    BY <1>1 DEF KeepsClients
  <2> QED BY <1>1, <2>1 DEF IdsInv, ClientsListed, Lost
<1>3. nextStreamId' = nextStreamId
  BY DEF KeepsClients
<1> QED BY <1>1, <1>2, <1>3 DEF IdsInv

LEMMA IdsNext == FewConnections /\ IInv /\ IdsInv /\ [Next]_vars => IdsInv'
<1> SUFFICES ASSUME FewConnections, IInv, IdsInv, [Next]_vars PROVE IdsInv'
  OBVIOUS
<1>1. CASE KeepsClients
  BY <1>1, KeepsIds
<1>2. ASSUME NEW S \in SUBSET Conn, Opens(S) PROVE IdsInv'
  <2>1. TypeOK'
    BY TypeStep DEF IInv
  <2> QED BY <1>2, <2>1, ServeKeepsIds DEF Opens
<1>3. ASSUME NEW c \in Conn, DropsEntry(c) PROVE IdsInv'
  <2>1. \A d \in Conn : mode[d] = "public" /\ d # c => streams'[sid[d]] = streams[sid[d]]
    BY <1>3 DEF DropsEntry, IdsInv, IInv, TypeOK
  <2>2. KeepsClients
    BY <1>3, <2>1 DEF KeepsClients, DropsEntry
  <2> QED BY <2>2, KeepsIds
<1>4. CASE DropsAll
  <2>1. ASSUME NEW c \in Conn, mode[c] = "public", st'[c] = "open", "out" \notin shut[c] PROVE FALSE
    <3>1. c \notin Stranded /\ st[c] = "open"
      BY <1>4, <2>1 DEF DropsAll
    <3>2. streams[sid[c]] = c /\ sid[c] \in Ids
      BY <2>1, <3>1 DEF IdsInv, ClientsListed, Lost, IInv, TypeOK, Ids
    <3> QED BY <3>1, <3>2 DEF Stranded, Served, InUse
  <2>2. KeepsClients
    BY <1>4, <2>1 DEF KeepsClients, DropsAll
  <2> QED BY <2>2, KeepsIds
<1> QED BY <1>1, <1>2, <1>3, <1>4, ClientSteps DEF ClientStep

\* While A has accepted fewer connections than there are stream ids no 'close'
\* is late enough: an open client whose write side was not ended is in the table.
THEOREM ClientsListedHolds == ASSUME FewConnections PROVE Spec => []ClientsListed
<1>1. Init => IdsInv
  BY DEF Init, IdsInv, ClientsListed, Lost
<1>2. IdsInv => ClientsListed
  BY DEF IdsInv
<1>3. IInv /\ IdsInv /\ [Next]_vars => IdsInv'
  BY IdsNext
<1> QED BY <1>1, <1>2, <1>3, InvHolds, PTL DEF Spec
=============================================================================
