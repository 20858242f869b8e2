------------------------------- MODULE Bridge -------------------------------
(***************************************************************************)
(* The aad-bridge process from its launch to its exit: server.js, the      *)
(* request path of lib/app.js with auth.js and request.js, the audit trail *)
(* of audit.js, and the graceful shutdown against requests, keepalive      *)
(* ticks and a login in flight.  How a token is minted is TokenBroker's    *)
(* matter: here a mint ends with a token, a reauth error or an error.      *)
(*                                                                         *)
(* A text that names a resource is the sequence of its parts: names, "/"   *)
(* and "/.default".  /healthz, /debug and the access log only observe.     *)
(***************************************************************************)
EXTENDS BridgeConfig

CONSTANTS
    Client, Tick,   \* connections, and firings of the keepalive timer
    Launches,       \* what the daemon may be launched with
    Requests        \* what clients may ask

ASSUME BridgeAssumption == Client \cap Tick = {}
ASSUME LaunchAssumption ==
    \A l \in Launches :
        l.argv \in Seq(Token) /\ \A f \in DOMAIN l.files : l.files[f] \in Seq(EnvLine)

VARIABLES
    launch, config,
    proc,       \* "launched", "up", "stopping" (shuttingDown) or "exited"
    conn,       \* connections that are open
    at,         \* where the handler of a client, or a tick, is
    asks,       \* the request each client sent
    status,     \* the status each client received, 0 before
    todo,       \* resources a tick has still to mint
    login,      \* the az login: "no", "running", "over"; one in a behaviour
    stream,     \* the audit stream: "null", "open", or "ended" by close()
    buffered,   \* records the stream has not written yet
    trail,      \* records in the file, or on stdout
    settled,    \* shutdown: finish() ran
    broke       \* history: why records were lost: "no", "failed" or "late"

audit == <<stream, buffered, trail, broke>>
vars == <<launch, config, proc, conn, at, asks, status, todo, login, audit, settled>>

NoRequest == [method |-> "none"]

Init ==
    /\ launch \in Launches /\ config = << >> /\ proc = "launched"
    /\ conn = {} /\ asks = [c \in Client |-> NoRequest] /\ status = [c \in Client |-> 0]
    /\ at \in [Client \cup Tick -> {"new", "absent"}]
    /\ todo = [t \in Tick |-> {}] /\ login = "no"
    /\ stream = "null" /\ buffered = << >> /\ trail = {} /\ broke = "no"
    /\ settled = FALSE

Running == proc \in {"up", "stopping"}
Goto(a, p) == at' = [at EXCEPT ![a] = p]

\* server.js: load the configuration, create the app, listen.
Start ==
    /\ proc = "launched"
    /\ IF Refuses(launch)
       THEN proc' = "exited" /\ UNCHANGED <<config, stream>>
       ELSE /\ proc' = "up"
            /\ config' = loadConfig(launch)
            /\ stream' = IF config'["audit-log"] = "" THEN "null" ELSE "open"
    /\ UNCHANGED <<launch, conn, at, asks, status, todo, login, buffered, trail, broke, settled>>

-----------------------------------------------------------------------------
(* audit.js *)

\* A write to a stream that was ended destroys it, with what it still holds,
\* and emits 'error'.
emit(r) ==
    \/ /\ stream = "null"
       /\ trail' = trail \cup {r} /\ UNCHANGED <<stream, buffered, broke>>
    \/ /\ stream = "open"
       /\ buffered' = Append(buffered, r) /\ UNCHANGED <<stream, trail, broke>>
    \/ /\ stream = "ended"
       /\ stream' = "null" /\ buffered' = << >> /\ broke' = "late" /\ UNCHANGED trail

StreamWrites ==
    /\ proc # "exited" /\ buffered # << >>
    /\ trail' = trail \cup {Head(buffered)} /\ buffered' = Tail(buffered)
    /\ UNCHANGED <<launch, config, proc, conn, at, asks, status, todo, login, stream, broke, settled>>

\* fallback: the file cannot be opened or written.
StreamFails ==
    /\ Running /\ stream # "null"
    /\ stream' = "null" /\ buffered' = << >> /\ broke' = "failed"
    /\ UNCHANGED <<launch, config, proc, conn, at, asks, status, todo, login, trail, settled>>

-----------------------------------------------------------------------------
(* auth.js *)

presentedToken(q) == IF q.bearer # Unset THEN q.bearer ELSE IF q.xauth # Unset THEN q.xauth ELSE ""

authorize(q) ==
    \/ RequiresCert(config) /\ q.cert
    \/ config["insecure-no-auth"]
    \/ config["secret"] # "" /\ presentedToken(q) = config["secret"]

(* request.js *)

Suffix == "/.default"
DropLast(s, part) == IF s # << >> /\ Last(s) = part THEN Front(s) ELSE s

resourceFromFields(q) == IF q.serverId # << >> THEN q.serverId ELSE DropLast(DropLast(q.scope, Suffix), "/")

(* app.js: the checks of a request, in their order; 0 when it may be minted *)

Subscription(q) == IF q.subscription = "" THEN config["subscription"] ELSE q.subscription

Refusal(q) ==
    IF q.method = "POST" /\ q.body \in {"large", "junk"} THEN 400
    ELSE IF resourceFromFields(q) = << >> THEN 400
    ELSE IF ~config["allow-any-resource"] /\ resourceFromFields(q) \notin config["allowed-resources"] THEN 403
    ELSE IF config["allowed-subscriptions"] # {} /\ Subscription(q) \notin config["allowed-subscriptions"] THEN 403
    ELSE 0

-----------------------------------------------------------------------------
(* A request *)

TooLarge(q) == q.method = "POST" /\ q.body = "large"

\* The TLS layer refuses plain HTTP, and a peer without a verified certificate.
Accepts(q) == (q.scheme = "https") = ServesTls(config) /\ (RequiresCert(config) => q.cert)

Connect(c, q) ==
    /\ proc = "up" /\ at[c] = "new" /\ Accepts(q)
    /\ conn' = conn \cup {c} /\ asks' = [asks EXCEPT ![c] = q]
    /\ Goto(c, "open")
    /\ UNCHANGED <<launch, config, proc, status, todo, login, audit, settled>>

ResultOf(code) == IF code = 200 THEN "ok" ELSE IF code \in {401, 403} THEN "deny" ELSE "error"
Record(a, what) == [by |-> a, what |-> what]

\* One record, then the response, which reaches the client if it is still there.
Answer(c, code) ==
    /\ emit(Record(c, ResultOf(code)))
    /\ status' = [status EXCEPT ![c] = IF c \in conn THEN code ELSE 0]
    /\ Goto(c, "done")
    /\ UNCHANGED <<launch, config, proc, asks, todo, login, settled>>

\* The head of the request arrived.
Arrives(c) ==
    /\ Running /\ at[c] = "open" /\ UNCHANGED conn
    /\ \/ ~authorize(asks[c]) /\ Answer(c, 401)
       \/ /\ authorize(asks[c]) /\ Goto(c, "body")
          /\ UNCHANGED <<launch, config, proc, asks, status, todo, login, audit, settled>>

\* The body of a POST arrived, all of it or too much; a GET has its query.
BodyRead(c) ==
    /\ Running /\ at[c] = "body" /\ c \in conn
    /\ \/ /\ Refusal(asks[c]) = 0 /\ Goto(c, "mint")
          /\ UNCHANGED <<launch, config, proc, conn, asks, status, todo, login, audit, settled>>
       \/ /\ Refusal(asks[c]) # 0 /\ ~TooLarge(asks[c])
          /\ Answer(c, Refusal(asks[c])) /\ UNCHANGED conn

\* Beyond MAX_BODY_BYTES the connection is destroyed, so that nobody gets the
\* answer; so it is when the client goes before its body is there.
BodyCut(c) ==
    /\ Running /\ at[c] = "body" /\ asks[c].method = "POST"
    /\ \/ TooLarge(asks[c])
       \/ c \notin conn
    /\ conn' = conn \ {c}
    /\ emit(Record(c, "error"))
    /\ Goto(c, "done")
    /\ UNCHANGED <<launch, config, proc, asks, status, todo, login, settled>>

\* The mint ends, or the retry of it after a login.
MintEnds(c) ==
    /\ Running /\ at[c] = "mint" /\ UNCHANGED conn
    /\ \E code \in {200, 502, 503} : Answer(c, code)

\* The client goes, or an idle connection times out or is closed.
Gone(c) ==
    /\ Running /\ c \in conn /\ (at[c] = "body" => asks[c].method = "POST")
    /\ conn' = conn \ {c}
    /\ Goto(c, IF at[c] = "open" THEN "gone" ELSE at[c])
    /\ UNCHANGED <<launch, config, proc, asks, status, todo, login, audit, settled>>

-----------------------------------------------------------------------------
(* Keepalive and login, which write lifecycle records *)

TickFires(t) ==
    /\ proc = "up" /\ at[t] = "new" /\ config["keepalive-minutes"] > 0
    /\ todo' = [todo EXCEPT ![t] = config["allowed-resources"]]
    /\ Goto(t, "mint")
    /\ UNCHANGED <<launch, config, proc, conn, asks, status, login, audit, settled>>

TickMinted(t) ==
    /\ Running /\ at[t] = "mint"
    /\ emit(Record(t, "keepalive")) /\ \E r \in todo[t] : todo' = [todo EXCEPT ![t] = @ \ {r}]
    /\ Goto(t, IF todo'[t] = {} THEN "done" ELSE "mint")
    /\ UNCHANGED <<launch, config, proc, conn, asks, status, login, settled>>

\* A mint found the refresh token dead.
LoginStarts ==
    /\ Running /\ login = "no" /\ config["auto-login"]
    /\ \E a \in Client \cup Tick : at[a] = "mint" /\ emit(Record(a, "login started"))
    /\ login' = "running"
    /\ UNCHANGED <<launch, config, proc, conn, at, asks, status, todo, settled>>

LoginEnds ==
    /\ Running /\ login = "running"
    /\ emit(Record("login", "ok"))
    /\ login' = "over"
    /\ UNCHANGED <<launch, config, proc, conn, at, asks, status, todo, settled>>

-----------------------------------------------------------------------------
(* Shutdown *)

\* SIGINT or SIGTERM: no new connection, no new tick; a second signal is ignored.
Stop ==
    /\ proc = "up" /\ proc' = "stopping"
    /\ UNCHANGED <<launch, config, conn, at, asks, status, todo, login, audit, settled>>

\* finish(): audit.close() ends the stream.
Finish ==
    /\ proc = "stopping" /\ ~settled
    /\ settled' = TRUE
    /\ stream' = IF stream = "open" THEN "ended" ELSE stream
    /\ UNCHANGED <<launch, config, proc, conn, at, asks, status, todo, login, buffered, trail, broke>>

\* server.close: every connection has ended.
Drained == conn = {} /\ Finish

ForceNever == FALSE /\ Finish  \* mutant: no force timer
\* SHUTDOWN_TIMEOUT_MS elapsed.
ForceFinish == Finish

ClosedAtOnce == settled  \* mutant: the flush is not awaited
\* What audit.close() returns resolves with the stream's 'finish' or its failure.
Closed == settled /\ stream # "open" /\ buffered = << >>

Exit ==
    /\ proc = "stopping" /\ Closed
    /\ proc' = "exited"
    /\ UNCHANGED <<launch, config, conn, at, asks, status, todo, login, audit, settled>>

Daemon ==
    \/ Start \/ StreamWrites \/ StreamFails \/ LoginStarts \/ LoginEnds
    \/ \E c \in Client : Arrives(c) \/ BodyRead(c) \/ BodyCut(c) \/ MintEnds(c)
    \/ \E t \in Tick : TickFires(t) \/ TickMinted(t)
    \/ Stop \/ Drained \/ ForceFinish \/ Exit

Next ==
    \/ Daemon
    \/ \E c \in Client : Gone(c) \/ \E q \in Requests : Connect(c, q)

Spec == Init /\ [][Next]_vars

\* The disk writes, and the process goes on; nothing is asked of the clients,
\* of az or of the login.
Fairness == WF_vars(StreamWrites) /\ WF_vars(ForceFinish) /\ WF_vars(Exit)
FairSpec == Spec /\ Fairness

-----------------------------------------------------------------------------
(* Properties *)

\* What is in the trail, or still on its way to the file.
Kept == trail \cup IF proc = "exited" THEN {} ELSE ToSet(buffered)

Results == {"ok", "deny", "error"}

\* The audit trail is the only record per caller of who obtained a token:
\* whatever a client received is in it, and something is of every request that
\* was handled, though its client was gone by then or its body too large.  So it
\* is after the process is gone, unless the file failed or something was
\* written after the trail was closed.
TrailComplete ==
    broke = "no" =>
        \A c \in Client :
            /\ status[c] # 0 => Record(c, ResultOf(status[c])) \in Kept
            /\ at[c] = "done" => \E w \in Results : Record(c, w) \in Kept

\* A shutdown ends, whatever clients, az and the login do.
StopEnds == proc = "stopping" ~> proc = "exited"

Flags(l, name) == {i \in DOMAIN l.argv : l.argv[i].flag /\ l.argv[i].name = name}

\* The text of a flag's last use: a word after it is its value, unless the flag
\* is a boolean one.
Said(l, name) ==
    LET i == Max(Flags(l, name))
    IN  IF l.argv[i].val # Unset THEN l.argv[i].val
        ELSE IF name \in BOOLEAN_FLAGS \/ i = Len(l.argv) \/ l.argv[i + 1].flag THEN Lone
        ELSE l.argv[i + 1].name

Uses(l, name) == Flags(l, name) # {} /\ Said(l, name) # ""

\* The text meant for setting s: that of its flag, else the environment's, else
\* that of its last line in the env file; there a name stands for what the
\* environment, or a key that first appears before s does, makes of it.
Meant(l, s) ==
    LET File == IF EnvFile(l) \in DOMAIN l.files /\ ~Uses(l, "no-env-file")
                THEN l.files[EnvFile(l)] ELSE << >>
        Lines == {j \in DOMAIN File : File[j].key = s}
        Before == DOMAIN l.env \cup {File[j].key : j \in 1 .. Min(Lines) - 1}
    IN  IF Flags(l, s) # {} /\ s \notin OnByDefault THEN Said(l, s)
        ELSE IF s \in DOMAIN l.env THEN l.env[s]
        ELSE IF Lines # {}
        THEN expandValue(File[Max(Lines)].val, [n \in Before |-> Environment(l)[n]])
        ELSE Unset

\* Flags win over the environment, and that over the env file: nobody's file
\* changes what the command line or the environment decided.
Precedence ==
    config # << >> =>
        \A s \in Settings :
            config[s] = IF s \in OnByDefault /\ Uses(launch, OffFlag[s]) THEN FALSE
                        ELSE Converted(s, Meant(launch, s), Environment(launch))

\* Nobody is served whom the launch did not mean to: a launch that names a
\* client CA admits only peers with a verified certificate; any other, unless it
\* disables authentication, hands tokens only to those who present its secret.
CallersKnown ==
    \A c \in Client :
        LET Setting(s) == Converted(s, Meant(launch, s), Environment(launch))
        IN  /\ at[c] \notin {"new", "absent"} /\ Setting("tls-client-ca") # "" => asks[c].cert
            /\ status[c] = 200 =>
                 \/ Setting("tls-client-ca") # "" \/ Setting("insecure-no-auth")
                 \/ Setting("secret") \in {presentedToken(asks[c])} \ {""}

-----------------------------------------------------------------------------
(* Statements the code does not keep: see the README *)

\* A shutdown loses no audit lines: only a file that cannot be written does.
NothingLost == broke # "late"

\* Nor does it cut a request short.
NothingCut == proc = "exited" => \A c \in Client : at[c] # "mint"
=============================================================================
