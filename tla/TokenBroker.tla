----------------------------- MODULE TokenBroker -----------------------------
(***************************************************************************)
(* aad-bridge/lib/app.js over the token cache: token requests and the      *)
(* keepalive, the recovery when the refresh token has died (one az login   *)
(* at a time, which requests wait for, up to a timeout), and the health    *)
(* that /healthz reports.  The Azure CLI's credentials are external.       *)
(*                                                                         *)
(* A handler is cut where it awaits.  What an await returns is handled     *)
(* before any other event, as the microtask queue is: Quiet says that it   *)
(* is empty.                                                               *)
(***************************************************************************)
EXTENDS TokenCache

CONSTANTS
    Keepalive,    \* the callers that are ticks of the keepalive timer
    AutoLogin,    \* config.autoLogin
    MaxLogins,    \* bound: logins that succeed
    MaxDeaths     \* bound: times the refresh token dies

ASSUME TokenBrokerAssumption ==
    /\ Keepalive \subseteq Caller
    /\ AutoLogin \in BOOLEAN
    /\ MaxLogins \in Nat /\ MaxDeaths \in Nat

Request == Caller \ Keepalive

VARIABLES
    alive,         \* external: the refresh token works
    deaths,        \* external: times it died
    session,       \* external: logins that succeeded
    reads,         \* external: what the az process of each caller found, "none" yet
    readIn,        \* external: the session it found that in
    logins,        \* az login processes that run
    loginPromise,  \* a login is in flight, for ensureReauth
    needsReauth,   \* health.needsReauth
    phase,         \* where each caller's handler awaits
    waited,        \* history: how the wait for a login ended
    status         \* the HTTP status a request was answered with, 0 before

identity == <<alive, deaths, session>>
processes == <<reads, readIn>>
login == <<logins, loginPromise, needsReauth>>
handlers == <<phase, waited, status>>
vars == <<cacheVars, identity, processes, login, handlers>>

Init ==
    /\ InitCache
    /\ alive \in BOOLEAN /\ deaths = 0 /\ session = 0
    /\ reads = [c \in Caller |-> "none"] /\ readIn = [c \in Caller |-> 0]
    /\ logins = 0 /\ loginPromise = FALSE /\ needsReauth = FALSE
    /\ phase = [c \in Caller |-> "idle"]
    /\ waited = [c \in Caller |-> "no"]
    /\ status = [c \in Caller |-> 0]

Quiet == \A c \in Caller : result[c] = "none" /\ phase[c] # "retry"

Goto(c, p) == phase' = [phase EXCEPT ![c] = p]

-----------------------------------------------------------------------------
(* The Azure CLI *)

\* az account get-access-token reads the identity's credentials.
AzReads(m) ==
    /\ m \in az /\ reads[m] = "none"
    /\ reads' = [reads EXCEPT ![m] = IF alive THEN "ok" ELSE "reauth"]
    /\ readIn' = [readIn EXCEPT ![m] = session]
    /\ UNCHANGED <<cacheVars, identity, login, handlers>>

\* It ends with what it found, or fails for a reason of its own.
AzEnds(m) ==
    /\ Quiet /\ m \in az
    /\ \E o \in {reads[m], "error"} \ {"none"} : MintDone(m, o, readIn[m])
    /\ reads' = [reads EXCEPT ![m] = "none"] /\ readIn' = [readIn EXCEPT ![m] = 0]
    /\ UNCHANGED <<identity, login, handlers>>

RefreshTokenDies ==
    /\ alive /\ deaths < MaxDeaths
    /\ alive' = FALSE /\ deaths' = deaths + 1
    /\ UNCHANGED <<cacheVars, session, processes, login, handlers>>

TokenAges(k) == Quiet /\ Expire(k) /\ UNCHANGED <<identity, processes, login, handlers>>

-----------------------------------------------------------------------------
(* The single-flight login *)

\* mutants: no single flight; no second login while the first one's cause persists
ReauthEachTime ==
    loginPromise' = (loginPromise \/ AutoLogin) /\ logins' = IF AutoLogin THEN logins + 1 ELSE logins
ReauthOnce ==
    IF AutoLogin /\ ~loginPromise /\ ~needsReauth
    THEN loginPromise' = TRUE /\ logins' = logins + 1
    ELSE UNCHANGED <<loginPromise, logins>>

ensureReauth ==
    IF AutoLogin /\ ~loginPromise
    THEN loginPromise' = TRUE /\ logins' = logins + 1
    ELSE UNCHANGED <<loginPromise, logins>>

WokenNobody(how) == UNCHANGED <<phase, waited>>  \* mutant: the waiters are not resolved

\* The requests blocked on the login go on with their retry.
Woken(how) ==
    /\ phase' = [c \in Caller |-> IF phase[c] = "login" THEN "retry" ELSE phase[c]]
    /\ waited' = [c \in Caller |-> IF phase[c] = "login" THEN how ELSE waited[c]]

LoginSucceeds ==
    /\ Quiet /\ logins > 0 /\ session < MaxLogins
    /\ alive' = TRUE /\ session' = session + 1
    /\ logins' = logins - 1 /\ loginPromise' = FALSE /\ needsReauth' = FALSE
    /\ clear
    /\ Woken("ok")
    /\ UNCHANGED <<mints, want, result, deaths, processes, status>>

LoginFails ==
    /\ Quiet /\ logins > 0
    /\ logins' = logins - 1 /\ loginPromise' = FALSE
    /\ Woken("failed")
    /\ UNCHANGED <<cacheVars, identity, processes, needsReauth, status>>

WaitForever(c) == FALSE  \* mutant: the wait has no timeout

\* withTimeout: config.loginTimeoutMs elapsed, the login goes on.
LoginWaitTimeout(c) ==
    /\ Quiet /\ phase[c] = "login"
    /\ Goto(c, "retry")
    /\ waited' = [waited EXCEPT ![c] = "timeout"]
    /\ UNCHANGED <<cacheVars, identity, processes, login, status>>

-----------------------------------------------------------------------------
(* A token request *)

handleToken(c) ==
    /\ Quiet /\ c \in Request /\ phase[c] = "idle" /\ status[c] = 0
    /\ \E k \in Key : get(c, k)
    /\ Goto(c, "mint")
    /\ UNCHANGED <<identity, processes, login, waited, status>>

\* The handler of c goes on with an answer and is over.
Answer(c, code) ==
    /\ Resumes(c)
    /\ Goto(c, "idle")
    /\ status' = [status EXCEPT ![c] = code]
    /\ UNCHANGED <<entries, fresh, stamp, uses, mints, want, identity, processes, waited>>

TokenObtained(c) ==
    /\ c \in Request /\ result[c] = "ok"
    /\ Answer(c, 200)
    /\ needsReauth' = FALSE
    /\ UNCHANGED <<logins, loginPromise>>

\* The first mint found the refresh token dead: start or join the login and
\* wait for it.
AwaitLogin(c) ==
    /\ c \in Request /\ result[c] = "reauth" /\ phase[c] = "mint" /\ AutoLogin
    /\ needsReauth' = TRUE
    /\ ensureReauth
    /\ Resumes(c)
    /\ Goto(c, "login")
    /\ UNCHANGED <<entries, fresh, stamp, uses, mints, want, identity, processes, waited, status>>

\* The wait is over: the mint is tried once more.
RetryMint(c) ==
    /\ phase[c] = "retry"
    /\ get(c, want[c])
    /\ Goto(c, "remint")
    /\ UNCHANGED <<identity, processes, login, waited, status>>

\* The outer catch.
TokenFailed(c) ==
    /\ c \in Request
    /\ \/ result[c] = "error"
       \/ result[c] = "reauth" /\ (phase[c] = "remint" \/ ~AutoLogin)
    /\ needsReauth' = (result[c] = "reauth")
    /\ IF result[c] = "reauth" THEN ensureReauth ELSE UNCHANGED <<loginPromise, logins>>
    /\ Answer(c, IF result[c] = "reauth" THEN 503 ELSE 502)

-----------------------------------------------------------------------------
(* A tick mints the allowlisted resources one after the other; ticks overlap
   when that takes longer than the interval. *)

KeepaliveMint(t) ==
    /\ Quiet /\ t \in Keepalive /\ phase[t] = "idle"
    /\ \E k \in Key : get(t, k)
    /\ Goto(t, "mint")
    /\ UNCHANGED <<identity, processes, login, waited, status>>

KeepaliveMinted(t) ==
    /\ t \in Keepalive /\ result[t] # "none"
    /\ needsReauth' = (result[t] = "reauth")
    /\ IF result[t] = "reauth" THEN ensureReauth ELSE UNCHANGED <<loginPromise, logins>>
    /\ Answer(t, 0)

Handler(c) == TokenObtained(c) \/ AwaitLogin(c) \/ RetryMint(c) \/ TokenFailed(c)

Next ==
    \/ \E c \in Caller :
         \/ handleToken(c) \/ Handler(c) \/ LoginWaitTimeout(c) \/ AzReads(c) \/ AzEnds(c)
         \/ KeepaliveMint(c) \/ KeepaliveMinted(c)
    \/ \E k \in Key : TokenAges(k)
    \/ LoginSucceeds \/ LoginFails \/ RefreshTokenDies

Spec == Init /\ [][Next]_vars

\* The event loop goes on, az ends (execFile has a timeout) and the wait for a
\* login times out: strong fairness, because an event that finds the microtask
\* queue busy is kept until it is empty.  Nothing bounds az login itself.
Fairness ==
    /\ \A c \in Caller :
        /\ WF_vars(Handler(c)) /\ WF_vars(KeepaliveMinted(c))
        /\ SF_vars(LoginWaitTimeout(c)) /\ SF_vars(AzEnds(c))

FairSpec == Spec /\ Fairness

-----------------------------------------------------------------------------
(* Properties *)

\* Every variable keeps its type.
TypeOK ==
    /\ CacheTypeOK
    /\ alive \in BOOLEAN /\ deaths \in 0 .. MaxDeaths /\ session \in 0 .. MaxLogins
    /\ reads \in [Caller -> {"none", "ok", "reauth"}] /\ readIn \in [Caller -> 0 .. MaxLogins]
    /\ logins \in Nat /\ loginPromise \in BOOLEAN /\ needsReauth \in BOOLEAN
    /\ phase \in [Caller -> {"idle", "mint", "login", "retry", "remint"}]
    /\ waited \in [Caller -> {"no", "ok", "failed", "timeout"}]
    /\ status \in [Caller -> {0, 200, 502, 503}]

\* Concurrent re-auth errors collapse into one login: at most one az login
\* runs, exactly while loginPromise is set.
OneLogin == logins = IF loginPromise THEN 1 ELSE 0

\* No handler awaits something that will not answer it: the one that awaits the
\* cache is known to the cache, and to it alone, and the one that awaits a login
\* does so while a login runs.
HandlersAwait ==
    \A c \in Caller :
        /\ phase[c] \in {"mint", "remint"} <=> (awaits[c] # NoCaller \/ result[c] # "none")
        /\ phase[c] = "login" => loginPromise

\* A reauth failure leaves a recovery behind: when a request is answered 503,
\* a login is running.
RecoveryStarted ==
    [][\A c \in Request : AutoLogin /\ status'[c] = 503 /\ status[c] = 0 => loginPromise']_vars

\* Every request is answered, even if az login hangs.
RequestsAnswered == \A c \in Request : phase[c] # "idle" ~> status[c] # 0

-----------------------------------------------------------------------------
(* Statements the code does not keep: see the README *)

\* A request that waited for a login that succeeded is not answered 503 while
\* the new credentials work.
ServedAfterLogin ==
    [][\A c \in Request :
         status[c] = 0 /\ status'[c] = 503 /\ waited[c] = "ok" => ~alive]_vars

\* A login is started only when the identity needs one.
LoginOnlyWhenDead == [][logins' > logins => ~alive]_vars

\* After a re-login the cache holds nothing minted before it.
CacheFromSession == \A k \in Cached : stamp[k] = session

\* needsReauth, and with it the 503 of /healthz, is withdrawn only when the
\* refresh token works again.
HealthTruthful == [][needsReauth /\ ~needsReauth' => alive']_vars
=============================================================================
