----------------------------- MODULE MCExchange -----------------------------
(* An instance of Exchange for TLC: three families of initial states. *)
EXTENDS Exchange

CONSTANTS p1, p2, c1, c2, t1

Shims == {p1, p2}
Clients == Shims \cup {c1, c2}
Ticks == {t1}

NumberTexts == "0" :> 0 @@ "30" :> 30 @@ "300" :> 300 @@ "-1" :> -1
ListTexts == "aks" :> {<<"aks">>} @@ "aks,arm" :> {<<"aks">>, <<"arm">>} @@ "S1" :> {"S1"}
RefTexts == "$SECRET_OF" :> "SECRET_OF"

-----------------------------------------------------------------------------
(* The shims *)

Ids == "aks" :> <<"aks">> @@ "aks//" :> <<"aks", "/", "/">> @@ "aks/.default" :> <<"aks", Suffix>>
       @@ "arm/" :> <<"arm", "/">>
Urls == "http://b" :> [scheme |-> "http", subscription |-> ""]
     @@ "https://b" :> [scheme |-> "https", subscription |-> ""]
     @@ "ftp://b" :> [scheme |-> "ftp", subscription |-> ""]
Headers == "auth=s" :> [kind |-> "authorization", val |-> "s"]
        @@ "auth=old" :> [kind |-> "authorization", val |-> "old"]
        @@ "x=s" :> [kind |-> "x-auth-token", val |-> "s"]
ReadableFiles == "hdr" :> <<"", "auth=s">> @@ "bad" :> <<"s">> @@ "ca" :> << >> @@ "crt" :> << >>
Typos == {"--token-endpoint-cafile"}

In(f, v) == [flag |-> f, val |-> v, inline |-> TRUE]
With(f, v) == [flag |-> f, val |-> v, inline |-> FALSE]
Bare(f) == [flag |-> f, val |-> Unset, inline |-> FALSE]
Cmd(groups) == [groups |-> groups, before |-> 0, env |-> << >>]
Kube(id, more) == Cmd(<<In("--login", "azurecli"), In("--server-id", id),
                        In("--token-endpoint", "http://b"), In("--token-endpoint-header", "auth=s")>> \o more)

\* Commands that may share a cache file, and some of which must not.
Sharing == {
    Kube("aks", << >>),
    Kube("aks//", <<With("-t", "T"), With("--token-endpoint-method", "get")>>),
    Kube("aks/.default", <<With("--environment", "AzurePublicCloud"), Bare("--pop-enabled")>>),
    Kube("arm/", <<Bare("--some-switch"), With("--tenant-id", "T")>>)}

Alone == {
    Kube("aks", <<In("--token-endpoint-header", "auth=old"), With("--token-endpoint-header-file", "hdr"),
                  Bare("--disable-token-cache")>>),
    Kube("aks", <<In("--token-cache-dir", ""), In("--token-cache-refresh-skew", "-1")>>),
    Kube("aks", <<In("--token-endpoint-cafile", "ca")>>),
    Kube("aks", <<With("--token-endpoint-header-file", "bad")>>),
    Kube("aks", <<Bare("--help")>>), Kube("aks", <<With("--token-endpoint", "ftp://b")>>),
    Kube("aks", <<With("--token-endpoint-cert", "crt")>>),
    \* words before get-token, the second time with a flag that then takes get-token along
    [Cmd(<<With("--environment", "X"), With("--server-id", "aks"), With("--token-endpoint", "http://b")>>)
        EXCEPT !.before = 2],
    [Cmd(<<With("--legacy", "get-token"), With("--server-id", "aks"), With("--token-endpoint", "http://b"),
           In("--token-endpoint-header", "auth=s"), Bare("--some-switch"), With("-t", "T")>>) EXCEPT !.before = 5],
    Cmd(<<With("--environment", "X"), Bare("--legacy"), With("--server-id", "aks"),
          With("--token-endpoint-header", "x=s"), In("--disable-token-cache", "false")>>),
    [groups |-> <<Bare("--some-switch"), Bare("--legacy"), With("--server-id", "aks"), With("-t", "T"),
                  In("--server-id", "arm/"), Bare("--disable-token-cache")>>,
     before |-> 4,
     env |-> "AAD_TOKEN_ENDPOINT" :> "http://b" @@ "AAD_TOKEN_CACHE_DIR" :> ""]}

AllCommands == Sharing \cup Alone

-----------------------------------------------------------------------------
(* The daemon's launches *)

NoEnv == << >>
Pems == "crt" :> << >> @@ "key" :> << >> @@ "ca" :> << >>
Line(k, v) == [key |-> k, val |-> v]
Tls == <<FlagIs("tls-cert", "crt"), FlagIs("tls-key", "key")>>

WithAudit == [argv |-> <<Flag("secret"), Word("s"), FlagIs("audit-log", "log")>>,
              env |-> NoEnv, files |-> << >>]
AuditOnly == [WithAudit EXCEPT !.argv = Append(@, Flag("no-auto-login"))]
ForShims == [argv |-> <<Flag("secret"), Word("s"), Flag("no-auto-login"), Flag("pass-tenant"),
                        FlagIs("allowed-resources", "aks,arm"), FlagIs("subscription", "S1"),
                        FlagIs("allowed-subscriptions", "S1"), FlagIs("keepalive-minutes", "0")>>,
             env |-> NoEnv, files |-> << >>]
\* The list of resources by default, which lacks what some shims ask for.
ForAks == [argv |-> <<Flag("secret"), Word("s"), Flag("no-auto-login"), FlagIs("keepalive-minutes", "0")>>,
           env |-> NoEnv, files |-> << >>]

Configs == {
    \* the file fills what flags and environment leave open, once
    [argv |-> <<Flag("no-auto-login"), Word("stray"), FlagIs("keepalive-minutes", "0")>>,
     env |-> "secret" :> "s" @@ "keepalive-minutes" :> "30",
     files |-> DEFAULT_ENV_FILE :>
        <<Line("secret", "other"), Line("allow-any-resource", "yes"), Line("keepalive-minutes", "300")>>],
    [argv |-> <<FlagIs("env-file", "conf")>>, env |-> NoEnv,
     files |-> "conf" :> <<Line("SECRET_OF", "old"), Line("secret", "$SECRET_OF"), Line("SECRET_OF", "s")>>],
    \* a reference to what comes later; a flag with an empty text is none
    [argv |-> <<FlagIs("no-env-file", ""), Flag("insecure-no-auth")>>, env |-> NoEnv,
     files |-> DEFAULT_ENV_FILE :> <<Line("secret", "$SECRET_OF"), Line("SECRET_OF", "s")>>],
    \* a reference to nothing, a switch given twice, an empty flag over the environment
    [argv |-> <<FlagIs("secret", "s"), Flag("insecure-no-auth"), FlagIs("insecure-no-auth", "false")>>,
     env |-> "audit-log" :> "$SECRET_OF" @@ "insecure-no-auth" :> "1" @@ "auto-login" :> "", files |-> << >>],
    [argv |-> <<FlagIs("tls-client-ca", "")>> \o Tls,
     env |-> "tls-client-ca" :> "ca" @@ "secret" :> "s", files |-> Pems],
    \* authentication: by certificate, by either, by none
    [argv |-> <<FlagIs("tls-client-ca", "ca")>> \o Tls, env |-> NoEnv, files |-> Pems],
    [argv |-> <<Flag("tls-client-ca"), Word("ca"), FlagIs("secret", "s")>> \o Tls, env |-> NoEnv, files |-> Pems],
    [argv |-> <<Flag("insecure-no-auth"), FlagIs("allowed-resources", "aks,arm"), Flag("no-env-file")>>, env |-> NoEnv,
     files |-> DEFAULT_ENV_FILE :> <<Line("secret", "s")>>],
    \* refused
    [argv |-> <<FlagIs("tls-client-ca", "ca"), FlagIs("secret", "s")>>, env |-> NoEnv, files |-> Pems],
    [argv |-> <<Flag("secret"), Word("s"), FlagIs("tls-cert", "crt")>>, env |-> NoEnv, files |-> Pems],
    [argv |-> <<Flag("secret"), Word("s"), FlagIs("env-file", "gone")>>, env |-> NoEnv, files |-> << >>],
    [argv |-> <<Flag("secret"), Word("s"), Flag("audit-log")>>, env |-> NoEnv, files |-> << >>],
    [argv |-> <<Flag("help")>>, env |-> NoEnv, files |-> << >>],
    [argv |-> << >>, env |-> NoEnv, files |-> << >>]}

AllLaunches == {WithAudit, AuditOnly, ForShims, ForAks} \cup Configs

-----------------------------------------------------------------------------
(* What other clients ask *)

Ask(scheme, cert, token) ==
    [method |-> "POST", scheme |-> scheme, cert |-> cert, bearer |-> token, xauth |-> Unset,
     body |-> "json", scope |-> << >>, serverId |-> <<"aks">>, tenant |-> "", subscription |-> ""]

Audited == {Ask("http", FALSE, "s"), [Ask("http", FALSE, "s") EXCEPT !.body = "large"]}
Probing == {Ask(s, c, t) : s \in {"http", "https"}, c \in {FALSE}, t \in {"s", "other", Unset}}
    \cup {Ask("https", TRUE, Unset),
          [Ask("http", FALSE, "s") EXCEPT !.serverId = <<"arm">>],
          [Ask("http", FALSE, "s") EXCEPT !.serverId = << >>, !.scope = <<"aks", "/", Suffix>>, !.method = "GET"],
          [Ask("http", FALSE, "s") EXCEPT !.body = "junk"]}
AllRequests == Audited \cup Probing

-----------------------------------------------------------------------------
Present(actors) == \A a \in Client \cup Tick : at[a] = IF a \in actors THEN "new" ELSE "absent"

\* A client, a tick and the login, or two clients, with an audit file; every
\* launch with one client; shims that run in parallel, or alone.
MCInit ==
    /\ ExchangeInit
    /\ \/ launch = WithAudit /\ Present({c1, t1})
       \/ launch = AuditOnly /\ Present({c1, c2})
       \/ launch \in Configs /\ Present({c1})
       \/ launch = ForShims /\ Present({p1, p2}) /\ \A p \in Shims : command[p] \in Sharing
       \/ launch = ForShims /\ Present({p1})
       \/ launch = ForAks /\ Present({p1}) /\ command[p1] \in Sharing
    /\ \A p \in Shims : at[p] = "absent" => command[p] = Kube("aks", << >>)

MCSpec == MCInit /\ [][ExchangeNext]_everything /\ Fairness
=============================================================================
