------------------------------ MODULE ShimArgs ------------------------------
(***************************************************************************)
(* What kubelogin-http-shim makes of its command line and environment:     *)
(* lib/args.js, env.js, scope.js, the request of token.js and the cache    *)
(* file of cache.js.  Pure operators.                                      *)
(*                                                                         *)
(* A token of the command line is [flag, name, val] as in BridgeConfig; a  *)
(* flag that is taken as the value of another has its name as its text.    *)
(* Warnings, and what a file or a header says besides credentials, are     *)
(* left out.                                                               *)
(***************************************************************************)
EXTENDS Integers, SequencesExt

CONSTANTS
    Numeral,   \* the texts Number() reads, and the numbers they are
    Spelling,  \* the texts of server ids, as the sequences of their parts
    Endpoint,  \* the texts that are URLs: their scheme, and the subscription of their query
    HeaderOf,  \* the texts key=value: the credential they carry, and its value
    Files,     \* the readable files, as their lines
    Mistyped   \* names that begin with --token-endpoint and are no flag

Unset == "(unset)"  \* undefined or null

-----------------------------------------------------------------------------
(* env.js: the environment is a function of names *)

get(env, n) == IF n \in DOMAIN env THEN env[n] ELSE ""

(* args.js *)

VALUE_FLAGS ==
    [flag \in {"--login", "-l", "--server-id", "--tenant-id", "-t", "--token-endpoint",
               "--token-endpoint-method", "--token-endpoint-ca-file", "--token-endpoint-cert",
               "--token-endpoint-key", "--token-cache-dir", "--token-cache-refresh-skew"} |->
        CASE flag \in {"--login", "-l"}           -> "login"
          [] flag = "--server-id"                -> "serverID"
          [] flag \in {"--tenant-id", "-t"}       -> "tenantID"
          [] flag = "--token-endpoint"           -> "tokenEndpoint"
          [] flag = "--token-endpoint-method"    -> "method"
          [] flag = "--token-endpoint-ca-file"   -> "caFile"
          [] flag = "--token-endpoint-cert"      -> "certFile"
          [] flag = "--token-endpoint-key"       -> "keyFile"
          [] flag = "--token-cache-dir"          -> "tokenCacheDir"
          [] flag = "--token-cache-refresh-skew" -> "tokenCacheRefreshSkew"]

ARRAY_FLAGS ==
    [flag \in {"--token-endpoint-header", "--token-endpoint-header-file"} |->
        IF flag = "--token-endpoint-header" THEN "headers" ELSE "headerFiles"]

BOOL_FLAGS ==
    [flag \in {"--token-endpoint-insecure-skip-tls-verify", "--disable-token-cache"} |->
        IF flag = "--disable-token-cache" THEN "disableTokenCache" ELSE "insecureSkipTLSVerify"]

HELP_FLAGS ==
    [flag \in {"--help", "-h", "--version", "-v"} |->
        IF flag \in {"--help", "-h"} THEN "help" ELSE "version"]

\* The flags with a value, which is the next token when it is not in their own.
Valued == DOMAIN VALUE_FLAGS \cup DOMAIN ARRAY_FLAGS

KNOWN_BOOL_IGNORED ==
    {"--pop-enabled", "--legacy", "--disable-instance-discovery",
     "--disable-environment-override", "--use-azurerm-env-vars"}

parseBool(v) == v \in {"", "1", "true", "yes", "on"}
envFlag(env, n) == get(env, n) # "" /\ parseBool(get(env, n))
envCacheDir(env) ==
    IF "AAD_TOKEN_CACHE_DIR" \in DOMAIN env THEN env["AAD_TOKEN_CACHE_DIR"] ELSE Unset

Defaults(env) ==
    LET skew == get(env, "AAD_TOKEN_CACHE_REFRESH_SKEW") IN
    [command |-> Unset, login |-> Unset, serverID |-> "", tenantID |-> "",
     tokenEndpoint |-> get(env, "AAD_TOKEN_ENDPOINT"), method |-> "",
     headers |-> << >>, headerFiles |-> << >>, caFile |-> "", certFile |-> "", keyFile |-> "",
     insecureSkipTLSVerify |-> FALSE, tokenCacheDir |-> envCacheDir(env),
     disableTokenCache |-> envFlag(env, "AAD_DISABLE_TOKEN_CACHE"),
     tokenCacheRefreshSkew |-> IF skew = "" THEN "300" ELSE skew,
     help |-> FALSE, version |-> FALSE]

\* mutant: an unknown flag swallows whatever follows, flags included
SwallowsFlag(cfg, argv, i) ==
    argv[i].val = Unset /\ argv[i].name \notin KNOWN_BOOL_IGNORED /\ cfg.command # Unset /\ i < Len(argv)

\* The unknown flag at i takes the word that follows along.
Swallows(cfg, argv, i) ==
    /\ argv[i].val = Unset /\ argv[i].name \notin KNOWN_BOOL_IGNORED /\ cfg.command # Unset
    /\ i < Len(argv) /\ ~argv[i + 1].flag

\* What the tokens before next gave, or that ShimArgError was thrown.
Parsed(cfg, next) == [cfg |-> cfg, next |-> next, error |-> FALSE]
Threw(out) == [cfg |-> out.cfg, next |-> out.next, error |-> TRUE]

\* The turn of the token at i, after those before it gave out.
Turn(out, argv, i) ==
    LET c == out.cfg
        t == argv[i]
        After == IF t.val # Unset THEN i + 1 ELSE i + 2
        Value == IF t.val # Unset THEN t.val ELSE argv[i + 1].name
        Set(field, v) == [c EXCEPT ![field] = v]
        Push(field, v) == [c EXCEPT ![field] = Append(@, v)]
    IN  IF out.error \/ i < out.next THEN out
        ELSE IF ~t.flag THEN Parsed(IF c.command = Unset THEN Set("command", t.name) ELSE c, i + 1)
        ELSE IF t.name \in DOMAIN HELP_FLAGS /\ t.val = Unset
             THEN Parsed(Set(HELP_FLAGS[t.name], TRUE), i + 1)
        ELSE IF t.name \in DOMAIN BOOL_FLAGS
             THEN Parsed(Set(BOOL_FLAGS[t.name], t.val = Unset \/ parseBool(t.val)), i + 1)
        ELSE IF t.name \in Valued /\ After > Len(argv) + 1 THEN Threw(out)
        ELSE IF t.name \in DOMAIN ARRAY_FLAGS THEN Parsed(Push(ARRAY_FLAGS[t.name], Value), After)
        ELSE IF t.name \in DOMAIN VALUE_FLAGS THEN Parsed(Set(VALUE_FLAGS[t.name], Value), After)
        ELSE IF t.name \in Mistyped THEN Threw(out)
        ELSE Parsed(c, IF Swallows(c, argv, i) THEN i + 2 ELSE i + 1)

parseArgs(argv, env) ==
    LET out[i \in 0 .. Len(argv)] ==
            IF i = 0 THEN Parsed(Defaults(env), 1)
            ELSE Turn(out[i - 1], argv, i)
    IN  out[Len(argv)]

Upper == "get" :> "GET" @@ "post" :> "POST" @@ "" :> "POST"  \* toUpperCase, and the default
Method(cfg) == IF cfg.method \in DOMAIN Upper THEN Upper[cfg.method] ELSE cfg.method

\* validateArgs throws no error.
validateArgs(cfg) ==
    /\ cfg.command \in {Unset, "", "get-token"}
    /\ cfg.serverID # "" /\ cfg.tokenEndpoint \in DOMAIN Endpoint
    /\ Endpoint[cfg.tokenEndpoint].scheme \in {"http", "https"}
    /\ Method(cfg) \in {"GET", "POST"}
    /\ (cfg.certFile = "") = (cfg.keyFile = "")
    /\ \A h \in ToSet(cfg.headers) : h \in DOMAIN HeaderOf
    /\ \/ cfg.tokenCacheRefreshSkew = ""
       \/ cfg.tokenCacheRefreshSkew \in {t \in DOMAIN Numeral : Numeral[t] >= 0}

-----------------------------------------------------------------------------
(* scope.js *)

Suffix == "/.default"
TrimSlashes(s) == SubSeq(s, 1, Max({0} \cup {n \in DOMAIN s : s[n] # "/"}))
Suffixed(s) == s # << >> /\ Last(s) = Suffix

getScope(id) ==
    LET trimmed == TrimSlashes(Spelling[id])
    IN  IF Suffixed(trimmed) THEN trimmed ELSE Append(trimmed, Suffix)

SuffixKept(scope) == TrimSlashes(scope)  \* mutant: the suffix stays
serverIDFromScope(scope) == TrimSlashes(IF Suffixed(scope) THEN Front(scope) ELSE scope)

-----------------------------------------------------------------------------
(* token.js *)

\* Blank lines and comments are dropped.
readHeaderFiles(paths) ==
    LET Lines(out, p) == out \o SelectSeq(Files[p], LAMBDA l : l # "") IN FoldLeft(Lines, << >>, paths)

\* A file cannot be read, or has a line that is no header.
Unreadable(cfg) ==
    \/ \E p \in ToSet(cfg.headerFiles) :
         p \notin DOMAIN Files \/ \E l \in ToSet(Files[p]) : l \notin DOMAIN HeaderOf \cup {""}
    \/ /\ Endpoint[cfg.tokenEndpoint].scheme = "https"
       /\ \E p \in {cfg.caFile, cfg.certFile, cfg.keyFile} \ {""} : p \notin DOMAIN Files

\* Headers of a file come after the inline ones: the last of a name stands.
buildRequest(cfg) ==
    LET url == Endpoint[cfg.tokenEndpoint]
        Headers == cfg.headers \o readHeaderFiles(cfg.headerFiles)
        Credential(kind) ==
            LET of == SelectSeq(Headers, LAMBDA h : HeaderOf[h].kind = kind)
            IN  IF of = << >> THEN Unset ELSE HeaderOf[Last(of)].val
    IN  [method |-> Method(cfg), scheme |-> url.scheme,
         cert |-> url.scheme = "https" /\ cfg.certFile # "",
         bearer |-> Credential("authorization"), xauth |-> Credential("x-auth-token"),
         body |-> "json",
         scope |-> getScope(cfg.serverID), serverId |-> serverIDFromScope(getScope(cfg.serverID)),
         tenant |-> cfg.tenantID,
         subscription |-> IF Method(cfg) = "GET" THEN url.subscription ELSE ""]

-----------------------------------------------------------------------------
(* cache.js *)

DefaultCacheDir == "~/.kube/cache/kubelogin-http-shim"

\* Unset when caching is disabled.
resolveCacheDir(cfg) ==
    IF cfg.disableTokenCache \/ cfg.tokenCacheDir = "" THEN Unset
    ELSE IF cfg.tokenCacheDir = Unset THEN DefaultCacheDir ELSE cfg.tokenCacheDir

TenantlessKey(cfg) == <<cfg.tokenEndpoint, getScope(cfg.serverID)>>  \* mutant: no tenant
cacheKey(cfg) == <<cfg.tokenEndpoint, getScope(cfg.serverID), cfg.tenantID>>

cacheFilePath(cfg) == <<resolveCacheDir(cfg), cacheKey(cfg)>>
Caches(cfg) == resolveCacheDir(cfg) # Unset
=============================================================================
