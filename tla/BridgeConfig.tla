---------------------------- MODULE BridgeConfig ----------------------------
(***************************************************************************)
(* aad-bridge/lib/args.js, envfile.js and config.js: how the daemon's      *)
(* configuration comes from its command line, its environment, the env     *)
(* file and the defaults.  Pure operators of a launch, the record          *)
(*   [argv: tokens, env: name -> text, files: path -> lines].              *)
(*                                                                         *)
(* A setting goes by the name of its flag in the environment and in the    *)
(* file too.  The text of a line of the file (quotes, comments, export) and*)
(* the ~ of a path are abstracted: a line is a key and its value.          *)
(***************************************************************************)
EXTENDS Integers, SequencesExt

CONSTANTS
    Numeral,    \* the texts Number() reads, and the numbers they are
    Listed,     \* the texts of lists, and the sets of resources they name
    Refers      \* the texts $NAME, and the names they refer to

Unset == "(unset)"  \* undefined
Lone == "(true)"    \* true, the value of a flag without one

Strings == {"secret", "host", "subscription", "login-scope", "login-tenant"}
TlsFiles == {"tls-cert", "tls-key", "tls-client-ca"}
Paths == TlsFiles \cup {"az-path", "azure-config-dir", "audit-log"}
Switches == {"insecure-no-auth", "allow-any-resource", "pass-tenant", "device-code"}
OnByDefault == {"auto-login", "access-log"}
Numbers == {"port", "login-timeout-ms", "token-timeout-ms", "refresh-skew-seconds",
            "keepalive-minutes", "cache-max-entries"}
Lists == {"allowed-resources", "allowed-subscriptions"}
Settings == Strings \cup Paths \cup Switches \cup OnByDefault \cup Numbers \cup Lists

BOOLEAN_FLAGS ==
    Switches \cup {"no-env-file", "no-access-log", "no-auto-login", "help"}

\* object[key] = val
Assign(object, key, val) ==
    [k \in DOMAIN object \cup {key} |-> IF k = key THEN val ELSE object[k]]

-----------------------------------------------------------------------------
(* args.js.  A token is a flag --name or --name=val, or a word. *)

Flag(n) == [flag |-> TRUE, name |-> n, val |-> Unset]
FlagIs(n, v) == [flag |-> TRUE, name |-> n, val |-> v]
Word(w) == [flag |-> FALSE, name |-> w, val |-> Unset]
Token == [flag : BOOLEAN, name : STRING, val : STRING]

\* The flag at i takes the word after it as its value.
TakesWord(argv, i) ==
    /\ argv[i].val = Unset /\ argv[i].name \notin BOOLEAN_FLAGS
    /\ i < Len(argv) /\ ~argv[i + 1].flag

\* The loop passes over words: those that were taken, and the others.
parseArgs(argv) ==
    LET Value(i) == IF TakesWord(argv, i) THEN argv[i + 1].name
                    ELSE IF argv[i].val = Unset THEN Lone ELSE argv[i].val
        out[i \in 0 .. Len(argv)] ==
            IF i = 0 THEN << >>
            ELSE IF argv[i].flag THEN Assign(out[i - 1], argv[i].name, Value(i)) ELSE out[i - 1]
    IN  out[Len(argv)]

-----------------------------------------------------------------------------
(* envfile.js *)

EnvLine == [key : STRING, val : STRING]

\* A reference to an unset variable is empty.
expandValue(v, env) ==
    IF v \notin DOMAIN Refers THEN v
    ELSE IF Refers[v] \in DOMAIN env THEN env[Refers[v]] ELSE ""

Overwrite(env, key) == FALSE  \* mutant: the file wins over the environment
Filled(env, key) == key \in DOMAIN env

\* The parsed file keeps a key where its first line stood, with the value of
\* its last one.  Each is expanded with the keys set before it.
loadEnvFile(env, lines) ==
    LET Parsed(key) == lines[Max({i \in DOMAIN lines : lines[i].key = key})].val
        Fill(now, key) ==
            IF Filled(now, key) THEN now
            ELSE Assign(now, key, expandValue(Parsed(key), now))
        live[i \in 0 .. Len(lines)] ==
            IF i = 0 THEN env ELSE Fill(live[i - 1], lines[i].key)
    IN  live[Len(lines)]

-----------------------------------------------------------------------------
(* config.js *)

Has(f, k) == k \in DOMAIN f /\ f[k] # ""   \* f[k] is truthy

DEFAULT_ENV_FILE == "aad-bridge.env"
EnvFile(l) ==
    LET cli == parseArgs(l.argv)
    IN  IF Has(cli, "env-file") THEN expandValue(cli["env-file"], l.env) ELSE DEFAULT_ENV_FILE

Environment(l) ==
    IF Has(parseArgs(l.argv), "no-env-file") \/ EnvFile(l) \notin DOMAIN l.files THEN l.env
    ELSE loadEnvFile(l.env, l.files[EnvFile(l)])

\* CLI flag wins, then env, then undefined.
pick(l, s) ==
    IF s \in DOMAIN parseArgs(l.argv) \ OnByDefault THEN parseArgs(l.argv)[s]
    ELSE IF s \in DOMAIN Environment(l) THEN Environment(l)[s]
    ELSE Unset

parseBool(raw, fallback) ==
    IF raw = Unset THEN fallback ELSE raw \in {Lone, "1", "true", "yes", "on"}

\* Number(true) is 1 and Number('') is 0.
parseNumber(raw, fallback) ==
    IF raw = Lone THEN 1 ELSE IF raw = "" THEN 0
    ELSE IF raw \in DOMAIN Numeral THEN Numeral[raw] ELSE fallback

parseList(raw, fallback) == IF raw \in {Unset, ""} THEN fallback ELSE Listed[raw]

OrElse(raw, fallback) == IF raw \in {Unset, ""} THEN fallback ELSE raw  \* raw || fallback

DefaultText == "host" :> "0.0.0.0" @@ "az-path" :> "az"
Default(s) == IF s \in DOMAIN DefaultText THEN DefaultText[s] ELSE ""
DefaultNumber ==
    "port" :> 8765 @@ "login-timeout-ms" :> 120000 @@ "token-timeout-ms" :> 60000 @@
    "refresh-skew-seconds" :> 300 @@ "keepalive-minutes" :> 360 @@ "cache-max-entries" :> 256
DefaultList == "allowed-resources" :> Listed["aks"] @@ "allowed-subscriptions" :> {}

\* The value of setting s that the text raw stands for, in the environment env.
Converted(s, raw, env) ==
    CASE s \in Strings     -> OrElse(raw, Default(s))
      [] s \in Paths       -> expandValue(OrElse(raw, Default(s)), env)
      [] s \in Switches    -> parseBool(raw, FALSE)
      [] s \in OnByDefault -> parseBool(raw, TRUE)
      [] s \in Numbers     -> parseNumber(raw, DefaultNumber[s])
      [] s \in Lists       -> parseList(raw, DefaultList[s])

OffFlag == "auto-login" :> "no-auto-login" @@ "access-log" :> "no-access-log"

loadConfig(l) ==
    [s \in Settings |->
        IF s \in OnByDefault /\ Has(parseArgs(l.argv), OffFlag[s]) THEN FALSE
        ELSE Converted(s, pick(l, s), Environment(l))]

ServesTls(c) == c["tls-cert"] # ""
RequiresCert(c) == ServesTls(c) /\ c["tls-client-ca"] # ""

NoComplaint(c) == FALSE  \* mutant: mTLS is accepted without HTTPS
MtlsWithoutTls(c) == c["tls-client-ca"] # "" /\ c["tls-cert"] = ""

Fatal(c, files) ==
    \/ c["secret"] = "" /\ ~c["insecure-no-auth"] /\ c["tls-client-ca"] = ""
    \/ (c["tls-cert"] = "") # (c["tls-key"] = "")
    \/ \E f \in TlsFiles : c[f] # "" /\ c[f] \notin files
    \/ MtlsWithoutTls(c)

\* The daemon exits instead of listening: --help, an --env-file that is not
\* there, a path flag without its path (a TypeError), or a fatal configuration.
Refuses(l) ==
    LET cli == parseArgs(l.argv)
    IN  \/ Has(cli, "help")
        \/ ~Has(cli, "no-env-file") /\ Has(cli, "env-file")
             /\ (cli["env-file"] = Lone \/ EnvFile(l) \notin DOMAIN l.files)
        \/ \E s \in Paths : pick(l, s) = Lone
        \/ Fatal(loadConfig(l), DOMAIN l.files)
=============================================================================
