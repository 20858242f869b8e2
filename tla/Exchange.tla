------------------------------ MODULE Exchange ------------------------------
(***************************************************************************)
(* kubectl's credential plugins against the daemon: the processes of       *)
(* kubelogin-http-shim, from their command line to the token they print,   *)
(* are clients of the aad-bridge of Bridge, and share a cache directory.   *)
(* How they write it is ShimCache's matter, and that kubectl may have asked*)
(* for an answer that a process cannot give: here a file is whole or absent*)
(* and a token that a process has is printed.                              *)
(***************************************************************************)
EXTENDS Bridge

CONSTANTS
    Plugin,                            \* the clients that are shims
    Commands,                          \* what a shim may be run with
    Spelling, Endpoint, HeaderOf, Files, Mistyped   \* of ShimArgs

ASSUME ExchangeAssumption == Plugin \subseteq Client

Shim == INSTANCE ShimArgs

(* A command of a kubeconfig is the groups of its flags, [flag, val, inline] *)
(* with val Unset for a flag alone, the number of groups before get-token,   *)
(* and the environment.                                                      *)

Group == [flag : STRING, val : STRING, inline : BOOLEAN]

\* A flag that has a value is given one, server ids are texts that Spelling reads.
ASSUME CommandAssumption ==
    \A cmd \in Commands :
        /\ cmd.groups \in Seq(Group) /\ cmd.before \in 0 .. Len(cmd.groups)
        /\ \A i \in DOMAIN cmd.groups :
             LET g == cmd.groups[i]
             IN  /\ g.flag \in Shim!Valued => g.val # Unset
                 /\ g.flag = "--server-id" => g.val \in DOMAIN Spelling \cup {""}

ASSUME MistypedAssumption ==
    Mistyped \cap (Shim!Valued \cup DOMAIN Shim!BOOL_FLAGS \cup DOMAIN Shim!HELP_FLAGS) = {}

\* A server id is a name, maybe with the suffix, and slashes after either.
ASSUME SpellingAssumption ==
    \A id \in DOMAIN Spelling :
        LET s == Spelling[id]
        IN  /\ s \in Seq(STRING) /\ s # << >> /\ s[1] \notin {"/", Suffix}
            /\ \A i \in 2 .. Len(s) : s[i] \in {"/", Suffix}
            /\ \A i, j \in DOMAIN s : s[i] = Suffix /\ s[j] = Suffix => i = j

VARIABLES
    command,   \* the command of each shim, a record [groups, before, env]
    cfg,       \* what it parsed, << >> before
    outcome,   \* "new", "fetch", "sent", "token", "usage" or "failed"
    minted,    \* the az command whose token it printed
    disk       \* the cache: file name -> az command of the token in it

shims == <<command, cfg, outcome, minted, disk>>
everything == <<vars, shims>>

NoToken == << >>

ExchangeInit ==
    /\ Init
    /\ command \in [Plugin -> Commands]
    /\ cfg = [p \in Plugin |-> << >>] /\ outcome = [p \in Plugin |-> "new"]
    /\ minted = [p \in Plugin |-> NoToken] /\ disk = << >>

Argv(cmd) ==
    LET Written(g) == IF g.val = Unset THEN <<Flag(g.flag)>>
                      ELSE IF g.inline THEN <<FlagIs(g.flag, g.val)>>
                      ELSE <<Flag(g.flag), Word(g.val)>>
        Subcommand(i) == IF i = cmd.before THEN <<Word("get-token")>> ELSE << >>
        argv[i \in 0 .. Len(cmd.groups)] ==
            IF i = 0 THEN Subcommand(0) ELSE argv[i - 1] \o Written(cmd.groups[i]) \o Subcommand(i)
    IN  argv[Len(cmd.groups)]

\* az.js getAccessToken: what the daemon asks the CLI for.
AzCommand(q) ==
    [resource |-> resourceFromFields(q),
     tenant |-> IF config["pass-tenant"] THEN q.tenant ELSE "",
     subscription |-> Subscription(q)]

-----------------------------------------------------------------------------
(* bin/kubelogin-http-shim *)

\* A token in the cache is fresh, or not any more.
ShimStarts(p) ==
    /\ outcome[p] = "new" /\ at[p] = "new"
    /\ LET parsed == Shim!parseArgs(Argv(command[p]), command[p].env)
           c == parsed.cfg
           file == Shim!cacheFilePath(c)
       IN  /\ cfg' = [cfg EXCEPT ![p] = c]
           /\ \/ /\ parsed.error \/ c.help \/ c.version \/ ~Shim!validateArgs(c)
                 /\ outcome' = [outcome EXCEPT ![p] =
                                  IF ~parsed.error /\ (c.help \/ c.version) THEN "usage" ELSE "failed"]
                 /\ UNCHANGED minted
              \/ /\ ~parsed.error /\ ~c.help /\ ~c.version /\ Shim!validateArgs(c)
                 /\ \/ outcome' = [outcome EXCEPT ![p] = "fetch"] /\ UNCHANGED minted
                    \/ /\ Shim!Caches(c) /\ file \in DOMAIN disk
                       /\ outcome' = [outcome EXCEPT ![p] = "token"]
                       /\ minted' = [minted EXCEPT ![p] = disk[file]]
    /\ UNCHANGED <<vars, command, disk>>

\* fetchToken: the request goes out.
ShimSends(p) ==
    /\ outcome[p] = "fetch" /\ ~Shim!Unreadable(cfg[p])
    /\ Connect(p, Shim!buildRequest(cfg[p]))
    /\ outcome' = [outcome EXCEPT ![p] = "sent"]
    /\ UNCHANGED <<command, cfg, minted, disk>>

\* It cannot: a file is missing, or the daemon cannot be reached.
ShimFails(p) ==
    /\ outcome[p] = "fetch"
    /\ outcome' = [outcome EXCEPT ![p] = "failed"]
    /\ UNCHANGED <<vars, command, cfg, minted, disk>>

\* The response is there: writeCache, writeExecCredential.
ShimPrints(p) ==
    /\ outcome[p] = "sent" /\ status[p] = 200
    /\ outcome' = [outcome EXCEPT ![p] = "token"]
    /\ minted' = [minted EXCEPT ![p] = AzCommand(asks[p])]
    /\ LET file == Shim!cacheFilePath(cfg[p])
       IN  disk' = IF Shim!Caches(cfg[p])
                   THEN [f \in DOMAIN disk \cup {file} |-> IF f = file THEN AzCommand(asks[p]) ELSE disk[f]]
                   ELSE disk
    /\ UNCHANGED <<vars, command, cfg>>

\* Another status, or the connection broke, or REQUEST_TIMEOUT_MS elapsed (Gone).
ShimRefused(p) ==
    /\ outcome[p] = "sent" /\ status[p] # 200
    /\ status[p] = 0 => p \notin conn
    /\ outcome' = [outcome EXCEPT ![p] = "failed"]
    /\ UNCHANGED <<vars, command, cfg, minted, disk>>

ExchangeNext ==
    \/ (Daemon \/ \E c \in Client : Gone(c)) /\ UNCHANGED shims
    \/ \E c \in Client \ Plugin, q \in Requests : Connect(c, q) /\ UNCHANGED shims
    \/ \E p \in Plugin :
         ShimStarts(p) \/ ShimSends(p) \/ ShimFails(p) \/ ShimPrints(p) \/ ShimRefused(p)

ExchangeSpec == ExchangeInit /\ [][ExchangeNext]_everything
ExchangeFairSpec == ExchangeSpec /\ Fairness

-----------------------------------------------------------------------------
(* Properties *)

Gives(g, field) ==
    \/ g.flag \in DOMAIN Shim!VALUE_FLAGS /\ Shim!VALUE_FLAGS[g.flag] = field
    \/ g.flag \in DOMAIN Shim!ARRAY_FLAGS /\ Shim!ARRAY_FLAGS[g.flag] = field
    \/ g.flag \in DOMAIN Shim!BOOL_FLAGS /\ Shim!BOOL_FLAGS[g.flag] = field

\* What a group gives its field: a switch alone, whatever word follows, is on.
Gift(g) ==
    IF g.flag \in DOMAIN Shim!BOOL_FLAGS THEN ~g.inline \/ g.val = Unset \/ Shim!parseBool(g.val)
    ELSE g.val

\* What the groups of a command give a field, in their order.
Given(cmd, field) ==
    LET given[i \in 0 .. Len(cmd.groups)] ==
            IF i = 0 THEN << >>
            ELSE IF Gives(cmd.groups[i], field) THEN Append(given[i - 1], Gift(cmd.groups[i]))
            ELSE given[i - 1]
    IN  given[Len(cmd.groups)]

Intended(cmd, field) ==
    LET given == Given(cmd, field)
    IN  IF given = << >> THEN Shim!Defaults(cmd.env)[field]
        ELSE IF field \in {"headers", "headerFiles"} THEN given
        ELSE Last(given)

\* A word that stands alone, because the flag before it is none of the shim's
\* flags with a value.
Stray(g) == g.flag \notin Shim!Valued /\ ~g.inline /\ g.val # Unset

\* What the shim must take for the subcommand: the first word that stands alone.
Strays(cmd) == {i \in 1 .. cmd.before : Stray(cmd.groups[i])}
Subcommand(cmd) == IF Strays(cmd) = {} THEN "get-token" ELSE cmd.groups[Min(Strays(cmd))].val

\* The swap is painless: kubelogin's command line means the same to the shim,
\* whatever flags it does not know stand between those it does.  Two command
\* lines are refused: one that misspells a --token-endpoint-* flag, and one where
\* an unknown flag gives its value to get-token's place (see FlagsTolerated).
DropIn ==
    \A p \in Plugin : cfg[p] # << >> =>
        IF \E g \in ToSet(command[p].groups) : g.flag \in Mistyped
        THEN outcome[p] = "failed"
        ELSE /\ \A field \in DOMAIN cfg[p] \ {"command", "help", "version"} :
                    cfg[p][field] = Intended(command[p], field)
             /\ cfg[p].command = Subcommand(command[p])
             /\ cfg[p].command \notin {"get-token", ""} => outcome[p] \in {"usage", "failed"}

\* No URL names a subscription in its query, which only GET requests carry: the
\* name of the cache file would not say which of them fetched the token.
EndpointsBare == \A u \in DOMAIN Endpoint : Endpoint[u].subscription = ""

\* The token a shim prints, fetched or from the cache that it shares, is the one
\* its own request would have obtained: the same resource, tenant and
\* subscription, whoever fetched it.
RightToken ==
    \A p \in Plugin :
        minted[p] # NoToken => minted[p] = AzCommand(Shim!buildRequest(cfg[p]))

\* It is minted for the app that the shim's command names, however the shim, the
\* wire and the daemon spell that; and the daemon's lists say who gets it: only an
\* app that is allowed, and nobody whose app and subscription are is forbidden.
SameResource ==
    \A p \in Plugin :
        LET app == <<Head(Spelling[Intended(command[p], "serverID")])>>
            AppAllowed == config["allow-any-resource"] \/ app \in config["allowed-resources"]
            SubscriptionAllowed ==
                config["allowed-subscriptions"] # {} =>
                    Subscription(asks[p]) \in config["allowed-subscriptions"]
        IN  /\ minted[p] # NoToken => minted[p].resource = app
            /\ outcome[p] = "sent" =>
                 /\ status[p] = 200 => AppAllowed
                 /\ status[p] = 403 => ~(AppAllowed /\ SubscriptionAllowed)

-----------------------------------------------------------------------------
(* A statement the code does not keep: see the README *)

\* Flags of kubelogin that the shim does not know are tolerated, wherever they
\* stand: the subcommand is get-token.
FlagsTolerated ==
    \A p \in Plugin :
        cfg[p] # << >> /\ ~(\E g \in ToSet(command[p].groups) : g.flag \in Mistyped)
            => cfg[p].command = "get-token"
=============================================================================
