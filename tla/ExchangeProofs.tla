--------------------------- MODULE ExchangeProofs ---------------------------
(***************************************************************************)
(* The audit trail of the daemon, the tokens that shims share, what the    *)
(* daemon makes of its launch and whom it serves, what a shim makes of its *)
(* command line and which app its token is for: for every number of        *)
(* clients and shims, every launch, command and request.  The loops of the *)
(* parsers are recursive functions, and what they compute is an induction  *)
(* over their rounds.                                                      *)
(***************************************************************************)
EXTENDS Exchange, SequenceTheorems, WellFoundedInduction, NaturalsInduction, TLAPS

Words == {"ok", "deny", "error", "keepalive", "login started"}
Entry == {Record(a, w) : a \in Client \cup Tick \cup {"login"}, w \in Words}

LEMMA EntryOf ==
    ASSUME NEW a \in Client \cup Tick \cup {"login"}, NEW w \in Words
    PROVE  Record(a, w) \in Entry
  BY DEF Entry

LEMMA ToSetAppend ==
    ASSUME NEW S, NEW s \in Seq(S), NEW r \in S
    PROVE  /\ Append(s, r) \in Seq(S)
           /\ ToSet(Append(s, r)) = ToSet(s) \cup {r}
<1>1. /\ Append(s, r) \in Seq(S) /\ Len(Append(s, r)) = Len(s) + 1
      /\ Append(s, r)[Len(s) + 1] = r
      /\ \A i \in 1 .. Len(s) : Append(s, r)[i] = s[i]
  OBVIOUS
<1>2. QED BY <1>1 DEF ToSet

LEMMA ToSetTail ==
    ASSUME NEW S, NEW s \in Seq(S), s # << >>
    PROVE  /\ Tail(s) \in Seq(S)
           /\ ToSet(s) \subseteq {Head(s)} \cup ToSet(Tail(s))
<1>1. /\ Tail(s) \in Seq(S) /\ Len(Tail(s)) = Len(s) - 1 /\ Head(s) = s[1]
      /\ \A i \in 1 .. Len(s) - 1 : Tail(s)[i] = s[i + 1]
  OBVIOUS
<1>2. \A i \in 1 .. Len(s) : i = 1 \/ (i - 1 \in 1 .. Len(Tail(s)) /\ Tail(s)[i - 1] = s[i])
  BY <1>1
<1>3. ASSUME NEW i \in 1 .. Len(s) PROVE s[i] \in {Head(s)} \cup ToSet(Tail(s))
  <2>1. CASE i = 1
    BY <1>1, <2>1
  <2>2. CASE i - 1 \in 1 .. Len(Tail(s)) /\ Tail(s)[i - 1] = s[i]
    <3>1. DOMAIN Tail(s) = 1 .. Len(Tail(s))
      BY <1>1
    <3>2. QED BY <2>2, <3>1 DEF ToSet
  <2>3. QED BY <1>2, <2>1, <2>2
<1>4. QED BY <1>1, <1>3 DEF ToSet

-----------------------------------------------------------------------------
(* The trail *)

Codes == {0, 200, 400, 401, 403, 502, 503}

\* Nothing is buffered before the process runs or, as it waits for the flush,
\* when it is gone.
TrailInv ==
    /\ status \in [Client -> Codes]
    /\ buffered \in Seq(Entry)
    /\ proc = "launched" => buffered = << >>
    /\ at = [a \in Client \cup Tick |-> at[a]]
    /\ TrailComplete

LEMMA TrailInit == Init => TrailInv
  BY DEF Init, TrailInv, TrailComplete, Codes

\* A step that ends no handler.
NoneEnds ==
    /\ at' = [a \in Client \cup Tick |-> at'[a]]
    /\ \A c \in Client : at'[c] = "done" => at[c] = "done"

\* A step that writes no record and answers nobody, and in which the process
\* does not end.
LEMMA TrailKept ==
    ASSUME TrailInv, NoneEnds, UNCHANGED <<status, buffered, trail, broke>>,
           proc' = proc \/ (proc' # "exited" /\ proc' # "launched")
                \/ (proc' = "exited" /\ buffered = << >>)
    PROVE  TrailInv'
<1>1. ASSUME buffered = << >> PROVE ToSet(buffered) = {}
  BY <1>1 DEF ToSet
<1>2. Kept \subseteq Kept'
  BY <1>1 DEF Kept
<1>3. QED BY <1>2 DEF TrailInv, TrailComplete, NoneEnds, Record

LEMMA EmitStep ==
    ASSUME TrailInv, NEW r \in Entry, emit(r), Running, proc' = proc,
           status' \in [Client -> Codes],
           \A c \in Client : status'[c] # 0 =>
                status'[c] = status[c] \/ r = Record(c, ResultOf(status'[c])),
           at' = [a \in Client \cup Tick |-> at'[a]],
           \A c \in Client : at'[c] = "done" =>
                at[c] = "done" \/ \E w \in Results : r = Record(c, w)
    PROVE  TrailInv'
<1>1. proc # "exited" /\ proc # "launched"
  BY DEF Running
<1>2. buffered \in Seq(Entry)
  BY DEF TrailInv
<1>3. /\ Append(buffered, r) \in Seq(Entry)
      /\ ToSet(Append(buffered, r)) = ToSet(buffered) \cup {r}
  BY <1>2, ToSetAppend
<1>4. ASSUME broke' # "no", buffered' \in Seq(Entry) PROVE TrailInv'
  BY <1>1, <1>4 DEF TrailInv, TrailComplete
<1>5. ASSUME broke' = broke, Kept' = Kept \cup {r}, buffered' \in Seq(Entry) PROVE TrailInv'
  BY <1>1, <1>5 DEF TrailInv, TrailComplete
<1>6. CASE stream = "null"
  <2>1. trail' = trail \cup {r} /\ buffered' = buffered /\ broke' = broke
    BY <1>6 DEF emit
  <2>2. Kept' = Kept \cup {r}
    BY <2>1 DEF Kept
  <2>3. QED BY <1>2, <1>5, <2>1, <2>2
<1>7. CASE stream = "open"
  <2>1. buffered' = Append(buffered, r) /\ trail' = trail /\ broke' = broke
    BY <1>7 DEF emit
  <2>2. Kept' = Kept \cup {r}
    BY <1>1, <1>3, <2>1 DEF Kept
  <2>3. QED BY <1>3, <1>5, <2>1, <2>2
<1>8. CASE stream = "ended"
  <2>1. buffered' = << >> /\ broke' = "late"
    BY <1>8 DEF emit
  <2>2. QED BY <1>4, <2>1
<1>9. QED BY <1>6, <1>7, <1>8 DEF emit

LEMMA AnswerStep ==
    ASSUME TrailInv, NEW c \in Client, NEW code \in Codes, Answer(c, code), Running
    PROVE  TrailInv'
<1>1. status \in [Client -> Codes]
  BY DEF TrailInv
<1>2. Record(c, ResultOf(code)) \in Entry
  <2>1. ResultOf(code) \in Words
    BY DEF ResultOf, Words
  <2>2. QED BY <2>1, EntryOf
<1>3. status' \in [Client -> Codes]
  BY <1>1 DEF Answer, Codes
<1>4. \A d \in Client : status'[d] # 0 =>
         status'[d] = status[d] \/ Record(c, ResultOf(code)) = Record(d, ResultOf(status'[d]))
  BY <1>1 DEF Answer
<1>5. emit(Record(c, ResultOf(code))) /\ proc' = proc
  BY DEF Answer
<1>6. /\ at' = [a \in Client \cup Tick |-> at'[a]]
      /\ \A d \in Client : at'[d] = "done" =>
             at[d] = "done" \/ \E w \in Results : Record(c, ResultOf(code)) = Record(d, w)
  <2>1. at' = [a \in Client \cup Tick |-> IF a = c THEN "done" ELSE at[a]]
    BY DEF Answer, Goto, TrailInv
  <2>2. ResultOf(code) \in Results
    BY DEF ResultOf, Results
  <2>3. QED BY <2>1, <2>2
<1>7. QED BY <1>2, <1>3, <1>4, <1>5, <1>6, EmitStep

\* Every step of the daemon and of its clients, whatever they ask.
LEMMA TrailStep ==
    ASSUME TrailInv,
           \/ Daemon \/ \E c \in Client : Gone(c)
           \/ \E c \in Client : \E q : Connect(c, q)
           \/ UNCHANGED vars
    PROVE  TrailInv'
<1>0. /\ at = [a \in Client \cup Tick |-> at[a]]
      /\ UNCHANGED at => NoneEnds
      /\ \A a : \A p : p # "done" /\ at' = [at EXCEPT ![a] = p] => NoneEnds
      /\ \A t \in Tick : \A p : at' = [at EXCEPT ![t] = p] => NoneEnds
  BY BridgeAssumption DEF TrailInv, NoneEnds
<1>1. CASE Start \/ Stop \/ Drained \/ ForceFinish \/ Exit
  <2>1. /\ UNCHANGED <<status, buffered, trail, broke, at>>
        /\ proc' # proc => proc' # "launched"
        /\ proc' = "exited" => proc = "launched" \/ buffered = << >>
    BY <1>1 DEF Start, Stop, Drained, ForceFinish, Finish, Exit, Closed, audit
  <2>2. proc = "launched" => buffered = << >>
    BY DEF TrailInv
  <2>3. QED BY <1>0, <2>1, <2>2, TrailKept
<1>2. CASE StreamWrites
  <2>1. buffered \in Seq(Entry) /\ buffered # << >>
    BY <1>2 DEF StreamWrites, TrailInv
  <2>2. Tail(buffered) \in Seq(Entry) /\ ToSet(buffered) \subseteq {Head(buffered)} \cup ToSet(Tail(buffered))
    BY <2>1, ToSetTail
  <2>3. /\ UNCHANGED <<status, broke, proc, at>> /\ proc # "exited" /\ proc # "launched"
        /\ trail' = trail \cup {Head(buffered)} /\ buffered' = Tail(buffered)
    BY <1>2, <2>1 DEF StreamWrites, TrailInv
  <2>4. Kept \subseteq Kept'
    BY <2>2, <2>3 DEF Kept
  <2>5. QED BY <2>2, <2>3, <2>4 DEF TrailInv, TrailComplete, Record
<1>3. CASE StreamFails
  BY <1>3 DEF StreamFails, TrailInv, TrailComplete
<1>4. ASSUME NEW c \in Client, Arrives(c) \/ BodyRead(c) \/ MintEnds(c) PROVE TrailInv'
  <2>1. ASSUME NEW code \in Codes, Answer(c, code), Running PROVE TrailInv'
    BY <2>1, AnswerStep
  <2>2. ASSUME UNCHANGED <<status, buffered, trail, broke, proc>>, NEW p, p # "done", Goto(c, p)
        PROVE  TrailInv'
    BY <1>0, <2>2, TrailKept DEF Goto
  <2>3. Refusal(asks[c]) \in {0, 400, 403}
    BY DEF Refusal
  <2>4. CASE Arrives(c)
    BY <2>1, <2>2, <2>4 DEF Arrives, audit, Codes
  <2>5. CASE BodyRead(c)
    BY <2>1, <2>2, <2>3, <2>5 DEF BodyRead, audit, Codes
  <2>6. CASE MintEnds(c)
    BY <2>1, <2>6 DEF MintEnds, Codes
  <2>7. QED BY <1>4, <2>4, <2>5, <2>6
<1>5. ASSUME NEW c \in Client, BodyCut(c) PROVE TrailInv'
  <2>1. Record(c, "error") \in Entry
    <3>1. "error" \in Words
      BY DEF Words
    <3>2. QED BY <3>1, EntryOf
  <2>2. /\ emit(Record(c, "error")) /\ Running /\ UNCHANGED <<proc, status>>
        /\ at' = [at EXCEPT ![c] = "done"]
    BY <1>5 DEF BodyCut, Goto
  <2>3. at' = [a \in Client \cup Tick |-> IF a = c THEN "done" ELSE at[a]]
    BY <1>0, <2>2
  <2>4. "error" \in Results
    BY DEF Results
  <2>5. QED BY <2>1, <2>2, <2>3, <2>4, EmitStep DEF TrailInv
<1>6. ASSUME NEW t \in Tick, TickMinted(t) PROVE TrailInv'
  <2>1. Record(t, "keepalive") \in Entry
    <3>1. "keepalive" \in Words
      BY DEF Words
    <3>2. QED BY <3>1, EntryOf
  <2>2. emit(Record(t, "keepalive")) /\ Running /\ UNCHANGED <<proc, status>>
    BY <1>6 DEF TickMinted
  <2>3. NoneEnds
    BY <1>0, <1>6 DEF TickMinted, Goto
  <2>4. QED BY <2>1, <2>2, <2>3, EmitStep DEF TrailInv, NoneEnds
<1>7. CASE LoginStarts
  <2>1. PICK a \in Client \cup Tick : emit(Record(a, "login started"))
    BY <1>7 DEF LoginStarts
  <2>2. Record(a, "login started") \in Entry
    <3>1. "login started" \in Words
      BY DEF Words
    <3>2. QED BY <3>1, EntryOf
  <2>3. Running /\ UNCHANGED <<proc, status, at>>
    BY <1>7 DEF LoginStarts
  <2>4. QED BY <1>0, <2>1, <2>2, <2>3, EmitStep DEF TrailInv
<1>8. CASE LoginEnds
  <2>1. Record("login", "ok") \in Entry
    <3>1. "ok" \in Words
      BY DEF Words
    <3>2. QED BY <3>1, EntryOf
  <2>2. emit(Record("login", "ok")) /\ Running /\ UNCHANGED <<proc, status, at>>
    BY <1>8 DEF LoginEnds
  <2>3. QED BY <1>0, <2>1, <2>2, EmitStep DEF TrailInv
<1>9. CASE \/ \E t \in Tick : TickFires(t)
           \/ \E c \in Client : Gone(c) \/ \E q : Connect(c, q)
           \/ UNCHANGED vars
  <2>1. UNCHANGED <<status, buffered, trail, broke, proc>>
    BY <1>9 DEF TickFires, Gone, Connect, vars, audit
  <2>2. ASSUME NEW c \in Client, Gone(c) PROVE NoneEnds
    <3>1. at' = [at EXCEPT ![c] = IF at[c] = "open" THEN "gone" ELSE at[c]]
      BY <2>2 DEF Gone, Goto
    <3>2. at' = [a \in Client \cup Tick |-> IF a = c /\ at[c] = "open" THEN "gone" ELSE at[a]]
      BY <1>0, <3>1
    <3>3. QED BY <3>2 DEF NoneEnds
  <2>3. NoneEnds
    BY <1>0, <1>9, <2>2 DEF TickFires, Connect, Goto, vars
  <2>4. QED BY <2>1, <2>3, TrailKept
<1>10. QED BY <1>1, <1>2, <1>3, <1>4, <1>5, <1>6, <1>7, <1>8, <1>9 DEF Daemon

\* Whatever a client received is in the audit trail (TrailComplete).
THEOREM TrailCompleteHolds == ExchangeSpec => []TrailComplete
<1>1. ExchangeInit => TrailInv
  BY TrailInit DEF ExchangeInit
<1>2. TrailInv /\ [ExchangeNext]_everything => TrailInv'
  <2> SUFFICES ASSUME TrailInv, [ExchangeNext]_everything PROVE TrailInv'
    OBVIOUS
  <2>1. CASE \E p \in Plugin : ShimSends(p)
    BY <2>1, TrailStep, ExchangeAssumption DEF ShimSends
  <2>2. CASE UNCHANGED vars
    BY <2>2, TrailStep
  <2>3. QED
    BY <2>1, <2>2, TrailStep
    DEF ExchangeNext, everything, ShimStarts, ShimFails, ShimPrints, ShimRefused
<1>3. QED BY <1>1, <1>2, PTL DEF ExchangeSpec, TrailInv

-----------------------------------------------------------------------------
(* The tokens in the cache *)

\* What the daemon asks the Azure CLI for when a shim whose cache file is f, a
\* pair of a directory and <<endpoint, scope, tenant>>, sends its request.
Owed(f) ==
    LET scope == f[2][2] IN
    [resource |-> resourceFromFields([serverId |-> Shim!serverIDFromScope(scope), scope |-> scope]),
     tenant |-> IF config["pass-tenant"] THEN f[2][3] ELSE "",
     subscription |-> config["subscription"]]

\* The name of the cache file says everything that determines the token.
LEMMA KeyDetermines ==
    ASSUME EndpointsBare, NEW c, c.tokenEndpoint \in DOMAIN Endpoint
    PROVE  AzCommand(Shim!buildRequest(c)) = Owed(Shim!cacheFilePath(c))
<1> DEFINE q == Shim!buildRequest(c)
           f == Shim!cacheFilePath(c)
<1>1. /\ q.scope = Shim!getScope(c.serverID)
      /\ q.serverId = Shim!serverIDFromScope(Shim!getScope(c.serverID))
      /\ q.tenant = c.tenantID
      /\ q.subscription = ""
  BY DEF EndpointsBare, Shim!buildRequest
<1>2. f[2][2] = Shim!getScope(c.serverID) /\ f[2][3] = c.tenantID
  BY DEF Shim!cacheFilePath, Shim!cacheKey
<1> HIDE DEF q, f
<1>3. AzCommand(q) = Owed(f)
  BY <1>1, <1>2 DEF AzCommand, Owed, resourceFromFields, Subscription
<1>4. QED BY <1>3 DEF q, f

\* A shim that is sent holds its own request, and a cache file the token that
\* its name owes.
TokenInv ==
    /\ EndpointsBare
    /\ cfg = [p \in Plugin |-> cfg[p]] /\ outcome = [p \in Plugin |-> outcome[p]]
    /\ minted = [p \in Plugin |-> minted[p]] /\ asks = [c \in Client |-> asks[c]]
    /\ proc = "launched" =>
         DOMAIN disk = {} /\ \A p \in Plugin : minted[p] = NoToken /\ outcome[p] # "sent"
    /\ \A p \in Plugin :
         /\ outcome[p] \in {"fetch", "sent"} => cfg[p].tokenEndpoint \in DOMAIN Endpoint
         /\ outcome[p] \in {"new", "fetch", "sent"} => minted[p] = NoToken
         /\ outcome[p] = "sent" => asks[p] = Shim!buildRequest(cfg[p])
    /\ \A f \in DOMAIN disk : disk[f] = Owed(f)
    /\ RightToken

LEMMA TokenInit == EndpointsBare /\ ExchangeInit => TokenInv
<1> SUFFICES ASSUME EndpointsBare, ExchangeInit PROVE TokenInv
  OBVIOUS
<1>1. /\ proc = "launched" /\ asks = [c \in Client |-> NoRequest] /\ disk = << >>
      /\ cfg = [p \in Plugin |-> << >>] /\ outcome = [p \in Plugin |-> "new"]
      /\ minted = [p \in Plugin |-> NoToken]
  BY DEF ExchangeInit, Init
<1>2. DOMAIN disk = {}
  BY <1>1
<1>3. QED BY <1>1, <1>2 DEF TokenInv, RightToken

LEMMA ConfigKept ==
    ASSUME UNCHANGED config
    PROVE  /\ \A f : Owed(f)' = Owed(f)
           /\ \A q : AzCommand(q)' = AzCommand(q)
  BY DEF Owed, AzCommand, Subscription

\* The daemon configures itself once, before it mints.
LEMMA TokenKept ==
    ASSUME TokenInv, UNCHANGED shims, UNCHANGED config \/ proc = "launched",
           proc' = "launched" => proc = "launched",
           asks' = [c \in Client |-> asks'[c]], \A p \in Plugin : asks'[p] = asks[p]
    PROVE  TokenInv'
<1>1. CASE UNCHANGED config
  <2>1. \A f : Owed(f)' = Owed(f)
    BY <1>1, ConfigKept
  <2>2. \A q : AzCommand(q)' = AzCommand(q)
    BY <1>1, ConfigKept
  <2>3. RightToken'
    BY <2>2 DEF TokenInv, RightToken, shims
  <2>4. \A f \in DOMAIN disk' : disk'[f] = Owed(f)'
    BY <2>1 DEF TokenInv, shims
  <2>5. QED BY <2>3, <2>4 DEF TokenInv, shims
<1>2. CASE proc = "launched"
  <2>1. DOMAIN disk' = {} /\ \A p \in Plugin : minted'[p] = NoToken /\ outcome'[p] # "sent"
    BY <1>2 DEF TokenInv, shims
  <2>2. RightToken'
    BY <2>1 DEF RightToken
  <2>3. QED BY <2>1, <2>2 DEF TokenInv, shims
<1>3. QED BY <1>1, <1>2

\* A step of the shim p: it may print a token, and put it into its cache file.
LEMMA ShimStep ==
    ASSUME TokenInv, NEW p \in Plugin, UNCHANGED <<config, command>>,
           proc' = "launched" => proc = "launched",
           asks' = [c \in Client |-> asks'[c]], \A r \in Plugin \ {p} : asks'[r] = asks[r],
           NEW c, cfg' = [cfg EXCEPT ![p] = c],
           NEW o, outcome' = [outcome EXCEPT ![p] = o],
           NEW m, minted' = [minted EXCEPT ![p] = m],
           o \in {"fetch", "sent"} => c.tokenEndpoint \in DOMAIN Endpoint,
           o = "sent" => asks'[p] = Shim!buildRequest(c) /\ proc # "launched",
           m # NoToken => m = AzCommand(Shim!buildRequest(c)) /\ o = "token" /\ proc # "launched",
           NEW file,
           \/ disk' = disk
           \/ /\ disk' = [f \in DOMAIN disk \cup {file} |-> IF f = file THEN Owed(file) ELSE disk[f]]
              /\ proc # "launched"
    PROVE  TokenInv'
<1>1. /\ cfg' = [r \in Plugin |-> IF r = p THEN c ELSE cfg[r]]
      /\ outcome' = [r \in Plugin |-> IF r = p THEN o ELSE outcome[r]]
      /\ minted' = [r \in Plugin |-> IF r = p THEN m ELSE minted[r]]
  BY DEF TokenInv
<1>2. /\ \A f : Owed(f)' = Owed(f)
      /\ \A q : AzCommand(q)' = AzCommand(q)
  BY ConfigKept
<1>3. \A f \in DOMAIN disk' : disk'[f] = Owed(f)
  BY DEF TokenInv
<1>4. \A r \in Plugin : minted'[r] # NoToken => minted'[r] = AzCommand(Shim!buildRequest(cfg'[r]))
  BY <1>1 DEF TokenInv, RightToken
<1>5. RightToken'
  BY <1>2, <1>4 DEF RightToken
<1>6. proc' = "launched" =>
        DOMAIN disk' = {} /\ \A r \in Plugin : minted'[r] = NoToken /\ outcome'[r] # "sent"
  BY <1>1 DEF TokenInv
<1>7. \A r \in Plugin :
        /\ outcome'[r] \in {"fetch", "sent"} => cfg'[r].tokenEndpoint \in DOMAIN Endpoint
        /\ outcome'[r] \in {"new", "fetch", "sent"} => minted'[r] = NoToken
        /\ outcome'[r] = "sent" => asks'[r] = Shim!buildRequest(cfg'[r])
  BY <1>1 DEF TokenInv
<1>8. /\ cfg' = [r \in Plugin |-> cfg'[r]] /\ outcome' = [r \in Plugin |-> outcome'[r]]
      /\ minted' = [r \in Plugin |-> minted'[r]]
  BY <1>1
<1>9. \A f \in DOMAIN disk' : disk'[f] = Owed(f)'
  BY <1>2, <1>3
<1>10. QED BY <1>5, <1>6, <1>7, <1>8, <1>9 DEF TokenInv

LEMMA StartsStep == ASSUME TokenInv, NEW p \in Plugin, ShimStarts(p) PROVE TokenInv'
<1> DEFINE parsed == Shim!parseArgs(Argv(command[p]), command[p].env)
           c == parsed.cfg
           file == Shim!cacheFilePath(c)
<1>1. /\ outcome[p] = "new" /\ cfg' = [cfg EXCEPT ![p] = c]
      /\ UNCHANGED <<config, command, disk, proc, asks>>
  BY DEF ShimStarts, vars
<1>2. minted[p] = NoToken /\ minted = [minted EXCEPT ![p] = NoToken]
  BY <1>1 DEF TokenInv
<1>3. /\ asks' = [r \in Client |-> asks'[r]]
      /\ \A r \in Plugin \ {p} : asks'[r] = asks[r]
  BY <1>1 DEF TokenInv
<1>4. ASSUME NEW o, outcome' = [outcome EXCEPT ![p] = o], o # "sent", UNCHANGED minted,
             o = "fetch" => Shim!validateArgs(c)
      PROVE  TokenInv'
  <2>1. o \in {"fetch", "sent"} => c.tokenEndpoint \in DOMAIN Endpoint
    BY <1>4 DEF Shim!validateArgs
  <2>2. minted' = [minted EXCEPT ![p] = NoToken]
    BY <1>2, <1>4
  <2> HIDE DEF c, parsed, file
  <2>3. QED BY <1>1, <1>3, <1>4, <2>1, <2>2, ShimStep
<1>5. ASSUME Shim!validateArgs(c), file \in DOMAIN disk, outcome' = [outcome EXCEPT ![p] = "token"],
             minted' = [minted EXCEPT ![p] = disk[file]]
      PROVE  TokenInv'
  <2>1. c.tokenEndpoint \in DOMAIN Endpoint
    BY <1>5 DEF Shim!validateArgs
  <2>2. AzCommand(Shim!buildRequest(c)) = Owed(file)
    BY <2>1, KeyDetermines DEF TokenInv
  <2>3. disk[file] = Owed(file) /\ proc # "launched"
    BY <1>5 DEF TokenInv
  <2> DEFINE m == disk[file]
  <2>4. m # NoToken => m = AzCommand(Shim!buildRequest(c)) /\ "token" = "token" /\ proc # "launched"
    BY <2>2, <2>3
  <2>5. minted' = [minted EXCEPT ![p] = m]
    BY <1>5
  <2>6. \/ disk' = disk
        \/ /\ disk' = [f \in DOMAIN disk \cup {file} |-> IF f = file THEN Owed(file) ELSE disk[f]]
           /\ proc # "launched"
    BY <1>1
  <2>7. /\ cfg' = [cfg EXCEPT ![p] = c] /\ outcome' = [outcome EXCEPT ![p] = "token"]
        /\ UNCHANGED <<config, command>>
        /\ proc' = "launched" => proc = "launched"
    BY <1>1, <1>5
  <2>8. "token" # "sent"
    OBVIOUS
  <2> HIDE DEF c, parsed, file, m
  <2>9. QED BY <1>3, <2>1, <2>4, <2>5, <2>6, <2>7, <2>8, ShimStep
<1>6. \/ /\ \/ outcome' = [outcome EXCEPT ![p] = "usage"]
            \/ outcome' = [outcome EXCEPT ![p] = "failed"]
         /\ UNCHANGED minted
      \/ /\ Shim!validateArgs(c)
         /\ \/ outcome' = [outcome EXCEPT ![p] = "fetch"] /\ UNCHANGED minted
            \/ /\ file \in DOMAIN disk /\ outcome' = [outcome EXCEPT ![p] = "token"]
               /\ minted' = [minted EXCEPT ![p] = disk[file]]
  BY DEF ShimStarts
<1> HIDE DEF c, parsed, file
<1>7. QED BY <1>4, <1>5, <1>6

LEMMA SendsStep == ASSUME TokenInv, NEW p \in Plugin, ShimSends(p) PROVE TokenInv'
<1>1. /\ outcome[p] = "fetch" /\ outcome' = [outcome EXCEPT ![p] = "sent"]
      /\ UNCHANGED <<config, command, disk, proc, cfg, minted>> /\ proc = "up"
      /\ asks' = [asks EXCEPT ![p] = Shim!buildRequest(cfg[p])]
  BY DEF ShimSends, Connect
<1>2. /\ cfg[p].tokenEndpoint \in DOMAIN Endpoint /\ minted[p] = NoToken
      /\ minted' = [minted EXCEPT ![p] = NoToken] /\ cfg' = [cfg EXCEPT ![p] = cfg[p]]
  BY <1>1 DEF TokenInv
<1>3. asks = [c \in Client |-> asks[c]] /\ p \in Client
  BY ExchangeAssumption DEF TokenInv
<1>4. /\ asks' = [c \in Client |-> asks'[c]] /\ asks'[p] = Shim!buildRequest(cfg[p])
      /\ \A r \in Plugin \ {p} : asks'[r] = asks[r]
  BY <1>1, <1>3, ExchangeAssumption
<1>5. QED BY <1>1, <1>2, <1>4, ShimStep

LEMMA EndsStep ==
    ASSUME TokenInv, NEW p \in Plugin, ShimFails(p) \/ ShimPrints(p) \/ ShimRefused(p)
    PROVE  TokenInv'
<1>1. /\ UNCHANGED <<config, command, proc, asks, cfg>> /\ outcome[p] \in {"fetch", "sent"}
  BY DEF ShimFails, ShimPrints, ShimRefused, vars
<1>2. /\ cfg' = [cfg EXCEPT ![p] = cfg[p]] /\ minted = [minted EXCEPT ![p] = NoToken]
      /\ asks' = [c \in Client |-> asks'[c]] /\ \A r \in Plugin \ {p} : asks'[r] = asks[r]
      /\ cfg[p].tokenEndpoint \in DOMAIN Endpoint
  BY <1>1 DEF TokenInv
<1>3. CASE ShimFails(p) \/ ShimRefused(p)
  <2>1. /\ outcome' = [outcome EXCEPT ![p] = "failed"] /\ UNCHANGED disk
        /\ minted' = [minted EXCEPT ![p] = NoToken]
    BY <1>2, <1>3 DEF ShimFails, ShimRefused
  <2>2. "failed" \notin {"fetch", "sent"}
    OBVIOUS
  <2>3. QED BY <1>1, <1>2, <2>1, <2>2, ShimStep
<1>4. CASE ShimPrints(p)
  <2> DEFINE file == Shim!cacheFilePath(cfg[p])
             az == AzCommand(Shim!buildRequest(cfg[p]))
  <2>1. asks[p] = Shim!buildRequest(cfg[p]) /\ proc # "launched"
    BY <1>4 DEF ShimPrints, TokenInv
  <2>2. az = Owed(file)
    BY <1>2, KeyDetermines DEF TokenInv
  <2>3. /\ outcome' = [outcome EXCEPT ![p] = "token"] /\ minted' = [minted EXCEPT ![p] = az]
        /\ \/ disk' = disk
           \/ disk' = [f \in DOMAIN disk \cup {file} |-> IF f = file THEN az ELSE disk[f]]
    BY <1>4, <2>1 DEF ShimPrints
  <2>4. /\ az = AzCommand(Shim!buildRequest(cfg[p]))
        /\ \/ disk' = disk
           \/ disk' = [f \in DOMAIN disk \cup {file} |-> IF f = file THEN Owed(file) ELSE disk[f]]
    BY <2>2, <2>3
  <2> HIDE DEF file, az
  <2>5. QED BY <1>1, <1>2, <2>1, <2>3, <2>4, ShimStep
<1>5. QED BY <1>3, <1>4

\* A shared cache hands out what one's own request would have obtained (RightToken).
THEOREM RightTokenHolds == EndpointsBare /\ ExchangeSpec => []RightToken
<1>1. TokenInv /\ [ExchangeNext]_everything => TokenInv'
  <2> SUFFICES ASSUME TokenInv, [ExchangeNext]_everything PROVE TokenInv'
    OBVIOUS
  <2>1. asks = [c \in Client |-> asks[c]]
    BY DEF TokenInv
  <2>2. ASSUME UNCHANGED shims,
               Daemon \/ (\E c \in Client : Gone(c)) \/ UNCHANGED vars
        PROVE  TokenInv'
    <3>1. /\ UNCHANGED asks
          /\ proc' = "launched" => proc = "launched"
          /\ UNCHANGED config \/ proc = "launched"
      BY <2>2 DEF Daemon, Start, StreamWrites, StreamFails, LoginStarts, LoginEnds, Arrives, BodyRead,
                  BodyCut, MintEnds, Answer, TickFires, TickMinted, Stop, Drained, ForceFinish, Finish,
                  Exit, Gone, vars
    <3>2. asks' = [c \in Client |-> asks'[c]] /\ \A p \in Plugin : asks'[p] = asks[p]
      BY <2>1, <3>1
    <3>3. UNCHANGED shims
      BY <2>2
    <3>4. QED BY <3>1, <3>2, <3>3, TokenKept
  <2>3. ASSUME UNCHANGED shims, NEW d \in Client \ Plugin, NEW q, Connect(d, q) PROVE TokenInv'
    <3>1. /\ asks' = [asks EXCEPT ![d] = q] /\ UNCHANGED <<config, proc>>
      BY <2>3 DEF Connect
    <3>2. /\ asks' = [c \in Client |-> asks'[c]] /\ \A p \in Plugin : asks'[p] = asks[p]
      BY <2>1, <3>1, ExchangeAssumption
    <3>3. QED BY <2>3, <3>1, <3>2, TokenKept
  <2>4. QED
    BY <2>2, <2>3, StartsStep, SendsStep, EndsStep DEF ExchangeNext, everything
<1>2. QED BY TokenInit, <1>1, PTL DEF ExchangeSpec, TokenInv

-----------------------------------------------------------------------------
(* The parsers *)

LEMMA Least == ASSUME NEW T \in SUBSET Nat, T # {} PROVE \E m \in T : \A k \in T : m <= k
<1> DEFINE Below == {ss \in Nat \X Nat : ss[1] < ss[2]}
<1>1. IsWellFoundedOn(Below, Nat)
  BY NatLessThanWellFounded, Zenon DEF OpToRel, Below
<1>2. PICK m \in T : \A y \in T : ~(<<y, m>> \in Below)
  BY <1>1, WFMin
<1>3. \A y \in T : ~(y < m)
  <2> SUFFICES ASSUME NEW y \in T, y < m PROVE FALSE
    OBVIOUS
  <2>1. <<y, m>> \in Below
    BY DEF Below
  <2> QED BY <2>1, <1>2
<1> QED BY <1>3

\* Induction on the naturals, as a fact about sets.
LEMMA Induction ==
    ASSUME NEW T \in SUBSET Nat, 0 \in T, \A n \in T : n + 1 \in T
    PROVE  T = Nat
<1> SUFFICES ASSUME Nat \ T # {} PROVE FALSE
  OBVIOUS
<1>1. PICK m \in Nat \ T : \A k \in Nat \ T : m <= k
  BY Least
<1>2. m # 0 /\ m - 1 \in Nat /\ ~(m <= m - 1) /\ m - 1 + 1 = m
  OBVIOUS
<1>3. m - 1 \in T
  BY <1>1, <1>2
<1>4. QED BY <1>2, <1>3

FlagValue(argv, i) ==
    IF TakesWord(argv, i) THEN argv[i + 1].name
    ELSE IF argv[i].val = Unset THEN Lone ELSE argv[i].val

\* out is the recursive function of parseArgs: out[i] is what the first i tokens gave.
ArgTurns(out, argv, most) ==
    out = [i \in 0 .. most |->
             IF i = 0 THEN << >>
             ELSE IF argv[i].flag THEN Assign(out[i - 1], argv[i].name, FlagValue(argv, i)) ELSE out[i - 1]]

LEMMA ArgTurnsExist == ASSUME NEW argv, NEW most \in Nat PROVE \E g : ArgTurns(g, argv, most)
<1> DEFINE Go(s, i) == IF argv[i].flag THEN Assign(s, argv[i].name, FlagValue(argv, i)) ELSE s
           T == {n \in Nat : \E g : ArgTurns(g, argv, n)}
<1>1. \A g, n : ArgTurns(g, argv, n) <=> g = [i \in 0 .. n |-> IF i = 0 THEN << >> ELSE Go(g[i - 1], i)]
  BY DEF ArgTurns
<1> HIDE DEF Go
<1>2. 0 \in T
  <2> DEFINE g == [i \in 0 .. 0 |-> << >>]
  <2>1. g = [i \in 0 .. 0 |-> IF i = 0 THEN << >> ELSE Go(g[i - 1], i)]
    OBVIOUS
  <2> HIDE DEF g
  <2>2. QED BY <1>1, <2>1
<1>3. ASSUME NEW n \in T PROVE n + 1 \in T
  <2>1. PICK g : g = [i \in 0 .. n |-> IF i = 0 THEN << >> ELSE Go(g[i - 1], i)]
    BY <1>1
  <2> DEFINE h == [i \in 0 .. n + 1 |-> IF i <= n THEN g[i] ELSE Go(g[n], n + 1)]
  <2>2. ASSUME NEW i \in 0 .. n + 1
        PROVE  h[i] = IF i = 0 THEN << >> ELSE Go(h[i - 1], i)
    <3>1. CASE i = 0
      BY <2>1, <3>1
    <3>2. CASE i # 0 /\ i <= n
      <4>1. i \in 0 .. n /\ i - 1 \in 0 .. n + 1 /\ i - 1 <= n
        BY <3>2
      <4>2. h[i] = g[i] /\ h[i - 1] = g[i - 1]
        BY <3>2, <4>1
      <4>3. g[i] = Go(g[i - 1], i)
        BY <2>1, <3>2, <4>1
      <4>4. QED BY <3>2, <4>2, <4>3
    <3>3. CASE i = n + 1
      <4>1. i # 0 /\ ~(i <= n) /\ i - 1 = n /\ n \in 0 .. n + 1 /\ n <= n
        BY <3>3
      <4>2. h[i] = Go(g[n], n + 1) /\ h[n] = g[n]
        BY <4>1
      <4>3. QED BY <3>3, <4>1, <4>2
    <3>4. QED BY <3>1, <3>2, <3>3
  <2>3. h = [i \in 0 .. n + 1 |-> IF i = 0 THEN << >> ELSE Go(h[i - 1], i)]
    <3>1. h = [i \in 0 .. n + 1 |-> h[i]]
      OBVIOUS
    <3> HIDE DEF h
    <3>2. QED BY <2>2, <3>1
  <2> HIDE DEF h
  <2>4. ArgTurns(h, argv, n + 1)
    BY <1>1, <2>3
  <2>5. QED BY <2>4
<1> HIDE DEF T
<1>4. T = Nat
  <2>1. T \in SUBSET Nat
    BY DEF T
  <2>2. QED BY <1>2, <1>3, <2>1, Induction
<1>5. QED BY <1>4 DEF T

LEMMA ParsedAs ==
    ASSUME NEW argv \in Seq(Token)
    PROVE  \E g : ArgTurns(g, argv, Len(argv)) /\ parseArgs(argv) = g[Len(argv)]
<1> DEFINE g == CHOOSE t : ArgTurns(t, argv, Len(argv))
<1>1. parseArgs(argv) = g[Len(argv)]
  BY DEF parseArgs, ArgTurns, FlagValue, Assign
<1> HIDE DEF g
<1>2. \E t : ArgTurns(t, argv, Len(argv))
  BY ArgTurnsExist
<1>3. ArgTurns(g, argv, Len(argv))
  BY <1>2 DEF g
<1>4. QED BY <1>1, <1>3

Used(argv, name) == {i \in DOMAIN argv : argv[i].flag /\ argv[i].name = name}

\* What a loop over the tokens has after i of them: each flag's last use.
LastUses(f, argv, i) ==
    /\ \A j \in 1 .. i : argv[j].flag => argv[j].name \in DOMAIN f
    /\ \A n \in DOMAIN f : \E j \in 1 .. i :
          /\ argv[j].flag /\ argv[j].name = n /\ f[n] = FlagValue(argv, j)
          /\ \A k \in 1 .. i : argv[k].flag /\ argv[k].name = n => k <= j

LEMMA ArgTurn ==
    ASSUME NEW f, NEW argv, NEW i \in Nat, LastUses(f, argv, i)
    PROVE  LastUses(IF argv[i + 1].flag THEN Assign(f, argv[i + 1].name, FlagValue(argv, i + 1)) ELSE f,
                    argv, i + 1)
<1>1. i + 1 \in 1 .. i + 1 /\ \A j \in 1 .. i + 1 : (j \in 1 .. i \/ j = i + 1) /\ j <= i + 1
  OBVIOUS
<1>2. \A j \in 1 .. i : j \in 1 .. i + 1
  OBVIOUS
<1>3. CASE argv[i + 1].flag
  <2> DEFINE m == argv[i + 1].name
             v == FlagValue(argv, i + 1)
             g == Assign(f, m, v)
  <2>1. /\ DOMAIN g = {m} \cup DOMAIN f /\ g[m] = v
        /\ \A n \in DOMAIN f : n # m => g[n] = f[n]
    <3> HIDE DEF m, v
    <3>1. QED BY DEF Assign
  <2> HIDE DEF g
  <2>2. \A j \in 1 .. i + 1 : argv[j].flag => argv[j].name \in DOMAIN g
    BY <1>1, <2>1 DEF LastUses
  <2>3. ASSUME NEW n \in DOMAIN g
        PROVE  \E j \in 1 .. i + 1 :
                 /\ argv[j].flag /\ argv[j].name = n /\ g[n] = FlagValue(argv, j)
                 /\ \A k \in 1 .. i + 1 : argv[k].flag /\ argv[k].name = n => k <= j
    <3>1. CASE n = m
      BY <1>1, <1>3, <2>1, <3>1
    <3>2. CASE n # m
      <4>1. n \in DOMAIN f /\ g[n] = f[n]
        BY <2>1, <3>2
      <4>2. PICK j \in 1 .. i :
              /\ argv[j].flag /\ argv[j].name = n /\ f[n] = FlagValue(argv, j)
              /\ \A k \in 1 .. i : argv[k].flag /\ argv[k].name = n => k <= j
        BY <4>1 DEF LastUses
      <4>3. \A k \in 1 .. i + 1 : argv[k].flag /\ argv[k].name = n => k <= j
        BY <1>1, <3>2, <4>2
      <4>4. QED BY <1>2, <4>1, <4>2, <4>3
    <3>3. QED BY <3>1, <3>2
  <2>4. LastUses(g, argv, i + 1)
    BY <2>2, <2>3 DEF LastUses
  <2>5. QED BY <1>3, <2>4 DEF g
<1>4. CASE ~argv[i + 1].flag
  <2>1. \A j \in 1 .. i + 1 : argv[j].flag => argv[j].name \in DOMAIN f
    BY <1>1, <1>4 DEF LastUses
  <2>2. ASSUME NEW n \in DOMAIN f
        PROVE  \E j \in 1 .. i + 1 :
                 /\ argv[j].flag /\ argv[j].name = n /\ f[n] = FlagValue(argv, j)
                 /\ \A k \in 1 .. i + 1 : argv[k].flag /\ argv[k].name = n => k <= j
    <3>1. PICK j \in 1 .. i :
            /\ argv[j].flag /\ argv[j].name = n /\ f[n] = FlagValue(argv, j)
            /\ \A k \in 1 .. i : argv[k].flag /\ argv[k].name = n => k <= j
      BY DEF LastUses
    <3>2. \A k \in 1 .. i + 1 : argv[k].flag /\ argv[k].name = n => k <= j
      BY <1>1, <1>4, <3>1
    <3>3. QED BY <1>2, <3>1, <3>2
  <2>3. LastUses(f, argv, i + 1)
    BY <2>1, <2>2 DEF LastUses
  <2>4. QED BY <1>4, <2>3
<1>5. QED BY <1>3, <1>4

LEMMA ArgsLoop ==
    ASSUME NEW argv, NEW most \in Nat, NEW g, ArgTurns(g, argv, most)
    PROVE  LastUses(g[most], argv, most)
<1> DEFINE T == {n \in Nat : n <= most => LastUses(g[n], argv, n)}
<1>1. \A i \in 0 .. most :
        g[i] = IF i = 0 THEN << >>
               ELSE IF argv[i].flag THEN Assign(g[i - 1], argv[i].name, FlagValue(argv, i)) ELSE g[i - 1]
  BY DEF ArgTurns
<1>2. 0 \in T
  <2>1. g[0] = << >> /\ DOMAIN << >> = {} /\ 1 .. 0 = {}
    BY <1>1
  <2>2. LastUses(g[0], argv, 0)
    BY <2>1 DEF LastUses
  <2>3. QED BY <2>2
<1>3. ASSUME NEW n \in T PROVE n + 1 \in T
  <2>1. SUFFICES ASSUME n + 1 <= most PROVE LastUses(g[n + 1], argv, n + 1)
    OBVIOUS
  <2>2. n \in Nat /\ n <= most /\ n + 1 \in 0 .. most /\ n + 1 # 0 /\ n + 1 - 1 = n
    BY <2>1
  <2>3. LastUses(g[n], argv, n)
    BY <2>2
  <2>4. g[n + 1] = IF argv[n + 1].flag THEN Assign(g[n], argv[n + 1].name, FlagValue(argv, n + 1)) ELSE g[n]
    BY <1>1, <2>2
  <2>5. QED BY <2>2, <2>3, <2>4, ArgTurn
<1> HIDE DEF T
<1>4. T = Nat
  <2>1. T \in SUBSET Nat
    BY DEF T
  <2>2. QED BY <1>2, <1>3, <2>1, Induction
<1>5. most \in T /\ most <= most
  BY <1>4
<1>6. QED BY <1>5 DEF T

\* A flag is known if it is used, and has the text of its last use.
LEMMA ArgsParsed ==
    ASSUME NEW argv \in Seq(Token), NEW name
    PROVE  /\ name \in DOMAIN parseArgs(argv) <=> Used(argv, name) # {}
           /\ Used(argv, name) # {} =>
                /\ Max(Used(argv, name)) \in Used(argv, name)
                /\ parseArgs(argv)[name] = FlagValue(argv, Max(Used(argv, name)))
<1> DEFINE n == Len(argv)
           f == parseArgs(argv)
           U == Used(argv, name)
<1>1. PICK g : ArgTurns(g, argv, n) /\ f = g[n]
  BY ParsedAs
<1>2. n \in Nat /\ DOMAIN argv = 1 .. n
  OBVIOUS
<1> HIDE DEF n, f
<1>3. LastUses(f, argv, n)
  BY <1>1, <1>2, ArgsLoop
<1>4. U = {i \in 1 .. n : argv[i].flag /\ argv[i].name = name}
  BY <1>2 DEF Used
<1> HIDE DEF U
<1>5. U # {} => name \in DOMAIN f
  BY <1>3, <1>4 DEF LastUses
<1>6. ASSUME name \in DOMAIN f
      PROVE  U # {} /\ Max(U) \in U /\ f[name] = FlagValue(argv, Max(U))
  <2>1. PICK j \in U : f[name] = FlagValue(argv, j) /\ \A k \in U : k <= j
    BY <1>3, <1>4, <1>6 DEF LastUses
  <2>2. \A k \in U : k \in Nat
    BY <1>4
  <2>3. j \in U /\ \A y \in U : j >= y
    BY <2>1, <2>2
  <2>4. Max(U) \in U /\ \A y \in U : Max(U) >= y
    BY <2>3 DEF Max
  <2>5. Max(U) = j
    BY <2>2, <2>3, <2>4
  <2>6. QED BY <2>1, <2>4, <2>5
<1>7. QED BY <1>5, <1>6 DEF f, U

-----------------------------------------------------------------------------
(* The env file *)

Lasting(lines, key) == lines[Max({i \in DOMAIN lines : lines[i].key = key})].val
Filling(now, key, lines) ==
    IF key \in DOMAIN now THEN now ELSE Assign(now, key, expandValue(Lasting(lines, key), now))

LineTurns(live, env, lines, most) ==
    live = [i \in 0 .. most |-> IF i = 0 THEN env ELSE Filling(live[i - 1], lines[i].key, lines)]

LEMMA LineTurnsExist ==
    ASSUME NEW env, NEW lines, NEW most \in Nat PROVE \E g : LineTurns(g, env, lines, most)
<1> DEFINE Go(s, i) == Filling(s, lines[i].key, lines)
           T == {n \in Nat : \E g : LineTurns(g, env, lines, n)}
<1>1. \A g, n : LineTurns(g, env, lines, n)
                <=> g = [i \in 0 .. n |-> IF i = 0 THEN env ELSE Go(g[i - 1], i)]
  BY DEF LineTurns
<1> HIDE DEF Go
<1>2. 0 \in T
  <2> DEFINE g == [i \in 0 .. 0 |-> env]
  <2>1. g = [i \in 0 .. 0 |-> IF i = 0 THEN env ELSE Go(g[i - 1], i)]
    OBVIOUS
  <2> HIDE DEF g
  <2>2. QED BY <1>1, <2>1
<1>3. ASSUME NEW n \in T PROVE n + 1 \in T
  <2>1. PICK g : g = [i \in 0 .. n |-> IF i = 0 THEN env ELSE Go(g[i - 1], i)]
    BY <1>1
  <2> DEFINE h == [i \in 0 .. n + 1 |-> IF i <= n THEN g[i] ELSE Go(g[n], n + 1)]
  <2>2. ASSUME NEW i \in 0 .. n + 1
        PROVE  h[i] = IF i = 0 THEN env ELSE Go(h[i - 1], i)
    <3>1. CASE i = 0
      BY <2>1, <3>1
    <3>2. CASE i # 0 /\ i <= n
      <4>1. i \in 0 .. n /\ i - 1 \in 0 .. n + 1 /\ i - 1 <= n
        BY <3>2
      <4>2. h[i] = g[i] /\ h[i - 1] = g[i - 1]
        BY <3>2, <4>1
      <4>3. g[i] = Go(g[i - 1], i)
        BY <2>1, <3>2, <4>1
      <4>4. QED BY <3>2, <4>2, <4>3
    <3>3. CASE i = n + 1
      <4>1. i # 0 /\ ~(i <= n) /\ i - 1 = n /\ n \in 0 .. n + 1 /\ n <= n
        BY <3>3
      <4>2. h[i] = Go(g[n], n + 1) /\ h[n] = g[n]
        BY <4>1
      <4>3. QED BY <3>3, <4>1, <4>2
    <3>4. QED BY <3>1, <3>2, <3>3
  <2>3. h = [i \in 0 .. n + 1 |-> IF i = 0 THEN env ELSE Go(h[i - 1], i)]
    <3>1. h = [i \in 0 .. n + 1 |-> h[i]]
      OBVIOUS
    <3> HIDE DEF h
    <3>2. QED BY <2>2, <3>1
  <2> HIDE DEF h
  <2>4. LineTurns(h, env, lines, n + 1)
    BY <1>1, <2>3
  <2>5. QED BY <2>4
<1> HIDE DEF T
<1>4. T = Nat
  <2>1. T \in SUBSET Nat
    BY DEF T
  <2>2. QED BY <1>2, <1>3, <2>1, Induction
<1>5. QED BY <1>4 DEF T

LEMMA LoadedAs ==
    ASSUME NEW env, NEW lines \in Seq(EnvLine)
    PROVE  \E g : LineTurns(g, env, lines, Len(lines)) /\ loadEnvFile(env, lines) = g[Len(lines)]
<1> DEFINE g == CHOOSE t : LineTurns(t, env, lines, Len(lines))
<1>1. loadEnvFile(env, lines) = g[Len(lines)]
  BY DEF loadEnvFile, LineTurns, Filling, Lasting, Filled
<1> HIDE DEF g
<1>2. \E t : LineTurns(t, env, lines, Len(lines))
  <2>1. Len(lines) \in Nat
    OBVIOUS
  <2>2. QED BY <2>1, LineTurnsExist
<1>3. LineTurns(g, env, lines, Len(lines))
  BY <1>2 DEF g
<1>4. QED BY <1>1, <1>3

\* e has what d has.
Extends(e, d) == \A k \in DOMAIN d : k \in DOMAIN e /\ e[k] = d[k]

LEMMA FillingExtends ==
    ASSUME NEW now, NEW key, NEW lines
    PROVE  /\ Extends(Filling(now, key, lines), now)
           /\ DOMAIN Filling(now, key, lines) = DOMAIN now \cup {key}
<1>1. CASE key \in DOMAIN now
  BY <1>1 DEF Filling, Extends
<1>2. CASE key \notin DOMAIN now
  <2> DEFINE v == expandValue(Lasting(lines, key), now)
  <2>1. Filling(now, key, lines) = Assign(now, key, v)
    BY <1>2 DEF Filling
  <2> HIDE DEF v
  <2> DEFINE g == Assign(now, key, v)
  <2>2. DOMAIN g = {key} \cup DOMAIN now /\ \A n \in DOMAIN now : n # key => g[n] = now[n]
    BY DEF Assign
  <2> HIDE DEF g
  <2>3. Extends(g, now) /\ DOMAIN g = DOMAIN now \cup {key}
    BY <1>2, <2>2 DEF Extends
  <2>4. QED BY <2>1, <2>3 DEF g
<1>3. QED BY <1>1, <1>2

\* A key once set stays, and the keys are those of the environment and of the lines.
LEMMA LinesLoop ==
    ASSUME NEW env, NEW lines, NEW most \in Nat, NEW g, LineTurns(g, env, lines, most)
    PROVE  \A i \in 0 .. most :
             /\ DOMAIN g[i] = DOMAIN env \cup {lines[j].key : j \in 1 .. i}
             /\ \A h \in 0 .. i : Extends(g[i], g[h])
<1> DEFINE P(i) == /\ DOMAIN g[i] = DOMAIN env \cup {lines[j].key : j \in 1 .. i}
                   /\ \A h \in 0 .. i : Extends(g[i], g[h])
           T == {n \in Nat : n <= most => P(n)}
<1>1. \A i \in 0 .. most : g[i] = IF i = 0 THEN env ELSE Filling(g[i - 1], lines[i].key, lines)
  BY DEF LineTurns
<1>2. 0 \in T
  <2>1. g[0] = env /\ 1 .. 0 = {} /\ \A h \in 0 .. 0 : h = 0
    BY <1>1
  <2>2. P(0)
    BY <2>1 DEF Extends
  <2> HIDE DEF P
  <2>3. QED BY <2>2
<1>3. ASSUME NEW n \in T PROVE n + 1 \in T
  <2>1. SUFFICES ASSUME n + 1 <= most PROVE P(n + 1)
    OBVIOUS
  <2>2. n \in Nat /\ n <= most /\ n + 1 \in 0 .. most /\ n + 1 # 0 /\ n + 1 - 1 = n
    BY <2>1
  <2>3. P(n)
    BY <2>2
  <2>4. g[n + 1] = Filling(g[n], lines[n + 1].key, lines)
    BY <1>1, <2>2
  <2>5. /\ Extends(g[n + 1], g[n])
        /\ DOMAIN g[n + 1] = DOMAIN g[n] \cup {lines[n + 1].key}
    <3> DEFINE now == g[n]
               key == lines[n + 1].key
    <3>1. Extends(Filling(now, key, lines), now) /\ DOMAIN Filling(now, key, lines) = DOMAIN now \cup {key}
      <4> HIDE DEF now, key
      <4>1. QED BY FillingExtends
    <3>2. QED BY <2>4, <3>1
  <2>6. \A j : j \in 1 .. n + 1 <=> j \in 1 .. n \/ j = n + 1
    BY <2>2
  <2>7. {lines[j].key : j \in 1 .. n + 1} = {lines[j].key : j \in 1 .. n} \cup {lines[n + 1].key}
    BY <2>6
  <2>8. ASSUME NEW h \in 0 .. n + 1 PROVE Extends(g[n + 1], g[h])
    <3>1. CASE h \in 0 .. n
      <4>1. Extends(g[n], g[h])
        BY <2>3, <3>1
      <4>2. QED BY <2>5, <4>1 DEF Extends
    <3>2. CASE h = n + 1
      BY <3>2 DEF Extends
    <3>3. QED BY <2>2, <3>1, <3>2
  <2>9. QED BY <2>3, <2>5, <2>7, <2>8
<1> HIDE DEF T, P
<1>4. T = Nat
  <2>1. T \in SUBSET Nat
    BY DEF T
  <2>2. QED BY <1>2, <1>3, <2>1, Induction
<1>5. \A i \in 0 .. most : P(i)
  <2>1. \A i \in 0 .. most : i \in T /\ i <= most
    BY <1>4
  <2>2. QED BY <2>1 DEF T
<1>6. QED BY <1>5 DEF P

\* The environment wins; a key of the file alone is set at its first line, to
\* the text of its last, where a name stands for what was set before.
LinesOf(lines, key) == {j \in DOMAIN lines : lines[j].key = key}
KeysBefore(env, lines, key) ==
    DOMAIN env \cup {lines[j].key : j \in 1 .. Min(LinesOf(lines, key)) - 1}
FileText(env, lines, key) ==
    LET e == loadEnvFile(env, lines)
    IN  expandValue(lines[Max(LinesOf(lines, key))].val, [n \in KeysBefore(env, lines, key) |-> e[n]])

LEMMA FileLoaded ==
    ASSUME NEW env, NEW lines \in Seq(EnvLine), NEW key
    PROVE  /\ key \in DOMAIN loadEnvFile(env, lines)
                <=> key \in DOMAIN env \/ LinesOf(lines, key) # {}
           /\ key \in DOMAIN env => loadEnvFile(env, lines)[key] = env[key]
           /\ key \notin DOMAIN env /\ LinesOf(lines, key) # {} =>
                loadEnvFile(env, lines)[key] = FileText(env, lines, key)
<1> DEFINE e == loadEnvFile(env, lines)
           L == LinesOf(lines, key)
           n == Len(lines)
           m == Min(L)
           before == KeysBefore(env, lines, key)
<1> USE DEF LinesOf, KeysBefore, FileText
<1>1. PICK g : LineTurns(g, env, lines, n) /\ e = g[n]
  BY LoadedAs
<1>2. n \in Nat /\ DOMAIN lines = 1 .. n
  OBVIOUS
<1> HIDE DEF n, e
<1>3. \A i \in 0 .. n :
        /\ DOMAIN g[i] = DOMAIN env \cup {lines[j].key : j \in 1 .. i}
        /\ \A h \in 0 .. i : Extends(g[i], g[h])
  BY <1>1, <1>2, LinesLoop
<1>4. DOMAIN e = DOMAIN env \cup {lines[j].key : j \in 1 .. n} /\ \A h \in 0 .. n : Extends(e, g[h])
  <2>1. n \in 0 .. n
    BY <1>2
  <2>2. QED BY <1>1, <1>3, <2>1
<1>5. \A i \in 0 .. n : g[i] = IF i = 0 THEN env ELSE Filling(g[i - 1], lines[i].key, lines)
  BY <1>1 DEF LineTurns
<1>6. key \in DOMAIN e <=> key \in DOMAIN env \/ L # {}
  BY <1>2, <1>4
<1>7. key \in DOMAIN env => e[key] = env[key]
  <2>1. 0 \in 0 .. n /\ g[0] = env
    BY <1>2, <1>5
  <2>2. QED BY <1>4, <2>1 DEF Extends
<1>8. ASSUME key \notin DOMAIN env, L # {}
      PROVE  e[key] = expandValue(lines[Max(L)].val, [k \in before |-> e[k]])
  <2>1. L \in SUBSET Nat
    BY <1>2
  <2>2. PICK x \in L : \A k \in L : x <= k
    BY <1>8, <2>1, Least
  <2>3. m \in L /\ \A k \in L : m <= k
    BY <2>2 DEF Min
  <2>4. m \in 1 .. n /\ lines[m].key = key
    BY <1>2, <2>3
  <2>5. m \in 0 .. n /\ m - 1 \in 0 .. n /\ m # 0
    BY <1>2, <2>4
  <2>6. DOMAIN g[m - 1] = before
    BY <1>3, <2>5
  <2>7. key \notin before
    <3>1. \A j \in 1 .. m - 1 : j \in 1 .. n /\ ~(m <= j)
      BY <1>2, <2>4
    <3>2. \A j \in 1 .. m - 1 : lines[j].key # key
      BY <1>2, <2>3, <3>1
    <3>3. QED BY <1>8, <3>2
  <2> DEFINE v == expandValue(Lasting(lines, key), g[m - 1])
  <2>8. g[m] = Assign(g[m - 1], key, v)
    BY <1>5, <2>4, <2>5, <2>6, <2>7 DEF Filling
  <2> HIDE DEF v
  <2>9. key \in DOMAIN g[m] /\ g[m][key] = v
    <3> DEFINE now == g[m - 1]
    <3>1. key \in DOMAIN Assign(now, key, v) /\ Assign(now, key, v)[key] = v
      <4> HIDE DEF now
      <4>1. QED BY DEF Assign
    <3>2. QED BY <2>8, <3>1
  <2>10. e[key] = v
    BY <1>4, <2>5, <2>9 DEF Extends
  <2>11. \A k \in before : g[m - 1][k] = e[k]
    BY <1>4, <2>5, <2>6 DEF Extends
  <2>12. Lasting(lines, key) = lines[Max(L)].val
    BY DEF Lasting
  <2> HIDE DEF m, L, before
  <2>13. v = expandValue(lines[Max(L)].val, [k \in before |-> e[k]])
    BY <2>6, <2>11, <2>12 DEF v, expandValue
  <2>14. QED BY <2>10, <2>13
<1>9. QED BY <1>6, <1>7, <1>8 DEF e

-----------------------------------------------------------------------------
(* Precedence *)

LEMMA FlagSaid ==
    ASSUME NEW l \in Launches, NEW name
    PROVE  /\ name \in DOMAIN parseArgs(l.argv) <=> Flags(l, name) # {}
           /\ Flags(l, name) # {} => parseArgs(l.argv)[name] = Said(l, name)
           /\ Has(parseArgs(l.argv), name) <=> Uses(l, name)
<1> DEFINE argv == l.argv
           F == Flags(l, name)
           i == Max(F)
<1>1. argv \in Seq(Token)
  BY LaunchAssumption
<1>2. F = Used(argv, name)
  BY DEF Flags, Used
<1>3. /\ name \in DOMAIN parseArgs(argv) <=> F # {}
      /\ F # {} => i \in F /\ parseArgs(argv)[name] = FlagValue(argv, i)
  BY <1>1, <1>2, ArgsParsed
<1>4. ASSUME F # {} PROVE FlagValue(argv, i) = Said(l, name)
  <2>1. i \in F
    BY <1>3, <1>4
  <2>2. i \in 1 .. Len(argv) /\ Len(argv) \in Nat /\ argv[i].name = name
    BY <1>1, <2>1 DEF Flags
  <2> HIDE DEF i
  <2>3. i < Len(argv) <=> ~(i = Len(argv))
    BY <2>2
  <2>4. QED BY <2>2, <2>3 DEF FlagValue, TakesWord, Said, i
<1>5. QED BY <1>3, <1>4 DEF Has, Uses

LEMMA PickMeans ==
    ASSUME NEW l \in Launches, NEW s \in Settings
    PROVE  pick(l, s) = Meant(l, s)
<1> DEFINE e == Environment(l)
           cli == parseArgs(l.argv)
           File == IF EnvFile(l) \in DOMAIN l.files /\ ~Uses(l, "no-env-file")
                   THEN l.files[EnvFile(l)] ELSE << >>
           L == {j \in DOMAIN File : File[j].key = s}
           before == DOMAIN l.env \cup {File[j].key : j \in 1 .. Min(L) - 1}
           text == expandValue(File[Max(L)].val, [n \in before |-> e[n]])
<1>1. CASE Flags(l, s) # {} /\ s \notin OnByDefault
  BY <1>1, FlagSaid DEF pick, Meant
<1>2. CASE ~(Flags(l, s) # {} /\ s \notin OnByDefault)
  <2>1. s \notin DOMAIN cli \ OnByDefault
    BY <1>2, FlagSaid
  <2>2. pick(l, s) = IF s \in DOMAIN e THEN e[s] ELSE Unset
    BY <2>1 DEF pick
  <2>3. Meant(l, s) = IF s \in DOMAIN l.env THEN l.env[s] ELSE IF L # {} THEN text ELSE Unset
    BY <1>2, Zenon DEF Meant
  <2>4. Has(cli, "no-env-file") <=> Uses(l, "no-env-file")
    BY FlagSaid
  <2>5. CASE EnvFile(l) \in DOMAIN l.files /\ ~Uses(l, "no-env-file")
    <3>1. File \in Seq(EnvLine)
      BY <2>5, LaunchAssumption
    <3>2. e = loadEnvFile(l.env, File)
      BY <2>4, <2>5 DEF Environment
    <3> HIDE DEF File, e
    <3>3. /\ s \in DOMAIN e <=> s \in DOMAIN l.env \/ L # {}
          /\ s \in DOMAIN l.env => e[s] = l.env[s]
          /\ s \notin DOMAIN l.env /\ L # {} => e[s] = text
      <4> DEFINE env == l.env
      <4>1. e = loadEnvFile(env, File)
        BY <3>2
      <4> HIDE DEF env
      <4>2. /\ s \in DOMAIN loadEnvFile(env, File) <=> s \in DOMAIN env \/ LinesOf(File, s) # {}
            /\ s \in DOMAIN env => loadEnvFile(env, File)[s] = env[s]
            /\ s \notin DOMAIN env /\ LinesOf(File, s) # {} =>
                 loadEnvFile(env, File)[s] = FileText(env, File, s)
        BY <3>1, FileLoaded
      <4>3. L = LinesOf(File, s) /\ before = KeysBefore(env, File, s)
        BY DEF LinesOf, KeysBefore, env
      <4>4. text = FileText(env, File, s)
        BY <4>1, <4>3, Zenon DEF FileText
      <4> HIDE DEF L, before, text
      <4>5. QED BY <4>1, <4>2, <4>3, <4>4 DEF env
    <3> HIDE DEF L, text
    <3>4. QED BY <2>2, <2>3, <3>3
  <2>6. CASE ~(EnvFile(l) \in DOMAIN l.files /\ ~Uses(l, "no-env-file"))
    <3>1. e = l.env
      BY <2>4, <2>6 DEF Environment
    <3>2. L = {}
      <4>1. File = << >> /\ DOMAIN << >> = {}
        BY <2>6
      <4>2. QED BY <4>1
    <3> HIDE DEF L, text, e
    <3>3. QED BY <2>2, <2>3, <3>1, <3>2
  <2>7. QED BY <2>5, <2>6
<1>3. QED BY <1>1, <1>2

\* The daemon configures itself once.
ConfigInv == launch \in Launches /\ (config # << >> => config = loadConfig(launch))

LEMMA ConfigSuffices == ConfigInv => Precedence
<1> SUFFICES ASSUME ConfigInv, config # << >>, NEW s \in Settings
             PROVE  config[s] = IF s \in OnByDefault /\ Uses(launch, OffFlag[s]) THEN FALSE
                                ELSE Converted(s, Meant(launch, s), Environment(launch))
  BY DEF Precedence
<1>1. config[s] = IF s \in OnByDefault /\ Has(parseArgs(launch.argv), OffFlag[s]) THEN FALSE
                  ELSE Converted(s, pick(launch, s), Environment(launch))
  BY DEF ConfigInv, loadConfig
<1>2. Has(parseArgs(launch.argv), OffFlag[s]) <=> Uses(launch, OffFlag[s])
  BY FlagSaid DEF ConfigInv
<1>3. pick(launch, s) = Meant(launch, s)
  BY PickMeans DEF ConfigInv
<1>4. QED BY <1>1, <1>2, <1>3

\* A step that leaves the launch, and the configuration unless it is Start.
LEMMA ConfigStep ==
    ASSUME ConfigInv,
           \/ Daemon \/ \E c \in Client : Gone(c)
           \/ \E c \in Client : \E q : Connect(c, q)
           \/ UNCHANGED vars
    PROVE  ConfigInv'
<1>1. CASE Start
  <2>1. UNCHANGED launch /\ (UNCHANGED config \/ config' = loadConfig(launch))
    BY <1>1 DEF Start
  <2>2. loadConfig(launch)' = loadConfig(launch)
    BY <2>1
  <2>3. QED BY <2>1, <2>2 DEF ConfigInv
<1>2. CASE UNCHANGED <<launch, config>>
  <2>1. loadConfig(launch)' = loadConfig(launch)
    BY <1>2
  <2>2. QED BY <1>2, <2>1 DEF ConfigInv
<1>3. ASSUME NEW c \in Client, \/ Arrives(c) \/ BodyRead(c) \/ BodyCut(c) \/ MintEnds(c)
                                \/ Gone(c) \/ \E q : Connect(c, q)
      PROVE  UNCHANGED <<launch, config>>
  BY <1>3 DEF Arrives, BodyRead, BodyCut, MintEnds, Gone, Connect, Answer
<1>4. ASSUME NEW t \in Tick, TickFires(t) \/ TickMinted(t) PROVE UNCHANGED <<launch, config>>
  BY <1>4 DEF TickFires, TickMinted
<1>5. ASSUME \/ StreamWrites \/ StreamFails \/ LoginStarts \/ LoginEnds
             \/ Stop \/ Drained \/ ForceFinish \/ Exit \/ UNCHANGED vars
      PROVE  UNCHANGED <<launch, config>>
  BY <1>5 DEF StreamWrites, StreamFails, LoginStarts, LoginEnds, Stop, Drained, ForceFinish, Finish,
              Exit, vars
<1>6. QED BY <1>1, <1>2, <1>3, <1>4, <1>5 DEF Daemon

LEMMA ConfigHolds == ExchangeSpec => []ConfigInv
<1>1. ExchangeInit => ConfigInv
  BY DEF ExchangeInit, Init, ConfigInv
<1>2. ConfigInv /\ [ExchangeNext]_everything => ConfigInv'
  <2> SUFFICES ASSUME ConfigInv, [ExchangeNext]_everything PROVE ConfigInv'
    OBVIOUS
  <2>1. CASE \E p \in Plugin : ShimSends(p)
    BY <2>1, ConfigStep, ExchangeAssumption DEF ShimSends
  <2>2. CASE UNCHANGED vars
    BY <2>2, ConfigStep
  <2>3. QED
    BY <2>1, <2>2, ConfigStep
    DEF ExchangeNext, everything, ShimStarts, ShimFails, ShimPrints, ShimRefused
<1>3. QED BY <1>1, <1>2, PTL DEF ExchangeSpec

\* The configuration is what the launch means: a flag's last use wins over the
\* environment, that over the last line of the env file, and that over the
\* default (Precedence), for every command line, environment and file.
THEOREM PrecedenceHolds == ExchangeSpec => []Precedence
  BY ConfigHolds, ConfigSuffices, PTL

-----------------------------------------------------------------------------
(* Who is served *)

\* The configuration grants q a token, or forbids it, as the status says.
Deserves(q, code) ==
    /\ code = 200 => authorize(q) /\ Refusal(q) = 0
    /\ code = 403 => Refusal(q) = 403

\* Whoever got past the TLS layer did so under the configuration of the launch,
\* whoever got past a check passes it, and who is answered deserves the answer.
Admitted(c) ==
    /\ at[c] \notin {"new", "absent"} =>
         /\ config = loadConfig(launch) /\ ~Refuses(launch)
         /\ RequiresCert(config) => asks[c].cert
    /\ at[c] \in {"body", "mint"} => authorize(asks[c])
    /\ at[c] = "mint" => Refusal(asks[c]) = 0
    /\ status[c] \in {200, 403} => at[c] = "done"
    /\ Deserves(asks[c], status[c])

AuthInv ==
    /\ proc = "launched" => \A c \in Client : at[c] \in {"new", "absent"} /\ status[c] = 0
    /\ proc \in {"up", "stopping"} => config = loadConfig(launch) /\ ~Refuses(launch)
    /\ status = [c \in Client |-> status[c]] /\ asks = [c \in Client |-> asks[c]]
    /\ at = [a \in Client \cup Tick |-> at[a]]
    /\ \A c \in Client : Admitted(c)

LEMMA AuthInit == Init => AuthInv
  BY DEF Init, AuthInv, Admitted, Deserves

LEMMA SameConfig ==
    ASSUME UNCHANGED <<launch, config>>
    PROVE  /\ loadConfig(launch)' = loadConfig(launch)
           /\ Refuses(launch)' = Refuses(launch)
           /\ RequiresCert(config)' = RequiresCert(config)
           /\ \A q : authorize(q)' = authorize(q)
           /\ \A q : Refusal(q)' = Refusal(q)
<1>1. \A q : authorize(q)' = authorize(q)
  BY DEF authorize
<1>2. \A q : Refusal(q)' = Refusal(q)
  BY DEF Refusal, Subscription
<1>3. QED BY <1>1, <1>2

\* A request is judged by what it asks for and by the configuration.
LEMMA SameJudged ==
    ASSUME NEW c \in Client, UNCHANGED config, asks'[c] = asks[c]
    PROVE  /\ authorize(asks[c])' = authorize(asks[c])
           /\ Refusal(asks[c])' = Refusal(asks[c])
<1>1. authorize(asks[c])' = authorize(asks[c])
  BY DEF authorize
<1>2. Refusal(asks[c])' = Refusal(asks[c])
  BY DEF Refusal, Subscription
<1>3. QED BY <1>1, <1>2

\* A client that stays where it is.
LEMMA AdmittedKept ==
    ASSUME NEW c \in Client, Admitted(c), UNCHANGED <<launch, config>>,
           at'[c] = at[c], asks'[c] = asks[c], status'[c] = status[c]
    PROVE  Admitted(c)'
<1>1. authorize(asks[c])' = authorize(asks[c]) /\ Refusal(asks[c])' = Refusal(asks[c])
  BY SameJudged
<1>2. Deserves(asks[c], status[c])' <=> Deserves(asks[c], status[c])
  BY <1>1 DEF Deserves
<1>3. QED BY <1>1, <1>2, SameConfig DEF Admitted

\* A step that moves no client and answers none, under the same configuration.
LEMMA AuthKept ==
    ASSUME AuthInv, UNCHANGED <<launch, config, asks, status>>,
           at' = [a \in Client \cup Tick |-> at'[a]], \A c \in Client : at'[c] = at[c],
           proc' = "launched" => proc = "launched",
           proc' \in {"up", "stopping"} => proc \in {"up", "stopping"}
    PROVE  AuthInv'
<1>1. \A c \in Client : Admitted(c)'
  BY AdmittedKept DEF AuthInv
<1>2. QED BY <1>1, SameConfig DEF AuthInv

LEMMA AuthStart == ASSUME AuthInv, Start PROVE AuthInv'
<1>1. \A c \in Client : at[c] \in {"new", "absent"} /\ status[c] = 0
  BY DEF Start, AuthInv
<1>2. /\ UNCHANGED <<launch, at, asks, status>>
      /\ \/ proc' = "exited"
         \/ proc' = "up" /\ config' = loadConfig(launch) /\ ~Refuses(launch)
  BY DEF Start
<1>3. loadConfig(launch)' = loadConfig(launch) /\ Refuses(launch)' = Refuses(launch)
  BY <1>2
<1>4. \A c \in Client : Deserves(asks[c], status[c])'
  BY <1>1, <1>2 DEF Deserves
<1>5. QED BY <1>1, <1>2, <1>3, <1>4 DEF AuthInv, Admitted

\* The client c goes on, beyond a check only if it passes, or gets the answer
\* that it deserves.
LEMMA AuthMove ==
    ASSUME AuthInv, Running, UNCHANGED <<launch, config, proc, asks>>, NEW c \in Client,
           at[c] \notin {"new", "absent", "done"},
           at' = [at EXCEPT ![c] = at'[c]], status' = [status EXCEPT ![c] = status'[c]],
           at'[c] \in {"body", "mint"} => authorize(asks[c]),
           at'[c] = "mint" => Refusal(asks[c]) = 0,
           status'[c] \in {200, 403} => at'[c] = "done", Deserves(asks[c], status'[c])
    PROVE  AuthInv'
<1>1. /\ at' = [a \in Client \cup Tick |-> IF a = c THEN at'[c] ELSE at[a]]
      /\ status' = [d \in Client |-> IF d = c THEN status'[c] ELSE status[d]]
      /\ proc # "launched"
  BY DEF AuthInv, Running
<1>2. Admitted(c)'
  <2>1. authorize(asks[c])' = authorize(asks[c]) /\ Refusal(asks[c])' = Refusal(asks[c])
    BY SameJudged
  <2>a. Deserves(asks[c], status[c])'
    <3>1. /\ status'[c] = 200 => authorize(asks[c]) /\ Refusal(asks[c]) = 0
          /\ status'[c] = 403 => Refusal(asks[c]) = 403
      BY DEF Deserves
    <3>2. /\ status'[c] = 200 => authorize(asks[c])' /\ Refusal(asks[c])' = 0
          /\ status'[c] = 403 => Refusal(asks[c])' = 403
      BY <2>1, <3>1
    <3>3. QED BY <3>2 DEF Deserves
  <2>2. asks'[c] = asks[c]
    OBVIOUS
  <2>3. config = loadConfig(launch) /\ ~Refuses(launch) /\ (RequiresCert(config) => asks[c].cert)
    BY DEF AuthInv, Admitted
  <2>4. QED BY <2>1, <2>a, <2>2, <2>3, SameConfig DEF Admitted
<1>3. \A d \in Client : Admitted(d)'
  <2> SUFFICES ASSUME NEW d \in Client, d # c PROVE Admitted(d)'
    BY <1>2
  <2>1. at'[d] = at[d] /\ asks'[d] = asks[d] /\ status'[d] = status[d]
    BY <1>1
  <2>2. QED BY <2>1, AdmittedKept DEF AuthInv
<1>4. QED BY <1>1, <1>3, SameConfig DEF AuthInv

LEMMA AuthConnect == ASSUME AuthInv, NEW c \in Client, NEW q, Connect(c, q) PROVE AuthInv'
<1>1. /\ proc = "up" /\ at[c] = "new" /\ Accepts(q)
      /\ UNCHANGED <<launch, config, proc, status>>
      /\ asks' = [asks EXCEPT ![c] = q] /\ at' = [at EXCEPT ![c] = "open"]
  BY DEF Connect, Goto
<1>2. /\ asks' = [d \in Client |-> IF d = c THEN q ELSE asks[d]]
      /\ at' = [a \in Client \cup Tick |-> IF a = c THEN "open" ELSE at[a]]
  BY <1>1 DEF AuthInv
<1>3. Admitted(c)'
  <2>1. /\ config = loadConfig(launch) /\ ~Refuses(launch)
        /\ RequiresCert(config) => q.cert
        /\ status[c] \notin {200, 403}
    BY <1>1 DEF AuthInv, Admitted, Accepts
  <2>2. asks'[c] = q /\ at'[c] = "open" /\ status'[c] = status[c]
    BY <1>1, <1>2
  <2>3. UNCHANGED <<launch, config>>
    BY <1>1
  <2>4. Deserves(asks[c], status[c])'
    <3>1. status'[c] # 200 /\ status'[c] # 403
      BY <2>1, <2>2
    <3>2. QED BY <3>1 DEF Deserves
  <2>5. QED BY <2>1, <2>2, <2>3, <2>4, SameConfig DEF Admitted
<1>4. \A d \in Client : Admitted(d)'
  <2> SUFFICES ASSUME NEW d \in Client, d # c PROVE Admitted(d)'
    BY <1>3
  <2>1. at'[d] = at[d] /\ asks'[d] = asks[d] /\ status'[d] = status[d]
    BY <1>1, <1>2
  <2>2. QED BY <1>1, <2>1, AdmittedKept DEF AuthInv
<1>5. QED BY <1>1, <1>2, <1>4, SameConfig DEF AuthInv

\* Every step of the daemon and of its clients, whatever they ask.
LEMMA AuthStep ==
    ASSUME AuthInv,
           \/ Daemon \/ \E c \in Client : Gone(c)
           \/ \E c \in Client : \E q : Connect(c, q)
           \/ UNCHANGED vars
    PROVE  AuthInv'
<1>0. /\ status = [c \in Client |-> status[c]]
      /\ at = [a \in Client \cup Tick |-> at[a]]
  BY DEF AuthInv
<1>1. CASE Start
  BY <1>1, AuthStart
<1>2. CASE \/ StreamWrites \/ StreamFails \/ LoginStarts \/ LoginEnds
           \/ Stop \/ Drained \/ ForceFinish \/ Exit \/ UNCHANGED vars
  <2>1. /\ UNCHANGED <<launch, config, asks, status, at>>
        /\ proc' = "launched" => proc = "launched"
        /\ proc' \in {"up", "stopping"} => proc \in {"up", "stopping"}
    BY <1>2 DEF StreamWrites, StreamFails, LoginStarts, LoginEnds, Stop, Drained, ForceFinish, Finish,
                Exit, Running, vars
  <2>2. at' = [a \in Client \cup Tick |-> at'[a]]
    BY <1>0, <2>1
  <2>3. QED BY <2>1, <2>2, AuthKept
<1>3. ASSUME NEW t \in Tick, TickFires(t) \/ TickMinted(t) PROVE AuthInv'
  <2>1. UNCHANGED <<launch, config, asks, status, proc>>
    BY <1>3 DEF TickFires, TickMinted
  <2>2. PICK p : at' = [at EXCEPT ![t] = p]
    BY <1>3 DEF TickFires, TickMinted, Goto
  <2>3. at' = [a \in Client \cup Tick |-> at'[a]] /\ \A c \in Client : at'[c] = at[c]
    BY <1>0, <2>2, BridgeAssumption
  <2>4. QED BY <2>1, <2>3, AuthKept
<1>4. ASSUME NEW c \in Client, NEW code, Answer(c, code), Running,
             at[c] \notin {"new", "absent", "done"}, code = 200 => at[c] = "mint",
             code = 403 => Refusal(asks[c]) = 403
      PROVE  AuthInv'
  <2> DEFINE s == IF c \in conn THEN code ELSE 0
  <2>1. /\ UNCHANGED <<launch, config, proc, asks>>
        /\ at' = [at EXCEPT ![c] = "done"] /\ status' = [status EXCEPT ![c] = s]
    BY <1>4 DEF Answer, Goto
  <2>2. Deserves(asks[c], s)
    BY <1>4 DEF AuthInv, Admitted, Deserves
  <2> HIDE DEF s
  <2>3. at'[c] = "done" /\ status'[c] = s
    BY <1>0, <2>1
  <2>4. /\ at' = [at EXCEPT ![c] = at'[c]] /\ status' = [status EXCEPT ![c] = status'[c]]
        /\ at'[c] \in {"body", "mint"} => authorize(asks[c])
        /\ at'[c] = "mint" => Refusal(asks[c]) = 0
        /\ status'[c] \in {200, 403} => at'[c] = "done"
        /\ Deserves(asks[c], status'[c])
    BY <2>1, <2>2, <2>3
  <2>5. QED BY <1>4, <2>1, <2>4, AuthMove
<1>5. ASSUME NEW c \in Client, NEW p, Running, at' = [at EXCEPT ![c] = p],
             UNCHANGED <<launch, config, proc, asks, status>>,
             at[c] \notin {"new", "absent", "done"}, p \in {"body", "mint"} => authorize(asks[c]),
             p = "mint" => Refusal(asks[c]) = 0
      PROVE  AuthInv'
  <2>1. at'[c] = p /\ status'[c] = status[c] /\ status[c] \notin {200, 403}
    BY <1>0, <1>5 DEF AuthInv, Admitted
  <2>2. /\ at' = [at EXCEPT ![c] = at'[c]] /\ status' = [status EXCEPT ![c] = status'[c]]
        /\ at'[c] \in {"body", "mint"} => authorize(asks[c])
        /\ at'[c] = "mint" => Refusal(asks[c]) = 0
        /\ status'[c] \in {200, 403} => at'[c] = "done"
        /\ Deserves(asks[c], status'[c])
    BY <1>0, <1>5, <2>1 DEF Deserves
  <2>3. QED BY <1>5, <2>2, AuthMove
<1>6. ASSUME NEW c \in Client, Arrives(c) PROVE AuthInv'
  <2>1. at[c] = "open" /\ Running
    BY <1>6 DEF Arrives
  <2>2. CASE Answer(c, 401)
    BY <1>4, <2>1, <2>2
  <2>3. CASE /\ authorize(asks[c]) /\ Goto(c, "body")
             /\ UNCHANGED <<launch, config, proc, asks, status>>
    <3>1. at' = [at EXCEPT ![c] = "body"]
      BY <2>3 DEF Goto
    <3>2. QED BY <1>5, <2>1, <2>3, <3>1
  <2>4. QED BY <1>6, <2>2, <2>3 DEF Arrives
<1>7. ASSUME NEW c \in Client, BodyRead(c) PROVE AuthInv'
  <2>1. at[c] = "body" /\ Running /\ authorize(asks[c])
    BY <1>7 DEF BodyRead, AuthInv, Admitted
  <2>2. CASE Answer(c, Refusal(asks[c]))
    <3>1. Refusal(asks[c]) # 200
      BY <1>7, <2>2 DEF Refusal
    <3>2. QED BY <1>4, <2>1, <2>2, <3>1
  <2>3. CASE Goto(c, "mint") /\ Refusal(asks[c]) = 0 /\ UNCHANGED <<launch, config, proc, asks, status>>
    <3>1. at' = [at EXCEPT ![c] = "mint"]
      BY <2>3 DEF Goto
    <3>2. QED BY <1>5, <2>1, <2>3, <3>1
  <2>4. QED BY <1>7, <2>2, <2>3 DEF BodyRead
<1>8. ASSUME NEW c \in Client, BodyCut(c) PROVE AuthInv'
  <2>1. /\ at[c] = "body" /\ Running /\ UNCHANGED <<launch, config, proc, asks, status>>
        /\ at' = [at EXCEPT ![c] = "done"]
    BY <1>8 DEF BodyCut, Goto
  <2>2. QED BY <1>5, <2>1
<1>9. ASSUME NEW c \in Client, MintEnds(c) PROVE AuthInv'
  <2>1. PICK code \in {200, 502, 503} : Answer(c, code)
    BY <1>9 DEF MintEnds
  <2>2. at[c] = "mint" /\ Running
    BY <1>9 DEF MintEnds
  <2>3. QED BY <1>4, <2>1, <2>2
<1>10. ASSUME NEW c \in Client, Gone(c) PROVE AuthInv'
  <2>1. /\ Running /\ UNCHANGED <<launch, config, proc, asks, status>>
        /\ at' = [at EXCEPT ![c] = IF at[c] = "open" THEN "gone" ELSE at[c]]
    BY <1>10 DEF Gone, Goto
  <2>2. CASE at[c] = "open"
    <3>1. at' = [at EXCEPT ![c] = "gone"]
      BY <2>1, <2>2
    <3>2. QED BY <1>5, <2>1, <2>2, <3>1
  <2>3. CASE at[c] # "open"
    <3>1. at' = at
      BY <1>0, <2>1, <2>3
    <3>2. at' = [a \in Client \cup Tick |-> at'[a]] /\ \A d \in Client : at'[d] = at[d]
      BY <1>0, <3>1
    <3>3. QED BY <2>1, <3>2, AuthKept
  <2>4. QED BY <2>2, <2>3
<1>11. QED
  BY <1>1, <1>2, <1>3, <1>6, <1>7, <1>8, <1>9, <1>10, AuthConnect DEF Daemon

\* What the launch means is what the configuration says: a client CA without
\* TLS is refused, so that it is never silently ignored.
LEMMA AuthSuffices == AuthInv /\ Precedence => CallersKnown
<1> SUFFICES ASSUME AuthInv, Precedence PROVE CallersKnown
  OBVIOUS
<1> SUFFICES ASSUME NEW c \in Client
             PROVE  LET Setting(s) == Converted(s, Meant(launch, s), Environment(launch))
                    IN  /\ at[c] \notin {"new", "absent"} /\ Setting("tls-client-ca") # "" => asks[c].cert
                        /\ status[c] = 200 =>
                             \/ Setting("tls-client-ca") # "" \/ Setting("insecure-no-auth")
                             \/ Setting("secret") \in {presentedToken(asks[c])} \ {""}
  BY Zenon DEF CallersKnown
<1> SUFFICES ASSUME at[c] \notin {"new", "absent"} \/ status[c] = 200
             PROVE  LET Setting(s) == Converted(s, Meant(launch, s), Environment(launch))
                    IN  /\ Setting("tls-client-ca") # "" => asks[c].cert
                        /\ status[c] = 200 =>
                             \/ Setting("tls-client-ca") # "" \/ Setting("insecure-no-auth")
                             \/ Setting("secret") \in {presentedToken(asks[c])} \ {""}
  BY Zenon
<1> DEFINE Setting(s) == Converted(s, Meant(launch, s), Environment(launch))
<1>1. /\ config = loadConfig(launch) /\ ~Refuses(launch)
      /\ RequiresCert(config) => asks[c].cert
      /\ status[c] = 200 => authorize(asks[c])
  BY DEF AuthInv, Admitted, Deserves
<1>2. DOMAIN config = Settings
  BY <1>1 DEF loadConfig
<1>3. /\ {"tls-client-ca", "insecure-no-auth", "secret"} \subseteq Settings
      /\ "tls-client-ca" \notin OnByDefault /\ "insecure-no-auth" \notin OnByDefault
      /\ "secret" \notin OnByDefault
  BY DEF Settings, Strings, Paths, TlsFiles, Switches, OnByDefault
<1>4. config # << >>
  <2>1. DOMAIN << >> = {}
    OBVIOUS
  <2>2. QED BY <1>2, <1>3, <2>1
<1>5. /\ config["tls-client-ca"] = Setting("tls-client-ca")
      /\ config["insecure-no-auth"] = Setting("insecure-no-auth")
      /\ config["secret"] = Setting("secret")
  <2>1. ASSUME NEW s \in Settings, s \notin OnByDefault PROVE config[s] = Setting(s)
    BY <1>4, <2>1 DEF Precedence
  <2> HIDE DEF Setting
  <2>2. QED BY <1>3, <2>1
<1>6. ~MtlsWithoutTls(config)
  BY <1>1 DEF Refuses, Fatal
<1> HIDE DEF Setting
<1>7. Setting("tls-client-ca") # "" => asks[c].cert
  BY <1>1, <1>5, <1>6 DEF MtlsWithoutTls, RequiresCert, ServesTls
<1>8. status[c] = 200 =>
        \/ Setting("tls-client-ca") # "" \/ Setting("insecure-no-auth")
        \/ Setting("secret") \in {presentedToken(asks[c])} \ {""}
  BY <1>1, <1>5 DEF authorize, RequiresCert
<1>9. QED BY <1>7, <1>8 DEF Setting

LEMMA AuthHolds == ExchangeSpec => []AuthInv
<1>1. ExchangeInit => AuthInv
  BY AuthInit DEF ExchangeInit
<1>2. AuthInv /\ [ExchangeNext]_everything => AuthInv'
  <2> SUFFICES ASSUME AuthInv, [ExchangeNext]_everything PROVE AuthInv'
    OBVIOUS
  <2>1. CASE \E p \in Plugin : ShimSends(p)
    BY <2>1, AuthStep, ExchangeAssumption DEF ShimSends
  <2>2. CASE UNCHANGED vars
    BY <2>2, AuthStep
  <2>3. QED
    BY <2>1, <2>2, AuthStep
    DEF ExchangeNext, everything, ShimStarts, ShimFails, ShimPrints, ShimRefused
<1>3. QED BY <1>1, <1>2, PTL DEF ExchangeSpec

\* Nobody is served whom the launch did not mean to (CallersKnown): whoever
\* connects, whatever is asked, and whenever clients leave, ticks fire or the
\* daemon stops.
THEOREM CallersKnownHolds == ExchangeSpec => []CallersKnown
  BY AuthHolds, AuthSuffices, PrecedenceHolds, PTL

-----------------------------------------------------------------------------
(* The command line of a shim *)

LEMMA CommandShape ==
    ASSUME NEW cmd \in Commands
    PROVE  /\ cmd.groups \in Seq(Group) /\ Len(cmd.groups) \in Nat /\ cmd.before \in Nat
           /\ cmd.before <= Len(cmd.groups)
           /\ \A i \in 1 .. Len(cmd.groups) : cmd.groups[i] \in Group
<1> DEFINE gs == cmd.groups
           b == cmd.before
<1>1. gs \in Seq(Group) /\ b \in 0 .. Len(gs)
  BY CommandAssumption, Zenon
<1> HIDE DEF gs, b
<1>2. Len(gs) \in Nat /\ b \in Nat /\ b <= Len(gs) /\ \A i \in 1 .. Len(gs) : gs[i] \in Group
  BY <1>1
<1>3. QED BY <1>1, <1>2 DEF gs, b

WrittenOf(g) ==
    IF g.val = Unset THEN <<Flag(g.flag)>>
    ELSE IF g.inline THEN <<FlagIs(g.flag, g.val)>>
    ELSE <<Flag(g.flag), Word(g.val)>>
Written == {Flag(f) : f \in STRING} \cup {FlagIs(f, v) : f \in STRING, v \in STRING} \cup {Word(w) : w \in STRING \cup {"get-token"}}
SubcommandAt(cmd, i) == IF i = cmd.before THEN <<Word("get-token")>> ELSE << >>

Joined(a, b, c) == a \o b \o c

\* t is the recursive function of Argv: t[i] is written up to the group i.
Lines(t, cmd, most) ==
    t = [i \in 0 .. most |->
           IF i = 0 THEN SubcommandAt(cmd, 0)
           ELSE Joined(t[i - 1], WrittenOf(cmd.groups[i]), SubcommandAt(cmd, i))]

LEMMA LinesExist == ASSUME NEW cmd, NEW most \in Nat PROVE \E t : Lines(t, cmd, most)
<1> DEFINE Base == SubcommandAt(cmd, 0)
           Go(s, i) == Joined(s, WrittenOf(cmd.groups[i]), SubcommandAt(cmd, i))
           T == {n \in Nat : \E t : Lines(t, cmd, n)}
<1>1. \A t, n : Lines(t, cmd, n) <=> t = [i \in 0 .. n |-> IF i = 0 THEN Base ELSE Go(t[i - 1], i)]
  BY DEF Lines
<1> HIDE DEF Go, Base
<1>2. 0 \in T
  <2> DEFINE g == [i \in 0 .. 0 |-> Base]
  <2>1. g = [i \in 0 .. 0 |-> IF i = 0 THEN Base ELSE Go(g[i - 1], i)]
    OBVIOUS
  <2> HIDE DEF g
  <2>2. QED BY <1>1, <2>1
<1>3. ASSUME NEW n \in T PROVE n + 1 \in T
  <2>1. PICK g : g = [i \in 0 .. n |-> IF i = 0 THEN Base ELSE Go(g[i - 1], i)]
    BY <1>1
  <2> DEFINE h == [i \in 0 .. n + 1 |-> IF i <= n THEN g[i] ELSE Go(g[n], n + 1)]
  <2>2. ASSUME NEW i \in 0 .. n + 1
        PROVE  h[i] = IF i = 0 THEN Base ELSE Go(h[i - 1], i)
    <3>1. CASE i = 0
      BY <2>1, <3>1
    <3>2. CASE i # 0 /\ i <= n
      <4>1. i \in 0 .. n /\ i - 1 \in 0 .. n + 1 /\ i - 1 <= n
        BY <3>2
      <4>2. h[i] = g[i] /\ h[i - 1] = g[i - 1]
        BY <3>2, <4>1
      <4>3. g[i] = Go(g[i - 1], i)
        BY <2>1, <3>2, <4>1
      <4>4. QED BY <3>2, <4>2, <4>3
    <3>3. CASE i = n + 1
      <4>1. i # 0 /\ ~(i <= n) /\ i - 1 = n /\ n \in 0 .. n + 1 /\ n <= n
        BY <3>3
      <4>2. h[i] = Go(g[n], n + 1) /\ h[n] = g[n]
        BY <4>1
      <4>3. QED BY <3>3, <4>1, <4>2
    <3>4. QED BY <3>1, <3>2, <3>3
  <2>3. h = [i \in 0 .. n + 1 |-> IF i = 0 THEN Base ELSE Go(h[i - 1], i)]
    <3>1. h = [i \in 0 .. n + 1 |-> h[i]]
      OBVIOUS
    <3> HIDE DEF h
    <3>2. QED BY <2>2, <3>1
  <2> HIDE DEF h
  <2>4. Lines(h, cmd, n + 1)
    BY <1>1, <2>3
  <2>5. QED BY <2>4
<1> HIDE DEF T
<1>4. T = Nat
  <2>1. T \in SUBSET Nat
    BY DEF T
  <2>2. QED BY <1>2, <1>3, <2>1, Induction
<1>5. QED BY <1>4 DEF T

LEMMA WrittenAs ==
    ASSUME NEW cmd \in Commands
    PROVE  \E t : Lines(t, cmd, Len(cmd.groups)) /\ Argv(cmd) = t[Len(cmd.groups)]
<1> DEFINE t == CHOOSE x : Lines(x, cmd, Len(cmd.groups))
<1>1. Argv(cmd) = t[Len(cmd.groups)]
  BY DEF Argv, Lines, WrittenOf, SubcommandAt, Joined
<1> HIDE DEF t
<1>2. \E x : Lines(x, cmd, Len(cmd.groups))
  <2>1. Len(cmd.groups) \in Nat
    BY CommandShape
  <2>2. QED BY <2>1, LinesExist
<1>3. Lines(t, cmd, Len(cmd.groups))
  BY <1>2 DEF t
<1>4. QED BY <1>1, <1>3

LEMMA Three ==
    ASSUME NEW a \in Seq(Written), NEW b \in Seq(Written), NEW c \in Seq(Written)
    PROVE  /\ Joined(a, b, c) \in Seq(Written) /\ Len(Joined(a, b, c)) = Len(a) + Len(b) + Len(c)
           /\ \A j \in 1 .. Len(a) : Joined(a, b, c)[j] = a[j]
           /\ \A j \in 1 .. Len(b) : Joined(a, b, c)[Len(a) + j] = b[j]
           /\ \A j \in 1 .. Len(c) : Joined(a, b, c)[Len(a) + Len(b) + j] = c[j]
<1> DEFINE S == Written
<1> HIDE DEF S
<1> DEFINE ab == a \o b
<1>1. a \in Seq(S) /\ b \in Seq(S) /\ c \in Seq(S)
  BY DEF S
<1>2. Len(a) \in Nat /\ Len(b) \in Nat /\ Len(c) \in Nat
  OBVIOUS
<1>3. /\ ab \in Seq(S) /\ Len(ab) = Len(a) + Len(b)
      /\ \A j \in 1 .. Len(a) : ab[j] = a[j]
      /\ \A j \in 1 .. Len(b) : ab[Len(a) + j] = b[j]
  BY <1>1
<1> HIDE DEF ab
<1>4. /\ ab \o c \in Seq(S) /\ Len(ab \o c) = Len(ab) + Len(c)
      /\ \A j \in 1 .. Len(ab) : (ab \o c)[j] = ab[j]
      /\ \A j \in 1 .. Len(c) : (ab \o c)[Len(ab) + j] = c[j]
  <2>1. /\ ab \o c \in Seq(S) /\ Len(ab \o c) = Len(ab) + Len(c)
        /\ \A j \in 1 .. Len(ab) + Len(c) : (ab \o c)[j] = IF j <= Len(ab) THEN ab[j] ELSE c[j - Len(ab)]
    <3>1. ab \in Seq(S) /\ c \in Seq(S)
      BY <1>1, <1>3
    <3>2. QED BY <3>1, ConcatProperties
  <2>2. Len(ab) \in Nat
    BY <1>3
  <2>3. \A j \in 1 .. Len(ab) : j \in 1 .. Len(ab) + Len(c) /\ j <= Len(ab)
    BY <1>2, <2>2
  <2>4. \A j \in 1 .. Len(c) : /\ Len(ab) + j \in 1 .. Len(ab) + Len(c)
                               /\ ~(Len(ab) + j <= Len(ab)) /\ Len(ab) + j - Len(ab) = j
    BY <1>2, <2>2
  <2>5. QED BY <2>1, <2>3, <2>4
<1>5. \A j \in 1 .. Len(a) : j \in 1 .. Len(ab)
  BY <1>2, <1>3
<1>6. \A j \in 1 .. Len(b) : Len(a) + j \in 1 .. Len(ab)
  BY <1>2, <1>3
<1> DEFINE abc == ab \o c
<1>7. /\ abc \in Seq(S) /\ Len(abc) = Len(a) + Len(b) + Len(c)
      /\ \A j \in 1 .. Len(a) : abc[j] = a[j]
      /\ \A j \in 1 .. Len(b) : abc[Len(a) + j] = b[j]
      /\ \A j \in 1 .. Len(c) : abc[Len(a) + Len(b) + j] = c[j]
  BY <1>3, <1>4, <1>5, <1>6
<1>8. abc = Joined(a, b, c)
  BY DEF Joined, ab
<1> HIDE DEF abc
<1>9. QED BY <1>7, <1>8 DEF S

\* The tokens of the group k + 1, after n others, and of a subcommand behind it.
Follows(argv, cmd, k, n, more) ==
    LET g == cmd.groups[k + 1] IN
    /\ argv[n + 1] = IF g.val # Unset /\ g.inline THEN FlagIs(g.flag, g.val) ELSE Flag(g.flag)
    /\ g.val # Unset /\ ~g.inline => argv[n + 2] = Word(g.val)
    /\ k + 1 = cmd.before => argv[more] = Word("get-token")
    /\ more = n + (IF g.val # Unset /\ ~g.inline THEN 2 ELSE 1) + (IF k + 1 = cmd.before THEN 1 ELSE 0)

LEMMA GroupWritten ==
    ASSUME NEW cmd \in Commands, NEW t, Lines(t, cmd, Len(cmd.groups)),
           NEW k \in 0 .. Len(cmd.groups) - 1, t[k] \in Seq(Written)
    PROVE  /\ t[k + 1] \in Seq(Written)
           /\ Follows(t[k + 1], cmd, k, Len(t[k]), Len(t[k + 1]))
           /\ \A j \in 1 .. Len(t[k]) : t[k + 1][j] = t[k][j]
<1> DEFINE g == cmd.groups[k + 1]
           W == WrittenOf(g)
           S == SubcommandAt(cmd, k + 1)
           n == Len(t[k])
<1>1. /\ k + 1 \in 1 .. Len(cmd.groups) /\ k + 1 \in 0 .. Len(cmd.groups)
      /\ k + 1 # 0 /\ k + 1 - 1 = k /\ g \in Group
  <2>1. Len(cmd.groups) \in Nat /\ k \in 0 .. Len(cmd.groups) - 1
    BY CommandShape
  <2> HIDE DEF g
  <2>2. /\ k + 1 \in 1 .. Len(cmd.groups) /\ k + 1 \in 0 .. Len(cmd.groups)
        /\ k + 1 # 0 /\ k + 1 - 1 = k
    BY <2>1
  <2>3. QED BY <2>2, CommandShape DEF g
<1>2. t[k + 1] = Joined(t[k], W, S)
  <2>1. \A i \in 0 .. Len(cmd.groups) :
          t[i] = IF i = 0 THEN SubcommandAt(cmd, 0)
                 ELSE Joined(t[i - 1], WrittenOf(cmd.groups[i]), SubcommandAt(cmd, i))
    BY DEF Lines
  <2> HIDE DEF W, S
  <2>2. t[k + 1] = Joined(t[k], WrittenOf(cmd.groups[k + 1]), SubcommandAt(cmd, k + 1))
    BY <1>1, <2>1
  <2>3. QED BY <2>2 DEF W, S
<1>3. g.flag \in STRING /\ g.val \in STRING /\ g.inline \in BOOLEAN
  BY <1>1 DEF Group
<1>4. W \in Seq(Written) /\ Len(W) = (IF g.val # Unset /\ ~g.inline THEN 2 ELSE 1)
  <2> HIDE DEF g
  <2>1. Flag(g.flag) \in Written /\ FlagIs(g.flag, g.val) \in Written /\ Word(g.val) \in Written
    BY <1>3 DEF Written
  <2>2. QED BY <2>1 DEF WrittenOf
<1>5. S \in Seq(Written) /\ Len(S) = (IF k + 1 = cmd.before THEN 1 ELSE 0)
  <2>1. Word("get-token") \in Written
    BY DEF Written
  <2>2. QED BY <2>1 DEF SubcommandAt
<1>6. /\ W[1] = IF g.val # Unset /\ g.inline THEN FlagIs(g.flag, g.val) ELSE Flag(g.flag)
      /\ g.val # Unset /\ ~g.inline => W[2] = Word(g.val)
  BY DEF WrittenOf
<1>7. k + 1 = cmd.before => S[1] = Word("get-token")
  BY DEF SubcommandAt
<1> HIDE DEF g, W, S
<1>8. /\ t[k + 1] \in Seq(Written) /\ Len(t[k + 1]) = n + Len(W) + Len(S)
      /\ \A j \in 1 .. n : t[k + 1][j] = t[k][j]
      /\ \A j \in 1 .. Len(W) : t[k + 1][n + j] = W[j]
      /\ \A j \in 1 .. Len(S) : t[k + 1][n + Len(W) + j] = S[j]
  <2>1. t[k] \in Seq(Written) /\ W \in Seq(Written) /\ S \in Seq(Written)
    BY <1>4, <1>5
  <2> DEFINE a == t[k]
             x == t[k + 1]
  <2>2. a \in Seq(Written) /\ x = Joined(a, W, S)
    BY <1>2, <2>1
  <2> HIDE DEF a, x
  <2> DEFINE y == Joined(a, W, S)
  <2>3. /\ y \in Seq(Written) /\ Len(y) = Len(a) + Len(W) + Len(S)
        /\ \A j \in 1 .. Len(a) : y[j] = a[j]
        /\ \A j \in 1 .. Len(W) : y[Len(a) + j] = W[j]
        /\ \A j \in 1 .. Len(S) : y[Len(a) + Len(W) + j] = S[j]
    <3>1. a \in Seq(Written) /\ W \in Seq(Written) /\ S \in Seq(Written)
      BY <2>1, <2>2
    <3>2. QED BY <3>1, Three
  <2>4. x = y
    BY <2>2
  <2> HIDE DEF y
  <2>5. QED BY <2>3, <2>4 DEF a, x
<1>9. n \in Nat
  OBVIOUS
<1>10. /\ t[k + 1][n + 1] = W[1]
       /\ g.val # Unset /\ ~g.inline => t[k + 1][n + 2] = W[2]
       /\ k + 1 = cmd.before => t[k + 1][n + Len(W) + 1] = S[1]
  <2>1. 1 \in 1 .. Len(W) /\ (g.val # Unset /\ ~g.inline => 2 \in 1 .. Len(W))
    BY <1>4
  <2>2. k + 1 = cmd.before => 1 \in 1 .. Len(S)
    BY <1>5
  <2>3. QED BY <1>8, <2>1, <2>2
<1>11. Len(t[k + 1]) = n + (IF g.val # Unset /\ ~g.inline THEN 2 ELSE 1)
                         + (IF k + 1 = cmd.before THEN 1 ELSE 0)
  BY <1>4, <1>5, <1>8
<1>12. k + 1 = cmd.before => n + Len(W) + 1 = Len(t[k + 1])
  BY <1>4, <1>5, <1>8, <1>9
<1>13. Follows(t[k + 1], cmd, k, n, Len(t[k + 1]))
  BY <1>6, <1>7, <1>10, <1>11, <1>12 DEF Follows, g
<1>14. QED BY <1>8, <1>13

LEMMA Counted ==
    ASSUME NEW argv, NEW cmd, NEW k, NEW n \in Nat, NEW more, Follows(argv, cmd, k, n, more)
    PROVE  LET g == cmd.groups[k + 1]
           IN  /\ more \in Nat /\ n < more /\ n + 1 \in 1 .. more /\ more \in 1 .. more
               /\ g.val # Unset /\ ~g.inline => n + 2 \in 1 .. more
<1> DEFINE g == cmd.groups[k + 1]
           w == IF g.val # Unset /\ ~g.inline THEN 2 ELSE 1
           s == IF k + 1 = cmd.before THEN 1 ELSE 0
<1>1. more = n + w + s
  BY DEF Follows
<1>2. w \in {1, 2} /\ s \in {0, 1} /\ (g.val # Unset /\ ~g.inline => w = 2)
  OBVIOUS
<1> HIDE DEF w, s, g
<1>3. /\ more \in Nat /\ n < more /\ n + 1 \in 1 .. more /\ more \in 1 .. more
      /\ w = 2 => n + 2 \in 1 .. more
  BY <1>1, <1>2
<1>4. QED BY <1>2, <1>3 DEF g

LEMMA Prefix ==
    ASSUME NEW cmd \in Commands, NEW t, Lines(t, cmd, Len(cmd.groups))
    PROVE  \A m \in 0 .. Len(cmd.groups) :
             /\ t[m] \in Seq(Written)
             /\ \A k \in 0 .. m :
                  Len(t[k]) <= Len(t[m]) /\ \A j \in 1 .. Len(t[k]) : t[m][j] = t[k][j]
<1> DEFINE N == Len(cmd.groups)
           P(m) == /\ t[m] \in Seq(Written)
                   /\ \A k \in 0 .. m :
                        Len(t[k]) <= Len(t[m]) /\ \A j \in 1 .. Len(t[k]) : t[m][j] = t[k][j]
           T == {m \in Nat : m <= N => \A i \in 0 .. m : P(i)}
<1>1. N \in Nat
  BY CommandShape
<1>2. 0 \in T
  <2>1. t[0] = SubcommandAt(cmd, 0) /\ \A i \in 0 .. 0 : i = 0
    BY <1>1 DEF Lines
  <2>2. SubcommandAt(cmd, 0) \in Seq(Written)
    <3>1. Word("get-token") \in Written
      BY DEF Written
    <3>2. QED BY <3>1 DEF SubcommandAt
  <2>3. t[0] \in Seq(Written) /\ Len(t[0]) \in Nat
    BY <2>1, <2>2
  <2>4. P(0)
    BY <2>1, <2>3
  <2> HIDE DEF P
  <2>5. QED BY <2>1, <2>4
<1>3. ASSUME NEW n \in T PROVE n + 1 \in T
  <2> SUFFICES ASSUME n + 1 <= N PROVE \A i \in 0 .. n + 1 : P(i)
    OBVIOUS
  <2>1. n \in Nat /\ n \in 0 .. n /\ n \in 0 .. N - 1 /\ n <= N
    BY <1>1
  <2>2. \A i \in 0 .. n : P(i)
    BY <2>1
  <2>3. t[n] \in Seq(Written)
    BY <2>1, <2>2
  <2>4. /\ t[n + 1] \in Seq(Written)
        /\ Follows(t[n + 1], cmd, n, Len(t[n]), Len(t[n + 1]))
        /\ \A j \in 1 .. Len(t[n]) : t[n + 1][j] = t[n][j]
    BY <2>1, <2>3, GroupWritten
  <2>5. Len(t[n]) \in Nat /\ Len(t[n + 1]) \in Nat
    BY <2>3, <2>4
  <2>6. Len(t[n]) <= Len(t[n + 1])
    BY <2>4, <2>5, Counted
  <2>7. ASSUME NEW k \in 0 .. n
        PROVE  Len(t[k]) <= Len(t[n + 1]) /\ \A j \in 1 .. Len(t[k]) : t[n + 1][j] = t[k][j]
    <3>1. /\ Len(t[k]) \in Nat /\ Len(t[k]) <= Len(t[n])
          /\ \A j \in 1 .. Len(t[k]) : t[n][j] = t[k][j]
      BY <2>1, <2>2
    <3>2. \A j \in 1 .. Len(t[k]) : j \in 1 .. Len(t[n])
      BY <2>5, <3>1
    <3>3. QED BY <2>4, <2>5, <2>6, <3>1, <3>2
  <2>8. \A k \in 0 .. n + 1 : k \in 0 .. n \/ k = n + 1
    BY <2>1
  <2>9. P(n + 1)
    BY <2>4, <2>5, <2>7, <2>8
  <2> HIDE DEF P
  <2>10. QED BY <2>2, <2>8, <2>9
<1> HIDE DEF T
<1>4. T = Nat
  <2>1. T \in SUBSET Nat
    BY DEF T
  <2>2. QED BY <1>2, <1>3, <2>1, Induction
<1> HIDE DEF P
<1>5. \A i \in 0 .. N : P(i)
  BY <1>1, <1>4 DEF T
<1>6. QED BY <1>5 DEF P

\* Where a group stands in the command line, and what comes after it: nothing,
\* or another flag.
LEMMA GroupStands ==
    ASSUME NEW cmd \in Commands, NEW t, Lines(t, cmd, Len(cmd.groups)),
           NEW k \in 0 .. Len(cmd.groups) - 1
    PROVE  LET argv == t[Len(cmd.groups)]
               m == Len(t[k + 1])
           IN  /\ argv \in Seq(Written) /\ Len(t[k]) \in Nat /\ m \in 1 .. Len(argv)
               /\ Follows(argv, cmd, k, Len(t[k]), m)
               /\ m = Len(argv) \/ argv[m + 1].flag
<1> DEFINE N == Len(cmd.groups)
           argv == t[N]
<1>1. N \in Nat /\ N \in 0 .. N /\ N - 1 + 1 = N
  BY CommandShape
<1>2. ASSUME NEW i \in 0 .. N - 1
      PROVE  /\ Len(t[i]) \in Nat /\ Len(t[i + 1]) \in 1 .. Len(argv)
             /\ Follows(argv, cmd, i, Len(t[i]), Len(t[i + 1]))
  <2>1. i \in 0 .. N /\ i + 1 \in 0 .. N /\ i \in 0 .. i + 1
    BY <1>1
  <2>2. /\ t[i] \in Seq(Written) /\ t[i + 1] \in Seq(Written) /\ argv \in Seq(Written)
        /\ Len(t[i + 1]) <= Len(argv) /\ \A j \in 1 .. Len(t[i + 1]) : argv[j] = t[i + 1][j]
    <3>1. \A m \in 0 .. N : t[m] \in Seq(Written)
      BY Prefix
    <3>2. \A m \in 0 .. N : \A l \in 0 .. m :
            Len(t[l]) <= Len(t[m]) /\ \A j \in 1 .. Len(t[l]) : t[m][j] = t[l][j]
      BY Prefix
    <3>3. i + 1 \in 0 .. N /\ N \in 0 .. N
      BY <1>1, <2>1
    <3> HIDE DEF N
    <3>4. QED BY <2>1, <3>1, <3>2, <3>3
  <2>3. Follows(t[i + 1], cmd, i, Len(t[i]), Len(t[i + 1]))
    BY <2>2, GroupWritten
  <2> DEFINE n == Len(t[i])
             m == Len(t[i + 1])
             g == cmd.groups[i + 1]
  <2>4. n \in Nat /\ m \in Nat /\ Len(argv) \in Nat
    BY <2>2
  <2> HIDE DEF n, m, g, argv
  <2>5. /\ n + 1 \in 1 .. m /\ (g.val # Unset /\ ~g.inline => n + 2 \in 1 .. m)
        /\ m \in 1 .. m
    BY <2>3, <2>4, Counted DEF n, m, g
  <2>6. Follows(argv, cmd, i, n, m)
    BY <2>2, <2>3, <2>5 DEF Follows, n, m, g
  <2>7. QED BY <2>2, <2>4, <2>5, <2>6 DEF n, m
<1>3. argv \in Seq(Written)
  BY <1>1, Prefix
<1>4. Len(t[k + 1]) = Len(argv) \/ argv[Len(t[k + 1]) + 1].flag
  <2>1. CASE k = N - 1
    BY <1>1, <2>1
  <2>2. CASE k # N - 1
    <3>1. k + 1 \in 0 .. N - 1
      BY <1>1, <2>2
    <3>2. Follows(argv, cmd, k + 1, Len(t[k + 1]), Len(t[k + 1 + 1]))
      BY <1>2, <3>1
    <3>3. QED BY <3>2 DEF Follows, Flag, FlagIs
  <2>3. QED BY <2>1, <2>2
<1>5. QED BY <1>2, <1>3, <1>4
-----------------------------------------------------------------------------
(* The parser of the shim *)

Started(env) == Shim!Parsed(Shim!Defaults(env), 1)

\* out is the recursive function of the shim's parseArgs: out[i] is what the
\* first i tokens gave.
Outs(out, argv, env, most) ==
    out = [i \in 0 .. most |-> IF i = 0 THEN Started(env) ELSE Shim!Turn(out[i - 1], argv, i)]

LEMMA OutsExist == ASSUME NEW argv, NEW env, NEW most \in Nat PROVE \E g : Outs(g, argv, env, most)
<1> DEFINE Base == Started(env)
           Go(s, i) == Shim!Turn(s, argv, i)
           T == {n \in Nat : \E g : Outs(g, argv, env, n)}
<1>1. \A g, n : Outs(g, argv, env, n) <=> g = [i \in 0 .. n |-> IF i = 0 THEN Base ELSE Go(g[i - 1], i)]
  BY DEF Outs
<1> HIDE DEF Go, Base
<1>2. 0 \in T
  <2> DEFINE g == [i \in 0 .. 0 |-> Base]
  <2>1. g = [i \in 0 .. 0 |-> IF i = 0 THEN Base ELSE Go(g[i - 1], i)]
    OBVIOUS
  <2> HIDE DEF g
  <2>2. QED BY <1>1, <2>1
<1>3. ASSUME NEW n \in T PROVE n + 1 \in T
  <2>1. PICK g : g = [i \in 0 .. n |-> IF i = 0 THEN Base ELSE Go(g[i - 1], i)]
    BY <1>1
  <2> DEFINE h == [i \in 0 .. n + 1 |-> IF i <= n THEN g[i] ELSE Go(g[n], n + 1)]
  <2>2. ASSUME NEW i \in 0 .. n + 1
        PROVE  h[i] = IF i = 0 THEN Base ELSE Go(h[i - 1], i)
    <3>1. CASE i = 0
      BY <2>1, <3>1
    <3>2. CASE i # 0 /\ i <= n
      <4>1. i \in 0 .. n /\ i - 1 \in 0 .. n + 1 /\ i - 1 <= n
        BY <3>2
      <4>2. h[i] = g[i] /\ h[i - 1] = g[i - 1]
        BY <3>2, <4>1
      <4>3. g[i] = Go(g[i - 1], i)
        BY <2>1, <3>2, <4>1
      <4>4. QED BY <3>2, <4>2, <4>3
    <3>3. CASE i = n + 1
      <4>1. i # 0 /\ ~(i <= n) /\ i - 1 = n /\ n \in 0 .. n + 1 /\ n <= n
        BY <3>3
      <4>2. h[i] = Go(g[n], n + 1) /\ h[n] = g[n]
        BY <4>1
      <4>3. QED BY <3>3, <4>1, <4>2
    <3>4. QED BY <3>1, <3>2, <3>3
  <2>3. h = [i \in 0 .. n + 1 |-> IF i = 0 THEN Base ELSE Go(h[i - 1], i)]
    <3>1. h = [i \in 0 .. n + 1 |-> h[i]]
      OBVIOUS
    <3> HIDE DEF h
    <3>2. QED BY <2>2, <3>1
  <2> HIDE DEF h
  <2>4. Outs(h, argv, env, n + 1)
    BY <1>1, <2>3
  <2>5. QED BY <2>4
<1> HIDE DEF T
<1>4. T = Nat
  <2>1. T \in SUBSET Nat
    BY DEF T
  <2>2. QED BY <1>2, <1>3, <2>1, Induction
<1>5. QED BY <1>4 DEF T

LEMMA ShimParsedAs ==
    ASSUME NEW argv, NEW env, Len(argv) \in Nat
    PROVE  \E out : /\ Outs(out, argv, env, Len(argv))
                   /\ Shim!parseArgs(argv, env) = out[Len(argv)]
<1> DEFINE out == CHOOSE x : Outs(x, argv, env, Len(argv))
<1>1. Shim!parseArgs(argv, env) = out[Len(argv)]
  BY DEF Shim!parseArgs, Outs, Started
<1> HIDE DEF out
<1>2. \E x : Outs(x, argv, env, Len(argv))
  BY OutsExist
<1>3. Outs(out, argv, env, Len(argv))
  BY <1>2 DEF out
<1>4. QED BY <1>1, <1>3

\* h is the recursive function of Given.
Gifts(h, cmd, field, most) ==
    h = [i \in 0 .. most |->
           IF i = 0 THEN << >>
           ELSE IF Gives(cmd.groups[i], field) THEN Append(h[i - 1], Gift(cmd.groups[i])) ELSE h[i - 1]]

LEMMA GiftsExist == ASSUME NEW cmd, NEW field, NEW most \in Nat PROVE \E g : Gifts(g, cmd, field, most)
<1> DEFINE Base == << >>
           Go(s, i) == IF Gives(cmd.groups[i], field) THEN Append(s, Gift(cmd.groups[i])) ELSE s
           T == {n \in Nat : \E g : Gifts(g, cmd, field, n)}
<1>1. \A g, n : Gifts(g, cmd, field, n) <=> g = [i \in 0 .. n |-> IF i = 0 THEN Base ELSE Go(g[i - 1], i)]
  BY DEF Gifts
<1> HIDE DEF Go, Base
<1>2. 0 \in T
  <2> DEFINE g == [i \in 0 .. 0 |-> Base]
  <2>1. g = [i \in 0 .. 0 |-> IF i = 0 THEN Base ELSE Go(g[i - 1], i)]
    OBVIOUS
  <2> HIDE DEF g
  <2>2. QED BY <1>1, <2>1
<1>3. ASSUME NEW n \in T PROVE n + 1 \in T
  <2>1. PICK g : g = [i \in 0 .. n |-> IF i = 0 THEN Base ELSE Go(g[i - 1], i)]
    BY <1>1
  <2> DEFINE h == [i \in 0 .. n + 1 |-> IF i <= n THEN g[i] ELSE Go(g[n], n + 1)]
  <2>2. ASSUME NEW i \in 0 .. n + 1
        PROVE  h[i] = IF i = 0 THEN Base ELSE Go(h[i - 1], i)
    <3>1. CASE i = 0
      BY <2>1, <3>1
    <3>2. CASE i # 0 /\ i <= n
      <4>1. i \in 0 .. n /\ i - 1 \in 0 .. n + 1 /\ i - 1 <= n
        BY <3>2
      <4>2. h[i] = g[i] /\ h[i - 1] = g[i - 1]
        BY <3>2, <4>1
      <4>3. g[i] = Go(g[i - 1], i)
        BY <2>1, <3>2, <4>1
      <4>4. QED BY <3>2, <4>2, <4>3
    <3>3. CASE i = n + 1
      <4>1. i # 0 /\ ~(i <= n) /\ i - 1 = n /\ n \in 0 .. n + 1 /\ n <= n
        BY <3>3
      <4>2. h[i] = Go(g[n], n + 1) /\ h[n] = g[n]
        BY <4>1
      <4>3. QED BY <3>3, <4>1, <4>2
    <3>4. QED BY <3>1, <3>2, <3>3
  <2>3. h = [i \in 0 .. n + 1 |-> IF i = 0 THEN Base ELSE Go(h[i - 1], i)]
    <3>1. h = [i \in 0 .. n + 1 |-> h[i]]
      OBVIOUS
    <3> HIDE DEF h
    <3>2. QED BY <2>2, <3>1
  <2> HIDE DEF h
  <2>4. Gifts(h, cmd, field, n + 1)
    BY <1>1, <2>3
  <2>5. QED BY <2>4
<1> HIDE DEF T
<1>4. T = Nat
  <2>1. T \in SUBSET Nat
    BY DEF T
  <2>2. QED BY <1>2, <1>3, <2>1, Induction
<1>5. QED BY <1>4 DEF T

GiftsTo(cmd, field) == CHOOSE h : Gifts(h, cmd, field, Len(cmd.groups))

LEMMA GivenAs ==
    ASSUME NEW cmd \in Commands, NEW field
    PROVE  /\ Gifts(GiftsTo(cmd, field), cmd, field, Len(cmd.groups))
           /\ Given(cmd, field) = GiftsTo(cmd, field)[Len(cmd.groups)]
<1>1. Given(cmd, field) = GiftsTo(cmd, field)[Len(cmd.groups)]
  BY DEF Given, Gifts, GiftsTo
<1>2. \E h : Gifts(h, cmd, field, Len(cmd.groups))
  BY CommandShape, GiftsExist
<1>3. Gifts(GiftsTo(cmd, field), cmd, field, Len(cmd.groups))
  BY <1>2 DEF GiftsTo
<1>4. QED BY <1>1, <1>3

Fields ==
    {"command", "login", "serverID", "tenantID", "tokenEndpoint", "method", "headers", "headerFiles",
     "caFile", "certFile", "keyFile", "insecureSkipTLSVerify", "tokenCacheDir", "disableTokenCache",
     "tokenCacheRefreshSkew", "help", "version"}
ListFields == {"headers", "headerFiles"}
Meaningful == Fields \ {"command", "help", "version"}

LEMMA Tables ==
    /\ \A f \in DOMAIN Shim!VALUE_FLAGS : Shim!VALUE_FLAGS[f] \in Meaningful \ ListFields
    /\ \A f \in DOMAIN Shim!ARRAY_FLAGS : Shim!ARRAY_FLAGS[f] \in ListFields
    /\ \A f \in DOMAIN Shim!BOOL_FLAGS : Shim!BOOL_FLAGS[f] \in Meaningful \ ListFields
    /\ \A f \in DOMAIN Shim!HELP_FLAGS : Shim!HELP_FLAGS[f] \in {"help", "version"}
    /\ DOMAIN Shim!VALUE_FLAGS \cap DOMAIN Shim!ARRAY_FLAGS = {}
    /\ Shim!Valued \cap DOMAIN Shim!BOOL_FLAGS = {}
    /\ Shim!Valued \cap DOMAIN Shim!HELP_FLAGS = {}
    /\ DOMAIN Shim!BOOL_FLAGS \cap DOMAIN Shim!HELP_FLAGS = {}
<1>1. \A f \in DOMAIN Shim!VALUE_FLAGS : Shim!VALUE_FLAGS[f] \in Meaningful \ ListFields
  BY DEF Shim!VALUE_FLAGS, Meaningful, Fields, ListFields
<1>2. \A f \in DOMAIN Shim!ARRAY_FLAGS : Shim!ARRAY_FLAGS[f] \in ListFields
  BY DEF Shim!ARRAY_FLAGS, ListFields
<1>3. \A f \in DOMAIN Shim!BOOL_FLAGS : Shim!BOOL_FLAGS[f] \in Meaningful \ ListFields
  BY DEF Shim!BOOL_FLAGS, Meaningful, Fields, ListFields
<1>4. \A f \in DOMAIN Shim!HELP_FLAGS : Shim!HELP_FLAGS[f] \in {"help", "version"}
  BY DEF Shim!HELP_FLAGS
<1>5. /\ DOMAIN Shim!VALUE_FLAGS \cap DOMAIN Shim!ARRAY_FLAGS = {}
      /\ Shim!Valued \cap DOMAIN Shim!BOOL_FLAGS = {}
      /\ Shim!Valued \cap DOMAIN Shim!HELP_FLAGS = {}
      /\ DOMAIN Shim!BOOL_FLAGS \cap DOMAIN Shim!HELP_FLAGS = {}
  BY DEF Shim!Valued, Shim!VALUE_FLAGS, Shim!ARRAY_FLAGS, Shim!BOOL_FLAGS, Shim!HELP_FLAGS
<1>6. QED BY <1>1, <1>2, <1>3, <1>4, <1>5

LEMMA DefaultFields == ASSUME NEW env PROVE DOMAIN Shim!Defaults(env) = Fields
  BY DEF Shim!Defaults, Fields

LEMMA ParsedParts ==
    ASSUME NEW c, NEW n
    PROVE  /\ Shim!Parsed(c, n).cfg = c /\ Shim!Parsed(c, n).next = n /\ ~Shim!Parsed(c, n).error
           /\ Shim!Threw(Shim!Parsed(c, n)).error
  BY DEF Shim!Parsed, Shim!Threw

LEMMA TurnSkips ==
    ASSUME NEW s, NEW argv, NEW i, s.error \/ i < s.next PROVE Shim!Turn(s, argv, i) = s
  BY DEF Shim!Turn

LEMMA TurnWord ==
    ASSUME NEW c, NEW argv, NEW i \in Nat, ~argv[i].flag
    PROVE  Shim!Turn(Shim!Parsed(c, i), argv, i) =
             Shim!Parsed(IF c.command = Unset THEN [c EXCEPT !["command"] = argv[i].name] ELSE c, i + 1)
<1> DEFINE s == Shim!Parsed(c, i)
<1>1. ~s.error /\ s.next = i /\ s.cfg = c
  BY ParsedParts
<1> HIDE DEF s
<1>2. ~(s.error \/ i < s.next)
  BY <1>1
<1>3. QED BY <1>1, <1>2 DEF Shim!Turn, Shim!Unset, Unset, s

\* What a flag with the text v in its own token, or w in the next, makes of c.
Effect(c, flag, v, w) ==
    IF flag \in DOMAIN Shim!HELP_FLAGS /\ v = Unset THEN [c EXCEPT ![Shim!HELP_FLAGS[flag]] = TRUE]
    ELSE IF flag \in DOMAIN Shim!BOOL_FLAGS
         THEN [c EXCEPT ![Shim!BOOL_FLAGS[flag]] = (v = Unset \/ Shim!parseBool(v))]
    ELSE IF flag \in DOMAIN Shim!ARRAY_FLAGS
         THEN [c EXCEPT ![Shim!ARRAY_FLAGS[flag]] =
                 Append(c[Shim!ARRAY_FLAGS[flag]], IF v # Unset THEN v ELSE w)]
    ELSE IF flag \in DOMAIN Shim!VALUE_FLAGS
         THEN [c EXCEPT ![Shim!VALUE_FLAGS[flag]] = IF v # Unset THEN v ELSE w]
    ELSE c

LEMMA TurnFlag ==
    ASSUME NEW c, NEW argv, NEW i \in Nat, Len(argv) \in Nat, i <= Len(argv), argv[i].flag,
           argv[i].name \notin Mistyped,
           argv[i].name \in Shim!Valued /\ argv[i].val = Unset => i + 1 <= Len(argv)
    PROVE  \E next \in {i + 1, i + 2} :
             /\ Shim!Turn(Shim!Parsed(c, i), argv, i) =
                  Shim!Parsed(Effect(c, argv[i].name, argv[i].val, argv[i + 1].name), next)
             /\ argv[i].name \in Shim!Valued => next = IF argv[i].val # Unset THEN i + 1 ELSE i + 2
             /\ argv[i].name \notin Shim!Valued /\ next = i + 2 =>
                  /\ argv[i].val = Unset /\ c.command # Unset /\ i < Len(argv) /\ ~argv[i + 1].flag
<1> DEFINE s == Shim!Parsed(c, i)
           f == argv[i].name
           v == argv[i].val
           w == argv[i + 1].name
           After == IF v # Unset THEN i + 1 ELSE i + 2
<1>1. ~s.error /\ s.next = i /\ s.cfg = c
  BY ParsedParts
<1>2. ~(s.error \/ i < s.next)
  <2> HIDE DEF s
  <2>1. QED BY <1>1
<1>3. f \in Shim!Valued => ~(After > Len(argv) + 1)
  <2>1. f \in Shim!Valued /\ v = Unset => i + 1 <= Len(argv)
    OBVIOUS
  <2> HIDE DEF f, v
  <2>2. CASE v = Unset
    BY <2>1, <2>2
  <2>3. CASE v # Unset
    BY <2>3
  <2>4. QED BY <2>2, <2>3
<1>4. Shim!Unset = Unset
  BY DEF Shim!Unset, Unset
<1> HIDE DEF s
<1>5. Shim!Turn(s, argv, i) =
        IF f \in DOMAIN Shim!HELP_FLAGS /\ v = Unset THEN Shim!Parsed(Effect(c, f, v, w), i + 1)
        ELSE IF f \in DOMAIN Shim!BOOL_FLAGS THEN Shim!Parsed(Effect(c, f, v, w), i + 1)
        ELSE IF f \in Shim!Valued THEN Shim!Parsed(Effect(c, f, v, w), After)
        ELSE Shim!Parsed(Effect(c, f, v, w), IF Shim!Swallows(c, argv, i) THEN i + 2 ELSE i + 1)
  <2>1. CASE f \in DOMAIN Shim!HELP_FLAGS /\ v = Unset
    BY <1>1, <1>2, <1>4, <2>1 DEF Shim!Turn, Effect
  <2>2. CASE ~(f \in DOMAIN Shim!HELP_FLAGS /\ v = Unset) /\ f \in DOMAIN Shim!BOOL_FLAGS
    BY <1>1, <1>2, <1>4, <2>2 DEF Shim!Turn, Effect
  <2>3. CASE ~(f \in DOMAIN Shim!HELP_FLAGS /\ v = Unset) /\ f \notin DOMAIN Shim!BOOL_FLAGS
    <3>1. CASE f \in DOMAIN Shim!ARRAY_FLAGS
      BY <1>1, <1>2, <1>3, <1>4, <2>3, <3>1 DEF Shim!Turn, Effect, Shim!Valued
    <3>2. CASE f \notin DOMAIN Shim!ARRAY_FLAGS /\ f \in DOMAIN Shim!VALUE_FLAGS
      BY <1>1, <1>2, <1>3, <1>4, <2>3, <3>2 DEF Shim!Turn, Effect, Shim!Valued
    <3>3. CASE f \notin DOMAIN Shim!ARRAY_FLAGS /\ f \notin DOMAIN Shim!VALUE_FLAGS
      BY <1>1, <1>2, <1>4, <2>3, <3>3 DEF Shim!Turn, Effect, Shim!Valued
    <3>4. QED BY <3>1, <3>2, <3>3
  <2>4. QED BY <2>1, <2>2, <2>3
<1>6. Shim!Swallows(c, argv, i) => v = Unset /\ c.command # Unset /\ i < Len(argv) /\ ~argv[i + 1].flag
  BY <1>4 DEF Shim!Swallows
<1>7. f \in Shim!Valued => f \notin DOMAIN Shim!HELP_FLAGS /\ f \notin DOMAIN Shim!BOOL_FLAGS
  BY Tables
<1> HIDE DEF f, v, w
<1>8. \E next \in {i + 1, i + 2} :
        /\ Shim!Turn(s, argv, i) = Shim!Parsed(Effect(c, f, v, w), next)
        /\ f \in Shim!Valued => next = After
        /\ f \notin Shim!Valued /\ next = i + 2 =>
             v = Unset /\ c.command # Unset /\ i < Len(argv) /\ ~argv[i + 1].flag
  <2>1. i + 1 # i + 2
    OBVIOUS
  <2>2. QED BY <1>5, <1>6, <1>7, <2>1
<1>9. QED BY <1>8 DEF s, f, v, w

\* d is what the group g makes of c.
Takes(d, c, g) ==
    \A f \in Meaningful :
        d[f] = IF ~Gives(g, f) THEN c[f] ELSE IF f \in ListFields THEN Append(c[f], Gift(g)) ELSE Gift(g)
Agrees(d, c, g) == DOMAIN d = Fields /\ d["command"] = c["command"] /\ Takes(d, c, g)

LEMMA EffectAgrees ==
    ASSUME NEW c, DOMAIN c = Fields, NEW g, NEW v, NEW w,
           v = IF g.val # Unset /\ g.inline THEN g.val ELSE Unset,
           g.flag \in Shim!Valued => g.val # Unset /\ (v = Unset => w = g.val)
    PROVE  Agrees(Effect(c, g.flag, v, w), c, g)
<1> DEFINE flag == g.flag
           d == Effect(c, flag, v, w)
<1>1. /\ "command" \in Fields /\ "command" \notin Meaningful /\ "help" \notin Meaningful
      /\ "version" \notin Meaningful /\ Meaningful \subseteq Fields /\ ListFields \subseteq Meaningful
      /\ {"help", "version"} \subseteq Fields /\ "help" # "command" /\ "version" # "command"
  BY DEF Fields, Meaningful, ListFields
<1>2. CASE flag \in DOMAIN Shim!HELP_FLAGS /\ v = Unset
  <2> DEFINE h == Shim!HELP_FLAGS[flag]
  <2>1. h \in {"help", "version"}
    BY <1>2, Tables
  <2>2. \A f : ~Gives(g, f)
    BY <1>2, Tables DEF Gives, Shim!Valued
  <2> HIDE DEF h
  <2>3. d = [c EXCEPT ![h] = TRUE]
    BY <1>2 DEF Effect, h
  <2> HIDE DEF d
  <2>4. QED BY <1>1, <2>1, <2>2, <2>3 DEF Agrees, Takes, d
<1>3. CASE ~(flag \in DOMAIN Shim!HELP_FLAGS /\ v = Unset) /\ flag \in DOMAIN Shim!BOOL_FLAGS
  <2> DEFINE h == Shim!BOOL_FLAGS[flag]
             x == v = Unset \/ Shim!parseBool(v)
  <2>1. h \in Meaningful /\ h \notin ListFields
    BY <1>3, Tables
  <2>2. \A f : Gives(g, f) <=> f = h
    BY <1>3, Tables DEF Gives, Shim!Valued
  <2>3. Gift(g) = x
    BY <1>3 DEF Gift
  <2> HIDE DEF h, x
  <2>4. d = [c EXCEPT ![h] = x]
    BY <1>3 DEF Effect, h, x
  <2> HIDE DEF d
  <2>5. QED BY <1>1, <2>1, <2>2, <2>3, <2>4 DEF Agrees, Takes, d
<1>4. CASE /\ ~(flag \in DOMAIN Shim!HELP_FLAGS /\ v = Unset) /\ flag \notin DOMAIN Shim!BOOL_FLAGS
           /\ flag \in DOMAIN Shim!ARRAY_FLAGS
  <2> DEFINE h == Shim!ARRAY_FLAGS[flag]
  <2>1. h \in ListFields
    BY <1>4, Tables
  <2>2. \A f : Gives(g, f) <=> f = h
    BY <1>4, Tables DEF Gives
  <2>3. Gift(g) = IF v # Unset THEN v ELSE w
    BY <1>4 DEF Gift, Shim!Valued
  <2> HIDE DEF h
  <2>4. d = [c EXCEPT ![h] = Append(c[h], Gift(g))]
    BY <1>4, <2>3 DEF Effect, h
  <2> DEFINE x == Append(c[h], Gift(g))
  <2>5. d = [c EXCEPT ![h] = x]
    BY <2>4
  <2>6. \A f \in Meaningful : f = h => Append(c[f], Gift(g)) = x
    OBVIOUS
  <2> HIDE DEF d, x
  <2>7. \A f \in Meaningful : d[f] = IF f = h THEN x ELSE c[f]
    BY <1>1, <2>1, <2>5
  <2>8. DOMAIN d = Fields /\ d["command"] = c["command"]
    BY <1>1, <2>1, <2>5
  <2>9. QED BY <2>1, <2>2, <2>6, <2>7, <2>8 DEF Agrees, Takes, d
<1>5. CASE /\ ~(flag \in DOMAIN Shim!HELP_FLAGS /\ v = Unset) /\ flag \notin DOMAIN Shim!BOOL_FLAGS
           /\ flag \notin DOMAIN Shim!ARRAY_FLAGS /\ flag \in DOMAIN Shim!VALUE_FLAGS
  <2> DEFINE h == Shim!VALUE_FLAGS[flag]
  <2>1. h \in Meaningful /\ h \notin ListFields
    BY <1>5, Tables
  <2>2. \A f : Gives(g, f) <=> f = h
    BY <1>5, Tables DEF Gives
  <2>3. Gift(g) = IF v # Unset THEN v ELSE w
    BY <1>5 DEF Gift, Shim!Valued
  <2> HIDE DEF h
  <2>4. d = [c EXCEPT ![h] = Gift(g)]
    BY <1>5, <2>3 DEF Effect, h
  <2> HIDE DEF d
  <2>5. QED BY <1>1, <2>1, <2>2, <2>4 DEF Agrees, Takes, d
<1>6. CASE /\ ~(flag \in DOMAIN Shim!HELP_FLAGS /\ v = Unset) /\ flag \notin DOMAIN Shim!BOOL_FLAGS
           /\ flag \notin DOMAIN Shim!ARRAY_FLAGS /\ flag \notin DOMAIN Shim!VALUE_FLAGS
  <2>1. \A f : ~Gives(g, f)
    BY <1>6 DEF Gives
  <2>2. d = c
    BY <1>6 DEF Effect
  <2> HIDE DEF d
  <2>3. QED BY <2>1, <2>2 DEF Agrees, Takes, d
<1>7. QED BY <1>2, <1>3, <1>4, <1>5, <1>6

LEMMA CommandGroups ==
    ASSUME NEW cmd \in Commands, NEW i \in 1 .. Len(cmd.groups)
    PROVE  LET g == cmd.groups[i]
           IN  /\ g \in Group
               /\ g.flag \in Shim!Valued => g.val # Unset
               /\ g.flag = "--server-id" => g.val \in DOMAIN Spelling \cup {""}
<1>1. cmd.groups \in Seq(Group)
  BY CommandAssumption, Zenon
<1>2. i \in DOMAIN cmd.groups
  <2> DEFINE gs == cmd.groups
  <2>1. gs \in Seq(Group) /\ i \in 1 .. Len(gs)
    BY <1>1
  <2> HIDE DEF gs
  <2>2. i \in DOMAIN gs
    BY <2>1
  <2>3. QED BY <2>2 DEF gs
<1>3. cmd.groups[i] \in Group
  BY CommandShape
<1>4. QED BY <1>2, <1>3, CommandAssumption, Zenon

\* w is the subcommand as the words up to the group k have it: the first one
\* that stands alone, get-token if it comes before any other.
CommandAfter(cmd, k, w) ==
    \/ \E i \in 1 .. k :
         /\ i <= cmd.before /\ Stray(cmd.groups[i]) /\ w = cmd.groups[i].val
         /\ \A j \in 1 .. i - 1 : ~Stray(cmd.groups[j])
    \/ /\ \A i \in 1 .. k : i <= cmd.before => ~Stray(cmd.groups[i])
       /\ w = IF cmd.before <= k THEN "get-token" ELSE Unset

\* What the word of the group g makes of the subcommand c.
FirstNamed(c, g) == IF c = Unset /\ Stray(g) THEN g.val ELSE c

LEMMA CommandMore ==
    ASSUME NEW cmd \in Commands, NEW k \in 0 .. Len(cmd.groups) - 1,
           NEW c, CommandAfter(cmd, k, c),
           NEW d, d = FirstNamed(c, cmd.groups[k + 1]),
           NEW e, e = IF k + 1 = cmd.before /\ d = Unset THEN "get-token" ELSE d
    PROVE  CommandAfter(cmd, k + 1, e)
<1> DEFINE b == cmd.before
           gs == cmd.groups
           S(i) == Stray(gs[i])
<1>1. k \in Nat /\ b \in Nat /\ "get-token" # Unset
  BY CommandShape DEF Unset
<1>2. \A g : Stray(g) => g.val # Unset
  BY DEF Stray
<1>3. /\ \A i \in 1 .. k : i \in 1 .. k + 1 /\ i # k + 1
      /\ k + 1 \in 1 .. k + 1 /\ k + 1 - 1 = k
      /\ \A i \in 1 .. k + 1 : i \in 1 .. k \/ i = k + 1
      /\ k + 1 <= b <=> ~(b <= k)
      /\ b <= k + 1 <=> b <= k \/ k + 1 = b
      /\ b <= k => k + 1 # b
      /\ ~(b <= k) => \A i \in 1 .. k : i <= b
  BY <1>1
<1>4. CASE \E i \in 1 .. k : i <= b /\ S(i) /\ c = gs[i].val /\ \A j \in 1 .. i - 1 : ~S(j)
  <2>1. PICK i \in 1 .. k : i <= b /\ S(i) /\ c = gs[i].val /\ \A j \in 1 .. i - 1 : ~S(j)
    BY <1>4
  <2>2. e = c
    BY <1>2, <2>1 DEF FirstNamed
  <2>3. i \in 1 .. k + 1
    BY <1>3
  <2>4. QED BY <2>1, <2>2, <2>3 DEF CommandAfter
<1>5. CASE /\ \A i \in 1 .. k : i <= b => ~S(i)
           /\ c = IF b <= k THEN "get-token" ELSE Unset
  <2>1. CASE b <= k
    <3>1. e = "get-token"
      BY <1>1, <1>5, <2>1 DEF FirstNamed
    <3>2. \A i \in 1 .. k + 1 : i <= b => ~S(i)
      BY <1>3, <1>5, <2>1
    <3>3. QED BY <1>3, <2>1, <3>1, <3>2 DEF CommandAfter
  <2>2. CASE ~(b <= k) /\ S(k + 1)
    <3>1. e = gs[k + 1].val
      BY <1>2, <1>5, <2>2 DEF FirstNamed
    <3>2. k + 1 <= b /\ \A j \in 1 .. k + 1 - 1 : ~S(j)
      BY <1>3, <1>5, <2>2
    <3>3. QED BY <1>3, <2>2, <3>1, <3>2 DEF CommandAfter
  <2>3. CASE ~(b <= k) /\ ~S(k + 1)
    <3>1. e = IF k + 1 = b THEN "get-token" ELSE Unset
      BY <1>5, <2>3 DEF FirstNamed
    <3>2. \A i \in 1 .. k + 1 : i <= b => ~S(i)
      BY <1>3, <1>5, <2>3
    <3>3. QED BY <1>3, <2>3, <3>1, <3>2 DEF CommandAfter
  <2>4. QED BY <2>1, <2>2, <2>3
<1>6. QED BY <1>4, <1>5 DEF CommandAfter

\* From get-token's place on there is a subcommand.
LEMMA CommandThere ==
    ASSUME NEW cmd, NEW k, NEW c, CommandAfter(cmd, k, c), cmd.before <= k
    PROVE  c # Unset
  BY DEF CommandAfter, Stray, Unset

LEMMA CommandIs ==
    ASSUME NEW cmd \in Commands, NEW w, CommandAfter(cmd, Len(cmd.groups), w)
    PROVE  w = Subcommand(cmd)
<1> DEFINE N == Len(cmd.groups)
           b == cmd.before
           S(i) == Stray(cmd.groups[i])
           T == Strays(cmd)
<1>1. N \in Nat /\ b \in Nat /\ b <= N
  BY CommandShape
<1>2. T = {i \in 1 .. b : S(i)}
  BY DEF Strays
<1>3. \A i \in 1 .. N : i <= b <=> i \in 1 .. b
  BY <1>1
<1>4. \A i \in 1 .. b : i \in 1 .. N
  BY <1>1
<1> HIDE DEF T
<1>5. CASE \E i \in 1 .. N : i <= b /\ S(i) /\ w = cmd.groups[i].val /\ \A j \in 1 .. i - 1 : ~S(j)
  <2>1. PICK i \in 1 .. N : i <= b /\ S(i) /\ w = cmd.groups[i].val /\ \A j \in 1 .. i - 1 : ~S(j)
    BY <1>5
  <2>2. i \in T
    BY <1>2, <1>3, <2>1
  <2>3. ASSUME NEW j \in T PROVE i <= j
    <3>1. j \in 1 .. b /\ S(j)
      BY <1>2
    <3>2. j \notin 1 .. i - 1
      BY <2>1, <3>1
    <3>3. QED BY <1>1, <3>1, <3>2
  <2>4. \A j \in T : (\A l \in T : j <= l) => j = i
    <3>1. \A j \in T : j \in Nat
      BY <1>1, <1>2
    <3>2. QED BY <2>2, <2>3, <3>1
  <2>5. Min(T) = i
    BY <2>2, <2>3, <2>4 DEF Min
  <2>6. T # {}
    BY <2>2
  <2>7. QED BY <2>1, <2>5, <2>6 DEF Subcommand, T
<1>6. CASE /\ \A i \in 1 .. N : i <= b => ~S(i)
           /\ w = IF b <= N THEN "get-token" ELSE Unset
  <2>1. T = {}
    BY <1>2, <1>3, <1>4, <1>6
  <2>2. QED BY <1>1, <1>6, <2>1 DEF Subcommand, T
<1>7. QED BY <1>5, <1>6 DEF CommandAfter

Width(g) == IF g.val # Unset /\ ~g.inline THEN 2 ELSE 1

\* The first n tokens are behind it, and gave c.
Passed(out, n, c) == out[n] = Shim!Parsed(c, n + 1) /\ DOMAIN c = Fields

\* An unknown flag that stands alone takes get-token along, after another subcommand.
Ate(cmd, k, c) == k + 1 = cmd.before /\ c["command"] # Unset

\* The tokens up to m gave what the group k + 1 makes of c.
Turned(out, cmd, k, c, m) ==
    LET g == cmd.groups[k + 1]
    IN  \E d : /\ DOMAIN d = Fields /\ Takes(d, c, g)
               /\ d["command"] = FirstNamed(c["command"], g)
               /\ \/ out[m] = Shim!Parsed(d, m + 1)
                  \/ Ate(cmd, k, c) /\ out[m] = Shim!Parsed(d, m + 2)

LEMMA GroupTurns ==
    ASSUME NEW cmd \in Commands, NEW t, Lines(t, cmd, Len(cmd.groups)),
           NEW k \in 0 .. Len(cmd.groups) - 1,
           NEW argv, argv = t[Len(cmd.groups)],
           NEW out, Outs(out, argv, cmd.env, Len(argv)),
           cmd.groups[k + 1].flag \notin Mistyped,
           NEW c, Passed(out, Len(t[k]), c), CommandAfter(cmd, k, c["command"])
    PROVE  Turned(out, cmd, k, c, Len(t[k]) + Width(cmd.groups[k + 1]))
<1> DEFINE g == cmd.groups[k + 1]
           n == Len(t[k])
           m == Len(t[k + 1])
           L == Len(argv)
           v == IF g.val # Unset /\ g.inline THEN g.val ELSE Unset
           w == argv[n + 2].name
           d == Effect(c, g.flag, v, w)
<1>1. /\ argv \in Seq(Written) /\ n \in Nat /\ m \in 1 .. L
      /\ Follows(argv, cmd, k, n, m)
      /\ m = L \/ argv[m + 1].flag
  BY GroupStands
<1>2. k + 1 \in 1 .. Len(cmd.groups)
  BY CommandShape
<1>3. g.flag \in Shim!Valued => g.val # Unset
  <2> DEFINE i == k + 1
  <2>1. i \in 1 .. Len(cmd.groups)
    BY <1>2
  <2> HIDE DEF i
  <2>2. cmd.groups[i].flag \in Shim!Valued => cmd.groups[i].val # Unset
    BY <2>1, CommandGroups, Zenon
  <2>3. QED BY <2>2 DEF i
<1>4. L \in Nat
  BY <1>1
<1>5. /\ argv[n + 1] = IF g.val # Unset /\ g.inline THEN FlagIs(g.flag, g.val) ELSE Flag(g.flag)
      /\ g.val # Unset /\ ~g.inline => argv[n + 2] = Word(g.val)
      /\ m = n + Width(g) + (IF k + 1 = cmd.before THEN 1 ELSE 0)
  BY <1>1 DEF Follows, Width
<1>6. argv[n + 1].flag /\ argv[n + 1].name = g.flag /\ argv[n + 1].val = v
  BY <1>5 DEF Flag, FlagIs
<1>7. g.val # Unset /\ ~g.inline => w = g.val /\ ~argv[n + 2].flag /\ argv[n + 2].name = g.val
  BY <1>5 DEF Word
<1>8. g.flag \in Shim!Valued => g.val # Unset /\ (v = Unset => w = g.val /\ Width(g) = 2)
  BY <1>3, <1>7 DEF Width
<1>9. Width(g) \in {1, 2} /\ (Width(g) = 2 <=> g.val # Unset /\ ~g.inline)
  BY DEF Width
<1>10. Agrees(d, c, g)
  <2>1. DOMAIN c = Fields
    BY DEF Passed
  <2> HIDE DEF w, g
  <2>2. v = IF g.val # Unset /\ g.inline THEN g.val ELSE Unset
    OBVIOUS
  <2> HIDE DEF v
  <2>3. QED BY <1>8, <2>1, <2>2, EffectAgrees
<1>11. \A i \in 1 .. L : out[i] = Shim!Turn(out[i - 1], argv, i)
  <2> HIDE DEF L
  <2>1. out = [i \in 0 .. L |-> IF i = 0 THEN Started(cmd.env) ELSE Shim!Turn(out[i - 1], argv, i)]
    BY DEF Outs, L
  <2>2. \A i \in 1 .. L : i \in 0 .. L /\ i # 0
    BY <1>4
  <2>3. QED BY <2>1, <2>2
<1>12. /\ n + 1 \in 1 .. L /\ (Width(g) = 2 => n + 2 \in 1 .. L)
       /\ n + 1 - 1 = n /\ n + 2 - 1 = n + 1 /\ n + 1 + 1 = n + 2 /\ n + 1 + 2 = n + 3
  <2> HIDE DEF n, m, L, g
  <2>1. n \in Nat /\ m \in 1 .. L /\ L \in Nat /\ (m = n + Width(g) \/ m = n + Width(g) + 1)
    <3> DEFINE e == IF k + 1 = cmd.before THEN 1 ELSE 0
    <3>1. e = 0 \/ e = 1
      OBVIOUS
    <3>2. m = n + Width(g) + e
      BY <1>5
    <3> HIDE DEF e
    <3>3. n \in Nat /\ m \in 1 .. L
      BY <1>1
    <3>4. QED BY <1>4, <1>9, <3>1, <3>2, <3>3
  <2>2. QED BY <1>9, <2>1
<1>15. c["command"] = c.command
  OBVIOUS
<1> DEFINE s == Shim!Parsed(c, n + 1)
<1>16. out[n + 1] = Shim!Turn(s, argv, n + 1)
  <2>1. out[n] = s
    BY DEF Passed
  <2> DEFINE i == n + 1
  <2>2. i \in 1 .. L /\ i - 1 = n
    BY <1>12
  <2>3. out[i] = Shim!Turn(out[i - 1], argv, i)
    <3> HIDE DEF i, L
    <3>1. QED BY <1>11, <2>2
  <2> HIDE DEF n, s
  <2>4. out[i] = Shim!Turn(s, argv, i)
    <3> HIDE DEF i
    <3>1. QED BY <2>1, <2>2, <2>3
  <2>5. QED BY <2>4
<1>17. PICK next \in {n + 2, n + 3} :
         /\ out[n + 1] = Shim!Parsed(d, next)
         /\ g.flag \in Shim!Valued => next = IF v # Unset THEN n + 2 ELSE n + 3
         /\ g.flag \notin Shim!Valued /\ next = n + 3 =>
              /\ v = Unset /\ c.command # Unset /\ n + 1 < L /\ ~argv[n + 2].flag
  <2> DEFINE i == n + 1
  <2>1. i \in Nat /\ i <= L /\ L \in Nat /\ (Width(g) = 2 => i + 1 <= L)
    <3> HIDE DEF n, L
    <3>1. QED BY <1>1, <1>4, <1>12
  <2>2. /\ argv[i].flag /\ argv[i].name = g.flag /\ argv[i].val = v /\ argv[i + 1].name = w
        /\ i + 1 = n + 2 /\ i + 2 = n + 3 /\ argv[i + 1] = argv[n + 2]
    BY <1>6, <1>12
  <2>3. g.flag \notin Mistyped
    OBVIOUS
  <2> HIDE DEF i, g, v, w, n, s
  <2>4. argv[i].name \in Shim!Valued /\ argv[i].val = Unset => i + 1 <= Len(argv)
    BY <1>8, <2>1, <2>2
  <2>5. \E next \in {i + 1, i + 2} :
          /\ Shim!Turn(Shim!Parsed(c, i), argv, i) =
               Shim!Parsed(Effect(c, argv[i].name, argv[i].val, argv[i + 1].name), next)
          /\ argv[i].name \in Shim!Valued => next = IF argv[i].val # Unset THEN i + 1 ELSE i + 2
          /\ argv[i].name \notin Shim!Valued /\ next = i + 2 =>
               /\ argv[i].val = Unset /\ c.command # Unset /\ i < Len(argv) /\ ~argv[i + 1].flag
    <3>1. i \in Nat
      BY <2>1
    <3>2. Len(argv) \in Nat
      BY <2>1
    <3>3. i <= Len(argv)
      BY <2>1
    <3>4. argv[i].flag
      BY <2>2
    <3>5. argv[i].name \notin Mistyped
      BY <2>2, <2>3
    <3> HIDE DEF L, d
    <3>6. QED BY ONLY <3>1, <3>2, <3>3, <3>4, <3>5, <2>4, TurnFlag
  <2>6. out[i] = Shim!Turn(Shim!Parsed(c, i), argv, i)
    BY <1>16 DEF i, s
  <2>7. \E next \in {n + 2, n + 3} :
         /\ out[i] = Shim!Parsed(d, next)
         /\ g.flag \in Shim!Valued => next = IF v # Unset THEN n + 2 ELSE n + 3
         /\ g.flag \notin Shim!Valued /\ next = n + 3 =>
              /\ v = Unset /\ c.command # Unset /\ i < Len(argv) /\ ~argv[n + 2].flag
    BY <2>2, <2>5, <2>6
  <2>8. QED BY <2>7 DEF i
<1>18. CASE Width(g) = 1
  <2>1. next = n + 2 \/ (next = n + 3 /\ Ate(cmd, k, c))
    <3>1. g.flag \in Shim!Valued => v # Unset
      BY <1>8, <1>18
    <3>2. ASSUME g.flag \notin Shim!Valued, next = n + 3 PROVE Ate(cmd, k, c)
      <4>1. c.command # Unset /\ n + 1 < L /\ ~argv[n + 2].flag
        BY <1>17, <3>2
      <4>2. ASSUME k + 1 # cmd.before PROVE FALSE
        <5>1. m = n + 1
          BY <1>1, <1>5, <1>18, <4>2
        <5>2. L # n + 1
          <6> HIDE DEF n, L
          <6>1. QED BY <1>1, <1>4, <4>1
        <5>3. argv[m + 1].flag
          BY <1>1, <5>1, <5>2
        <5>4. m + 1 = n + 2
          BY <1>12, <5>1
        <5>5. QED BY <4>1, <5>3, <5>4
      <4>3. QED BY <1>15, <4>1, <4>2 DEF Ate
    <3>3. QED BY <1>17, <3>1, <3>2
  <2>2. ~Stray(g)
    BY <1>9, <1>18 DEF Stray
  <2> HIDE DEF d
  <2>3. DOMAIN d = Fields /\ Takes(d, c, g) /\ d["command"] = FirstNamed(c["command"], g)
    BY <1>10, <2>2 DEF Agrees, FirstNamed
  <2>4. n + Width(g) = n + 1 /\ n + Width(g) + 1 = n + 2 /\ n + Width(g) + 2 = n + 3
    BY <1>12, <1>18
  <2> HIDE DEF n, g
  <2>5. \/ out[n + Width(g)] = Shim!Parsed(d, n + Width(g) + 1)
        \/ Ate(cmd, k, c) /\ out[n + Width(g)] = Shim!Parsed(d, n + Width(g) + 2)
    BY <1>17, <2>1, <2>4
  <2>6. QED BY <2>3, <2>5 DEF n, g, Turned
<1>19. CASE Width(g) = 2
  <2>1. d["command"] = c["command"] /\ DOMAIN d = Fields /\ Takes(d, c, g)
    BY <1>10 DEF Agrees
  <2>a. g.val # Unset /\ ~g.inline /\ v = Unset
    BY <1>9, <1>19
  <2> HIDE DEF d
  <2> DEFINE i == n + 2
  <2>2. i \in 1 .. L /\ i - 1 = n + 1 /\ i + 1 = n + 3 /\ i \in Nat /\ i < n + 3 /\ n + 2 + 1 = n + 3
    <3> HIDE DEF n, L
    <3>1. n \in Nat
      BY <1>1
    <3>2. n + 2 \in 1 .. L
      BY <1>12, <1>19
    <3>3. QED BY ONLY <3>1, <3>2 DEF i
  <2>3. out[i] = Shim!Turn(Shim!Parsed(d, next), argv, i)
    <3> HIDE DEF i, L
    <3>1. QED BY <1>11, <1>17, <2>2
  <2>4. \E e : /\ out[i] = Shim!Parsed(e, n + 3) /\ DOMAIN e = Fields /\ Takes(e, c, g)
               /\ e["command"] = FirstNamed(c["command"], g)
    <3>1. CASE next = n + 3
      <4> DEFINE r == Shim!Parsed(d, next)
      <4>1. r.next = n + 3
        BY <3>1, ParsedParts
      <4>2. i < r.next
        <5> HIDE DEF r, i
        <5>1. QED BY <2>2, <4>1
      <4> HIDE DEF r
      <4>3. Shim!Turn(r, argv, i) = r
        BY <4>2, TurnSkips
      <4>4. out[i] = Shim!Parsed(d, n + 3)
        BY <2>3, <3>1, <4>3 DEF r
      <4>5. g.flag \in Shim!Valued \/ c["command"] # Unset
        BY <1>15, <1>17, <3>1
      <4>6. d["command"] = FirstNamed(c["command"], g)
        BY <2>1, <4>5 DEF FirstNamed, Stray
      <4>7. QED BY <2>1, <4>4, <4>6
    <3>2. CASE next = n + 2 /\ next # n + 3
      <4>1. g.flag \notin Shim!Valued
        BY <1>17, <2>a, <3>2
      <4>2. Stray(g)
        BY <2>a, <4>1 DEF Stray
      <4>3. ~argv[i].flag /\ argv[i].name = g.val
        BY <1>7, <2>a
      <4> DEFINE e == IF d.command = Unset THEN [d EXCEPT !["command"] = g.val] ELSE d
      <4>4. Shim!Turn(Shim!Parsed(d, i), argv, i) = Shim!Parsed(e, i + 1)
        <5> HIDE DEF i
        <5>1. Shim!Turn(Shim!Parsed(d, i), argv, i) =
                Shim!Parsed(IF d.command = Unset THEN [d EXCEPT !["command"] = argv[i].name] ELSE d, i + 1)
          BY <2>2, <4>3, TurnWord
        <5>2. QED BY <4>3, <5>1
      <4>5. /\ DOMAIN e = Fields /\ e["command"] = FirstNamed(c["command"], g)
            /\ \A f \in Meaningful : e[f] = d[f]
        BY <2>1, <4>2 DEF FirstNamed, Fields, Meaningful
      <4> HIDE DEF e
      <4>6. Takes(e, c, g)
        BY <2>1, <4>5 DEF Takes
      <4>7. out[i] = Shim!Parsed(e, n + 3)
        BY <2>2, <2>3, <3>2, <4>4
      <4>8. QED BY <4>5, <4>6, <4>7
    <3>3. QED BY <1>17, <3>1, <3>2
  <2>5. n + Width(g) = i /\ n + Width(g) + 1 = n + 3
    BY <1>19, <2>2
  <2>6. out[n + Width(g)] = out[i]
    BY <2>5
  <2> HIDE DEF n, g, i
  <2>7. QED BY <2>4, <2>5, <2>6 DEF n, g, Turned
<1>20. QED BY <1>9, <1>18, <1>19

LEMMA GroupRuns ==
    ASSUME NEW cmd \in Commands, NEW t, Lines(t, cmd, Len(cmd.groups)),
           NEW k \in 0 .. Len(cmd.groups) - 1,
           NEW argv, argv = t[Len(cmd.groups)],
           NEW out, Outs(out, argv, cmd.env, Len(argv)),
           cmd.groups[k + 1].flag \notin Mistyped,
           NEW c, Passed(out, Len(t[k]), c), CommandAfter(cmd, k, c["command"])
    PROVE  \E d : /\ Passed(out, Len(t[k + 1]), d) /\ CommandAfter(cmd, k + 1, d["command"])
                  /\ Takes(d, c, cmd.groups[k + 1])
<1> DEFINE g == cmd.groups[k + 1]
           m == Len(t[k + 1])
           n == Len(t[k]) + Width(g)
<1>1. PICK d : /\ DOMAIN d = Fields /\ Takes(d, c, g)
               /\ d["command"] = FirstNamed(c["command"], g)
               /\ \/ out[n] = Shim!Parsed(d, n + 1)
                  \/ Ate(cmd, k, c) /\ out[n] = Shim!Parsed(d, n + 2)
  <2>1. Turned(out, cmd, k, c, n)
    BY GroupTurns
  <2> HIDE DEF n, m
  <2>2. QED BY <2>1 DEF Turned
<1>2. "get-token" # Unset /\ d.command = d["command"]
  BY DEF Unset
<1>3. /\ argv \in Seq(Written) /\ Len(t[k]) \in Nat /\ m \in 1 .. Len(argv)
      /\ Follows(argv, cmd, k, Len(t[k]), m)
  BY GroupStands
<1>4. m = n + (IF k + 1 = cmd.before THEN 1 ELSE 0) /\ Len(argv) \in Nat
  BY <1>3 DEF Follows, Width
<1>5. n \in Nat
  <2>1. Width(g) = 1 \/ Width(g) = 2
    BY DEF Width
  <2> HIDE DEF g
  <2>2. QED BY <1>3, <2>1
<1>6. ASSUME NEW e, e["command"] = IF k + 1 = cmd.before /\ d["command"] = Unset THEN "get-token"
                                   ELSE d["command"]
      PROVE  CommandAfter(cmd, k + 1, e["command"])
  BY <1>1, <1>6, CommandMore
<1>7. CASE k + 1 # cmd.before
  <2>1. m = n
    <3> HIDE DEF m, n
    <3>1. QED BY <1>4, <1>5, <1>7
  <2>2. CommandAfter(cmd, k + 1, d["command"])
    BY <1>6, <1>7
  <2>3. Passed(out, m, d)
    <3> HIDE DEF m, n
    <3>1. QED BY <1>1, <1>7, <2>1 DEF Passed, Ate
  <2>4. QED BY <1>1, <2>2, <2>3
<1>8. CASE k + 1 = cmd.before
  <2>1. m = n + 1 /\ m - 1 = n /\ m + 1 = n + 2 /\ m \in Nat /\ m < m + 1
    <3> HIDE DEF m, n
    <3>1. QED BY <1>4, <1>5, <1>8
  <2>2. argv[m] = Word("get-token")
    BY <1>3, <1>8 DEF Follows
  <2>3. out[m] = Shim!Turn(out[n], argv, m)
    <3>1. \A i \in 1 .. Len(argv) : i \in 0 .. Len(argv) /\ i # 0
      BY <1>4
    <3>2. \A i \in 1 .. Len(argv) : out[i] = Shim!Turn(out[i - 1], argv, i)
      BY <3>1 DEF Outs
    <3> HIDE DEF m, n
    <3>3. QED BY <1>3, <2>1, <3>2
  <2>4. CASE Ate(cmd, k, c) /\ out[n] = Shim!Parsed(d, n + 2)
    <3> DEFINE r == Shim!Parsed(d, m + 1)
    <3>1. m < r.next
      <4>1. r.next = m + 1
        BY ParsedParts
      <4> HIDE DEF r, m
      <4>2. QED BY <2>1, <4>1
    <3> HIDE DEF r
    <3>2. Shim!Turn(r, argv, m) = r
      BY <3>1, TurnSkips
    <3>3. out[m] = r
      <4>1. out[n] = r
        BY <2>1, <2>4 DEF r
      <4> HIDE DEF m, n
      <4>2. QED BY <2>3, <3>2, <4>1
    <3>4. Passed(out, m, d)
      BY <1>1, <3>3 DEF Passed, r
    <3>5. d["command"] # Unset
      BY <1>1, <2>4 DEF Ate, FirstNamed
    <3>6. CommandAfter(cmd, k + 1, d["command"])
      BY <1>6, <3>5
    <3>7. QED BY <1>1, <3>4, <3>6
  <2>5. CASE out[n] = Shim!Parsed(d, n + 1)
    <3> DEFINE e == IF d.command = Unset THEN [d EXCEPT !["command"] = "get-token"] ELSE d
    <3>1. ~argv[m].flag /\ argv[m].name = "get-token"
      BY <2>2 DEF Word
    <3>2. out[m] = Shim!Parsed(e, m + 1)
      <4>1. out[n] = Shim!Parsed(d, m)
        BY <2>1, <2>5
      <4> HIDE DEF m, n
      <4>2. Shim!Turn(Shim!Parsed(d, m), argv, m) =
              Shim!Parsed(IF d.command = Unset THEN [d EXCEPT !["command"] = argv[m].name] ELSE d, m + 1)
        BY <2>1, <3>1, TurnWord
      <4>3. QED BY <2>3, <3>1, <4>1, <4>2
    <3>3. /\ DOMAIN e = Fields /\ \A f \in Meaningful : e[f] = d[f]
          /\ e["command"] = IF d["command"] = Unset THEN "get-token" ELSE d["command"]
      BY <1>1 DEF Fields, Meaningful
    <3> HIDE DEF e
    <3>4. Takes(e, c, g)
      BY <1>1, <3>3 DEF Takes
    <3>5. CommandAfter(cmd, k + 1, e["command"])
      BY <1>6, <1>8, <3>3
    <3>6. Passed(out, m, e)
      BY <3>2, <3>3 DEF Passed
    <3>7. QED BY <3>4, <3>5, <3>6
  <2>6. QED BY <1>1, <2>4, <2>5
<1>9. QED BY <1>7, <1>8

\* What the first k groups meant.
GiftsSoFar(cmd, f, k) == GiftsTo(cmd, f)[k]
MeantBy(cmd, f, k) ==
    IF GiftsSoFar(cmd, f, k) = << >> THEN Shim!Defaults(cmd.env)[f]
    ELSE IF f \in ListFields THEN GiftsSoFar(cmd, f, k) ELSE Last(GiftsSoFar(cmd, f, k))
GiftSet == {Gift(g) : g \in Group}

LEMMA GiftsGrow ==
    ASSUME NEW cmd \in Commands, NEW f
    PROVE  /\ GiftsSoFar(cmd, f, 0) = << >>
           /\ \A k \in 0 .. Len(cmd.groups) - 1 :
                GiftsSoFar(cmd, f, k + 1) =
                  IF Gives(cmd.groups[k + 1], f) THEN Append(GiftsSoFar(cmd, f, k), Gift(cmd.groups[k + 1]))
                  ELSE GiftsSoFar(cmd, f, k)
<1> DEFINE h == GiftsTo(cmd, f)
           N == Len(cmd.groups)
<1>1. N \in Nat
  BY CommandShape
<1>2. h = [i \in 0 .. N |->
             IF i = 0 THEN << >>
             ELSE IF Gives(cmd.groups[i], f) THEN Append(h[i - 1], Gift(cmd.groups[i])) ELSE h[i - 1]]
  BY GivenAs DEF Gifts
<1> HIDE DEF h, N
<1>3. h[0] = << >>
  BY <1>1, <1>2
<1>4. ASSUME NEW k \in 0 .. N - 1
      PROVE  h[k + 1] = IF Gives(cmd.groups[k + 1], f) THEN Append(h[k], Gift(cmd.groups[k + 1])) ELSE h[k]
  <2>1. k + 1 \in 0 .. N /\ k + 1 # 0 /\ k + 1 - 1 = k
    BY <1>1
  <2>2. \A i \in 0 .. N :
          h[i] = IF i = 0 THEN << >>
                 ELSE IF Gives(cmd.groups[i], f) THEN Append(h[i - 1], Gift(cmd.groups[i])) ELSE h[i - 1]
    BY <1>2
  <2>3. QED BY <2>1, <2>2
<1>5. QED BY <1>3, <1>4 DEF h, N, GiftsSoFar

LEMMA LastAppended ==
    ASSUME NEW S, NEW s \in Seq(S), NEW x \in S
    PROVE  Append(s, x) \in Seq(S) /\ Append(s, x) # << >> /\ Last(Append(s, x)) = x
<1>1. /\ Append(s, x) \in Seq(S) /\ Len(Append(s, x)) = Len(s) + 1
      /\ Len(s) \in Nat /\ Append(s, x)[Len(s) + 1] = x
  OBVIOUS
<1>2. Len(<< >>) = 0
  OBVIOUS
<1>3. Append(s, x) # << >>
  BY <1>1, <1>2
<1>4. QED BY <1>1, <1>3 DEF Last

LEMMA MeantMore ==
    ASSUME NEW cmd \in Commands, NEW k \in 0 .. Len(cmd.groups) - 1, NEW f \in Meaningful,
           GiftsSoFar(cmd, f, k) \in Seq(GiftSet)
    PROVE  /\ GiftsSoFar(cmd, f, k + 1) \in Seq(GiftSet)
           /\ MeantBy(cmd, f, k + 1) =
                IF ~Gives(cmd.groups[k + 1], f) THEN MeantBy(cmd, f, k)
                ELSE IF f \in ListFields THEN Append(MeantBy(cmd, f, k), Gift(cmd.groups[k + 1]))
                ELSE Gift(cmd.groups[k + 1])
<1> DEFINE g == cmd.groups[k + 1]
           h == GiftsSoFar(cmd, f, k)
           x == Gift(g)
           y == GiftsSoFar(cmd, f, k + 1)
           D == Shim!Defaults(cmd.env)[f]
<1>1. y = IF Gives(g, f) THEN Append(h, x) ELSE h
  BY GiftsGrow
<1>2. x \in GiftSet
  <2>1. k + 1 \in 1 .. Len(cmd.groups)
    BY CommandShape
  <2>2. g \in Group
    BY <2>1, CommandShape
  <2>3. QED BY <2>2 DEF GiftSet
<1>3. f \in ListFields => D = << >>
  <2>1. Shim!Defaults(cmd.env)["headers"] = << >> /\ Shim!Defaults(cmd.env)["headerFiles"] = << >>
    BY DEF Shim!Defaults
  <2>2. QED BY <2>1 DEF ListFields
<1>4. /\ MeantBy(cmd, f, k) = IF h = << >> THEN D ELSE IF f \in ListFields THEN h ELSE Last(h)
      /\ MeantBy(cmd, f, k + 1) = IF y = << >> THEN D ELSE IF f \in ListFields THEN y ELSE Last(y)
      /\ h \in Seq(GiftSet)
  BY DEF MeantBy
<1> HIDE DEF g, h, x, y, D
<1>5. Append(h, x) \in Seq(GiftSet) /\ Append(h, x) # << >> /\ Last(Append(h, x)) = x
  BY <1>2, <1>4, LastAppended
<1>6. /\ y \in Seq(GiftSet)
      /\ MeantBy(cmd, f, k + 1) =
                IF ~Gives(g, f) THEN MeantBy(cmd, f, k)
                ELSE IF f \in ListFields THEN Append(MeantBy(cmd, f, k), x)
                ELSE x
  BY <1>1, <1>3, <1>4, <1>5
<1>7. QED BY <1>6 DEF g, h, x, y

Understood(out, n, cmd, k) ==
    \E c : /\ Passed(out, n, c) /\ CommandAfter(cmd, k, c["command"])
           /\ \A f \in Meaningful : c[f] = MeantBy(cmd, f, k)

LEMMA GiftsTyped ==
    ASSUME NEW cmd \in Commands, NEW f \in Meaningful
    PROVE  \A k \in 0 .. Len(cmd.groups) : GiftsSoFar(cmd, f, k) \in Seq(GiftSet)
<1> DEFINE T == {k \in Nat : k <= Len(cmd.groups) => GiftsSoFar(cmd, f, k) \in Seq(GiftSet)}
<1>1. Len(cmd.groups) \in Nat
  BY CommandShape
<1>2. 0 \in T
  <2>1. GiftsSoFar(cmd, f, 0) = << >>
    BY GiftsGrow
  <2>2. << >> \in Seq(GiftSet)
    OBVIOUS
  <2>3. QED BY <2>1, <2>2
<1>3. ASSUME NEW k \in T PROVE k + 1 \in T
  <2> SUFFICES ASSUME k + 1 <= Len(cmd.groups) PROVE GiftsSoFar(cmd, f, k + 1) \in Seq(GiftSet)
    OBVIOUS
  <2>1. k \in 0 .. Len(cmd.groups) - 1 /\ k <= Len(cmd.groups)
    BY <1>1
  <2>2. GiftsSoFar(cmd, f, k) \in Seq(GiftSet)
    BY <2>1
  <2>3. QED BY <2>1, <2>2, MeantMore
<1> HIDE DEF T
<1>4. T = Nat
  <2>1. T \in SUBSET Nat
    BY DEF T
  <2>2. QED BY <1>2, <1>3, <2>1, Induction
<1>5. QED BY <1>1, <1>4 DEF T

LEMMA FirstWord ==
    ASSUME NEW cmd \in Commands, NEW t, Lines(t, cmd, Len(cmd.groups)),
           NEW argv, argv = t[Len(cmd.groups)],
           NEW out, Outs(out, argv, cmd.env, Len(argv))
    PROVE  Understood(out, Len(t[0]), cmd, 0)
<1> DEFINE N == Len(cmd.groups)
           c == Shim!Defaults(cmd.env)
<1>1. N \in Nat /\ 0 \in 0 .. N /\ N \in 0 .. N /\ cmd.before \in Nat
  BY CommandShape
<1>2. /\ t[0] \in Seq(Written) /\ argv \in Seq(Written)
      /\ Len(t[0]) <= Len(argv) /\ \A j \in 1 .. Len(t[0]) : argv[j] = t[0][j]
  BY <1>1, Prefix
<1>3. t[0] = SubcommandAt(cmd, 0)
  BY <1>1 DEF Lines
<1>4. Len(argv) \in Nat /\ out[0] = Shim!Parsed(c, 1)
  BY <1>2 DEF Outs, Started
<1>5. DOMAIN c = Fields
  BY DefaultFields
<1>6. c["command"] = Unset
  BY DEF Shim!Defaults, Shim!Unset, Unset
<1>7. \A f \in Meaningful : c[f] = MeantBy(cmd, f, 0)
  BY GiftsGrow DEF MeantBy
<1>a. \A w : w = (IF cmd.before <= 0 THEN "get-token" ELSE Unset) => CommandAfter(cmd, 0, w)
  BY DEF CommandAfter
<1>8. CASE cmd.before # 0
  <2>1. Len(t[0]) = 0 /\ CommandAfter(cmd, 0, Unset)
    BY <1>1, <1>3, <1>8, <1>a DEF SubcommandAt
  <2> HIDE DEF c
  <2>2. Passed(out, 0, c)
    BY <1>4, <1>5 DEF Passed
  <2>3. QED BY <1>6, <1>7, <2>1, <2>2 DEF Understood
<1>9. CASE cmd.before = 0
  <2>1. t[0] = <<Word("get-token")>> /\ CommandAfter(cmd, 0, "get-token")
    BY <1>3, <1>9, <1>a DEF SubcommandAt
  <2>2. Len(t[0]) = 1 /\ t[0][1] = Word("get-token")
    BY <2>1
  <2>3. 1 \in 1 .. Len(argv) /\ argv[1] = Word("get-token") /\ 1 \in 0 .. Len(argv)
    BY <1>2, <1>4, <2>2
  <2>4. out[1] = Shim!Turn(Shim!Parsed(c, 1), argv, 1)
    <3> HIDE DEF c
    <3>1. out[1] = Shim!Turn(out[0], argv, 1)
      BY <2>3 DEF Outs
    <3>2. QED BY <1>4, <3>1
  <2> DEFINE e == [c EXCEPT !["command"] = "get-token"]
  <2> HIDE DEF c
  <2>5. out[1] = Shim!Parsed(e, 2)
    <3>1. ~argv[1].flag /\ argv[1].name = "get-token"
      BY <2>3 DEF Word
    <3>2. c.command = Unset /\ 1 \in Nat /\ 1 + 1 = 2
      BY <1>6
    <3>3. Shim!Turn(Shim!Parsed(c, 1), argv, 1) = Shim!Parsed(e, 1 + 1)
      BY <3>1, <3>2, TurnWord
    <3>4. QED BY <2>4, <3>2, <3>3
  <2>6. DOMAIN e = Fields /\ e["command"] = "get-token" /\ \A f \in Meaningful : e[f] = c[f]
    BY <1>5 DEF Fields, Meaningful
  <2> HIDE DEF e
  <2>7. Passed(out, Len(t[0]), e)
    BY <2>2, <2>5, <2>6 DEF Passed
  <2>8. QED BY <1>7, <2>1, <2>6, <2>7 DEF Understood
<1>10. QED BY <1>8, <1>9

LEMMA GroupsUnderstood ==
    ASSUME NEW cmd \in Commands, NEW t, Lines(t, cmd, Len(cmd.groups)),
           NEW argv, argv = t[Len(cmd.groups)],
           NEW out, Outs(out, argv, cmd.env, Len(argv))
    PROVE  \A k \in 0 .. Len(cmd.groups) :
             (\A i \in 1 .. k : cmd.groups[i].flag \notin Mistyped)
               => Understood(out, Len(t[k]), cmd, k)
<1> DEFINE N == Len(cmd.groups)
           Right(k) == \A i \in 1 .. k : cmd.groups[i].flag \notin Mistyped
           T == {k \in Nat : k <= N /\ Right(k) => Understood(out, Len(t[k]), cmd, k)}
<1>1. N \in Nat
  BY CommandShape
<1>2. 0 \in T
  BY FirstWord
<1>3. ASSUME NEW k \in T PROVE k + 1 \in T
  <2> SUFFICES ASSUME k + 1 <= N, Right(k + 1) PROVE Understood(out, Len(t[k + 1]), cmd, k + 1)
    OBVIOUS
  <2>1. /\ k \in 0 .. N - 1 /\ k \in 0 .. N /\ k <= N /\ k + 1 \in 1 .. k + 1
        /\ \A i \in 1 .. k : i \in 1 .. k + 1
    BY <1>1
  <2>2. Right(k) /\ cmd.groups[k + 1].flag \notin Mistyped
    BY <2>1
  <2>3. PICK c : /\ Passed(out, Len(t[k]), c) /\ CommandAfter(cmd, k, c["command"])
                 /\ \A f \in Meaningful : c[f] = MeantBy(cmd, f, k)
    BY <2>1, <2>2 DEF Understood
  <2>4. PICK d : /\ Passed(out, Len(t[k + 1]), d) /\ CommandAfter(cmd, k + 1, d["command"])
                 /\ Takes(d, c, cmd.groups[k + 1])
    BY <2>1, <2>2, <2>3, GroupRuns
  <2>5. ASSUME NEW f \in Meaningful PROVE d[f] = MeantBy(cmd, f, k + 1)
    <3>1. GiftsSoFar(cmd, f, k) \in Seq(GiftSet)
      BY <2>1, GiftsTyped
    <3>2. MeantBy(cmd, f, k + 1) =
            IF ~Gives(cmd.groups[k + 1], f) THEN MeantBy(cmd, f, k)
            ELSE IF f \in ListFields THEN Append(MeantBy(cmd, f, k), Gift(cmd.groups[k + 1]))
            ELSE Gift(cmd.groups[k + 1])
      BY <2>1, <3>1, MeantMore
    <3>3. QED BY <2>3, <2>4, <3>2 DEF Takes
  <2>6. QED BY <2>4, <2>5 DEF Understood
<1> HIDE DEF T
<1>4. T = Nat
  <2>1. T \in SUBSET Nat
    BY DEF T
  <2>2. QED BY <1>2, <1>3, <2>1, Induction
<1>5. QED BY <1>1, <1>4 DEF T

\* What follows a mistyped flag is not read.
LEMMA MistypedTurn ==
    ASSUME NEW c, NEW argv, NEW i \in Nat, argv[i].flag, argv[i].name \in Mistyped
    PROVE  Shim!Turn(Shim!Parsed(c, i), argv, i).error
<1> DEFINE s == Shim!Parsed(c, i)
<1>1. ~s.error /\ s.next = i
  BY ParsedParts
<1>2. ~(s.error \/ i < s.next)
  <2> HIDE DEF s
  <2>1. QED BY <1>1
<1>3. /\ argv[i].name \notin Shim!Valued /\ argv[i].name \notin DOMAIN Shim!BOOL_FLAGS
      /\ argv[i].name \notin DOMAIN Shim!HELP_FLAGS
  BY MistypedAssumption
<1>4. argv[i].name \notin DOMAIN Shim!VALUE_FLAGS /\ argv[i].name \notin DOMAIN Shim!ARRAY_FLAGS
  BY <1>3 DEF Shim!Valued
<1> HIDE DEF s
<1>5. Shim!Turn(s, argv, i) = Shim!Threw(s)
  BY <1>2, <1>3, <1>4 DEF Shim!Turn
<1>6. QED BY <1>5, ParsedParts DEF s

LEMMA ErrorStays ==
    ASSUME NEW argv, NEW env, NEW out, Len(argv) \in Nat, Outs(out, argv, env, Len(argv)),
           NEW i \in 0 .. Len(argv), out[i].error
    PROVE  out[Len(argv)].error
<1> DEFINE L == Len(argv)
           T == {n \in Nat : i + n <= L => out[i + n].error}
<1>1. \A j \in 1 .. L : out[j] = Shim!Turn(out[j - 1], argv, j)
  <2>1. \A j \in 1 .. L : j \in 0 .. L /\ j # 0
    OBVIOUS
  <2>2. QED BY <2>1 DEF Outs
<1>2. 0 \in T
  OBVIOUS
<1>3. ASSUME NEW n \in T PROVE n + 1 \in T
  <2> SUFFICES ASSUME i + (n + 1) <= L PROVE out[i + (n + 1)].error
    OBVIOUS
  <2>1. i + (n + 1) \in 1 .. L /\ i + (n + 1) - 1 = i + n /\ i + n <= L
    OBVIOUS
  <2>2. out[i + (n + 1)] = Shim!Turn(out[i + n], argv, i + (n + 1))
    BY <1>1, <2>1
  <2>3. out[i + n].error
    BY <2>1
  <2>4. QED BY <2>2, <2>3, TurnSkips
<1> HIDE DEF T
<1>4. T = Nat
  <2>1. T \in SUBSET Nat
    BY DEF T
  <2>2. QED BY <1>2, <1>3, <2>1, Induction
<1>5. L - i \in T /\ i + (L - i) = L
  BY <1>4
<1>6. QED BY <1>5 DEF T

LEMMA MistypedRefused ==
    ASSUME NEW cmd \in Commands, NEW i \in 1 .. Len(cmd.groups), cmd.groups[i].flag \in Mistyped
    PROVE  Shim!parseArgs(Argv(cmd), cmd.env).error
<1> DEFINE N == Len(cmd.groups)
           argv == Argv(cmd)
           T == {j \in 1 .. N : cmd.groups[j].flag \in Mistyped}
<1>1. PICK t : Lines(t, cmd, N) /\ argv = t[N]
  BY WrittenAs
<1>2. N \in Nat
  BY CommandShape
<1>3. argv \in Seq(Written) /\ Len(argv) \in Nat
  <2>1. N \in 0 .. N
    BY <1>2
  <2>2. t[N] \in Seq(Written)
    BY <1>1, <2>1, Prefix
  <2>3. QED BY <1>1, <2>2
<1> HIDE DEF argv
<1>4. PICK out : Outs(out, argv, cmd.env, Len(argv)) /\ Shim!parseArgs(argv, cmd.env) = out[Len(argv)]
  BY <1>3, ShimParsedAs
<1>5. PICK m \in T : \A j \in T : m <= j
  <2>1. T \in SUBSET Nat /\ T # {}
    OBVIOUS
  <2> HIDE DEF T
  <2>2. QED BY <2>1, Least
<1> DEFINE k == m - 1
<1>6. k \in 0 .. N - 1 /\ k \in 0 .. N /\ k + 1 = m /\ \A j \in 1 .. k : j \in 1 .. N /\ ~(m <= j)
  BY <1>2
<1>7. cmd.groups[k + 1].flag \in Mistyped /\ \A j \in 1 .. k : cmd.groups[j].flag \notin Mistyped
  BY <1>5, <1>6
<1> HIDE DEF k, T, N
<1>8. PICK c : Passed(out, Len(t[k]), c)
  <2>1. Understood(out, Len(t[k]), cmd, k)
    BY <1>1, <1>4, <1>6, <1>7, GroupsUnderstood DEF N
  <2>2. QED BY <2>1 DEF Understood
<1> DEFINE n == Len(t[k])
           x == n + 1
<1>9. /\ n \in Nat /\ Len(t[k + 1]) \in 1 .. Len(argv) /\ Follows(argv, cmd, k, n, Len(t[k + 1]))
  BY <1>1, <1>6, GroupStands DEF N
<1>10. argv[x].flag /\ argv[x].name \in Mistyped
  BY <1>7, <1>9 DEF Follows, Flag, FlagIs
<1>11. x \in Nat /\ x \in 0 .. Len(argv) /\ x # 0 /\ x - 1 = n
  <2>1. n + 1 \in 1 .. Len(t[k + 1])
    BY <1>9, Counted
  <2> HIDE DEF n
  <2>2. QED BY <1>3, <1>9, <2>1
<1>12. out[x] = Shim!Turn(Shim!Parsed(c, x), argv, x)
  <2>1. out[n] = Shim!Parsed(c, x)
    BY <1>8 DEF Passed
  <2> HIDE DEF n, x
  <2>2. out[x] = Shim!Turn(out[x - 1], argv, x)
    BY <1>4, <1>11 DEF Outs
  <2>3. QED BY <1>11, <2>1, <2>2
<1> HIDE DEF x
<1>13. out[x].error
  BY <1>10, <1>11, <1>12, MistypedTurn
<1>14. out[Len(argv)].error
  BY <1>3, <1>4, <1>11, <1>13, ErrorStays
<1>15. QED BY <1>4, <1>14 DEF argv

LEMMA ShimUnderstands ==
    ASSUME NEW cmd \in Commands, \A i \in 1 .. Len(cmd.groups) : cmd.groups[i].flag \notin Mistyped
    PROVE  LET c == Shim!parseArgs(Argv(cmd), cmd.env).cfg
           IN  /\ DOMAIN c = Fields /\ c["command"] = Subcommand(cmd) /\ c["command"] # Unset
               /\ \A f \in Meaningful : c[f] = Intended(cmd, f)
<1> DEFINE N == Len(cmd.groups)
           argv == Argv(cmd)
<1>1. PICK t : Lines(t, cmd, N) /\ argv = t[N]
  BY WrittenAs
<1>2. N \in Nat /\ N \in 0 .. N /\ cmd.before <= N
  BY CommandShape
<1>3. argv \in Seq(Written) /\ Len(argv) \in Nat
  <2>1. t[N] \in Seq(Written)
    BY <1>1, <1>2, Prefix
  <2>2. QED BY <1>1, <2>1
<1> HIDE DEF argv
<1>4. PICK out : Outs(out, argv, cmd.env, Len(argv)) /\ Shim!parseArgs(argv, cmd.env) = out[Len(argv)]
  BY <1>3, ShimParsedAs
<1>5. Understood(out, Len(t[N]), cmd, N)
  BY <1>1, <1>2, <1>4, GroupsUnderstood
<1>6. PICK c : /\ Passed(out, Len(t[N]), c) /\ CommandAfter(cmd, N, c["command"])
               /\ \A f \in Meaningful : c[f] = MeantBy(cmd, f, N)
  BY <1>5 DEF Understood
<1>7. c = Shim!parseArgs(argv, cmd.env).cfg /\ DOMAIN c = Fields
  <2>1. out[Len(argv)] = Shim!Parsed(c, Len(argv) + 1) /\ DOMAIN c = Fields
    BY <1>1, <1>6 DEF Passed
  <2>2. QED BY <1>4, <2>1, ParsedParts
<1>8. c["command"] = Subcommand(cmd) /\ c["command"] # Unset
  BY <1>2, <1>6, CommandIs, CommandThere
<1>9. ASSUME NEW f \in Meaningful PROVE MeantBy(cmd, f, N) = Intended(cmd, f)
  <2>1. Given(cmd, f) = GiftsSoFar(cmd, f, N)
    BY GivenAs DEF GiftsSoFar
  <2>2. f \in ListFields <=> f \in {"headers", "headerFiles"}
    BY DEF ListFields
  <2>3. QED BY <2>1, <2>2 DEF MeantBy, Intended
<1>10. QED BY <1>6, <1>7, <1>8, <1>9 DEF argv

-----------------------------------------------------------------------------
(* How a server id is spelled *)

LEMMA TrimmedTo ==
    ASSUME NEW S, NEW s \in Seq(S), NEW n \in 1 .. Len(s), s[n] # "/",
           \A i \in n + 1 .. Len(s) : s[i] = "/"
    PROVE  Shim!TrimSlashes(s) = SubSeq(s, 1, n)
<1> DEFINE U == {0} \cup {i \in DOMAIN s : s[i] # "/"}
<1>1. n \in U /\ \A y \in U : y \in Nat /\ n >= y
  OBVIOUS
<1> DEFINE m == Shim!Max(U)
<1>2. m = CHOOSE x \in U : \A y \in U : x >= y
  BY DEF Shim!Max
<1> HIDE DEF U, m
<1>3. m \in U /\ \A y \in U : m >= y
  BY <1>1, <1>2
<1>4. m = n
  <2>1. m >= n /\ n >= m /\ m \in Nat /\ n \in Nat
    BY <1>1, <1>3
  <2>2. QED BY <2>1
<1>5. QED BY <1>4 DEF Shim!TrimSlashes, U, m

LEMMA One == ASSUME NEW S, NEW s \in Seq(S), s # << >> PROVE SubSeq(s, 1, 1) = <<s[1]>>
<1> DEFINE r == SubSeq(s, 1, 1)
<1>1. 1 \in 1 .. Len(s)
  OBVIOUS
<1>2. r \in Seq(S) /\ Len(r) = 1 /\ r[1] = s[1]
  BY <1>1, SubSeqProperties
<1> HIDE DEF r
<1>3. r = <<s[1]>>
  BY <1>2
<1>4. QED BY <1>3 DEF r

\* A server id comes out of its scope as its name, however it is spelled.
LEMMA NameComesThrough ==
    ASSUME NEW id \in DOMAIN Spelling
    PROVE  Shim!serverIDFromScope(Shim!getScope(id)) = <<Head(Spelling[id])>>
<1> DEFINE s == Spelling[id]
           S == STRING \cup {Suffix}
           U == {i \in 1 .. Len(s) : s[i] # "/"}
<1>1. /\ s \in Seq(S) /\ s # << >> /\ s[1] \notin {"/", Suffix}
      /\ \A i \in 2 .. Len(s) : s[i] \in {"/", Suffix}
      /\ \A i, j \in 1 .. Len(s) : s[i] = Suffix /\ s[j] = Suffix => i = j
  BY SpellingAssumption
<1>2. Suffix = Shim!Suffix /\ Suffix \in S
  BY DEF Suffix, Shim!Suffix
<1> HIDE DEF s, S
<1>3. PICK n \in U : \A i \in U : i <= n
  <2> DEFINE V == {Len(s) - i : i \in U}
  <2>1. 1 \in U /\ V \in SUBSET Nat /\ Len(s) - 1 \in V
    BY <1>1
  <2>2. PICK x \in V : \A y \in V : x <= y
    <3> HIDE DEF V
    <3>1. QED BY <2>1, Least
  <2>3. PICK n \in U : x = Len(s) - n
    OBVIOUS
  <2>4. \A i \in U : Len(s) - i \in V
    OBVIOUS
  <2>5. \A i \in U : i <= n
    <3>1. \A i \in U : i \in Nat
      OBVIOUS
    <3>2. Len(s) \in Nat
      BY <1>1
    <3> HIDE DEF U, V
    <3>3. QED BY <2>2, <2>3, <2>4, <3>1, <3>2
  <2>6. QED BY <2>5
<1> DEFINE trimmed == SubSeq(s, 1, n)
<1>4. /\ n \in 1 .. Len(s) /\ s[n] # "/" /\ \A i \in n + 1 .. Len(s) : s[i] = "/"
  <2>1. n \in 1 .. Len(s) /\ s[n] # "/" /\ Len(s) \in Nat
    BY <1>1
  <2>2. ASSUME NEW i \in n + 1 .. Len(s), s[i] # "/" PROVE FALSE
    <3>1. i \in U /\ ~(i <= n)
      BY <2>1, <2>2
    <3>2. QED BY <1>3, <3>1
  <2>3. QED BY <2>1, <2>2
<1> HIDE DEF U
<1>5. Shim!TrimSlashes(s) = trimmed
  BY <1>1, <1>4, TrimmedTo
<1>6. /\ trimmed \in Seq(S) /\ Len(trimmed) = n /\ \A i \in 1 .. n : trimmed[i] = s[i]
  <2>1. 1 \in Int /\ n \in Int /\ \A i \in 1 .. n : s[i] \in S
    BY <1>1, <1>4
  <2>2. /\ trimmed \in Seq(S) /\ Len(trimmed) = (IF 1 <= n THEN n - 1 + 1 ELSE 0)
        /\ \A i \in 1 .. n - 1 + 1 : trimmed[i] = s[1 + i - 1]
    BY <2>1, SubSeqProperties
  <2> HIDE DEF trimmed
  <2>3. QED BY <1>4, <2>2
<1> HIDE DEF trimmed
<1>7. Shim!Suffixed(trimmed) <=> s[n] = Suffix
  BY <1>2, <1>4, <1>6 DEF Shim!Suffixed, Shim!Last
<1>8. CASE s[n] = Suffix
  <2> DEFINE f == SubSeq(trimmed, 1, n - 1)
  <2>1. n # 1 /\ n - 1 \in 1 .. n /\ \A i \in 2 .. n - 1 : s[i] = "/"
    <3>1. n # 1
      BY <1>1, <1>8
    <3>2. ASSUME NEW i \in 2 .. n - 1 PROVE s[i] = "/"
      <4>1. i \in 2 .. Len(s) /\ i \in 1 .. Len(s) /\ i # n
        BY <1>1, <1>4
      <4>2. QED BY <1>1, <1>4, <1>8, <4>1
    <3>3. QED BY <1>4, <3>1, <3>2
  <2>2. /\ f \in Seq(S) /\ Len(f) = n - 1 /\ \A i \in 1 .. n - 1 : f[i] = s[i]
    <3>1. 1 \in Int /\ n - 1 \in Int /\ \A i \in 1 .. n - 1 : trimmed[i] \in S /\ i \in 1 .. n
      BY <1>4, <1>6
    <3>2. /\ f \in Seq(S) /\ Len(f) = (IF 1 <= n - 1 THEN n - 1 - 1 + 1 ELSE 0)
          /\ \A i \in 1 .. n - 1 - 1 + 1 : f[i] = trimmed[1 + i - 1]
      BY <3>1, SubSeqProperties
    <3> HIDE DEF f
    <3>3. Len(f) = n - 1
      BY <1>4, <2>1, <3>2
    <3>4. \A i \in 1 .. n - 1 : i \in 1 .. n - 1 - 1 + 1 /\ 1 + i - 1 = i /\ i \in 1 .. n
      BY <1>4
    <3>5. \A i \in 1 .. n - 1 : f[i] = s[i]
      BY <1>6, <3>2, <3>4
    <3>6. QED BY <3>2, <3>3, <3>5
  <2>3. Shim!getScope(id) = trimmed /\ Shim!Suffixed(trimmed)
    BY <1>5, <1>7, <1>8 DEF Shim!getScope, s
  <2>4. Shim!Front(trimmed) = f
    BY <1>6 DEF Shim!Front
  <2> HIDE DEF f
  <2>5. Shim!serverIDFromScope(trimmed) = Shim!TrimSlashes(f)
    BY <2>3, <2>4 DEF Shim!serverIDFromScope
  <2>6. Shim!TrimSlashes(f) = SubSeq(f, 1, 1)
    <3>1. 1 \in 1 .. Len(f) /\ f[1] # "/"
      BY <1>1, <1>4, <2>1, <2>2
    <3>2. \A i \in 1 + 1 .. Len(f) : f[i] = "/"
      BY <1>4, <2>1, <2>2
    <3>3. QED BY <2>2, <3>1, <3>2, TrimmedTo
  <2>7. SubSeq(f, 1, 1) = <<s[1]>>
    <3>1. f # << >> /\ f[1] = s[1]
      BY <1>4, <2>1, <2>2
    <3>2. SubSeq(f, 1, 1) = <<f[1]>>
      BY <2>2, <3>1, One
    <3>3. QED BY <3>1, <3>2
  <2>8. QED BY <1>1, <2>3, <2>5, <2>6, <2>7 DEF s
<1>9. CASE s[n] # Suffix
  <2>1. n = 1
    BY <1>1, <1>4, <1>9
  <2>2. trimmed = <<s[1]>>
    BY <1>6, <2>1
  <2> DEFINE scope == Append(trimmed, Shim!Suffix)
             f == Shim!Front(scope)
  <2>3. Shim!getScope(id) = scope
    BY <1>5, <1>7, <1>9 DEF Shim!getScope, s
  <2>4. /\ scope \in Seq(S) /\ Len(scope) = 2 /\ scope[1] = s[1] /\ scope[2] = Suffix
    BY <1>2, <1>6, <2>1, <2>2
  <2> HIDE DEF scope
  <2>5. Shim!Suffixed(scope)
    <3>1. scope # << >> /\ scope[Len(scope)] = Shim!Suffix
      BY <1>2, <2>4
    <3>2. QED BY <3>1 DEF Shim!Suffixed, Shim!Last
  <2>6. f = <<s[1]>>
    <3>1. f = SubSeq(scope, 1, 1)
      BY <2>4 DEF Shim!Front
    <3>2. scope # << >>
      <4>1. Len(scope) = 2 /\ Len(<< >>) = 0
        BY <2>4
      <4>2. QED BY <4>1
    <3>3. QED BY <2>4, <3>1, <3>2, One
  <2> HIDE DEF f
  <2>7. f \in Seq(S) /\ Len(f) = 1 /\ f[1] = s[1] /\ f[1] # "/" /\ f # << >>
    BY <1>1, <2>6
  <2>8. Shim!TrimSlashes(f) = <<s[1]>>
    <3>1. 1 \in 1 .. Len(f) /\ \A i \in 1 + 1 .. Len(f) : f[i] = "/"
      BY <2>7
    <3>2. Shim!TrimSlashes(f) = SubSeq(f, 1, 1)
      BY <2>7, <3>1, TrimmedTo
    <3>3. QED BY <2>7, <3>2, One
  <2>9. Shim!serverIDFromScope(scope) = Shim!TrimSlashes(f)
    BY <2>5 DEF Shim!serverIDFromScope, f
  <2>10. QED BY <1>1, <2>3, <2>8, <2>9 DEF s
<1>10. QED BY <1>8, <1>9

-----------------------------------------------------------------------------
(* The command line that kubelogin took *)

ShimReads(cmd) == Shim!parseArgs(Argv(cmd), cmd.env)

Understandable(c) == c["command"] \in {Unset, "", "get-token"}

\* What a shim works with is what it read, and it goes on with nothing that it could not read.
ArgInv ==
    /\ command \in [Plugin -> Commands]
    /\ cfg = [p \in Plugin |-> cfg[p]] /\ outcome = [p \in Plugin |-> outcome[p]]
    /\ \A p \in Plugin : cfg[p] # << >> =>
         /\ cfg[p] = ShimReads(command[p]).cfg
         /\ ShimReads(command[p]).error => outcome[p] = "failed"
         /\ Understandable(cfg[p]) \/ outcome[p] \in {"usage", "failed"}

LEMMA ArgSuffices == ArgInv => DropIn
<1> SUFFICES ASSUME ArgInv, NEW p \in Plugin, cfg[p] # << >>
             PROVE  IF \E g \in ToSet(command[p].groups) : g.flag \in Mistyped
                    THEN outcome[p] = "failed"
                    ELSE /\ \A field \in DOMAIN cfg[p] \ {"command", "help", "version"} :
                                cfg[p][field] = Intended(command[p], field)
                         /\ cfg[p].command = Subcommand(command[p])
                         /\ cfg[p].command \notin {"get-token", ""} => outcome[p] \in {"usage", "failed"}
  BY DEF DropIn
<1> DEFINE cmd == command[p]
           c == cfg[p]
<1>1. /\ cmd \in Commands /\ c = ShimReads(cmd).cfg /\ (ShimReads(cmd).error => outcome[p] = "failed")
      /\ Understandable(c) \/ outcome[p] \in {"usage", "failed"}
  BY DEF ArgInv
<1>2. DOMAIN cmd.groups = 1 .. Len(cmd.groups)
  <2> DEFINE gs == cmd.groups
  <2>1. gs \in Seq(Group)
    BY <1>1, CommandShape
  <2> HIDE DEF gs
  <2>2. DOMAIN gs = 1 .. Len(gs)
    BY <2>1
  <2>3. QED BY <2>2 DEF gs
<1> HIDE DEF cmd, c
<1>3. CASE \E g \in ToSet(cmd.groups) : g.flag \in Mistyped
  <2>1. PICK i \in 1 .. Len(cmd.groups) : cmd.groups[i].flag \in Mistyped
    BY <1>2, <1>3 DEF ToSet
  <2>2. ShimReads(cmd).error
    BY <1>1, <2>1, MistypedRefused DEF ShimReads
  <2>3. QED BY <1>1, <1>3, <2>2 DEF cmd
<1>4. CASE ~ \E g \in ToSet(cmd.groups) : g.flag \in Mistyped
  <2>1. \A i \in 1 .. Len(cmd.groups) : cmd.groups[i].flag \notin Mistyped
    BY <1>2, <1>4 DEF ToSet
  <2>2. /\ DOMAIN c = Fields /\ c["command"] = Subcommand(cmd) /\ c["command"] # Unset
        /\ \A f \in Meaningful : c[f] = Intended(cmd, f)
    BY <1>1, <2>1, ShimUnderstands DEF ShimReads
  <2>4. c.command \notin {"get-token", ""} => outcome[p] \in {"usage", "failed"}
    BY <1>1, <2>2 DEF Understandable
  <2>5. QED BY <1>4, <2>2, <2>4 DEF Meaningful, cmd, c
<1>5. QED BY <1>3, <1>4

LEMMA ArgInit == ExchangeInit => ArgInv
  BY DEF ExchangeInit, ArgInv

LEMMA ArgStep == ASSUME ArgInv, [ExchangeNext]_everything PROVE ArgInv'
<1>1. ASSUME UNCHANGED shims PROVE ArgInv'
  BY <1>1 DEF ArgInv, shims
<1>2. ASSUME NEW p \in Plugin, ShimStarts(p) PROVE ArgInv'
  <2> DEFINE r == ShimReads(command[p])
  <2>1. /\ UNCHANGED command /\ cfg' = [cfg EXCEPT ![p] = r.cfg]
        /\ \E o : /\ outcome' = [outcome EXCEPT ![p] = o] /\ (r.error => o = "failed")
                  /\ Understandable(r.cfg) \/ o \in {"usage", "failed"}
    BY <1>2 DEF ShimStarts, ShimReads, Shim!validateArgs, Understandable, Unset, Shim!Unset
  <2>2. PICK o : /\ outcome' = [outcome EXCEPT ![p] = o] /\ (r.error => o = "failed")
                 /\ Understandable(r.cfg) \/ o \in {"usage", "failed"}
    BY <2>1
  <2> HIDE DEF r
  <2>3. /\ cfg' = [q \in Plugin |-> IF q = p THEN r.cfg ELSE cfg[q]]
        /\ outcome' = [q \in Plugin |-> IF q = p THEN o ELSE outcome[q]]
    BY <2>1, <2>2 DEF ArgInv
  <2>4. /\ cfg' = [q \in Plugin |-> cfg'[q]] /\ outcome' = [q \in Plugin |-> outcome'[q]]
    BY <2>3
  <2>5. ASSUME NEW q \in Plugin, cfg'[q] # << >>
        PROVE  /\ cfg'[q] = ShimReads(command[q]).cfg
               /\ ShimReads(command[q]).error => outcome'[q] = "failed"
               /\ Understandable(cfg'[q]) \/ outcome'[q] \in {"usage", "failed"}
    BY <2>2, <2>3, <2>5 DEF ArgInv, r
  <2>6. QED BY <2>1, <2>4, <2>5 DEF ArgInv
<1>3. ASSUME NEW p \in Plugin, ShimSends(p) \/ ShimFails(p) \/ ShimPrints(p) \/ ShimRefused(p)
      PROVE  ArgInv'
  <2>1. /\ UNCHANGED <<command, cfg>> /\ outcome[p] \in {"fetch", "sent"}
        /\ \E o : outcome' = [outcome EXCEPT ![p] = o]
    BY <1>3 DEF ShimSends, ShimFails, ShimPrints, ShimRefused
  <2>2. PICK o : outcome' = [outcome EXCEPT ![p] = o]
    BY <2>1
  <2>3. outcome' = [q \in Plugin |-> IF q = p THEN o ELSE outcome[q]]
    BY <2>2 DEF ArgInv
  <2>4. \A q \in Plugin : cfg[q] # << >> =>
          /\ ShimReads(command[q]).error => outcome'[q] = "failed"
          /\ Understandable(cfg[q]) \/ outcome'[q] \in {"usage", "failed"}
    BY <2>1, <2>3 DEF ArgInv
  <2>5. outcome' = [q \in Plugin |-> outcome'[q]]
    BY <2>3
  <2>6. QED BY <2>1, <2>4, <2>5 DEF ArgInv
<1>4. QED BY <1>1, <1>2, <1>3 DEF ExchangeNext, everything

\* kubelogin's command line means the same to the shim (DropIn).
THEOREM DropInHolds == ExchangeSpec => []DropIn
  BY ArgInit, ArgStep, ArgSuffices, PTL DEF ExchangeSpec

-----------------------------------------------------------------------------
(* The app that a token is for *)

LEMMA ServerIdKnown ==
    ASSUME NEW cmd \in Commands PROVE Intended(cmd, "serverID") \in DOMAIN Spelling \cup {""}
<1> DEFINE N == Len(cmd.groups)
           f == "serverID"
           Ids == DOMAIN Spelling \cup {""}
           T == {k \in Nat : k <= N => MeantBy(cmd, f, k) \in Ids}
<1>1. N \in Nat /\ f \in Meaningful /\ f \notin ListFields
  BY CommandShape DEF Meaningful, Fields, ListFields
<1>2. 0 \in T
  <2>1. MeantBy(cmd, f, 0) = ""
    BY GiftsGrow DEF MeantBy, Shim!Defaults
  <2>2. QED BY <2>1
<1>a. f = "serverID"
  OBVIOUS
<1> HIDE DEF f, N, Ids
<1>3. ASSUME NEW k \in T PROVE k + 1 \in T
  <2> SUFFICES ASSUME k + 1 <= N PROVE MeantBy(cmd, f, k + 1) \in Ids
    OBVIOUS
  <2> DEFINE g == cmd.groups[k + 1]
  <2>1. k \in 0 .. N - 1 /\ k \in 0 .. N /\ k + 1 \in 1 .. N /\ k <= N
    <3>1. k \in Nat
      OBVIOUS
    <3> HIDE DEF T
    <3>2. QED BY <1>1, <3>1
  <2>2. MeantBy(cmd, f, k) \in Ids
    BY <2>1
  <2>3. GiftsSoFar(cmd, f, k) \in Seq(GiftSet)
    BY <1>1, <2>1, GiftsTyped DEF N
  <2>4. MeantBy(cmd, f, k + 1) = IF ~Gives(g, f) THEN MeantBy(cmd, f, k) ELSE Gift(g)
    BY <1>1, <2>1, <2>3, MeantMore DEF N, g
  <2>5. g.flag = "--server-id" => g.val \in Ids
    BY <2>1, CommandGroups DEF N, Ids
  <2> HIDE DEF g
  <2>6. Gives(g, f) => g.flag = "--server-id" /\ Gift(g) = g.val
    BY <1>a DEF Gives, Gift, Shim!VALUE_FLAGS, Shim!ARRAY_FLAGS, Shim!BOOL_FLAGS
  <2>7. QED BY <2>2, <2>4, <2>5, <2>6
<1> HIDE DEF T
<1>4. T = Nat
  <2>1. T \in SUBSET Nat
    BY DEF T
  <2>2. QED BY <1>2, <1>3, <2>1, Induction
<1>5. MeantBy(cmd, f, N) \in Ids
  BY <1>1, <1>4 DEF T
<1>6. Given(cmd, f) = GiftsSoFar(cmd, f, N)
  BY GivenAs DEF GiftsSoFar, N
<1>7. QED BY <1>1, <1>5, <1>6, <1>a DEF Ids, MeantBy, Intended, ListFields

Resource(c) == resourceFromFields(Shim!buildRequest(c))
NamedBy(scope) == resourceFromFields([serverId |-> Shim!serverIDFromScope(scope), scope |-> scope])
ScopeIn(file) == file[2][2]

LEMMA ResourceOf ==
    ASSUME NEW c
    PROVE  /\ Resource(c) = NamedBy(Shim!getScope(c.serverID))
           /\ ScopeIn(Shim!cacheFilePath(c)) = Shim!getScope(c.serverID)
<1> DEFINE q == Shim!buildRequest(c)
<1>1. q.scope = Shim!getScope(c.serverID) /\ q.serverId = Shim!serverIDFromScope(Shim!getScope(c.serverID))
  BY DEF Shim!buildRequest
<1> HIDE DEF q
<1>2. resourceFromFields(q) = NamedBy(Shim!getScope(c.serverID))
  BY <1>1 DEF resourceFromFields, NamedBy
<1>3. ScopeIn(Shim!cacheFilePath(c)) = Shim!getScope(c.serverID)
  BY DEF ScopeIn, Shim!cacheFilePath, Shim!cacheKey
<1>4. QED BY <1>2, <1>3 DEF Resource, q

LEMMA AzResource == ASSUME NEW q PROVE AzCommand(q).resource = resourceFromFields(q)
  BY DEF AzCommand

\* A shim that goes on names an app.
Named(c) == c # << >> /\ c.serverID # ""

\* A token, wherever it lies, is for the app whose scope was asked for.
ResourceInv ==
    /\ ArgInv
    /\ minted = [p \in Plugin |-> minted[p]] /\ asks = [c \in Client |-> asks[c]]
    /\ \A p \in Plugin :
         /\ outcome[p] \in {"fetch", "sent"} => Named(cfg[p])
         /\ outcome[p] = "sent" => asks[p] = Shim!buildRequest(cfg[p])
         /\ minted[p] # NoToken =>
              /\ outcome[p] = "token" /\ Named(cfg[p]) /\ minted[p].resource = Resource(cfg[p])
    /\ \A f \in DOMAIN disk : disk[f].resource = NamedBy(ScopeIn(f))

\* The app that the command of p names.
App(p) == <<Head(Spelling[Intended(command[p], "serverID")])>>

LEMMA ResourceMeant ==
    ASSUME ArgInv, NEW p \in Plugin, Named(cfg[p]), outcome[p] # "failed"
    PROVE  Resource(cfg[p]) = App(p)
<1> DEFINE cmd == command[p]
           c == cfg[p]
           id == Intended(cmd, "serverID")
<1>1. c # << >> /\ c.serverID # ""
  BY DEF Named
<1>2. cmd \in Commands /\ c = ShimReads(cmd).cfg
  BY <1>1 DEF ArgInv
<1>3. DropIn
  BY ArgSuffices
<1>4. "serverID" \in DOMAIN c \ {"command", "help", "version"} /\ c["serverID"] = id
  <2>1. IF \E g \in ToSet(cmd.groups) : g.flag \in Mistyped THEN outcome[p] = "failed"
        ELSE \A field \in DOMAIN c \ {"command", "help", "version"} : c[field] = Intended(cmd, field)
    BY <1>1, <1>3 DEF DropIn
  <2>2. ~ \E g \in ToSet(cmd.groups) : g.flag \in Mistyped
    BY <2>1
  <2>3. \A i \in 1 .. Len(cmd.groups) : cmd.groups[i].flag \notin Mistyped
    <3> DEFINE gs == cmd.groups
    <3>1. gs \in Seq(Group)
      BY <1>2, CommandShape
    <3> HIDE DEF gs
    <3>2. DOMAIN gs = 1 .. Len(gs)
      BY <3>1
    <3>3. QED BY <2>2, <3>2 DEF ToSet, gs
  <2> HIDE DEF cmd, c
  <2>4. DOMAIN c = Fields
    BY <1>2, <2>3, ShimUnderstands DEF ShimReads
  <2>5. "serverID" \in DOMAIN c \ {"command", "help", "version"}
    BY <2>4 DEF Fields
  <2>6. QED BY <2>1, <2>2, <2>5 DEF id
<1>5. id \in DOMAIN Spelling
  <2>1. id \in DOMAIN Spelling \cup {""}
    BY <1>2, ServerIdKnown
  <2> HIDE DEF id, c
  <2>2. c["serverID"] # ""
    BY <1>1
  <2>3. QED BY <1>4, <2>1, <2>2
<1> HIDE DEF id, c, cmd
<1>6. Shim!serverIDFromScope(Shim!getScope(id)) = <<Head(Spelling[id])>>
  BY <1>5, NameComesThrough
<1>7. NamedBy(Shim!getScope(id)) = <<Head(Spelling[id])>>
  <2> DEFINE n == <<Head(Spelling[id])>>
             scope == Shim!getScope(id)
             q == [serverId |-> Shim!serverIDFromScope(scope), scope |-> scope]
  <2>1. n # << >>
    OBVIOUS
  <2> HIDE DEF n
  <2>2. q.serverId = n
    BY <1>6 DEF n
  <2> HIDE DEF q
  <2>3. resourceFromFields(q) = n
    BY <2>1, <2>2 DEF resourceFromFields
  <2>4. QED BY <2>3 DEF NamedBy, q, n
<1>8. c.serverID = id
  BY <1>4
<1>9. Resource(c) = <<Head(Spelling[id])>>
  BY <1>7, <1>8, ResourceOf
<1>10. QED BY <1>9 DEF id, cmd, c, App

LEMMA ResourceSuffices == ResourceInv /\ AuthInv => SameResource
<1> SUFFICES ASSUME ResourceInv, AuthInv, NEW p \in Plugin
             PROVE  /\ minted[p] # NoToken => minted[p].resource = App(p)
                    /\ outcome[p] = "sent" =>
                         LET AppAllowed == \/ config["allow-any-resource"]
                                           \/ App(p) \in config["allowed-resources"]
                             SubscriptionAllowed ==
                                 config["allowed-subscriptions"] # {} =>
                                     Subscription(asks[p]) \in config["allowed-subscriptions"]
                         IN  /\ status[p] = 200 => AppAllowed
                             /\ status[p] = 403 => ~(AppAllowed /\ SubscriptionAllowed)
  BY DEF SameResource, App
<1>1. ArgInv
  BY DEF ResourceInv
<1>2. ASSUME minted[p] # NoToken PROVE minted[p].resource = App(p)
  <2>1. outcome[p] = "token" /\ Named(cfg[p]) /\ minted[p].resource = Resource(cfg[p])
    BY <1>2 DEF ResourceInv
  <2>2. QED BY <1>1, <2>1, ResourceMeant
<1>3. ASSUME outcome[p] = "sent"
      PROVE  /\ Deserves(asks[p], status[p]) /\ resourceFromFields(asks[p]) = App(p)
  <2>1. Named(cfg[p]) /\ asks[p] = Shim!buildRequest(cfg[p])
    BY <1>3 DEF ResourceInv
  <2>2. Resource(cfg[p]) = App(p)
    BY <1>1, <1>3, <2>1, ResourceMeant
  <2>3. Deserves(asks[p], status[p])
    BY ExchangeAssumption DEF AuthInv, Admitted
  <2>4. QED BY <2>1, <2>2, <2>3 DEF Resource
<1> HIDE DEF App
<1>4. QED BY <1>2, <1>3 DEF Deserves, Refusal

LEMMA ResourceInit == ExchangeInit => ResourceInv
<1> SUFFICES ASSUME ExchangeInit PROVE ResourceInv
  OBVIOUS
<1>1. /\ asks = [c \in Client |-> NoRequest] /\ disk = << >>
      /\ outcome = [p \in Plugin |-> "new"] /\ minted = [p \in Plugin |-> NoToken]
  BY DEF ExchangeInit, Init
<1>2. DOMAIN disk = {}
  BY <1>1
<1>3. QED BY <1>1, <1>2, ArgInit DEF ResourceInv

\* A step of the shim p: what it fetches, prints or keeps is for the app it names.
LEMMA ResourceKept ==
    ASSUME ResourceInv, NEW p \in Plugin, ArgInv',
           asks' = [c \in Client |-> asks'[c]], \A r \in Plugin \ {p} : asks'[r] = asks[r],
           NEW c, cfg' = [cfg EXCEPT ![p] = c],
           NEW o, outcome' = [outcome EXCEPT ![p] = o],
           NEW m, minted' = [minted EXCEPT ![p] = m],
           o \in {"fetch", "sent"} => Named(c),
           o = "sent" => asks'[p] = Shim!buildRequest(c),
           m # NoToken => o = "token" /\ Named(c) /\ m.resource = Resource(c),
           \A f \in DOMAIN disk' : disk'[f].resource = NamedBy(ScopeIn(f))
    PROVE  ResourceInv'
<1>1. /\ cfg' = [r \in Plugin |-> IF r = p THEN c ELSE cfg[r]]
      /\ outcome' = [r \in Plugin |-> IF r = p THEN o ELSE outcome[r]]
      /\ minted' = [r \in Plugin |-> IF r = p THEN m ELSE minted[r]]
  BY DEF ResourceInv, ArgInv
<1>2. \A r \in Plugin :
         /\ outcome'[r] \in {"fetch", "sent"} => Named(cfg'[r])
         /\ outcome'[r] = "sent" => asks'[r] = Shim!buildRequest(cfg'[r])
         /\ minted'[r] # NoToken =>
              /\ outcome'[r] = "token" /\ Named(cfg'[r]) /\ minted'[r].resource = Resource(cfg'[r])
  BY <1>1 DEF ResourceInv
<1>3. minted' = [r \in Plugin |-> minted'[r]]
  BY <1>1
<1>4. QED BY <1>2, <1>3 DEF ResourceInv

LEMMA ReadNamed ==
    ASSUME NEW cmd \in Commands, ~ShimReads(cmd).error, Shim!validateArgs(ShimReads(cmd).cfg)
    PROVE  Named(ShimReads(cmd).cfg)
<1> DEFINE c == ShimReads(cmd).cfg
<1>1. \A i \in 1 .. Len(cmd.groups) : cmd.groups[i].flag \notin Mistyped
  BY MistypedRefused DEF ShimReads
<1>2. DOMAIN c = Fields
  BY <1>1, ShimUnderstands DEF ShimReads
<1>3. c.serverID # ""
  BY DEF Shim!validateArgs
<1> HIDE DEF c
<1>4. c # << >>
  BY <1>2 DEF Fields
<1>5. QED BY <1>3, <1>4 DEF Named, c

LEMMA ResourceStarts == ASSUME ResourceInv, NEW p \in Plugin, ShimStarts(p), ArgInv' PROVE ResourceInv'
<1> DEFINE cmd == command[p]
           r == ShimReads(cmd)
           c == r.cfg
           file == Shim!cacheFilePath(c)
<1>1. /\ outcome[p] = "new" /\ cfg' = [cfg EXCEPT ![p] = c]
      /\ UNCHANGED <<disk, asks>> /\ cmd \in Commands
  BY DEF ShimStarts, ShimReads, vars, ResourceInv, ArgInv
<1>2. \/ /\ \/ outcome' = [outcome EXCEPT ![p] = "usage"]
            \/ outcome' = [outcome EXCEPT ![p] = "failed"]
         /\ UNCHANGED minted
      \/ /\ ~r.error /\ Shim!validateArgs(c)
         /\ \/ outcome' = [outcome EXCEPT ![p] = "fetch"] /\ UNCHANGED minted
            \/ /\ file \in DOMAIN disk /\ outcome' = [outcome EXCEPT ![p] = "token"]
               /\ minted' = [minted EXCEPT ![p] = disk[file]]
  BY DEF ShimStarts, ShimReads
<1>3. minted[p] = NoToken /\ minted = [minted EXCEPT ![p] = NoToken]
  BY <1>1 DEF ResourceInv
<1>4. /\ asks' = [d \in Client |-> asks'[d]] /\ \A q \in Plugin \ {p} : asks'[q] = asks[q]
      /\ \A f \in DOMAIN disk' : disk'[f].resource = NamedBy(ScopeIn(f))
  BY <1>1 DEF ResourceInv
<1>5. ~r.error /\ Shim!validateArgs(c) => Named(c)
  BY <1>1, ReadNamed
<1>6. file \in DOMAIN disk => disk[file].resource = Resource(c)
  BY ResourceOf DEF ResourceInv
<1> HIDE DEF cmd, r, c, file
<1>7. ASSUME NEW o, outcome' = [outcome EXCEPT ![p] = o], o # "sent", UNCHANGED minted,
             o = "fetch" => Named(c)
      PROVE  ResourceInv'
  <2>1. minted' = [minted EXCEPT ![p] = NoToken]
    BY <1>3, <1>7
  <2>2. /\ o \in {"fetch", "sent"} => Named(c)
        /\ o = "sent" => asks'[p] = Shim!buildRequest(c)
        /\ cfg' = [cfg EXCEPT ![p] = c] /\ outcome' = [outcome EXCEPT ![p] = o]
    BY <1>1, <1>7
  <2>3. NoToken # NoToken => o = "token" /\ Named(c) /\ NoToken.resource = Resource(c)
    OBVIOUS
  <2>4. QED BY <1>4, <2>1, <2>2, <2>3, ResourceKept
<1>8. ASSUME Named(c), file \in DOMAIN disk, outcome' = [outcome EXCEPT ![p] = "token"],
             minted' = [minted EXCEPT ![p] = disk[file]]
      PROVE  ResourceInv'
  <2> DEFINE m == disk[file]
  <2>1. m.resource = Resource(c) /\ minted' = [minted EXCEPT ![p] = m]
    BY <1>6, <1>8
  <2> HIDE DEF m
  <2> DEFINE o == "token"
  <2>2. /\ o \in {"fetch", "sent"} => Named(c)
        /\ o = "sent" => asks'[p] = Shim!buildRequest(c)
        /\ cfg' = [cfg EXCEPT ![p] = c] /\ outcome' = [outcome EXCEPT ![p] = o]
        /\ m # NoToken => o = "token" /\ Named(c) /\ m.resource = Resource(c)
    BY <1>1, <1>8, <2>1
  <2> HIDE DEF o
  <2>3. QED BY <1>4, <2>1, <2>2, ResourceKept
<1>9. QED BY <1>2, <1>5, <1>7, <1>8

LEMMA ResourceSends == ASSUME ResourceInv, NEW p \in Plugin, ShimSends(p), ArgInv' PROVE ResourceInv'
<1>1. /\ outcome[p] = "fetch" /\ outcome' = [outcome EXCEPT ![p] = "sent"]
      /\ UNCHANGED <<disk, cfg, minted>>
      /\ asks' = [asks EXCEPT ![p] = Shim!buildRequest(cfg[p])]
  BY DEF ShimSends, Connect
<1>2. /\ Named(cfg[p]) /\ minted[p] = NoToken
      /\ minted' = [minted EXCEPT ![p] = NoToken] /\ cfg' = [cfg EXCEPT ![p] = cfg[p]]
  BY <1>1 DEF ResourceInv, ArgInv
<1>3. asks = [c \in Client |-> asks[c]] /\ p \in Client
  BY ExchangeAssumption DEF ResourceInv
<1>4. /\ asks' = [c \in Client |-> asks'[c]] /\ asks'[p] = Shim!buildRequest(cfg[p])
      /\ \A r \in Plugin \ {p} : asks'[r] = asks[r]
      /\ \A f \in DOMAIN disk' : disk'[f].resource = NamedBy(ScopeIn(f))
  BY <1>1, <1>3, ExchangeAssumption DEF ResourceInv
<1>5. QED BY <1>1, <1>2, <1>4, ResourceKept

LEMMA ResourceEnds ==
    ASSUME ResourceInv, NEW p \in Plugin, ShimFails(p) \/ ShimPrints(p) \/ ShimRefused(p), ArgInv'
    PROVE  ResourceInv'
<1>1. UNCHANGED <<asks, cfg>> /\ outcome[p] \in {"fetch", "sent"}
  BY DEF ShimFails, ShimPrints, ShimRefused, vars
<1>2. /\ cfg' = [cfg EXCEPT ![p] = cfg[p]] /\ minted = [minted EXCEPT ![p] = NoToken]
      /\ asks' = [c \in Client |-> asks'[c]] /\ \A r \in Plugin \ {p} : asks'[r] = asks[r]
      /\ Named(cfg[p])
  BY <1>1 DEF ResourceInv, ArgInv
<1>3. CASE ShimFails(p) \/ ShimRefused(p)
  <2>1. /\ outcome' = [outcome EXCEPT ![p] = "failed"] /\ UNCHANGED disk
        /\ minted' = [minted EXCEPT ![p] = NoToken]
    BY <1>2, <1>3 DEF ShimFails, ShimRefused
  <2>2. "failed" \notin {"fetch", "sent"} /\ \A f \in DOMAIN disk' : disk'[f].resource = NamedBy(ScopeIn(f))
    BY <2>1 DEF ResourceInv
  <2>3. QED BY <1>2, <2>1, <2>2, ResourceKept
<1>4. CASE ShimPrints(p)
  <2> DEFINE file == Shim!cacheFilePath(cfg[p])
             az == AzCommand(Shim!buildRequest(cfg[p]))
  <2>1. asks[p] = Shim!buildRequest(cfg[p])
    BY <1>4 DEF ShimPrints, ResourceInv
  <2>2. az.resource = Resource(cfg[p]) /\ Resource(cfg[p]) = NamedBy(ScopeIn(file))
    BY AzResource, ResourceOf DEF Resource
  <2>3. /\ outcome' = [outcome EXCEPT ![p] = "token"] /\ minted' = [minted EXCEPT ![p] = az]
        /\ \/ disk' = disk
           \/ disk' = [f \in DOMAIN disk \cup {file} |-> IF f = file THEN az ELSE disk[f]]
    BY <1>4, <2>1 DEF ShimPrints
  <2> HIDE DEF file, az
  <2>4. \A f \in DOMAIN disk' : disk'[f].resource = NamedBy(ScopeIn(f))
    BY <2>2, <2>3 DEF ResourceInv
  <2> DEFINE c == cfg[p]
             o == "token"
  <2>5. /\ o \in {"fetch", "sent"} => Named(c)
        /\ o = "sent" => asks'[p] = Shim!buildRequest(c)
        /\ cfg' = [cfg EXCEPT ![p] = c] /\ outcome' = [outcome EXCEPT ![p] = o]
        /\ az # NoToken => o = "token" /\ Named(c) /\ az.resource = Resource(c)
    BY <1>2, <2>2, <2>3
  <2> HIDE DEF c, o
  <2>6. QED BY <1>2, <2>3, <2>4, <2>5, ResourceKept
<1>5. QED BY <1>3, <1>4

LEMMA ResourceStep == ASSUME ResourceInv, [ExchangeNext]_everything PROVE ResourceInv'
<1>1. ArgInv'
  BY ArgStep DEF ResourceInv
<1>2. ASSUME UNCHANGED shims, asks' = [c \in Client |-> asks'[c]], \A p \in Plugin : asks'[p] = asks[p]
      PROVE  ResourceInv'
  BY <1>1, <1>2 DEF ResourceInv, shims
<1>3. asks = [c \in Client |-> asks[c]]
  BY DEF ResourceInv
<1>4. ASSUME UNCHANGED shims, Daemon \/ (\E c \in Client : Gone(c)) \/ UNCHANGED vars PROVE ResourceInv'
  <2>1. UNCHANGED asks
    BY <1>4 DEF Daemon, Start, StreamWrites, StreamFails, LoginStarts, LoginEnds, Arrives, BodyRead,
                BodyCut, MintEnds, Answer, TickFires, TickMinted, Stop, Drained, ForceFinish, Finish,
                Exit, Gone, vars
  <2>2. QED BY <1>2, <1>3, <1>4, <2>1
<1>5. ASSUME UNCHANGED shims, NEW d \in Client \ Plugin, NEW q, Connect(d, q) PROVE ResourceInv'
  <2>1. asks' = [asks EXCEPT ![d] = q]
    BY <1>5 DEF Connect
  <2>2. asks' = [c \in Client |-> asks'[c]] /\ \A p \in Plugin : asks'[p] = asks[p]
    BY <1>3, <2>1, ExchangeAssumption
  <2>3. QED BY <1>2, <1>5, <2>2
<1>6. QED
  BY <1>1, <1>4, <1>5, ResourceStarts, ResourceSends, ResourceEnds DEF ExchangeNext, everything

\* The token that a shim prints is minted for the app that its command names, and
\* it is answered as the daemon's lists have that app (SameResource).
THEOREM SameResourceHolds == ExchangeSpec => []SameResource
  BY ResourceInit, ResourceStep, ResourceSuffices, AuthHolds, PTL DEF ExchangeSpec
=============================================================================
