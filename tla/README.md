# aad-bridge: TLA+ models, checks and proofs

The repository holds four small Node.js programs that together let machines without a browser use
Azure AD tokens and reach services behind a firewall. All of them are event-driven, and what is hard
about them is the order of events; besides, three of them have to agree on what a command line, a URL
and a resource mean. This directory models that: one module per component, TLC runs on small instances, and TLAPS
proofs for every size.

`tlc -workers 2 -config X.cfg M` checks run `X` (the module `M` of each run is in the table below),
`tlapm XProofs.tla` checks the proofs about module `X`. `PROJECT.json` maps every definition to the lines it
models, and lists the runs, the mutants that show that each property can fail, the hazards of the code and
the disagreements that were found between the code and what it says of itself.

## 1. Inventory

### The tunnel (`tunnel/`)

Machine A runs `listen`, machine B behind the firewall dials out with `connect`. Public TCP clients of
A are multiplexed over B's one control connection to a provider on B's side.

| part | state | operations (events) | hard behaviour | correct when |
|---|---|---|---|---|
| `listen.js` (A) | the `tunnel` slot, `streams` by id, `pending` candidates, `parked` clients, `pausedForTunnel`, `nextStreamId`, per-socket pause reasons | connections on one or two listeners, handshake bytes, AUTH, frames, 'data', 'end', 'drain', 'close', auth/park/liveness timers | `destroy()` and 'close' are two events, with anything in between; a socket changes role (candidate, client, tunnel); caps; id wrap | one tunnel, an exact table, nobody left waiting, no lost wake-up, streams do not outlive their tunnel |
| `connect.js` (B) | the control socket, `reconnectDelay`, `established`, two intervals per connection, `providers` by id | dial, 'connect', 'data', watchdog, 'close', redial; provider dials and sockets | silent death of the network, A still holding the old tunnel, A taking B for a public client | it always gets the tunnel back, leaks no timer, keeps its backoff |
| a stream | both sockets, two pause reasons each, `_askedPause`, write buffers, frames under way | OPEN, DATA, PAUSE, RESUME, SHUTDOWN, CLOSE | PAUSE/RESUME crossing half-close and CLOSE | no chunk lost, every pause lifted, FIN after the data, both tables forget the stream |
| `framing.js` | the parser's buffer | `encodeFrame`, `push` | TCP cuts frames anywhere | frames come out as they went in |

`listen` and `connect` interact by frames over one TCP connection, which is ordered but can stop
delivering without notice.

### The token broker (`aad-bridge/`)

One headless daemon holds an `az login` and serves access tokens over HTTP(S).

| part | state | operations | hard behaviour | correct when |
|---|---|---|---|---|
| `token-cache.js` | `entries` (LRU map), `inflight` | `get`, `evict`, `clear` | the map is read before and written after the await of an az process | one az per key, everyone answered, the cap kept, the right entry evicted |
| `app.js` | `loginPromise`, `health`, the keepalive timer | `/token`, `/healthz`, keepalive tick, login result, shutdown | several handlers write the same health flags after their awaits; a login may hang | one login at a time, none needless, requests always answered, `/healthz` truthful |
| `az.js` | child processes | `getAccessToken`, `startInteractiveLogin` | credentials are read at some moment of the child's life | outcomes are told apart |
| `audit.js`, `server.js` | the log stream and its buffer, `shuttingDown`, `settled` | start, emit, stream failure, signals, drained, forced end, close, exit | shutdown forced while requests, ticks and a login run; a record is written to the file after the response went out | every answer is in the trail, a shutdown ends |
| `auth.js`, `request.js` | where a request's handler is | authorize, read the body, normalise the resource, allowlists | the client goes at any time; a body is cut; three ways to be authorized | nobody is served whom the operator did not mean to, no handler ends without its record |
| `config.js`, `args.js`, `envfile.js` | the configuration, once | pure functions | four sources for each setting, empty texts, flags without values, references between lines | each setting comes from the source that the README names first, and what cannot work is refused |

### The kubectl plugin (`kubelogin-http-shim/`)

Every `kubectl` call runs one short process that takes the token from a cache file shared with
processes running in parallel, or from the broker. Its state is the file and the temporary files, its
parsed command line, and the request it sent. It is correct when readers never see a torn file, the cache never
makes a call fail, a command line written for kubelogin means the same to it, and the token that it prints is the
one its command names, whoever fetched it.

### `share-all-server.js`

A one-shot HTTP server for a zip. State: the count of downloads. It is correct when the cap holds and the
server ends.

### Left out

Build scripts, service files, certificate and login scripts, tests and the example provider are not
modelled: they are no part of the running system. Of text, the models keep what decides something (which flag takes
which word, which texts are empty, lists, references, slashes and suffixes of resources) and leave out the
characters: quoting, white space, `~`, wording.

## 2. Modules

| module | models | composed with |
|---|---|---|
| `Listen` | `listen.js`, every handler | refines `ClientService` |
| `ClientService` | abstract: what a public client is promised | |
| `...Proofs` | proofs about `Listen`, `StreamPair`, `Framing`, `TokenBroker` with `TokenCache`, `Connect`, `ShimCache`, `ShareServer`, and `Exchange` with `Bridge` and the parsers | each extends its module and TLAPS |
| `StreamPair` | one stream across `listen.js` and `connect.js`, and the loss of the tunnel under it | |
| `Connect` | the control connection of `connect.js`, with A's slot reduced to who holds it | |
| `Framing` | `framing.js` | |
| `TokenCache` | `token-cache.js`; also a specification of its own under arbitrary callers | |
| `TokenBroker` | `app.js` and the Azure CLI's credentials | extends `TokenCache`: `get`, `clear` and `MintDone` are the conjuncts of its actions |
| `BridgeConfig` | `args.js`, `envfile.js`, `config.js` of the daemon: operators of a launch | |
| `Bridge` | the daemon from launch to exit: `server.js`, `auth.js`, `request.js`, `audit.js`, and of `app.js` the path of a request, ticks, login and shutdown | extends `BridgeConfig`; how a token is minted is left to `TokenBroker` |
| `ShimArgs` | `args.js`, `env.js`, `scope.js` of the plugin, the request that `token.js` builds, the file name of `cache.js` | |
| `Exchange` | the plugin's processes as clients of the daemon, with a shared cache | extends `Bridge`, instantiates `ShimArgs` |
| `ShimCache` | how parallel plugin processes write the cache file, system call by system call | |
| `ShareServer` | `share-all-server.js` | |
| `MC...` | constants and symmetry sets for TLC | each extends its module |

Names follow the source. A definition whose comment begins with `mutant` is a plausible bug in the
definition below it; no specification uses it.

### How state and actions correspond to the code

**Events.** Node runs one handler at a time, so one action is one handler, with everything it calls:
`AuthAccepted` is the rest of `feed` after a valid AUTH, with the reclassification of silent
candidates and `drainParked`. What Node does between handlers is an action too: `destroy()` makes a
socket "destroyed", and the handler of 'close' (`ClientClose`, `ParkedClose`, `ControlClose`) runs in
some later step. A paused socket reports no data and no FIN. A write may or may not leave the tunnel
above its high-water mark; when it does, a 'drain' is owed, and it is delivered only to a live socket.
Timers have no clock: an armed timer may fire at any time.

**Listen.** `mode` is the set of handlers attached to a socket, which is how the code itself tells
roles apart; `sid` is the `streamId` that a client's closures captured, `hs` the progress of a
candidate's handshake. `born` is a history variable: the control socket that carried the OPEN. B can name only
streams whose OPEN it received on this connection, hence `Receives`. `Allocations` says which
ids a batch of new streams gets, without fixing the order in which a JavaScript Set happens to hold
them.

**StreamPair.** The handlers of the client's socket in A and of the provider's socket in B are the
same code, so each action is parameterised by the end. Data are counted chunks. The one thing that
Node adds: after `end()` a socket emits no 'drain'. `control` is each end's own socket of the tunnel: `ControlLost`
destroys it, at either end and in any state of the stream, and what is under way is lost; `ControlClosed` is its
'close' handler, which destroys the sockets in the table; in between the end's handlers write into nothing.

**Connect.** The connection's fate at A is `route`, the holder of A's slot is `slot`; the network may
go silent (`cut`). Each connection's two intervals are counted twice: `intervals` that run,
and `own`, those that the closure's variables still name, so that a leak is visible.

**TokenCache, TokenBroker.** A handler is cut at its awaits; `awaits` and `result` are the promise it
waits for and what it settled with. Promise continuations run before the next event, which is what
`Quiet` says in the guards of events. Each member of `Keepalive` is one firing of the timer, so ticks overlap as
they do in the code. `stamp` is the login that minted a token, `AzReads` is the moment
an az process reads the credentials.

**ShimCache.** One action is one system call; a process may be killed between any two of them. A read may fail, which is a
miss. The processes of `Refused` have a KUBERNETES_EXEC_INFO that `apiVersionFromExecInfo` throws at, after the token was
fetched and cached: they print nothing.

**Bridge, Exchange.** `at` is the await where a client's handler, or a tick, is; `Answer` is `audit.token` followed by
`sendJSON`. `conn` are the connections that are open: `Gone` is a client that leaves, or gives up, at any time, and
`BodyCut` the error that a body in progress then raises. The audit stream holds records in `buffered` until
`StreamWrites` puts them into the file; `StreamFails` is its 'error', and a write after `end()` has the same effect
(`broke` remembers which). `trail` is what can be read afterwards. Where a token comes from is abstracted to the
outcomes of a mint, 200, 502 and 503, because `TokenBroker` has the rest.

A launch is a record of argv, environment and files; a command of the plugin one of groups (a flag, with its value in
the same token, in the next one, or none), of the number of groups that come before `get-token`, and of an environment.
`Argv` writes it down as the tokens that the parser gets. What the code parses out of them is computed in the code's
order, each loop as a recursive function of the number of its rounds (`parseArgs` of both modules, `loadEnvFile`, and
`Parse` of `Framing`); what was *meant* is defined separately, from the launch or the command as a whole (`Meant`,
`Intended`), and the properties compare the two. A resource is the sequence of its
parts, so that `scope.js`, `request.js` and the allowlist can each normalise it in their own way. `AzCommand` is what
the daemon would ask the CLI for, and stands for the token itself.

## 3. Runs

Passing runs. "Bounds" names what was cut; state counts are after symmetry reduction.

| run (module) | checks | bounds |
|---|---|---|
| ListenTwoPort (MCListen) | `OneTunnel`, `TableExact`, `PauseEffective`, and of steps `SlotNeverStolen`, `NoLostClient` | reject mode, 4 connections, 2 streams, 2 pending, 2 ids; 615k states, symmetric |
| ListenSinglePort (MCListen) | `IInv`, `StreamsBounded`, `PauseHasWaker`, `WaitingEnds`, `ImplementsService` | park mode, 3 connections, 1 stream, 2 pending, 3 ids; 234k states |
| Stream (MCStreamPair) | `Conserved`, `PauseIsLifted`, `TablesAgree`, of steps `FinIsTruthful`, and `StreamEnds`, `PauseEnds` | 2 chunks each way, high-water mark 1, the tunnel breaks while at most 1 chunk was sent; 629k states |
| Cache (MCTokenCache) | `SingleFlight`, `AwaitsLive`, `CacheBounded`, and of steps `MintedKept` | 2 callers, 3 keys, 2 entries; 49k states |
| Broker (MCTokenBroker) | `OneLogin`, `HandlersAwait`, `RecoveryStarted`, `RequestsAnswered` | 2 requests and 1 tick of the keepalive, 1 key, 1 death, 1 successful login; 36k states |
| Connect (MCConnect) | `NoTimerLeak`, `Recovers` | 2 silent deaths, 2 other connectors, 1 early watchdog, backoff in steps up to 3; 1.9k states |
| Shim (MCShimCache) | `FileWhole`, `PublishesOwn`, `TokenPrinted` | 2 processes, the exec info of one of them refused, clock to 3, skew 1; 13k states |
| Share (MCShareServer) | `CapHolds`, `ExitsAfterCap` | 4 clients, cap 2, with a TTL; 650 states |
| Exchange (MCExchange) | `TrailComplete`, `StopEnds`, `Precedence`, `CallersKnown`, `DropIn`, `RightToken`, `SameResource` | 18 launches, 15 commands, 11 requests, in the families below; 133k states |
| Framing (MCFraming) | `FramesIntact`, `NothingHeld` | 3 frames, payloads up to 2 bytes of 3 values, or of 3 bytes, which is too long, every chunking; 1.66M states |

The families of Exchange, one configuration each: a client, a tick and a login, or two clients, with an audit file
(the trail and the shutdown); one client under each of fourteen launches, refused ones included (the configuration);
two plugins in parallel with commands that share cache files and others that must not, or one alone with any command,
under a launch whose lists allow what they ask for, and one alone under a launch whose lists do not (the plugin). All of
them may be stopped at any time.

Why the bounds are enough. In `Listen` the interesting cases need an old tunnel whose 'close' is late, a
new connector, and one or two clients: four connections are the least with all of them at once, and
both caps are small enough to be hit. The run in park mode has three, because it also checks liveness, which
rules out symmetry; it has an old and a new connector and a client, or a connector and two
clients, and the invariant `IInv` that it checks is proved for every number (section 4). In `ListenTwoPort` three clients share
two ids, so that the counter wraps and meets an id that is still in use, and one that was freed while the 'close' of its
client is late. The two runs also split the configurations: reject mode with two listeners, park mode
with one. A stream's pauses need one chunk that fills a buffer and one that comes after. Two
parallel requests and a tick are what it takes to have one request on an old az process, one waiting
for the login, and a third party that writes the flags; they share one key, so that they meet in the cache. With two keys the
invariants hold as well, over 2.1 million states, which is more than the liveness check of the run can take.

The loss of the tunnel is bounded to a stream that sent little: what it meets, a socket that is being dialed, paused,
half-closed or closing, needs no more, and all of it in front of two chunks each way is more than a liveness check can
take. In Exchange one client is enough for a configuration, because nothing a client does changes what another one may;
two are needed for the trail, to have one answer written late while another is in flight. The launches and commands
were chosen so that each source of a setting, each kind of flag before and after `get-token`, each spelling of a resource and
each refusal occurs.

Deadlock is not checked where the system may come to rest: every connection is accepted at most
once, requests are finite, processes end, and the servers of `ShareServer` and `Bridge` exit. `Connect` and
`TokenCache` never rest, and there deadlock is checked.

### Where the code differs from what it says

Each violated run checks one statement that the repository makes about itself and that the code does
not keep:

| run | statement | what happens |
|---|---|---|
| ListenSwap (`StreamsOnTunnel`) | existing streams are always reset when the tunnel drops (tunnel/README.md:166) | a new connector authenticates between `destroy()` and 'close' of the old tunnel; the old teardown finds that it is not the tunnel any more and leaves the old streams open, served by nobody |
| BrokerRetry (`ServedAfterLogin`) | 503 only on timeout or failure of the login (aad-bridge/README.md:214) | the retry joins an az process that had read the dead token |

The modules state more of them, most in a section of their own at the end, that have no run. To see one fail,
put it into the cfg of the run in the second column, with the constants (or the change of the MC module) of the third:

| statement | run | constants | what happens |
|---|---|---|---|
| `NoLingeringPaused`: a paused socket is force-reaped, never left to linger (listen.js:280) | ListenSinglePort | | CLOSE calls `end()` on a client that is then paused by a full tunnel; if the tunnel goes, nobody resumes it |
| `PauseEffective`: pause reasons are counted so that one resume cannot override the other (listen.js:107) | ListenSinglePort | | `drainParked` resumes a client that a full tunnel has just paused |
| `PendingBounded`: MAX_PENDING caps the candidates (listen.js:30) | ListenTwoPort | MaxPending = 1 | it does so only while there is no tunnel |
| `ClientsListed`: ids in use are skipped after a wrap (listen.js:217) | ListenTwoPort | | a late 'close' deletes, by id, the stream of another client; it takes four billion connections, but the code has a loop for that case, and the loop does not cover the deletion. `NoLostClient` says that this is the only way to lose a client |
| `TailFlushed`: closes flush their tail (listen.js:281) | Stream | | a PAUSE whose RESUME is swallowed by a half-close leaves the peer paused, and CLOSE then destroys it with data still buffered: its application sees the end of a stream that is cut short, the third case of `FinIsTruthful` |
| `EvictsLeastRecent`: eviction is least recently used (token-cache.js:60) | Cache (PROPERTY) | | an entry that was refreshed in place keeps its old position |
| `LoginOnlyWhenDead`: concurrent re-auth errors collapse into one login (app.js:88) | Broker | | one that arrives after the login starts another |
| `HealthTruthful`: `/healthz` is 503 when the refresh token has died (aad-bridge/README.md:224) | Broker | | any other az failure clears the flag |
| `CacheFromSession`: `clear` drops all tokens, so that the next request mints anew (token-cache.js:70) | Broker | Key <- TwoKeys | a mint in flight stores a token of the old login |
| `EstablishedIsTunnel`: the first reply proves a real tunnel (connect.js:249) | Connect | | bytes of another connector's provider count as one |
| `DelayCapped`: RECONNECT_MAX_MS caps the backoff (connect.js:29) | Connect | Step = 4 | not the first step, if the cap is below 500 ms |
| `StopsAfterSuccess`: stops after N successful pulls (share-all-server.js:17) | Share | Ttl = FALSE | pulls are counted when they begin |
| `NothingLost`, `NothingCut`: a restart does not cut active token mints or lose audit lines (aad-bridge/README.md:218) | Exchange | | after SHUTDOWN_TIMEOUT_MS the daemon exits although requests are in flight; and a record that is written after the stream was ended destroys the stream with all that it still buffers |
| `FlagsTolerated`: unrecognized flags such as `--environment` are tolerated (kubelogin-http-shim/README.md:96) | Exchange | | before the subcommand the shim takes no value for an unknown flag, so that the value becomes the subcommand and the call fails; args.js:142 makes that choice. `DropIn` says exactly when |
| `RightToken`: the cache key has everything that determines which token comes back (cache.js:38) | Exchange | in MCExchange: `http://b` with the subscription S2, no `allowed-subscriptions` in `ForShims`, no tenant in the GET command of `Sharing` | the query of the endpoint's URL reaches the daemon with GET and not with POST, and the method is not part of the key; the theorem assumes `EndpointsBare` |

Met while modelling, and not stated as properties: `NoLingeringPaused` has a counterpart on B's side (connect.js:233): a
provider's socket that CLOSE ended and that a full tunnel then paused is in no table any more, so when the tunnel goes
neither 'drain' nor the destruction of the table's sockets reaches it (the last disjunct of `PauseEnds` excepts this case); `--no-auto-login=false` and `--no-access-log=false` switch the setting
*off* and an empty `AUTO_LOGIN` or `ACCESS_LOG` does too (config.js:84, 167, 177); a client CA given as a reference
to an unset variable is silently no client CA, which is a fatal error only if there is no secret (config.js:129); the plugin gives up
after 30 s (token.js:167) while the daemon holds its request for up to 120 s of login (aad-bridge/README.md:214); a
request that joins the login of another tenant is answered 503 after that login succeeded (app.js:91, 218).

### Fairness

- `Listen`: weak fairness of timers and of the delivery of 'close' and 'drain'. Nothing is assumed of
  peers: they need not send a byte.
- `StreamPair`: both processes handle frames and events, the applications go on reading and sending,
  a dial ends (there is a dial timer), and an end finds out that the other one lost the tunnel (its watchdog). No
  application is obliged to half-close, and the tunnel is not obliged to break or to hold.
- `Connect`: timers fire and events arrive; other connectors leave at some time; a host that is dialed
  again and again answers at some time (strong fairness of `Connected`, because a failed dial
  disables it). There is no timeout on the control dial in the code: that a dial ends is the operating
  system's doing.
- `TokenCache`, `TokenBroker`: an az process ends (`execFile` has a timeout), the wait for a login times
  out, handlers continue. These are strongly fair in the broker, since an event that finds the microtask
  queue busy is not lost. Nothing bounds `az login` itself, and `RequestsAnswered` holds although it
  may hang.
- `Bridge`, `Exchange`: the disk writes, the force timer of a shutdown fires, and the process then exits. Nothing is
  asked of clients, of az, of the login or of the plugins.
- `ShareServer`: responses end, the exit timer fires; the TTL is not relied on.
- `ShimCache`: a process goes on until it ends or is killed (the fetch has a timeout).

## 4. Proofs

Every safety invariant and every action property that the runs check of `Listen`, `StreamPair`, `TokenCache`,
`TokenBroker`, `Connect`, `ShimCache`, `ShareServer`, `Framing` and `Exchange` is a theorem, for any number of actors and
inputs of any length (one of `Listen` and one of `Exchange` under the conditions named below). What stays with TLC is
liveness.

### `ListenProofs`

For any set of connections and any caps under `ListenAssumption` (the caps are
positive, MAX_STREAMS does not exceed the largest id, `NoConn` is no connection):

| theorem | states |
|---|---|
| `TypeCorrect` | `Spec => []TypeOK` |
| `InvHolds` | `Spec => []IInv`, the inductive invariant |
| `OneTunnelHolds`, `TableExactHolds`, `StreamsNeedTunnelHolds`, `NobodyLeftWaitingHolds` | its parts that matter to a user |
| `SlotNeverStolenHolds` | the action property: the slot changes hands only from null or from a destroyed socket |
| `ServiceImplemented` | `Spec => ImplementsService`: every step of `Listen` is a step of `ClientService` or a stutter under the mapping |
| `StreamsBoundedHolds` | `Spec => []StreamsBounded`: MAX_STREAMS bounds the streams and the parked clients |
| `PauseHasWakerHolds` | `Spec => []PauseHasWaker`: no wake-up of a stream paused for the tunnel is lost |
| `PauseEffectiveHolds` | `[]PauseEffective` if `~ParkMode` |
| `NoLostClientHolds` | the action property: no step loses a client, but for the late 'close' of an earlier holder of its id |
| `ClientsListedHolds` | `[]ClientsListed`, which means that there is no such 'close', if there are fewer connections than ids (`FewConnections`) |

**The argument.** None of the parts is inductive alone. That the table is exact under an `AuthAccepted`
needs to know that parked and pending sockets are in no other table (`WaitingExact`); that a teardown empties the
table needs that the slot holds a socket whose 'close' has not run (`SlotHeld`), or a 'close' could come
twice; that no stream exists without a tunnel (`StreamsNeedTunnel`) needs that a tunnel leaves the slot
only by teardown or to a successor; `NobodyLeftWaiting` needs that a
tunnel which is adopted empties both waiting sets. `IInv` is the conjunction. Its step is proved with
one step per action and a few lemmas: `OpenStreamsFacts` (what filling the table does: free ids only, each
in its own handlers), `InPlace` (actions that move no socket between tables), `PublicTables`,
`ControlTables` and `AdoptTables` (those that do).

The other theorems stand on `IInv`:

- *Refinement.* The service knows of each client only whether it is new, waiting, served or gone (`ClientOf`), and
  whether there is a tunnel. The lemmas say which step of the service an action is: one arrives (`ArriveStep`), some
  leave (`LeaveStep`), the tunnel comes or is lost. A 'close' that tears the tunnel down is a stutter for the service
  as far as the tunnel goes, because the tunnel was lost when its socket was destroyed: this is where the two events
  of Node's sockets show.
- *Caps.* `Bounds` adds that the waiting sets are finite (`Conn` need not be). `OpenStreamsCount` says that serving
  a set of sockets takes at most one id each, `AdoptBounds` that a new tunnel serves no more of those who wait than there is room for.
- *Wake-ups.* `WakerInv` adds that the tunnel a stream was opened under is a control socket and that a socket which is
  not served has no reason to pause, so that a stream which changes hands from parked to served starts clean;
  `KeepsWakers` says what an action may do to the reasons, the list and the buffer.
- *`PauseEffective`* is false with a park queue: `drainParked` resumes each socket it serves, whatever paused it
  (`ListenTwoPort`, which checks it, has `ParkMode` FALSE, as has the theorem).
- *No client lost.* `ClientSteps` sorts the actions by what they do to clients: none, serve some (`Opens`), end one and
  delete the entry under its id (`DropsEntry`), tear everything down (`DropsAll`). Only the third can delete the entry of
  somebody else, and by `TableExact` only if it is a 'close': a CLOSE finds its client in the table by the id.
- *Ids.* Without a wrap each id is given out once (`IdsInv`), so the 'close' of an old stream, which deletes by id,
  cannot hit a newer one. After a wrap nothing in the code prevents that. `FewConnections` is how many connections A may
  accept in its life before that, fewer than 2^32 - 1: an assumption about a deployment and not about the code.

### `StreamPairProofs`

For any number of chunks and any high water mark: `TypeCorrect`, `ConservedHolds`, `PauseIsLiftedHolds`,
`FinIsTruthfulHolds` and `TablesAgreeHolds`, all from one inductive invariant, `StreamInv`, a conjunction per end of

| part | why it is needed |
|---|---|
| `OpenInv` | OPEN comes first and once, so that no frame meets an end without its socket |
| `FinalInv` | no chunk follows a SHUTDOWN or a CLOSE on the wire, and either is sent by an end that has read its FIN, or is closed |
| `TableInv` | an end forgets the stream only with a CLOSE on its way to the other one |
| `PauseInv` | who asked for a pause still waits for its 'drain'; a pause on the wire without a RESUME behind it was asked for by somebody who still asks |
| `CountInv` | the chunks on the wire, in the buffer and delivered never exceed those read, and are as many while the receiver takes them |
| `FinInv` | unless somebody reset, an end that is ending has everything there was |

`FinIsTruthful` is about the step in which an application comes to see the end of the stream: the last chunk was flushed
behind the FIN, or the socket is destroyed. For the first, `FinInv` says that whoever is ending has or holds everything;
for the second, `SocketDestroyed` lists what destroys a socket, and `CloseComesLast` says that a CLOSE which does finds
every chunk in front of it delivered or in the buffer. `FinInv` needs `Conserved` at the moment the SHUTDOWN is taken
from the wire, `PauseIsLifted` needs that
CLOSE and SHUTDOWN are truthful about their sender, and `Conserved` that nothing follows them: no part is
inductive without the others. The invariant was model-checked on the bounds of the run `Stream` before it was proved.
There are three kinds of steps (`SentFrame`, `ReceivedFrame`, `AnsweredFrame`) and one lemma per handler. What a
frame does to the number of chunks on the wire is `AppendLonger` and `TailShorter`, which is why `Count` is the
cardinality of a set of positions.

### `FramingProofs`

For bytes of any values, any `MaxLength`, any number of frames and every way to cut them: `FramesIntactHolds` and
`NothingHeldHolds`. The inductive invariant `FramingInv` says that the bytes in the buffer and on the wire, put together,
encode the frames that `push` has not returned (`Encodes`), that they begin with no whole frame in the buffer, and, after
`push` threw, that a frame was too long. `Encodes` is the existence of the offsets at which the frames end; `OneMore` is
what `Send` does to it at the back, `Front` what the parser finds at the front, where a payload that looks like a header
does no harm because an offset is where the frame before it ended.

`push` is the proof's loop: `LoopKeeps` says of the state after `i` turns (`Looped`) that the frames taken out are the
first ones of those encoded, and that what is left has lost a header for each turn unless the loop is over, so that as
many turns as there are headers in the buffer are enough. A loop is a recursive function `g` on `0 .. most`; that it
exists and satisfies its equation is proved once per loop (`TurnsExist`), and the induction over the turns is one on a
set of naturals (`Least`, `Induction`), because the library's induction theorems cannot be instantiated.

### `ExchangeProofs`: the parsers

`ExchangeProofs` does the same for three more loops, and with them proves what a configuration and a command line mean,
whatever their length:

- *`PrecedenceHolds`*, and with it `CallersKnownHolds`. `ArgsParsed` says what the loop of `args.js` makes of argv (of each
  flag, the text of its last use), `FileLoaded` what `loadEnvFile` makes of the environment (`LinesLoop`: after `i` lines,
  the keys of those lines and of the environment are set, and a key that is set is never set again), `PickMeans` that
  `pick` then finds what `Meant` says. `ConfigInv` carries it to every state: the daemon keeps the configuration it
  loaded.
- *`DropInHolds`*. `WrittenAs` and `GroupStands` say where the tokens of a group stand in `Argv`, `GroupTurns` what the
  loop's one or two turns on them do (`Turned`): an unknown flag takes the next word behind `get-token` and leaves it
  before, and never takes the next flag or `get-token`. `GroupsUnderstood` is the induction over the groups: the parser is
  at the start of the next group, each field holds what the groups so far meant for it, and the command is the first word
  that stood alone (`CommandAfter`). A mistyped flag throws, and nothing after it changes that (`MistypedRefused`).
  `ArgInv` is the part about the processes: one that goes on works with what it parsed, and parsed without an error.
- *`SameResourceHolds`*. `NameComesThrough`: of any spelling, `getScope`, `serverIDFromScope` and `resourceFromFields` leave
  the name. `ResourceInv` says that every token in the cache is for the app whose scope is in the file's name, and every
  request under way for the app of its shim; a token may come from a process with another spelling of the same name. That the daemon's lists are
  asked about that app is `AuthInv` (a client is answered 200 or 403 only as it deserves, `Deserves`) with `ResourceMeant`.

The assumptions on the constants say what these inputs are, and TLC checks them on the constants of the run:

| assumption | says | why |
|---|---|---|
| `LaunchAssumption` | argv is a sequence of tokens, a file one of lines | their types |
| `CommandAssumption` | a flag that takes a value is given one; a server id is a text that `Spelling` reads | a flag without its value is an error in kubelogin too (pflag); the second is their type |
| `MistypedAssumption` | a mistyped `--token-endpoint` flag is none of the flags | by definition |
| `SpellingAssumption` | a server id is a name, then slashes, and at most one `/.default` among them | what Azure AD and kubelogin accept: a GUID or an app URI, perhaps as a scope. Two suffixes are no scope |

### The others

All of section 4 assumes only what a module's ASSUME says (beside the above, in short: parameters are of their types, the
null values are no callers, no files, and clients no ticks), `DelayCappedHolds` that the first backoff step is within
the cap, and `RightTokenHolds` that no endpoint's URL names a subscription (`EndpointsBare`):

| module | theorems | argument |
|---|---|---|
| `TokenBrokerProofs`, of `TokenCache` | `SingleFlightHolds`, `AwaitsLiveHolds`, `CacheBoundedHolds`, `MintedKeptHolds` | `MintInv` adds `StarterAwaits`: who started an az process awaits it, hence cannot call `get` again and change the key the process is for. `MapInv` is `CacheBounded` with types: a touch moves a key and so neither doubles it nor lengthens the map (`LastKeeps`), and `evict` cuts whatever it is given to the cap (`EvictedKeeps`) and spares its last key (`EvictedSpares`). A key that is minted anew where it was is spared because the map was within its cap. The lemmas about `get` and `MintDone` do not depend on who calls |
| `TokenBrokerProofs`, of `TokenBroker` | `OneLoginHolds`, `HandlersAwaitHolds`, `RecoveryStartedHolds` | `BrokerInv` is `MintInv` with the two invariants and types; `HandlersAwait` is what licenses a handler to call `get` (`NotMinting`), so neither module's invariant holds without the other. `CallStep`, `ResultStep` and `WaitStep` are the three kinds of steps a handler takes |
| `ConnectProofs` | `ConnectTypeOK`, `NoTimerLeakHolds`, `DelayCappedHolds` | `BothArmed`: an open connection has both intervals, so the watchdog clears one and 'close' the other |
| `ShimCacheProofs` | `FileWholeHolds`, `PublishesOwnHolds` | `TempOwned`: between its write and its rename a process finds its own token in its temporary file |
| `ExchangeProofs` | `TrailCompleteHolds`, `RightTokenHolds`, `CallersKnownHolds`; the others above | `TrailInv` adds that a process that has exited left nothing in the buffer and one not started has none, which is what `Closed` is for, and that a handler ends only by its record (`NoneEnds`), also when its client is gone; `EmitStep` says what a record may do to the trail, `AnswerStep` that the answered client's record is in it. `TokenInv` says that a cache file holds the token its name owes; `KeyDetermines`, that two commands with the same file name ask for the same token, is what makes reading another process's file right, and `ConfigKept` that the daemon does not change its mind. `AuthInv` says that whoever got anywhere was accepted by the TLS layer and, past the first check, authorized, and past the second allowed its resource, by the configuration of the launch; that a client CA without a certificate is refused at the start is what keeps a launch that names one from serving plain HTTP. `CallersKnown` is stated of what the launch means, hence it needs `Precedence`. What the parsers compute is used nowhere else, so the first two hold for any parser |
| `ShareServerProofs` | `CapHoldsAlways` | `Counted`: `downloads` is the cardinality of the set of pulls that began |

### Only model-checked

- Liveness under fairness (`WaitingEnds`, `StreamEnds`, `PauseEnds`, `Recovers`, `RequestsAnswered`, `StopEnds`,
  `TokenPrinted`, `ExitsAfterCap`): the prover has no rule for ENABLED, hence none for WF and SF. Their safety halves are
  theorems where they have one (`NobodyLeftWaiting`, a part of `IInv`, `PauseIsLifted`, `HandlersAwait`).
- That a module's constants satisfy its assumptions: TLC evaluates them, on the constants of the runs.

## 5. What is not modelled

- Payload bytes, addresses, logs, TLS below the question whether a peer has a verified certificate: no property depends on them.
- Clocks, outside `ShimCache`: a timer may fire whenever it is armed. So nothing is said about how long anything takes, or about
  two timeouts that do not fit together; `LivenessTooEarly` and `TunnelDropped` stand for every misconfigured timeout.
- A restart of `listen` or `connect` as such: neither persists anything, and to the other side a restart is a
  lost connection. A restart of the daemon is an exit followed by a launch, and nothing but the audit file is kept.
- `/healthz`, `/debug`, the access log and its ring of recent requests: they only read, and nobody reads them back.
- Text: the quoting of az's arguments for cmd.exe and the recognition of a re-login message in its stderr (az.js), quotes and
  comments in the env file, `~` in paths, the comparison in constant time (auth.js), the rendering of the credential (that it is refused for a bad KUBERNETES_EXEC_INFO is in `ShimCache`).
- The tenants of logins: `TokenBroker` has one identity.

## 6. Plan

Done, in this order: `Listen` with its abstract service and its proofs, `StreamPair`, `TokenCache` and
`TokenBroker`, `Connect`, `ShimCache`, `ShareServer`, `Framing`, then the other proofs; then the loss of the tunnel in
`StreamPair`, overlapping ticks in `TokenBroker`, frames that are too long in `Framing`, and `BridgeConfig`, `Bridge`,
`ShimArgs` and `Exchange` with their proofs.

After that the proofs: `Listen` implements `ClientService`; the caps, the wake-ups and the ids of `Listen`; the
invariants of `StreamPair`; the cap of `TokenCache`; who is served, in `Exchange`; then the loops: `Framing`, the
configuration of the daemon, the command line of the plugin and the spellings of a resource.

Next: a composition of `Listen`'s slot with several `Connect`s, and tenants in `TokenBroker`, each with its proofs.
