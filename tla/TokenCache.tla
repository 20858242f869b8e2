----------------------------- MODULE TokenCache -----------------------------
(***************************************************************************)
(* aad-bridge/lib/token-cache.js: the daemon's token cache, shared by all  *)
(* requests: a bounded LRU map of tokens per key, and one az process at a  *)
(* time per key that every concurrent miss awaits.                         *)
(*                                                                         *)
(* A caller is an async function between a call of get and the result it   *)
(* awaits.  The map is the sequence of its keys, the oldest first, as      *)
(* JavaScript's Map iterates; tokens are told apart by the login (stamp)   *)
(* whose credentials minted them.                                          *)
(***************************************************************************)
EXTENDS Naturals, Sequences, FiniteSets

CONSTANTS
    Caller, NoCaller,
    Key,
    MaxEntries    \* cacheMaxEntries, 0 for unbounded

ASSUME TokenCacheAssumption == NoCaller \notin Caller /\ MaxEntries \in Nat

VARIABLES
    entries,    \* keys of the map, in insertion order
    fresh,      \* keys whose entry is not within the refresh skew of its expiry
    stamp,      \* the login that minted the entry of each key
    uses,       \* history: keys by their last use, the most recent last
    inflight,   \* key -> the caller whose az invocation is awaited, or NoCaller
    az,         \* callers whose az process is running
    want,       \* the key each caller asked for last
    awaits,     \* the az invocation each caller awaits, or NoCaller
    result      \* what the await will return: none yet, ok, reauth or error

mints == <<inflight, az, awaits>>
cacheVars == <<entries, fresh, stamp, uses, mints, want, result>>

InitCache ==
    /\ entries = << >> /\ fresh = {} /\ stamp = [k \in Key |-> 0] /\ uses = << >>
    /\ inflight = [k \in Key |-> NoCaller]
    /\ az = {}
    /\ want \in [Caller -> Key]
    /\ awaits = [c \in Caller |-> NoCaller]
    /\ result = [c \in Caller |-> "none"]

Keys(s) == {s[i] : i \in DOMAIN s}
Cached == Keys(entries)
Position(s, k) == CHOOSE i \in DOMAIN s : s[i] = k
\* k is moved to the end of s, or added there.
Last(s, k) ==
    LET p == Position(s, k)
    IN  Append(IF k \in Keys(s) THEN SubSeq(s, 1, p - 1) \o SubSeq(s, p + 1, Len(s)) ELSE s, k)
Hits(k) == k \in Cached /\ k \in fresh

InFlightIgnored(k) == FALSE  \* mutant: this.inflight is not consulted
InFlight(k) == inflight[k] # NoCaller

\* mutant: off by one
EvictedLate(s) == SubSeq(s, IF MaxEntries = 0 \/ Len(s) <= MaxEntries + 1 THEN 1 ELSE 2, Len(s))

\* mutant: the newest entries are dropped
EvictedNewest(s) ==
    IF MaxEntries = 0 \/ Len(s) <= MaxEntries THEN s ELSE SubSeq(s, 1, MaxEntries)

\* evict(): drop the oldest entries beyond the cap.
Evicted(s) ==
    IF MaxEntries = 0 \/ Len(s) <= MaxEntries THEN s
    ELSE SubSeq(s, Len(s) - MaxEntries + 1, Len(s))

-----------------------------------------------------------------------------
\* A fresh entry is touched, so that it is the most recent, and returned.
Hit(c, k) ==
    /\ Hits(k)
    /\ entries' = Last(entries, k)
    /\ uses' = Last(uses, k)
    /\ result' = [result EXCEPT ![c] = "ok"]
    /\ UNCHANGED mints

\* A miss joins the invocation in flight for its key.
Join(c, k) ==
    /\ ~Hits(k)
    /\ InFlight(k)
    /\ awaits' = [awaits EXCEPT ![c] = inflight[k]]
    /\ UNCHANGED <<entries, uses, inflight, az, result>>

\* Otherwise it starts one.
StartMint(c, k) ==
    /\ ~Hits(k)
    /\ ~InFlight(k)
    /\ inflight' = [inflight EXCEPT ![k] = c]
    /\ az' = az \cup {c}
    /\ awaits' = [awaits EXCEPT ![c] = c]
    /\ UNCHANGED <<entries, uses, result>>

get(c, k) ==
    /\ want' = [want EXCEPT ![c] = k]
    /\ Hit(c, k) \/ Join(c, k) \/ StartMint(c, k)
    /\ UNCHANGED <<fresh, stamp>>

StarterOnly(m) == {m}  \* mutant: only the caller that started the mint is answered
Waiters(m) == {c \in Caller : awaits[c] = m}

\* The az process started by m ends with outcome o: a token is stored under
\* its key, and everyone who awaits it gets the result once the key is no
\* longer in flight.
MintDone(m, o, login) ==
    /\ m \in az
    /\ az' = az \ {m}
    /\ inflight' = [inflight EXCEPT ![want[m]] = NoCaller]
    /\ IF o = "ok"
       THEN /\ entries' = Evicted(IF want[m] \in Cached THEN entries ELSE Append(entries, want[m]))
            /\ fresh' = fresh \cup {want[m]}
            /\ stamp' = [stamp EXCEPT ![want[m]] = login]
            /\ uses' = Last(uses, want[m])
       ELSE UNCHANGED <<entries, fresh, stamp, uses>>
    /\ awaits' = [c \in Caller |-> IF c \in Waiters(m) THEN NoCaller ELSE awaits[c]]
    /\ result' = [c \in Caller |-> IF c \in Waiters(m) THEN o ELSE result[c]]
    /\ UNCHANGED want

\* The entry comes within the refresh skew of its expiry.
Expire(k) ==
    /\ k \in fresh
    /\ fresh' = fresh \ {k}
    /\ UNCHANGED <<entries, stamp, uses, mints, want, result>>

\* clear(): after a re-login; the invocations in flight are left alone.
clear == entries' = << >> /\ uses' = << >> /\ UNCHANGED <<fresh, stamp>>

\* The caller goes on with the result of its await.
Resumes(c) == result' = [result EXCEPT ![c] = "none"]

-----------------------------------------------------------------------------
(* The cache on its own, under callers that call get again and again *)

Idle(c) == awaits[c] = NoCaller /\ result[c] = "none"

Call(c) == Idle(c) /\ \E k \in Key : get(c, k)
Return(c) ==
    /\ result[c] # "none"
    /\ Resumes(c)
    /\ UNCHANGED <<entries, fresh, stamp, uses, mints, want>>
AzExits(m) == \E o \in {"ok", "reauth", "error"} : MintDone(m, o, 0)
Clear == entries # << >> /\ clear /\ UNCHANGED <<mints, want, result>>

CacheNext ==
    \/ \E c \in Caller : Call(c) \/ Return(c) \/ AzExits(c)
    \/ \E k \in Key : Expire(k)
    \/ Clear

CacheSpec == InitCache /\ [][CacheNext]_cacheVars
FairCacheSpec == CacheSpec /\ \A m \in Caller : WF_cacheVars(AzExits(m))

-----------------------------------------------------------------------------
(* Properties *)

\* Every variable keeps its type.
CacheTypeOK ==
    /\ entries \in Seq(Key) /\ uses \in Seq(Key)
    /\ fresh \subseteq Key
    /\ stamp \in [Key -> Nat]
    /\ inflight \in [Key -> Caller \cup {NoCaller}]
    /\ az \subseteq Caller
    /\ want \in [Caller -> Key]
    /\ awaits \in [Caller -> Caller \cup {NoCaller}]
    /\ result \in [Caller -> {"none", "ok", "reauth", "error"}]

\* Single flight: a burst of misses for one key runs one az process, and the
\* in-flight map knows exactly the processes that run.
SingleFlight ==
    /\ \A m, n \in az : want[m] = want[n] => m = n
    /\ \A k \in Key : inflight[k] # NoCaller <=> \E m \in az : want[m] = k
    /\ \A m \in az : inflight[want[m]] = m

\* Nobody awaits an invocation that is over, or one for another key.
AwaitsLive ==
    \A c \in Caller :
        awaits[c] # NoCaller =>
            awaits[c] \in az /\ want[awaits[c]] = want[c] /\ result[c] = "none"

\* The map holds each key once and at most MaxEntries keys.
CacheBounded ==
    /\ \A i, j \in DOMAIN entries : entries[i] = entries[j] => i = j
    /\ MaxEntries > 0 => Len(entries) <= MaxEntries

\* Whoever is handed a token by the invocation it awaited leaves that token in
\* the map: the eviction that the insertion brings about spares it.
MintedKept ==
    [][\A c \in Caller :
         awaits[c] # NoCaller /\ result'[c] = "ok" => want[c] \in Keys(entries')]_cacheVars

\* An eviction drops the least recently used key.
EvictsLeastRecent ==
    [][entries' # << >> =>
         \A k \in Cached \ Keys(entries') : \A j \in Keys(entries') :
            Position(uses', k) < Position(uses', j)]_cacheVars

\* Every get is answered.
GetReturns == \A c \in Caller : awaits[c] # NoCaller ~> awaits[c] = NoCaller
=============================================================================
