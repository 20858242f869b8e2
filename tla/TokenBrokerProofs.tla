--------------------------- MODULE TokenBrokerProofs ---------------------------
(***************************************************************************)
(* Proofs about TokenCache and TokenBroker.  Whatever callers, keys, hits, *)
(* expiries and clears there are, one az process runs per key and everyone *)
(* who awaits one is answered by it; the lemmas about get and MintDone do  *)
(* not depend on who calls them, so that the broker's proofs use them too. *)
(* And for any number of requests, deaths of the refresh token and logins: *)
(* one az login at a time, nobody waits for what nobody runs, and a reauth *)
(* failure leaves a recovery behind.                                       *)
(***************************************************************************)
EXTENDS TokenBroker, TLAPS

(* The cache *)

\* The types of what the invariant is about; the map plays no part in it.
MintTypes ==
    /\ inflight \in [Key -> Caller \cup {NoCaller}]
    /\ az \subseteq Caller
    /\ want \in [Caller -> Key]
    /\ awaits \in [Caller -> Caller \cup {NoCaller}]
    /\ result \in [Caller -> {"none", "ok", "reauth", "error"}]

\* Whoever started an az process awaits that process, and so cannot call get
\* again and change the key the process is for.
StarterAwaits == \A m \in az : awaits[m] = m

MintInv == MintTypes /\ SingleFlight /\ AwaitsLive /\ StarterAwaits

-----------------------------------------------------------------------------
LEMMA MintInit == InitCache => MintInv
  BY TokenCacheAssumption
  DEF InitCache, MintInv, MintTypes, SingleFlight, AwaitsLive, StarterAwaits

\* A caller that awaits nothing may call get.
LEMMA GetKeeps ==
    ASSUME MintInv, NEW c \in Caller, NEW k \in Key, Idle(c), get(c, k)
    PROVE  MintInv'
<1> USE DEF MintInv
<1>0. c # NoCaller /\ NoCaller \notin az
  BY TokenCacheAssumption DEF MintTypes
<1>1. c \notin az /\ awaits[c] = NoCaller /\ result[c] = "none"
  BY <1>0 DEF Idle, StarterAwaits
<1>2. want' = [want EXCEPT ![c] = k]
  BY DEF get
<1>3. \A d \in Caller : d # c => want'[d] = want[d]
  BY <1>2 DEF MintTypes
<1>4. want'[c] = k
  BY <1>2 DEF MintTypes
<1>5. \A m \in az : m \in Caller /\ m # c
  BY <1>1 DEF MintTypes
<1>6. \A d \in Caller : awaits[d] # NoCaller => d # c /\ awaits[d] # c
  BY <1>1 DEF AwaitsLive
<1>7. CASE Hit(c, k)
  <2>1. UNCHANGED <<inflight, az, awaits>> /\ result' = [result EXCEPT ![c] = "ok"]
    BY <1>7 DEF Hit, mints
  <2>2. MintTypes'
    BY <1>2, <2>1 DEF MintTypes
  <2>3. SingleFlight'
    BY <1>3, <1>5, <2>1 DEF SingleFlight
  <2>4. AwaitsLive'
    BY <1>3, <1>5, <1>6, <2>1 DEF AwaitsLive, MintTypes
  <2>5. StarterAwaits'
    BY <2>1 DEF StarterAwaits
  <2>6. QED BY <2>2, <2>3, <2>4, <2>5
<1>8. CASE Join(c, k)
  <2>1. /\ awaits' = [awaits EXCEPT ![c] = inflight[k]]
        /\ UNCHANGED <<inflight, az, result>>
    BY <1>8 DEF Join
  <2>2. PICK m \in az : want[m] = k
    BY <1>8 DEF Join, InFlight, SingleFlight
  <2>3. inflight[k] = m /\ m # c
    BY <1>5, <2>2 DEF SingleFlight
  <2>4. MintTypes'
    BY <1>2, <2>1 DEF MintTypes
  <2>5. SingleFlight'
    BY <1>3, <1>5, <2>1 DEF SingleFlight
  <2>6. AwaitsLive'
    BY <1>1, <1>3, <1>4, <1>5, <1>6, <2>1, <2>2, <2>3 DEF AwaitsLive, MintTypes
  <2>7. StarterAwaits'
    BY <1>5, <2>1 DEF StarterAwaits, MintTypes
  <2>8. QED BY <2>4, <2>5, <2>6, <2>7
<1>9. CASE StartMint(c, k)
  <2>1. /\ inflight' = [inflight EXCEPT ![k] = c]
        /\ az' = az \cup {c}
        /\ awaits' = [awaits EXCEPT ![c] = c]
        /\ UNCHANGED result
    BY <1>9 DEF StartMint
  <2>2. \A m \in az : want[m] # k
    BY <1>9 DEF StartMint, InFlight, SingleFlight
  <2>3. MintTypes'
    BY <1>2, <2>1 DEF MintTypes
  <2>4. SingleFlight'
    BY <1>0, <1>3, <1>4, <1>5, <2>1, <2>2 DEF SingleFlight, MintTypes
  <2>5. AwaitsLive'
    BY <1>1, <1>3, <1>4, <1>5, <1>6, <2>1 DEF AwaitsLive, MintTypes
  <2>6. StarterAwaits'
    BY <1>5, <2>1 DEF StarterAwaits, MintTypes
  <2>7. QED BY <2>3, <2>4, <2>5, <2>6
<1>10. QED BY <1>7, <1>8, <1>9 DEF get

\* The end of an az process, with whatever outcome.
LEMMA MintDoneKeeps ==
    ASSUME MintInv, NEW m \in Caller, NEW o \in {"ok", "reauth", "error"}, NEW stmp,
           MintDone(m, o, stmp)
    PROVE  MintInv'
<1> USE DEF MintInv
<1>1. /\ m \in az
      /\ az' = az \ {m}
      /\ inflight' = [inflight EXCEPT ![want[m]] = NoCaller]
      /\ want' = want
      /\ awaits' = [c \in Caller |-> IF awaits[c] = m THEN NoCaller ELSE awaits[c]]
      /\ result' = [c \in Caller |-> IF awaits[c] = m THEN o ELSE result[c]]
  BY DEF MintDone, Waiters
<1>2. MintTypes'
  BY <1>1 DEF MintTypes
<1>3. SingleFlight'
  <2>1. \A n \in az' : n \in az /\ want[n] # want[m]
    BY <1>1 DEF SingleFlight
  <2>2. \A k \in Key : inflight'[k] = IF k = want[m] THEN NoCaller ELSE inflight[k]
    BY <1>1 DEF MintTypes
  <2>3. \A n \in az : want[n] \in Key
    BY DEF MintTypes
  <2>4. QED BY <1>1, <2>1, <2>2, <2>3 DEF SingleFlight
<1>4. AwaitsLive'
  BY <1>1 DEF AwaitsLive
<1>5. StarterAwaits'
  BY <1>1 DEF StarterAwaits, MintTypes
<1>6. QED BY <1>2, <1>3, <1>4, <1>5

\* A step that leaves the mints alone, or takes away the result of one caller.
LEMMA ResumeKeeps ==
    ASSUME MintInv, NEW c \in Caller, UNCHANGED <<mints, want>>,
           UNCHANGED result \/ Resumes(c)
    PROVE  MintInv'
<1> USE DEF MintInv
<1>1. UNCHANGED <<inflight, az, awaits, want>>
  BY DEF mints
<1>2. \A d \in Caller : result'[d] = result[d] \/ result'[d] = "none"
  BY DEF Resumes, MintTypes
<1>3. MintTypes'
  BY <1>1 DEF Resumes, MintTypes
<1>4. QED BY <1>1, <1>2, <1>3 DEF SingleFlight, AwaitsLive, StarterAwaits

-----------------------------------------------------------------------------
\* The cache under arbitrary callers keeps its invariant.
THEOREM MintInvHolds == CacheSpec => []MintInv
<1>1. MintInv /\ [CacheNext]_cacheVars => MintInv'
  <2> SUFFICES ASSUME MintInv, [CacheNext]_cacheVars PROVE MintInv'
    OBVIOUS
  <2>1. ASSUME NEW c \in Caller, Call(c) PROVE MintInv'
    BY <2>1, GetKeeps DEF Call
  <2>2. ASSUME NEW c \in Caller, Return(c) PROVE MintInv'
    BY <2>2, ResumeKeeps DEF Return
  <2>3. ASSUME NEW m \in Caller, AzExits(m) PROVE MintInv'
    BY <2>3, MintDoneKeeps DEF AzExits
  <2>4. CASE UNCHANGED <<mints, want, result>>
    BY <2>4 DEF mints, MintInv, MintTypes, SingleFlight, AwaitsLive, StarterAwaits
  <2>5. (\E k \in Key : Expire(k)) \/ Clear \/ UNCHANGED cacheVars
        => UNCHANGED <<mints, want, result>>
    BY DEF Expire, Clear, cacheVars
  <2>6. QED BY <2>1, <2>2, <2>3, <2>4, <2>5 DEF CacheNext
<1>2. QED BY MintInit, <1>1, PTL DEF CacheSpec

\* Single flight (SingleFlight): for any number of callers and keys, a burst of
\* misses for one key runs one az process.
THEOREM SingleFlightHolds == CacheSpec => []SingleFlight
  BY MintInvHolds, PTL DEF MintInv

\* Nobody awaits a process that is over or one for another key (AwaitsLive).
THEOREM AwaitsLiveHolds == CacheSpec => []AwaitsLive
  BY MintInvHolds, PTL DEF MintInv

-----------------------------------------------------------------------------
(* The map *)

Distinct(s) == \A i, j \in DOMAIN s : s[i] = s[j] => i = j

\* A touched key is moved, a new one added: each is still there once.
LEMMA LastKeeps ==
    ASSUME NEW S, NEW s \in Seq(S), NEW k \in S, Distinct(s)
    PROVE  /\ Last(s, k) \in Seq(S)
           /\ Distinct(Last(s, k))
           /\ k \in Keys(s) => Len(Last(s, k)) = Len(s)
<1>1. CASE k \in Keys(s)
  <2> DEFINE p == Position(s, k)
             a == SubSeq(s, 1, p - 1)
             b == SubSeq(s, p + 1, Len(s))
             r == Last(s, k)
  <2>1. p \in 1 .. Len(s) /\ s[p] = k
    BY <1>1 DEF Keys, Position
  <2>2. r = Append(a \o b, k)
    BY <1>1 DEF Last
  <2> HIDE DEF p
  <2>3. a \in Seq(S) /\ Len(a) = p - 1 /\ \A i \in 1 .. p - 1 : a[i] = s[i]
    BY <2>1
  <2>4. b \in Seq(S) /\ Len(b) = Len(s) - p /\ \A i \in 1 .. Len(s) - p : b[i] = s[i + p]
    BY <2>1
  <2> HIDE DEF a, b, r
  <2>5. /\ a \o b \in Seq(S) /\ Len(a \o b) = Len(s) - 1
        /\ \A i \in 1 .. p - 1 : (a \o b)[i] = s[i]
        /\ \A i \in p .. Len(s) - 1 : (a \o b)[i] = s[i + 1]
    <3>1. a \o b \in Seq(S) /\ Len(a \o b) = Len(s) - 1
      <4>1. a \in Seq(S) /\ b \in Seq(S)
        BY <2>3, <2>4
      <4>2. a \o b \in Seq(S) /\ Len(a \o b) = Len(a) + Len(b)
        BY <4>1
      <4>3. Len(a) + Len(b) = Len(s) - 1
        BY <2>1, <2>3, <2>4
      <4>4. QED BY <4>2, <4>3
    <3>2. \A i \in 1 .. p - 1 : (a \o b)[i] = s[i]
      BY <2>1, <2>3, <2>4
    <3>3. ASSUME NEW i \in p .. Len(s) - 1 PROVE (a \o b)[i] = s[i + 1]
      <4> DEFINE j == i - (p - 1)
      <4>1. j \in 1 .. Len(s) - p /\ j + p = i + 1
        BY <2>1
      <4>2. i \in Len(a) + 1 .. Len(a) + Len(b) /\ i - Len(a) = j
        BY <2>1, <2>3, <2>4
      <4>3. (a \o b)[i] = b[i - Len(a)]
        BY <2>1, <2>3, <2>4, <4>2
      <4> HIDE DEF j
      <4>4. QED BY <2>4, <4>1, <4>2, <4>3
    <3>4. QED BY <3>1, <3>2, <3>3
  <2>6. /\ r \in Seq(S) /\ Len(r) = Len(s) /\ r[Len(s)] = k
        /\ \A i \in 1 .. p - 1 : r[i] = s[i]
        /\ \A i \in p .. Len(s) - 1 : r[i] = s[i + 1]
    BY <2>1, <2>2, <2>5
  \* where the key at i of the new map was
  <2> DEFINE old(i) == IF i = Len(s) THEN p ELSE IF i < p THEN i ELSE i + 1
  <2>7. \A i \in 1 .. Len(s) : old(i) \in 1 .. Len(s) /\ r[i] = s[old(i)]
    BY <2>1, <2>6
  <2>8. \A i, j \in 1 .. Len(s) : old(i) = old(j) => i = j
    BY <2>1
  <2> HIDE DEF old
  <2>9. Distinct(r)
    BY <2>6, <2>7, <2>8 DEF Distinct
  <2>10. QED BY <2>6, <2>9 DEF r
<1>2. CASE k \notin Keys(s)
  <2>1. Last(s, k) = Append(s, k)
    BY <1>2 DEF Last
  <2>2. \A i \in 1 .. Len(s) : s[i] # k
    BY <1>2 DEF Keys
  <2>3. QED BY <1>2, <2>1, <2>2 DEF Distinct
<1>3. QED BY <1>1, <1>2

\* evict() leaves at most MaxEntries keys, whatever it is given.
LEMMA EvictedKeeps ==
    ASSUME NEW S, NEW s \in Seq(S), Distinct(s)
    PROVE  /\ Evicted(s) \in Seq(S)
           /\ Distinct(Evicted(s))
           /\ MaxEntries > 0 => Len(Evicted(s)) <= MaxEntries
<1>0. MaxEntries \in Nat
  BY TokenCacheAssumption
<1>1. CASE MaxEntries = 0 \/ Len(s) <= MaxEntries
  BY <1>0, <1>1 DEF Evicted
<1>2. CASE MaxEntries # 0 /\ Len(s) > MaxEntries
  <2> DEFINE d == Len(s) - MaxEntries
             r == SubSeq(s, d + 1, Len(s))
  <2>1. Evicted(s) = r
    BY <1>0, <1>2 DEF Evicted
  <2>2. d \in Nat /\ d < Len(s)
    BY <1>0, <1>2
  <2>3. Len(s) - d = MaxEntries
    BY <1>0
  <2> HIDE DEF d
  <2>4. r \in Seq(S) /\ Len(r) = MaxEntries /\ \A i \in 1 .. MaxEntries : r[i] = s[i + d]
    BY <1>0, <2>2, <2>3
  <2>5. \A i \in 1 .. MaxEntries : i + d \in 1 .. Len(s)
    BY <1>0, <2>2, <2>3
  <2> HIDE DEF r
  <2>6. Distinct(r)
    <3>1. ASSUME NEW i \in 1 .. MaxEntries, NEW j \in 1 .. MaxEntries, r[i] = r[j] PROVE i = j
      <4>1. s[i + d] = s[j + d] /\ i + d \in DOMAIN s /\ j + d \in DOMAIN s
        BY <2>4, <2>5, <3>1
      <4>2. i + d = j + d
        BY <4>1 DEF Distinct
      <4>3. QED BY <1>0, <2>2, <4>2
    <3>2. DOMAIN r = 1 .. MaxEntries
      BY <2>4
    <3>3. QED BY <3>1, <3>2 DEF Distinct
  <2>7. QED BY <1>0, <2>1, <2>4, <2>6
<1>3. QED BY <1>0, <1>1, <1>2

\* CacheBounded, and what it takes to keep it.
MapInv ==
    /\ entries \in Seq(Key)
    /\ want \in [Caller -> Key]
    /\ CacheBounded

LEMMA MapInit == InitCache => MapInv
  BY TokenCacheAssumption DEF InitCache, MapInv, CacheBounded

LEMMA MapGet ==
    ASSUME MapInv, NEW c \in Caller, NEW k \in Key, get(c, k)
    PROVE  MapInv'
<1>1. want' \in [Caller -> Key]
  BY DEF get, MapInv
<1>2. entries \in Seq(Key) /\ Distinct(entries) /\ (MaxEntries > 0 => Len(entries) <= MaxEntries)
  BY DEF MapInv, CacheBounded, Distinct
<1>3. CASE Hit(c, k)
  <2>1. entries' = Last(entries, k) /\ k \in Keys(entries)
    BY <1>3 DEF Hit, Hits, Cached
  <2>2. entries' \in Seq(Key) /\ Distinct(entries') /\ Len(entries') = Len(entries)
    BY <1>2, <2>1, LastKeeps
  <2>3. QED BY <1>1, <1>2, <2>2 DEF MapInv, CacheBounded, Distinct
<1>4. CASE UNCHANGED entries
  BY <1>1, <1>4 DEF MapInv, CacheBounded
<1>5. QED BY <1>3, <1>4 DEF get, Join, StartMint

LEMMA MapMintDone ==
    ASSUME MapInv, NEW m \in Caller, NEW o, NEW stmp, MintDone(m, o, stmp)
    PROVE  MapInv'
<1>1. want' = want /\ want[m] \in Key
  BY DEF MintDone, MapInv
<1>2. entries \in Seq(Key) /\ Distinct(entries)
  BY DEF MapInv, CacheBounded, Distinct
<1>3. CASE o = "ok"
  <2> DEFINE s == IF want[m] \in Cached THEN entries ELSE Append(entries, want[m])
  <2>1. s \in Seq(Key)
    BY <1>1, <1>2
  <2>2. Distinct(s)
    <3>1. CASE want[m] \in Cached
      BY <1>2, <3>1
    <3>2. CASE want[m] \notin Cached
      <4>1. s = Last(entries, want[m])
        BY <3>2 DEF Last, Cached
      <4>2. QED BY <1>1, <1>2, <4>1, LastKeeps
    <3>3. QED BY <3>1, <3>2
  <2>3. entries' = Evicted(s)
    BY <1>3 DEF MintDone
  <2> HIDE DEF s
  <2>4. /\ entries' \in Seq(Key) /\ Distinct(entries')
        /\ MaxEntries > 0 => Len(entries') <= MaxEntries
    BY <2>1, <2>2, <2>3, EvictedKeeps
  <2>5. QED BY <1>1, <2>4 DEF MapInv, CacheBounded, Distinct
<1>4. CASE o # "ok"
  <2>1. entries' = entries
    BY <1>4 DEF MintDone
  <2>2. QED BY <1>1, <2>1 DEF MapInv, CacheBounded
<1>5. QED BY <1>3, <1>4

\* A step that leaves the map alone or clears it, and is no call of get.
LEMMA MapKept ==
    ASSUME MapInv, UNCHANGED want, UNCHANGED entries \/ entries' = << >>
    PROVE  MapInv'
<1>1. CASE UNCHANGED entries
  BY <1>1 DEF MapInv, CacheBounded
<1>2. CASE entries' = << >>
  BY <1>2, TokenCacheAssumption DEF MapInv, CacheBounded
<1>3. QED BY <1>1, <1>2

\* No step doubles a key or fills the map beyond its cap.
LEMMA MapNext == MapInv /\ [CacheNext]_cacheVars => MapInv'
<1> SUFFICES ASSUME MapInv, [CacheNext]_cacheVars PROVE MapInv'
  OBVIOUS
<1>1. ASSUME NEW c \in Caller, Call(c) PROVE MapInv'
  BY <1>1, MapGet DEF Call
<1>2. ASSUME NEW m \in Caller, AzExits(m) PROVE MapInv'
  BY <1>2, MapMintDone DEF AzExits
<1>3. \/ \E c \in Caller : Return(c)
      \/ \E k \in Key : Expire(k)
      \/ Clear
      \/ UNCHANGED cacheVars
      => UNCHANGED want /\ (UNCHANGED entries \/ entries' = << >>)
  BY DEF Return, Expire, Clear, clear, cacheVars
<1>4. QED BY <1>1, <1>2, <1>3, MapKept DEF CacheNext

LEMMA MapInvHolds == CacheSpec => []MapInv
  BY MapInit, MapNext, PTL DEF CacheSpec

\* The cap (CacheBounded): evict() runs on every insertion and inserts are the
\* only steps that lengthen the map, which holds each key once.
THEOREM CacheBoundedHolds == CacheSpec => []CacheBounded
  BY MapInvHolds, PTL DEF MapInv

\* evict() never drops the last key.
LEMMA EvictedSpares ==
    ASSUME NEW S, NEW s \in Seq(S), s # << >>
    PROVE  s[Len(s)] \in Keys(Evicted(s))
<1>0. MaxEntries \in Nat /\ Len(s) \in Nat \ {0}
  BY TokenCacheAssumption
<1>1. CASE MaxEntries = 0 \/ Len(s) <= MaxEntries
  BY <1>0, <1>1 DEF Evicted, Keys
<1>2. CASE MaxEntries # 0 /\ Len(s) > MaxEntries
  <2> DEFINE d == Len(s) - MaxEntries
             r == SubSeq(s, d + 1, Len(s))
  <2>1. Evicted(s) = r
    BY <1>0, <1>2 DEF Evicted
  <2>2. d \in Nat /\ d < Len(s) /\ Len(s) - d = MaxEntries /\ MaxEntries + d = Len(s)
    BY <1>0, <1>2
  <2> HIDE DEF d
  <2>3. Len(r) = MaxEntries /\ r[MaxEntries] = s[MaxEntries + d]
    BY <1>0, <1>2, <2>2
  <2>4. r \in Seq(S)
    BY <1>0, <2>2
  <2> HIDE DEF r
  <2>5. QED BY <1>0, <1>2, <2>1, <2>2, <2>3, <2>4 DEF Keys
<1>3. QED BY <1>0, <1>1, <1>2

\* The key of a mint that succeeds is in the map, be it new or there before.
LEMMA MintDoneInserts ==
    ASSUME MapInv, NEW m \in Caller, NEW stmp, MintDone(m, "ok", stmp)
    PROVE  want[m] \in Keys(entries')
<1>1. /\ entries \in Seq(Key) /\ want[m] \in Key
      /\ MaxEntries > 0 => Len(entries) <= MaxEntries
      /\ MaxEntries \in Nat
  BY TokenCacheAssumption DEF MapInv, CacheBounded
<1>2. CASE want[m] \in Cached
  <2>1. entries' = Evicted(entries)
    BY <1>2 DEF MintDone
  <2>2. entries' = entries
    BY <1>1, <2>1 DEF Evicted
  <2>3. QED BY <1>2, <2>2 DEF Cached
<1>3. CASE want[m] \notin Cached
  <2> DEFINE s == Append(entries, want[m])
  <2>1. entries' = Evicted(s)
    BY <1>3 DEF MintDone
  <2>2. s \in Seq(Key) /\ Len(s) = Len(entries) + 1 /\ s[Len(s)] = want[m]
    BY <1>1
  <2>3. s # << >>
    BY <1>1, <2>2
  <2> HIDE DEF s
  <2>4. QED BY <2>1, <2>2, <2>3, EvictedSpares
<1>4. QED BY <1>2, <1>3

\* A token that an await returns is in the map (MintedKept), for any cap: who
\* awaits an invocation wants what it was started for.
THEOREM MintedKeptHolds == CacheSpec => MintedKept
<1>1. MapInv /\ MintInv /\ [CacheNext]_cacheVars =>
        [\A c \in Caller : awaits[c] # NoCaller /\ result'[c] = "ok" => want[c] \in Keys(entries')]_cacheVars
  <2> SUFFICES ASSUME MapInv, MintInv, CacheNext, NEW c \in Caller, awaits[c] # NoCaller, result'[c] = "ok"
               PROVE  want[c] \in Keys(entries')
    OBVIOUS
  <2>1. result[c] = "none" /\ want[awaits[c]] = want[c]
    BY DEF MintInv, AwaitsLive
  <2>2. ASSUME NEW m \in Caller, AzExits(m) PROVE want[c] \in Keys(entries')
    <3>1. PICK o \in {"ok", "reauth", "error"} : MintDone(m, o, 0)
      BY <2>2 DEF AzExits
    <3>2. result'[c] = IF awaits[c] = m THEN o ELSE result[c]
      BY <3>1 DEF MintDone, Waiters
    <3>3. o = "ok" /\ awaits[c] = m
      BY <2>1, <3>2
    <3>4. QED BY <2>1, <3>1, <3>3, MintDoneInserts
  <2>3. ASSUME NEW d \in Caller, Call(d) PROVE FALSE
    <3>1. c # d
      BY <2>3 DEF Call, Idle
    <3>2. PICK k \in Key : Hit(d, k) \/ Join(d, k) \/ StartMint(d, k)
      BY <2>3 DEF Call, get
    <3>3. result' = result \/ result' = [result EXCEPT ![d] = "ok"]
      BY <3>2 DEF Hit, Join, StartMint
    <3>4. QED BY <2>1, <3>1, <3>3 DEF MintInv, MintTypes
  <2>4. ASSUME NEW d \in Caller, Return(d) PROVE FALSE
    <3>1. result' = [result EXCEPT ![d] = "none"]
      BY <2>4 DEF Return, Resumes
    <3>2. QED BY <2>1, <3>1 DEF MintInv, MintTypes
  <2>5. ASSUME (\E k \in Key : Expire(k)) \/ Clear PROVE FALSE
    BY <2>1, <2>5 DEF Expire, Clear
  <2>6. QED BY <2>2, <2>3, <2>4, <2>5 DEF CacheNext
<1>2. QED BY <1>1, MapInvHolds, MintInvHolds, PTL DEF CacheSpec, MintedKept

-----------------------------------------------------------------------------
(* The broker *)

\* The types of what the handlers and the login are about.
HandlerTypes ==
    /\ logins \in Nat /\ loginPromise \in BOOLEAN
    /\ reads \in [Caller -> {"none", "ok", "reauth"}]
    /\ phase \in [Caller -> {"idle", "mint", "login", "retry", "remint"}]
    /\ status \in [Caller -> {0, 200, 502, 503}]

BrokerInv == MintInv /\ HandlerTypes /\ OneLogin /\ HandlersAwait

-----------------------------------------------------------------------------
LEMMA BrokerInit == Init => BrokerInv
<1> SUFFICES ASSUME Init PROVE BrokerInv
  OBVIOUS
<1>1. MintInv
  BY MintInit DEF Init
<1>2. HandlerTypes /\ OneLogin
  BY DEF Init, HandlerTypes, OneLogin
<1>3. HandlersAwait
  BY DEF Init, InitCache, HandlersAwait
<1>4. QED BY <1>1, <1>2, <1>3 DEF BrokerInv

\* A handler that is at none of its awaits of the cache has nothing to await
\* there, and so may call get.
LEMMA NotMinting ==
    ASSUME BrokerInv, NEW c \in Caller, phase[c] \notin {"mint", "remint"}
    PROVE  Idle(c)
  BY DEF BrokerInv, HandlersAwait, Idle

\* After get the caller awaits a mint or has its result; the others notice nothing.
LEMMA GetAwaits ==
    ASSUME MintInv, NEW c \in Caller, NEW k \in Key, get(c, k)
    PROVE  /\ awaits'[c] # NoCaller \/ result'[c] # "none"
           /\ \A d \in Caller : d # c => awaits'[d] = awaits[d] /\ result'[d] = result[d]
<1>1. CASE Hit(c, k)
  BY <1>1 DEF Hit, mints, MintInv, MintTypes
<1>2. CASE Join(c, k)
  BY <1>2 DEF Join, InFlight, MintInv, MintTypes
<1>3. CASE StartMint(c, k)
  BY <1>3, TokenCacheAssumption DEF StartMint, MintInv, MintTypes
<1>4. QED BY <1>1, <1>2, <1>3 DEF get

\* A handler that calls get and then awaits it.
LEMMA CallStep ==
    ASSUME BrokerInv, NEW c \in Caller, NEW k \in Key, get(c, k),
           phase[c] \notin {"mint", "remint"},
           NEW p \in {"mint", "remint"}, Goto(c, p),
           UNCHANGED <<logins, loginPromise, reads, status>>
    PROVE  BrokerInv'
<1> USE DEF BrokerInv
<1>1. Idle(c)
  BY NotMinting
<1>2. MintInv'
  BY <1>1, GetKeeps
<1>3. HandlerTypes' /\ OneLogin'
  BY DEF HandlerTypes, OneLogin, Goto
<1>4. phase'[c] = p /\ \A d \in Caller : d # c => phase'[d] = phase[d]
  BY DEF Goto, HandlerTypes
<1>5. HandlersAwait'
  BY <1>4, GetAwaits DEF HandlersAwait
<1>6. QED BY <1>2, <1>3, <1>5

\* A handler that has the result of its mint and goes on to an answer, or to
\* the wait for a login that runs.
LEMMA ResultStep ==
    ASSUME BrokerInv, NEW c \in Caller, result[c] # "none", Resumes(c),
           UNCHANGED <<mints, want, reads>>,
           NEW p \in {"idle", "login"}, Goto(c, p), p = "login" => loginPromise',
           status' \in [Caller -> {0, 200, 502, 503}],
           ensureReauth \/ UNCHANGED <<logins, loginPromise>>
    PROVE  BrokerInv'
<1> USE DEF BrokerInv
<1>1. MintInv'
  BY ResumeKeeps
<1>2. logins' \in Nat /\ loginPromise' \in BOOLEAN /\ OneLogin' /\ (loginPromise => loginPromise')
  <2>1. loginPromise \in BOOLEAN /\ logins \in Nat
    BY DEF HandlerTypes
  <2>2. (loginPromise => logins = 1) /\ (~loginPromise => logins = 0)
    BY DEF OneLogin
  <2>3. CASE AutoLogin /\ ~loginPromise /\ loginPromise' = TRUE /\ logins' = logins + 1
    BY <2>2, <2>3 DEF OneLogin
  <2>4. CASE UNCHANGED <<logins, loginPromise>>
    BY <2>1, <2>4 DEF OneLogin
  <2>5. QED BY <2>3, <2>4 DEF ensureReauth
<1>3. HandlerTypes'
  BY <1>2 DEF HandlerTypes, Goto
<1>4. awaits[c] = NoCaller /\ awaits' = awaits
  BY DEF AwaitsLive, MintInv, mints
<1>5. /\ result'[c] = "none" /\ phase'[c] = p
      /\ \A d \in Caller : d # c => result'[d] = result[d] /\ phase'[d] = phase[d]
  BY DEF Resumes, Goto, MintInv, MintTypes, HandlerTypes
<1>6. HandlersAwait'
  BY <1>2, <1>4, <1>5 DEF HandlersAwait
<1>7. QED BY <1>1, <1>2, <1>3, <1>6

\* The end of a login, or of the wait of some of those who wait for it.
LEMMA WaitStep ==
    ASSUME BrokerInv, NEW S \in SUBSET Caller,
           phase' = [c \in Caller |-> IF c \in S THEN "retry" ELSE phase[c]],
           \A c \in S : phase[c] = "login",
           UNCHANGED <<mints, want, result, reads, status>>,
           \/ UNCHANGED <<logins, loginPromise>>
           \/ /\ logins > 0 /\ logins' = logins - 1 /\ loginPromise' = FALSE
              /\ \A c \in Caller : phase[c] = "login" => c \in S
    PROVE  BrokerInv'
<1> USE DEF BrokerInv
<1>1. MintInv'
  BY DEF MintInv, MintTypes, SingleFlight, AwaitsLive, StarterAwaits, mints
<1>2. OneLogin' /\ logins' \in Nat /\ loginPromise' \in BOOLEAN
  <2>1. loginPromise \in BOOLEAN /\ logins \in Nat
    BY DEF HandlerTypes
  <2>2. (loginPromise => logins = 1) /\ (~loginPromise => logins = 0)
    BY DEF OneLogin
  <2>3. CASE UNCHANGED <<logins, loginPromise>>
    BY <2>1, <2>3 DEF OneLogin
  <2>4. CASE logins > 0 /\ logins' = logins - 1 /\ loginPromise' = FALSE
    <3>1. logins' = 0
      BY <2>1, <2>2, <2>4
    <3>2. ~loginPromise' /\ loginPromise' \in BOOLEAN
      BY <2>4
    <3>3. QED BY <3>1, <3>2 DEF OneLogin
  <2>5. QED BY <2>3, <2>4
<1>3. HandlerTypes'
  BY <1>2 DEF HandlerTypes
<1>4. HandlersAwait'
  BY DEF HandlersAwait, HandlerTypes, mints
<1>5. QED BY <1>1, <1>2, <1>3, <1>4

-----------------------------------------------------------------------------
LEMMA AzEndsStep ==
    ASSUME BrokerInv, NEW m \in Caller, AzEnds(m)
    PROVE  BrokerInv'
<1> USE DEF BrokerInv
<1>1. PICK o \in {reads[m], "error"} \ {"none"} : MintDone(m, o, readIn[m])
  BY DEF AzEnds
<1>2. o \in {"ok", "reauth", "error"}
  BY DEF HandlerTypes
<1>3. MintInv'
  BY <1>1, <1>2, MintDoneKeeps
<1>4. HandlerTypes' /\ OneLogin'
  BY DEF AzEnds, HandlerTypes, OneLogin, login, handlers
<1>5. /\ UNCHANGED <<phase, loginPromise>>
      /\ \A c \in Caller : awaits'[c] = IF awaits[c] = m THEN NoCaller ELSE awaits[c]
      /\ \A c \in Caller : result'[c] = IF awaits[c] = m THEN o ELSE result[c]
  BY <1>1 DEF AzEnds, MintDone, Waiters, login, handlers
<1>6. m # NoCaller
  BY TokenCacheAssumption
<1>7. HandlersAwait'
  BY <1>2, <1>5, <1>6 DEF HandlersAwait
<1>8. QED BY <1>3, <1>4, <1>7

\* What the handlers and the keepalive do with their results.
LEMMA ResultSteps ==
    ASSUME BrokerInv, NEW c \in Caller,
           TokenObtained(c) \/ AwaitLogin(c) \/ TokenFailed(c) \/ KeepaliveMinted(c)
    PROVE  BrokerInv'
<1>1. status \in [Caller -> {0, 200, 502, 503}]
  BY DEF BrokerInv, HandlerTypes
<1>2. ASSUME NEW code \in {0, 200, 502, 503}, Answer(c, code), result[c] # "none",
             ensureReauth \/ UNCHANGED <<logins, loginPromise>>
      PROVE  BrokerInv'
  <2>1. /\ Resumes(c) /\ Goto(c, "idle") /\ UNCHANGED <<mints, want, reads>>
        /\ status' \in [Caller -> {0, 200, 502, 503}]
    BY <1>1, <1>2 DEF Answer, processes
  <2>2. QED BY <1>2, <2>1, ResultStep
<1>3. CASE TokenObtained(c)
  BY <1>2, <1>3 DEF TokenObtained
<1>4. CASE AwaitLogin(c)
  <2>1. loginPromise'
    BY <1>4 DEF AwaitLogin, ensureReauth, BrokerInv, HandlerTypes
  <2>2. QED BY <1>1, <1>4, <2>1, ResultStep DEF AwaitLogin, processes
<1>5. CASE TokenFailed(c)
  BY <1>2, <1>5 DEF TokenFailed
<1>6. CASE KeepaliveMinted(c)
  BY <1>2, <1>6 DEF KeepaliveMinted
<1>7. QED BY <1>3, <1>4, <1>5, <1>6

LEMMA BrokerStep == BrokerInv /\ [Next]_vars => BrokerInv'
<1> SUFFICES ASSUME BrokerInv, [Next]_vars PROVE BrokerInv'
  OBVIOUS
<1>1. ASSUME NEW c \in Caller, handleToken(c) PROVE BrokerInv'
  BY <1>1, CallStep DEF handleToken, login, processes
<1>2. ASSUME NEW c \in Caller, RetryMint(c) PROVE BrokerInv'
  <2>1. want[c] \in Key
    BY DEF BrokerInv, MintInv, MintTypes
  <2>2. QED BY <1>2, <2>1, CallStep DEF RetryMint, login, processes
<1>3. ASSUME NEW c \in Caller, KeepaliveMint(c) PROVE BrokerInv'
  BY <1>3, CallStep DEF KeepaliveMint, login, processes
<1>4. ASSUME NEW c \in Caller, TokenObtained(c) \/ AwaitLogin(c) \/ TokenFailed(c) PROVE BrokerInv'
  BY <1>4, ResultSteps
<1>5. ASSUME NEW c \in Caller, KeepaliveMinted(c) PROVE BrokerInv'
  BY <1>5, ResultSteps
<1>6. ASSUME NEW c \in Caller, LoginWaitTimeout(c) PROVE BrokerInv'
  <2>1. phase' = [d \in Caller |-> IF d \in {c} THEN "retry" ELSE phase[d]]
    BY <1>6 DEF LoginWaitTimeout, Goto, BrokerInv, HandlerTypes
  <2>2. /\ \A d \in {c} : phase[d] = "login"
        /\ UNCHANGED <<mints, want, result, reads, status>>
        /\ UNCHANGED <<logins, loginPromise>>
    BY <1>6 DEF LoginWaitTimeout, cacheVars, processes, login
  <2>3. {c} \in SUBSET Caller
    OBVIOUS
  <2>4. QED BY <2>1, <2>2, <2>3, WaitStep
<1>7. ASSUME LoginSucceeds \/ LoginFails PROVE BrokerInv'
  <2> DEFINE S == {c \in Caller : phase[c] = "login"}
  <2>1. phase' = [c \in Caller |-> IF c \in S THEN "retry" ELSE phase[c]]
    BY <1>7 DEF LoginSucceeds, LoginFails, Woken
  <2>2. UNCHANGED <<mints, want, result, reads, status>>
    BY <1>7 DEF LoginSucceeds, LoginFails, cacheVars, processes
  <2>3. logins > 0 /\ logins' = logins - 1 /\ loginPromise' = FALSE
    BY <1>7 DEF LoginSucceeds, LoginFails
  <2>4. S \in SUBSET Caller /\ \A c \in S : phase[c] = "login"
    OBVIOUS
  <2>5. \A c \in Caller : phase[c] = "login" => c \in S
    OBVIOUS
  <2> HIDE DEF S
  <2>6. QED BY <2>1, <2>2, <2>3, <2>4, <2>5, WaitStep
<1>8. ASSUME NEW m \in Caller, AzReads(m) PROVE BrokerInv'
  <2>1. UNCHANGED <<cacheVars, login, handlers>> /\ reads' \in [Caller -> {"none", "ok", "reauth"}]
    BY <1>8 DEF AzReads, BrokerInv, HandlerTypes
  <2>2. QED
    BY <2>1 DEF BrokerInv, MintInv, MintTypes, SingleFlight, AwaitsLive, StarterAwaits,
                HandlerTypes, OneLogin, HandlersAwait, cacheVars, mints, login, handlers
<1>9. ASSUME NEW m \in Caller, AzEnds(m) PROVE BrokerInv'
  BY <1>9, AzEndsStep
<1>10. CASE UNCHANGED <<mints, want, result, processes, login, handlers>>
  BY <1>10 DEF BrokerInv, MintInv, MintTypes, SingleFlight, AwaitsLive, StarterAwaits,
               HandlerTypes, OneLogin, HandlersAwait, mints, processes, login, handlers
<1>11. (\E k \in Key : TokenAges(k)) \/ RefreshTokenDies \/ UNCHANGED vars
       => UNCHANGED <<mints, want, result, processes, login, handlers>>
  BY DEF TokenAges, Expire, RefreshTokenDies, vars, cacheVars
<1>12. QED
  BY <1>1, <1>2, <1>3, <1>4, <1>5, <1>6, <1>7, <1>8, <1>9, <1>10, <1>11 DEF Next, Handler

-----------------------------------------------------------------------------
\* The broker keeps its invariant, and with it the one of the cache.
THEOREM BrokerInvHolds == Spec => []BrokerInv
  BY BrokerInit, BrokerStep, PTL DEF Spec

\* Concurrent re-auth errors collapse into one login (OneLogin).
THEOREM OneLoginHolds == Spec => []OneLogin
  BY BrokerInvHolds, PTL DEF BrokerInv

\* No handler waits for a mint or a login that nobody runs (HandlersAwait).
THEOREM HandlersAwaitHolds == Spec => []HandlersAwait
  BY BrokerInvHolds, PTL DEF BrokerInv

\* A request answered 503 leaves a running login behind (RecoveryStarted).
THEOREM RecoveryStartedHolds == Spec => RecoveryStarted
<1> DEFINE Recovering ==
      \A c \in Request : AutoLogin /\ status'[c] = 503 /\ status[c] = 0 => loginPromise'
<1>1. BrokerInv /\ [Next]_vars => [Recovering]_vars
  <2> SUFFICES ASSUME BrokerInv, Next, NEW c \in Request, AutoLogin,
                      status'[c] = 503, status[c] = 0
               PROVE  loginPromise'
    BY DEF BrokerInv
  <2>1. status \in [Caller -> {0, 200, 502, 503}] /\ loginPromise \in BOOLEAN /\ c \in Caller
    BY DEF BrokerInv, HandlerTypes, Request
  <2>2. ASSUME NEW d \in Caller, TokenFailed(d) PROVE loginPromise'
    <3>1. status' = [status EXCEPT ![d] = IF result[d] = "reauth" THEN 503 ELSE 502]
      BY <2>2 DEF TokenFailed, Answer
    <3>2. result[d] = "reauth"
      BY <2>1, <3>1
    <3>3. ensureReauth
      BY <2>2, <3>2 DEF TokenFailed
    <3>4. QED BY <2>1, <3>3 DEF ensureReauth
  <2>3. ASSUME NEW d \in Caller, TokenObtained(d) PROVE FALSE
    BY <2>1, <2>3 DEF TokenObtained, Answer
  <2>4. ASSUME NEW d \in Caller, KeepaliveMinted(d) PROVE FALSE
    <3>1. d # c
      BY <2>4 DEF KeepaliveMinted, Request
    <3>2. QED BY <2>1, <2>4, <3>1 DEF KeepaliveMinted, Answer
  <2>5. ASSUME status' = status PROVE FALSE
    BY <2>5
  <2>6. (\/ \E d \in Caller : \/ handleToken(d) \/ AwaitLogin(d) \/ RetryMint(d)
                             \/ LoginWaitTimeout(d) \/ AzReads(d) \/ AzEnds(d)
                             \/ KeepaliveMint(d)
         \/ \E k \in Key : TokenAges(k)
         \/ LoginSucceeds \/ LoginFails \/ RefreshTokenDies)
        => status' = status
    BY DEF handleToken, AwaitLogin, RetryMint, LoginWaitTimeout, AzReads, AzEnds, TokenAges,
           KeepaliveMint, LoginSucceeds, LoginFails, RefreshTokenDies, handlers
  <2>7. QED BY <2>2, <2>3, <2>4, <2>5, <2>6 DEF Next, Handler
<1>2. QED BY BrokerInvHolds, <1>1, PTL DEF Spec, RecoveryStarted
=============================================================================
