-------------------------- MODULE StreamPairProofs --------------------------
(* Theorems about StreamPair, for any number of chunks and any buffer size. *)
EXTENDS StreamPair, FiniteSetTheorems, TLAPS

USE StreamPairAssumption

-----------------------------------------------------------------------------
(* What can be said of the frames on their way to an end *)

Has(s, f) == \E i \in DOMAIN s : s[i] = f
Cnt(s, f) == Cardinality({i \in DOMAIN s : s[i] = f})

\* A chunk behind the frame that ends the data.
LateData(s) == \E i, j \in DOMAIN s : i < j /\ s[i] \in {"SHUTDOWN", "CLOSE"} /\ s[j] = "DATA"

\* An OPEN behind another frame.
LateOpen(s) == \E i \in DOMAIN s : i # 1 /\ s[i] = "OPEN"

\* A PAUSE with no RESUME behind it.
Unlifted(s) == \E i \in DOMAIN s : s[i] = "PAUSE" /\ \A j \in DOMAIN s : i < j => s[j] # "RESUME"

\* t is s with the frame g behind it.
Longer(s, t, g) ==
    /\ t \in Seq(FrameTypes) /\ t # << >>
    /\ Head(t) = IF s = << >> THEN g ELSE Head(s)
    /\ \A f \in FrameTypes : Has(t, f) <=> Has(s, f) \/ f = g
    /\ \A f \in FrameTypes : Cnt(t, f) = Cnt(s, f) + (IF f = g THEN 1 ELSE 0)
    /\ LateData(t) <=> \/ LateData(s)
                       \/ g = "DATA" /\ (Has(s, "SHUTDOWN") \/ Has(s, "CLOSE"))
    /\ LateOpen(t) <=> \/ LateOpen(s)
                       \/ g = "OPEN" /\ s # << >>
    /\ Unlifted(t) <=> \/ g = "PAUSE"
                       \/ g # "RESUME" /\ Unlifted(s)

\* t is s without its first frame, h.
Shorter(s, t, h) ==
    /\ t \in Seq(FrameTypes)
    /\ \A f \in FrameTypes : Has(s, f) <=> f = h \/ Has(t, f)
    /\ \A f \in FrameTypes : Cnt(s, f) = Cnt(t, f) + (IF f = h THEN 1 ELSE 0)
    /\ LateData(s) <=> \/ LateData(t)
                       \/ h \in {"SHUTDOWN", "CLOSE"} /\ Has(t, "DATA")
    /\ (LateOpen(s) <=> Has(t, "OPEN")) /\ (LateOpen(t) => Has(t, "OPEN"))
    /\ Unlifted(s) <=> \/ Unlifted(t)
                       \/ h = "PAUSE" /\ ~Has(t, "RESUME")

LEMMA CntType ==
    ASSUME NEW s \in Seq(FrameTypes), NEW f \in FrameTypes
    PROVE  /\ Cnt(s, f) \in Nat /\ IsFiniteSet({i \in DOMAIN s : s[i] = f})
           /\ ~Has(s, f) => Cnt(s, f) = 0
<1>1. Len(s) \in Nat /\ DOMAIN s = 1 .. Len(s)
  OBVIOUS
<1>2. IsFiniteSet(1 .. Len(s))
  BY <1>1, FS_Interval
<1>3. IsFiniteSet({i \in DOMAIN s : s[i] = f})
  BY <1>1, <1>2, FS_Subset
<1>4. ~Has(s, f) => {i \in DOMAIN s : s[i] = f} = {}
  BY DEF Has
<1> QED BY <1>3, <1>4, FS_CardinalityType, FS_EmptySet DEF Cnt

LEMMA AppendLonger ==
    ASSUME NEW s \in Seq(FrameTypes), NEW g \in FrameTypes
    PROVE  Longer(s, Append(s, g), g)
<1> DEFINE t == Append(s, g)
           n == Len(s)
<1>1. /\ n \in Nat /\ DOMAIN s = 1 .. n /\ t \in Seq(FrameTypes) /\ DOMAIN t = 1 .. (n + 1)
      /\ t[n + 1] = g /\ \A i \in 1 .. n : t[i] = s[i]
      /\ t # << >>
  OBVIOUS
<1>2. Head(t) = IF s = << >> THEN g ELSE Head(s)
  OBVIOUS
<1> HIDE DEF t, n
<1>3. \A f \in FrameTypes : Has(t, f) <=> Has(s, f) \/ f = g
  <2>1. ASSUME NEW f, Has(t, f) PROVE Has(s, f) \/ f = g
    BY <1>1, <2>1 DEF Has
  <2>2. ASSUME NEW f, Has(s, f) \/ f = g PROVE Has(t, f)
    BY <1>1, <2>2 DEF Has
  <2> QED BY <2>1, <2>2
<1>4. ASSUME NEW f \in FrameTypes PROVE Cnt(t, f) = Cnt(s, f) + (IF f = g THEN 1 ELSE 0)
  <2> DEFINE S == {i \in DOMAIN s : s[i] = f}
             T == {i \in DOMAIN t : t[i] = f}
  <2>1. IsFiniteSet(S) /\ n + 1 \notin S /\ Cardinality(S) \in Nat
    <3>1. n + 1 \notin S
      BY <1>1
    <3> QED BY <3>1, CntType, FS_CardinalityType
  <2>2. T = IF f = g THEN S \cup {n + 1} ELSE S
    BY <1>1
  <2> HIDE DEF S, T
  <2>3. Cardinality(S \cup {n + 1}) = Cardinality(S) + 1
    BY <2>1, FS_AddElement
  <2>4. Cardinality(T) = Cardinality(S) + (IF f = g THEN 1 ELSE 0)
    BY <2>1, <2>2, <2>3
  <2> QED BY <2>4 DEF Cnt, S, T
<1>5. LateData(t) <=> \/ LateData(s)
                      \/ g = "DATA" /\ (Has(s, "SHUTDOWN") \/ Has(s, "CLOSE"))
  <2>1. ASSUME LateData(s) PROVE LateData(t)
    <3>1. PICK i \in DOMAIN s, j \in DOMAIN s : i < j /\ s[i] \in {"SHUTDOWN", "CLOSE"} /\ s[j] = "DATA"
      BY <2>1 DEF LateData
    <3>2. i \in DOMAIN t /\ j \in DOMAIN t /\ t[i] = s[i] /\ t[j] = s[j]
      BY <1>1
    <3> QED BY <3>1, <3>2 DEF LateData
  <2>2. ASSUME g = "DATA", NEW i \in DOMAIN s, s[i] \in {"SHUTDOWN", "CLOSE"} PROVE LateData(t)
    <3>1. i \in DOMAIN t /\ n + 1 \in DOMAIN t /\ i < n + 1 /\ t[i] = s[i] /\ t[n + 1] = "DATA"
      BY <1>1, <2>2
    <3> QED BY <2>2, <3>1 DEF LateData
  <2>3. ASSUME NEW i \in DOMAIN t, NEW j \in DOMAIN t, i < j, t[i] \in {"SHUTDOWN", "CLOSE"}, t[j] = "DATA"
        PROVE  \/ LateData(s)
               \/ g = "DATA" /\ (Has(s, "SHUTDOWN") \/ Has(s, "CLOSE"))
    <3>1. i \in DOMAIN s /\ t[i] = s[i]
      BY <1>1, <2>3
    <3>2. CASE j \in DOMAIN s
      BY <1>1, <2>3, <3>1, <3>2 DEF LateData
    <3>3. CASE j \notin DOMAIN s
      <4>1. j = n + 1
        BY <1>1, <3>3
      <4> QED BY <1>1, <2>3, <3>1, <4>1 DEF Has
    <3> QED BY <3>2, <3>3
  <2>4. LateData(t) => \/ LateData(s)
                       \/ g = "DATA" /\ (Has(s, "SHUTDOWN") \/ Has(s, "CLOSE"))
    BY <2>3 DEF LateData
  <2>5. g = "DATA" /\ (Has(s, "SHUTDOWN") \/ Has(s, "CLOSE")) => LateData(t)
    BY <2>2 DEF Has
  <2> QED BY <2>1, <2>4, <2>5
<1>6. LateOpen(t) <=> \/ LateOpen(s)
                      \/ g = "OPEN" /\ s # << >>
  <2>1. s = << >> <=> n = 0
    BY DEF n
  <2>2. ASSUME LateOpen(s) \/ (g = "OPEN" /\ s # << >>) PROVE LateOpen(t)
    <3>1. ASSUME NEW i \in DOMAIN s, i # 1, s[i] = "OPEN" PROVE LateOpen(t)
      BY <1>1, <3>1 DEF LateOpen
    <3>2. ASSUME g = "OPEN", s # << >> PROVE LateOpen(t)
      <4>1. n + 1 \in DOMAIN t /\ n + 1 # 1 /\ t[n + 1] = "OPEN"
        BY <1>1, <2>1, <3>2
      <4> QED BY <4>1 DEF LateOpen
    <3> QED BY <2>2, <3>1, <3>2 DEF LateOpen
  <2>3. ASSUME NEW i \in DOMAIN t, i # 1, t[i] = "OPEN"
        PROVE  \/ LateOpen(s)
               \/ g = "OPEN" /\ s # << >>
    <3>1. CASE i \in DOMAIN s
      BY <1>1, <2>3, <3>1 DEF LateOpen
    <3>2. CASE i \notin DOMAIN s
      <4>1. i = n + 1
        BY <1>1, <3>2
      <4> QED BY <1>1, <2>1, <2>3, <4>1
    <3> QED BY <3>1, <3>2
  <2> QED BY <2>2, <2>3 DEF LateOpen
<1>7. Unlifted(t) <=> \/ g = "PAUSE"
                      \/ g # "RESUME" /\ Unlifted(s)
  <2>1. ASSUME g = "PAUSE" PROVE Unlifted(t)
    <3>1. n + 1 \in DOMAIN t /\ t[n + 1] = "PAUSE" /\ \A j \in DOMAIN t : ~(n + 1 < j)
      BY <1>1, <2>1
    <3> QED BY <3>1 DEF Unlifted
  <2>2. ASSUME g # "RESUME", Unlifted(s) PROVE Unlifted(t)
    <3>1. PICK i \in DOMAIN s : s[i] = "PAUSE" /\ \A j \in DOMAIN s : i < j => s[j] # "RESUME"
      BY <2>2 DEF Unlifted
    <3>2. i \in DOMAIN t /\ t[i] = "PAUSE"
      BY <1>1, <3>1
    <3>3. ASSUME NEW j \in DOMAIN t, i < j PROVE t[j] # "RESUME"
      BY <1>1, <2>2, <3>1, <3>3
    <3> QED BY <3>2, <3>3 DEF Unlifted
  <2>3. ASSUME NEW i \in DOMAIN t, t[i] = "PAUSE", \A j \in DOMAIN t : i < j => t[j] # "RESUME", g # "PAUSE"
        PROVE  g # "RESUME" /\ Unlifted(s)
    <3>1. i \in DOMAIN s /\ s[i] = "PAUSE" /\ i < n + 1 /\ n + 1 \in DOMAIN t
      BY <1>1, <2>3
    <3>2. g # "RESUME"
      BY <1>1, <2>3, <3>1
    <3>3. \A j \in DOMAIN s : i < j => s[j] # "RESUME"
      BY <1>1, <2>3
    <3> QED BY <3>1, <3>2, <3>3 DEF Unlifted
  <2> QED BY <2>1, <2>2, <2>3 DEF Unlifted
<1> HIDE DEF t
<1>8. Longer(s, t, g)
  BY <1>1, <1>2, <1>3, <1>4, <1>5, <1>6, <1>7 DEF Longer
<1> QED BY <1>8 DEF t

LEMMA TailShorter ==
    ASSUME NEW s \in Seq(FrameTypes), s # << >>
    PROVE  Shorter(s, Tail(s), Head(s))
<1> DEFINE t == Tail(s)
           h == Head(s)
           n == Len(t)
<1>1. /\ n \in Nat /\ DOMAIN t = 1 .. n /\ t \in Seq(FrameTypes) /\ DOMAIN s = 1 .. (n + 1)
      /\ s[1] = h /\ \A i \in 1 .. n : t[i] = s[i + 1]
  OBVIOUS
<1> HIDE DEF t, h, n
<1>2. \A i \in DOMAIN s : i # 1 => i - 1 \in DOMAIN t /\ t[i - 1] = s[i]
  <2> SUFFICES ASSUME NEW i \in DOMAIN s, i # 1 PROVE i - 1 \in DOMAIN t /\ t[i - 1] = s[i]
    OBVIOUS
  <2>1. i - 1 \in 1 .. n /\ (i - 1) + 1 = i
    BY <1>1
  <2> QED BY <1>1, <2>1
<1>3. \A i \in DOMAIN t : i \in Nat /\ i + 1 \in DOMAIN s /\ i + 1 # 1 /\ s[i + 1] = t[i]
  BY <1>1
<1>4. 1 \in DOMAIN s /\ s[1] = h /\ \A i \in DOMAIN s : i \in Nat /\ i >= 1
  BY <1>1
<1>5. ASSUME NEW f \in FrameTypes PROVE Has(s, f) <=> f = h \/ Has(t, f)
  <2>1. ASSUME NEW i \in DOMAIN s, s[i] = f, f # h PROVE Has(t, f)
    <3>1. i # 1
      BY <1>4, <2>1
    <3> QED BY <1>2, <2>1, <3>1 DEF Has
  <2>2. ASSUME NEW i \in DOMAIN t, t[i] = f PROVE Has(s, f)
    BY <1>3, <2>2 DEF Has
  <2>3. f = h => Has(s, f)
    BY <1>4 DEF Has
  <2> QED BY <2>1, <2>2, <2>3 DEF Has
<1>6. ASSUME NEW f \in FrameTypes PROVE Cnt(s, f) = Cnt(t, f) + (IF f = h THEN 1 ELSE 0)
  <2> DEFINE S == {i \in DOMAIN s : s[i] = f}
             R == {i \in DOMAIN s : s[i] = f /\ i # 1}
             T == {i \in DOMAIN t : t[i] = f}
             g == [i \in T |-> i + 1]
  <2>1. IsFiniteSet(S) /\ IsFiniteSet(T) /\ Cardinality(T) \in Nat
    <3>1. s \in Seq(FrameTypes) /\ t \in Seq(FrameTypes)
      BY <1>1
    <3> QED BY <3>1, CntType, FS_CardinalityType
  <2>2. g \in Bijection(T, R)
    <3>1. \A i \in T : g[i] \in R
      BY <1>3
    <3>2. \A i, j \in T : g[i] = g[j] => i = j
      BY <1>1
    <3>3. \A k \in R : \E i \in T : g[i] = k
      <4> SUFFICES ASSUME NEW k \in R PROVE \E i \in T : g[i] = k
        OBVIOUS
      <4>1. k - 1 \in T
        BY <1>2
      <4>2. g[k - 1] = k
        BY <1>4, <4>1
      <4> QED BY <4>1, <4>2
    <3>4. g \in [T -> R]
      BY <3>1
    <3> HIDE DEF g, T, R
    <3> QED BY <3>2, <3>3, <3>4 DEF Bijection, Injection, Surjection, IsInjective
  <2>3. S = (IF f = h THEN R \cup {1} ELSE R) /\ 1 \notin R
    BY <1>4
  <2> HIDE DEF S, R, T, g
  <2>4. IsFiniteSet(R) /\ Cardinality(R) = Cardinality(T)
    <3>1. R \subseteq S
      BY DEF R, S
    <3>2. IsFiniteSet(R)
      BY <2>1, <3>1, FS_Subset
    <3>3. ExistsBijection(T, R)
      BY <2>2 DEF ExistsBijection
    <3> QED BY <2>1, <3>2, <3>3, FS_Bijection
  <2>5. Cardinality(R \cup {1}) = Cardinality(R) + 1
    BY <2>3, <2>4, FS_AddElement
  <2>6. Cardinality(S) = Cardinality(T) + (IF f = h THEN 1 ELSE 0)
    BY <2>1, <2>3, <2>4, <2>5
  <2> QED BY <2>6 DEF Cnt, S, T
<1>7. LateData(s) <=> \/ LateData(t)
                      \/ h \in {"SHUTDOWN", "CLOSE"} /\ Has(t, "DATA")
  <2>1. ASSUME NEW i \in DOMAIN t, NEW j \in DOMAIN t, i < j, t[i] \in {"SHUTDOWN", "CLOSE"}, t[j] = "DATA"
        PROVE  LateData(s)
    <3>1. i + 1 < j + 1
      BY <1>3, <2>1
    <3> QED BY <1>3, <2>1, <3>1 DEF LateData
  <2>2. ASSUME h \in {"SHUTDOWN", "CLOSE"}, NEW j \in DOMAIN t, t[j] = "DATA" PROVE LateData(s)
    <3>1. 1 < j + 1
      BY <1>1
    <3> QED BY <1>3, <1>4, <2>2, <3>1 DEF LateData
  <2>3. ASSUME NEW i \in DOMAIN s, NEW j \in DOMAIN s, i < j, s[i] \in {"SHUTDOWN", "CLOSE"}, s[j] = "DATA"
        PROVE  \/ LateData(t)
               \/ h \in {"SHUTDOWN", "CLOSE"} /\ Has(t, "DATA")
    <3>1. j # 1 /\ j - 1 \in DOMAIN t /\ t[j - 1] = "DATA"
      BY <1>2, <1>4, <2>3
    <3>2. CASE i = 1
      BY <1>4, <2>3, <3>1, <3>2 DEF Has
    <3>3. CASE i # 1
      <4>1. i - 1 < j - 1 /\ i - 1 \in DOMAIN t /\ t[i - 1] = s[i]
        BY <1>2, <1>4, <2>3, <3>3
      <4> QED BY <2>3, <3>1, <4>1 DEF LateData
    <3> QED BY <3>2, <3>3
  <2>4. LateData(t) => LateData(s)
    BY <2>1 DEF LateData
  <2>5. h \in {"SHUTDOWN", "CLOSE"} /\ Has(t, "DATA") => LateData(s)
    BY <2>2 DEF Has
  <2>6. LateData(s) => \/ LateData(t)
                       \/ h \in {"SHUTDOWN", "CLOSE"} /\ Has(t, "DATA")
    BY <2>3 DEF LateData
  <2> QED BY <2>4, <2>5, <2>6
<1>8. (LateOpen(s) <=> Has(t, "OPEN")) /\ (LateOpen(t) => Has(t, "OPEN"))
  BY <1>2, <1>3 DEF LateOpen, Has
<1>9. Unlifted(s) <=> \/ Unlifted(t)
                      \/ h = "PAUSE" /\ ~Has(t, "RESUME")
  <2>1. ASSUME NEW i \in DOMAIN t, t[i] = "PAUSE", \A j \in DOMAIN t : i < j => t[j] # "RESUME"
        PROVE  Unlifted(s)
    <3>1. i + 1 \in DOMAIN s /\ s[i + 1] = "PAUSE" /\ i \in Nat
      BY <1>3, <2>1
    <3>2. ASSUME NEW j \in DOMAIN s, i + 1 < j PROVE s[j] # "RESUME"
      <4>1. j # 1 /\ j - 1 \in DOMAIN t /\ t[j - 1] = s[j] /\ i < j - 1
        BY <1>2, <1>4, <3>1, <3>2
      <4> QED BY <2>1, <4>1
    <3> QED BY <3>1, <3>2 DEF Unlifted
  <2>2. ASSUME h = "PAUSE", ~Has(t, "RESUME") PROVE Unlifted(s)
    <3>1. ASSUME NEW j \in DOMAIN s, 1 < j PROVE s[j] # "RESUME"
      <4>1. j # 1
        BY <3>1
      <4> QED BY <1>2, <2>2, <4>1 DEF Has
    <3> QED BY <1>4, <2>2, <3>1 DEF Unlifted
  <2>3. ASSUME NEW i \in DOMAIN s, s[i] = "PAUSE", \A j \in DOMAIN s : i < j => s[j] # "RESUME"
        PROVE  \/ Unlifted(t)
               \/ h = "PAUSE" /\ ~Has(t, "RESUME")
    <3>1. ASSUME NEW j \in DOMAIN t, i < j + 1 PROVE t[j] # "RESUME"
      BY <1>3, <2>3, <3>1
    <3>2. CASE i = 1
      <4>1. \A j \in DOMAIN t : 1 < j + 1
        BY <1>1
      <4> QED BY <1>4, <2>3, <3>1, <3>2, <4>1 DEF Has
    <3>3. CASE i # 1
      <4>1. i - 1 \in DOMAIN t /\ t[i - 1] = "PAUSE"
        BY <1>2, <2>3, <3>3
      <4>2. ASSUME NEW j \in DOMAIN t, i - 1 < j PROVE t[j] # "RESUME"
        <5>1. i < j + 1
          BY <1>3, <1>4, <4>2
        <5> QED BY <3>1, <5>1
      <4> QED BY <4>1, <4>2 DEF Unlifted
    <3> QED BY <3>2, <3>3
  <2>4. Unlifted(t) => Unlifted(s)
    BY <2>1 DEF Unlifted
  <2>5. Unlifted(s) => \/ Unlifted(t)
                       \/ h = "PAUSE" /\ ~Has(t, "RESUME")
    BY <2>3 DEF Unlifted
  <2> QED BY <2>2, <2>4, <2>5
<1>10. Shorter(s, t, h)
  BY <1>1, <1>5, <1>6, <1>7, <1>8, <1>9 DEF Shorter
<1> QED BY <1>10 DEF t, h

LEMMA NoFrames ==
    /\ \A f \in FrameTypes : ~Has(<< >>, f) /\ Cnt(<< >>, f) = 0
    /\ ~LateData(<< >>) /\ ~LateOpen(<< >>) /\ ~Unlifted(<< >>)
<1>1. << >> \in Seq(FrameTypes) /\ DOMAIN << >> = {}
  OBVIOUS
<1>2. \A f \in FrameTypes : ~Has(<< >>, f)
  BY <1>1 DEF Has
<1>3. \A f \in FrameTypes : Cnt(<< >>, f) = 0
  BY <1>1, <1>2, CntType
<1> QED BY <1>1, <1>2, <1>3 DEF LateData, LateOpen, Unlifted

-----------------------------------------------------------------------------
(* Types, without the bound on what was delivered *)

WeakType ==
    /\ sock \in [Ends -> {"none", "connecting", "open", "destroyed", "closed"}]
    /\ inMap \subseteq Ends /\ ended \subseteq Ends /\ ending \subseteq Ends
    /\ pf \in [Ends -> SUBSET {"R_TUNNEL", "R_PEER"}]
    /\ flowing \subseteq Ends /\ asked \subseteq Ends /\ needDrain \subseteq Ends
    /\ wbuf \in [Ends -> Nat]
    /\ chan \in [Ends -> Seq(FrameTypes)]
    /\ full \in [Ends -> BOOLEAN]
    /\ control \in [Ends -> {"up", "destroyed", "closed"}]
    /\ taken \in [Ends -> 0 .. MaxChunks]
    /\ got \in [Ends -> Nat]
    /\ reset \in BOOLEAN

LEMMA OtherEnd ==
    \A e \in Ends : /\ Other(e) \in Ends /\ Other(e) # e /\ Other(Other(e)) = e
                    /\ \A d \in Ends : d = e \/ d = Other(e)
BY DEF Ends, Other

LEMMA SentFrame ==
    ASSUME WeakType, NEW e \in Ends, NEW g \in FrameTypes, SendTo(e, g)
    PROVE  /\ chan' \in [Ends -> Seq(FrameTypes)]
           /\ chan'[Other(e)] = chan[Other(e)]
           /\ Up => Longer(chan[e], chan'[e], g)
           /\ ~Up => chan'[e] = chan[e]
<1>1. chan[e] \in Seq(FrameTypes) /\ Append(chan[e], g) \in Seq(FrameTypes)
  BY DEF WeakType
<1>2. chan' = IF Up THEN [chan EXCEPT ![e] = Append(chan[e], g)] ELSE chan
  BY DEF SendTo
<1>3. Longer(chan[e], Append(chan[e], g), g)
  BY <1>1, AppendLonger
<1>4. chan \in [Ends -> Seq(FrameTypes)]
  BY DEF WeakType
<1>5. CASE Up
  BY <1>1, <1>2, <1>3, <1>4, <1>5, OtherEnd
<1>6. CASE ~Up
  BY <1>2, <1>4, <1>6
<1> QED BY <1>5, <1>6

LEMMA ReceivedFrame ==
    ASSUME WeakType, NEW e \in Ends, NEW g \in FrameTypes, Receive(e, g)
    PROVE  /\ chan' \in [Ends -> Seq(FrameTypes)]
           /\ chan'[Other(e)] = chan[Other(e)]
           /\ chan[e] # << >> /\ Head(chan[e]) = g
           /\ Shorter(chan[e], chan'[e], g)
<1>1. chan[e] \in Seq(FrameTypes) /\ chan[e] # << >> /\ Head(chan[e]) = g
  BY DEF WeakType, Receive
<1>2. Shorter(chan[e], Tail(chan[e]), g) /\ Tail(chan[e]) \in Seq(FrameTypes)
  BY <1>1, TailShorter
<1>3. chan' = [chan EXCEPT ![e] = Tail(chan[e])] /\ chan \in [Ends -> Seq(FrameTypes)]
  BY DEF WeakType, Receive
<1> QED BY <1>1, <1>2, <1>3, OtherEnd

LEMMA AnsweredFrame ==
    ASSUME WeakType, NEW e \in Ends, NEW g \in FrameTypes, NEW h \in FrameTypes, ReceiveAndSend(e, g, h)
    PROVE  /\ chan' \in [Ends -> Seq(FrameTypes)]
           /\ chan[e] # << >> /\ Head(chan[e]) = g
           /\ Shorter(chan[e], chan'[e], g)
           /\ Up => Longer(chan[Other(e)], chan'[Other(e)], h)
           /\ ~Up => chan'[Other(e)] = chan[Other(e)]
<1> DEFINE o == Other(e)
<1>1. chan[e] \in Seq(FrameTypes) /\ chan[e] # << >> /\ Head(chan[e]) = g
  BY DEF WeakType, ReceiveAndSend
<1>2. Shorter(chan[e], Tail(chan[e]), g) /\ Tail(chan[e]) \in Seq(FrameTypes)
  BY <1>1, TailShorter
<1>3. chan[o] \in Seq(FrameTypes) /\ Append(chan[o], h) \in Seq(FrameTypes)
  BY OtherEnd DEF WeakType
<1>4. Longer(chan[o], Append(chan[o], h), h)
  BY <1>3, AppendLonger
<1>5. /\ chan' = [chan EXCEPT ![e] = Tail(chan[e]), ![o] = IF Up THEN Append(chan[o], h) ELSE chan[o]]
      /\ chan \in [Ends -> Seq(FrameTypes)] /\ e # o /\ o \in Ends
  BY OtherEnd DEF WeakType, ReceiveAndSend
<1> HIDE DEF o
<1>6. chan'[e] = Tail(chan[e]) /\ chan'[o] = IF Up THEN Append(chan[o], h) ELSE chan[o]
  BY <1>5
<1>7. chan' \in [Ends -> Seq(FrameTypes)]
  BY <1>2, <1>3, <1>5
<1>8. /\ Up => Longer(chan[o], chan'[o], h)
      /\ ~Up => chan'[o] = chan[o]
  BY <1>4, <1>6
<1> QED BY <1>1, <1>2, <1>6, <1>7, <1>8 DEF o

LEMMA WeakTypeStep == WeakType /\ [Next]_vars => WeakType'
<1> SUFFICES ASSUME WeakType, [Next]_vars PROVE WeakType'
  OBVIOUS
<1> USE DEF app, halves, flow, tables, out
<1>1. ASSUME NEW e \in Ends, Socket(e) PROVE WeakType'
  <2>0. Other(e) \in Ends /\ {"DATA", "RESUME", "CLOSE"} \subseteq FrameTypes
    BY OtherEnd DEF FrameTypes
  <2>1. CASE Data(e)
    <3>1. chan' \in [Ends -> Seq(FrameTypes)]
      BY <2>0, <2>1, SentFrame DEF Data
    <3>2. taken' \in [Ends -> 0 .. MaxChunks]
      BY <2>1 DEF Data, WeakType
    <3>3. pf' \in [Ends -> SUBSET {"R_TUNNEL", "R_PEER"}] /\ flowing' \subseteq Ends /\ full' \in [Ends -> BOOLEAN]
      <4>1. CASE UNCHANGED flow
        BY <4>1 DEF WeakType
      <4>2. CASE pauseRead(e, "R_TUNNEL") /\ full' = [full EXCEPT ![e] = control[e] = "up"]
        <5>1. flowing' \subseteq flowing /\ pf' = [pf EXCEPT ![e] = @ \cup {"R_TUNNEL"}]
          BY <4>2 DEF pauseRead
        <5> QED BY <4>2, <5>1 DEF WeakType
      <4> QED BY <2>1, <4>1, <4>2 DEF Data
    <3> QED BY <2>1, <3>1, <3>2, <3>3 DEF Data, WeakType
  <2>2. CASE Consume(e)
    <3>1. chan' \in [Ends -> Seq(FrameTypes)]
      BY <2>0, <2>2, SentFrame DEF Consume, WeakType
    <3>2. wbuf' \in [Ends -> Nat] /\ got' \in [Ends -> Nat]
      BY <2>2 DEF Consume, WeakType
    <3> QED BY <2>2, <3>1, <3>2 DEF Consume, WeakType
  <2>3. CASE TunnelDrain(e)
    BY <2>3 DEF TunnelDrain, resumeRead, WeakType
  <2>4. CASE AutoDestroy(e)
    BY <2>4 DEF AutoDestroy, WeakType
  <2>5. CASE Close(e)
    <3>1. chan' \in [Ends -> Seq(FrameTypes)]
      BY <2>0, <2>5, SentFrame DEF Close, WeakType
    <3> QED BY <2>5, <3>1 DEF Close, WeakType
  <2>6. CASE ControlClosed(e)
    BY <2>6 DEF ControlClosed, Orphaned, WeakType
  <2>7. CASE ControlLost(e)
    BY <2>7 DEF ControlLost, WeakType
  <2> QED BY <1>1, <2>1, <2>2, <2>3, <2>4, <2>5, <2>6, <2>7 DEF Socket
<1>2. ASSUME NEW e \in Ends, Frame(e) PROVE WeakType'
  <2>0. {"DATA", "PAUSE", "RESUME", "SHUTDOWN", "CLOSE"} \subseteq FrameTypes
    BY DEF FrameTypes
  <2>1. CASE FrameData(e)
    <3>1. chan' \in [Ends -> Seq(FrameTypes)]
      BY <2>0, <2>1, ReceivedFrame, AnsweredFrame DEF FrameData
    <3>2. wbuf' \in [Ends -> Nat] /\ needDrain' \subseteq Ends /\ asked' \subseteq Ends
      <4>1. CASE e \notin inMap \/ ~Live(e)
        BY <2>1, <4>1 DEF FrameData, WeakType
      <4>2. CASE ~(e \notin inMap \/ ~Live(e))
        <5>1. /\ wbuf' = [wbuf EXCEPT ![e] = @ + 1]
              /\ needDrain' \subseteq needDrain \cup {e} /\ asked' \subseteq asked \cup {e}
          BY <2>1, <4>2 DEF FrameData
        <5> QED BY <5>1 DEF WeakType
      <4> QED BY <4>1, <4>2
    <3> QED BY <2>1, <3>1, <3>2 DEF FrameData, WeakType
  <2>2. CASE FramePause(e)
    <3>1. chan' \in [Ends -> Seq(FrameTypes)]
      BY <2>0, <2>2, ReceivedFrame DEF FramePause
    <3>2. flowing' \subseteq flowing /\ pf' \in [Ends -> SUBSET {"R_TUNNEL", "R_PEER"}]
      <4>1. CASE e \in inMap
        <5>1. pf' = [pf EXCEPT ![e] = @ \cup {"R_PEER"}] /\ flowing' = IF pf[e] = {} THEN flowing \ {e} ELSE flowing
          BY <2>2, <4>1 DEF FramePause, pauseRead
        <5>2. flowing' \subseteq flowing
          BY <5>1
        <5> QED BY <5>1, <5>2 DEF WeakType
      <4>2. CASE e \notin inMap
        BY <2>2, <4>2 DEF FramePause, WeakType
      <4> QED BY <4>1, <4>2
    <3> QED BY <2>2, <3>1, <3>2 DEF FramePause, WeakType
  <2>3. CASE FrameResume(e)
    <3>1. chan' \in [Ends -> Seq(FrameTypes)]
      BY <2>0, <2>3, ReceivedFrame DEF FrameResume
    <3>2. flowing' \subseteq Ends /\ pf' \in [Ends -> SUBSET {"R_TUNNEL", "R_PEER"}]
      <4>1. CASE e \in inMap
        <5>1. /\ pf' = [pf EXCEPT ![e] = pf[e] \ {"R_PEER"}]
              /\ flowing' \subseteq flowing \cup {e}
          BY <2>3, <4>1 DEF FrameResume, resumeRead
        <5> QED BY <5>1 DEF WeakType
      <4>2. CASE e \notin inMap
        BY <2>3, <4>2 DEF FrameResume, WeakType
      <4> QED BY <4>1, <4>2
    <3>3. UNCHANGED <<sock, tables, halves, full, out, app>>
      BY <2>3 DEF FrameResume
    <3> QED BY <3>1, <3>2, <3>3 DEF tables, halves, out, app, WeakType
  <2>4. CASE FrameShutdown(e)
    <3>1. chan' \in [Ends -> Seq(FrameTypes)]
      BY <2>0, <2>4, ReceivedFrame DEF FrameShutdown
    <3> QED BY <2>4, <3>1 DEF FrameShutdown, WeakType
  <2>5. CASE FrameClose(e)
    <3>1. chan' \in [Ends -> Seq(FrameTypes)]
      BY <2>0, <2>5, ReceivedFrame DEF FrameClose
    <3> QED BY <2>5, <3>1 DEF FrameClose, WeakType
  <2> QED BY <1>2, <2>1, <2>2, <2>3, <2>4, <2>5 DEF Frame
<1>3. ASSUME NEW e \in Ends, End(e) PROVE WeakType'
  <2>1. chan' \in [Ends -> Seq(FrameTypes)]
    BY <1>3, OtherEnd, SentFrame DEF End, FrameTypes
  <2> QED BY <1>3, <2>1 DEF End, WeakType
<1>4. ASSUME NEW e \in Ends, Reset(e) \/ ControlLost(e) PROVE WeakType'
  <2>1. CASE Reset(e)
    BY <2>1 DEF Reset, WeakType
  <2>2. CASE ControlLost(e)
    BY <2>2 DEF ControlLost, WeakType
  <2> QED BY <1>4, <2>1, <2>2
<1>5. CASE FrameOpen
  <2>1. chan' \in [Ends -> Seq(FrameTypes)]
    BY <1>5, ReceivedFrame DEF FrameOpen, Ends, FrameTypes
  <2> QED BY <1>5, <2>1 DEF FrameOpen, WeakType, Ends
<1>6. CASE ProviderConnected \/ DialFailed
  BY <1>6 DEF ProviderConnected, DialFailed, WeakType
<1>7. CASE UNCHANGED vars
  BY <1>7 DEF vars, WeakType
<1> QED BY <1>1, <1>2, <1>3, <1>4, <1>5, <1>6, <1>7 DEF Next

-----------------------------------------------------------------------------
(* The inductive invariant *)

\* The end has not forgotten the stream: it holds it, or its OPEN is to come.
Knows(e) == sock[e] = "none" \/ e \in inMap

\* Chunks that reach the end are written to its socket, or will be.
Takes(e) == sock[e] = "none" \/ (Live(e) /\ e \in inMap)

\* OPEN comes first, to an end that has no socket yet.
OpenInv(e) ==
    /\ ~LateOpen(chan[e])
    /\ Has(chan[e], "OPEN") => sock[e] = "none"
    /\ sock[e] = "none" => /\ e \notin inMap /\ e \notin asked /\ "R_PEER" \notin pf[e]
                           /\ chan[e] # << >> => Head(chan[e]) = "OPEN"
                           /\ Up => chan[e] # << >>

\* What SHUTDOWN and CLOSE say of their sender, and that no chunk follows them.
FinalInv(e) ==
    /\ ~LateData(chan[e])
    /\ Has(chan[e], "SHUTDOWN") => Other(e) \in ended
    /\ Has(chan[e], "CLOSE") => sock[Other(e)] = "closed"
    /\ sock[e] = "closed" => e \notin inMap

\* An end that forgot the stream has told the other one.
TableInv(e) == Up /\ Knows(e) => Knows(Other(e)) \/ Has(chan[e], "CLOSE")

\* Who asked for a pause has chunks to flush, unless it ends; who is paused, or
\* is about to be, has been asked to, or is about to be resumed.
PauseInv(e) ==
    /\ e \in asked => e \in needDrain
    /\ e \in needDrain => wbuf[e] > 0 \/ e \in ending
    /\ e \in ending => Other(e) \in ended \/ sock[Other(e)] = "closed"
    /\ Up /\ Unlifted(chan[e]) => Other(e) \in asked
    /\ Up /\ e \in inMap /\ "R_PEER" \in pf[e] => Other(e) \in asked \/ Has(chan[e], "RESUME")

\* No chunk is doubled, and none is lost while the end's socket takes them and
\* the tunnel holds, or the frame that ends the data is on its way.
CountInv(e) ==
    /\ Cnt(chan[e], "DATA") + wbuf[e] + got[e] <= taken[Other(e)]
    /\ Takes(e) /\ (Up \/ Has(chan[e], "SHUTDOWN") \/ (Has(chan[e], "CLOSE") /\ ~reset)) =>
        taken[Other(e)] = Cnt(chan[e], "DATA") + wbuf[e] + got[e]

\* Unless somebody reset, an end is closed, or ended, after its application's FIN.
FinInv(e) ==
    /\ ~reset /\ Has(chan[e], "CLOSE") => Other(e) \in ended
    /\ ~reset /\ sock[e] = "destroyed" /\ e \in inMap => e \in ended
    /\ ~reset /\ e \in ending =>
        /\ Other(e) \in ended /\ ~Has(chan[e], "DATA")
        /\ taken[Other(e)] = wbuf[e] + got[e]

EndInv(e) == OpenInv(e) /\ FinalInv(e) /\ TableInv(e) /\ PauseInv(e) /\ CountInv(e) /\ FinInv(e)

StreamInv == sock["A"] # "none" /\ \A e \in Ends : EndInv(e)

\* A frame arrives at an end that has its socket, unless it is the OPEN.
LEMMA FrameAfterOpen ==
    ASSUME StreamInv, NEW e \in Ends, chan[e] # << >>, Head(chan[e]) # "OPEN"
    PROVE  sock[e] # "none"
BY DEF StreamInv, EndInv, OpenInv

LEMMA Counts ==
    ASSUME WeakType
    PROVE  \A e \in Ends : /\ taken[e] \in Nat /\ got[e] \in Nat /\ wbuf[e] \in Nat /\ Cnt(chan[e], "DATA") \in Nat
                           /\ ~Has(chan[e], "DATA") => Cnt(chan[e], "DATA") = 0
<1>1. \A e \in Ends : Cnt(chan[e], "DATA") \in Nat /\ (~Has(chan[e], "DATA") => Cnt(chan[e], "DATA") = 0)
  BY CntType DEF WeakType, FrameTypes
<1> QED BY <1>1 DEF WeakType

-----------------------------------------------------------------------------
(* Every step keeps the invariant: for each action of the end a, what it does *)
(* to the frames in transit, what it changes at the two ends, and then the    *)
(* parts of the invariant at both.                                            *)

LEMMA DataStep ==
    ASSUME WeakType, WeakType', StreamInv, NEW a \in Ends, Data(a)
    PROVE  StreamInv'
<1> DEFINE o == Other(a)
<1>1. o \in Ends /\ o # a /\ Other(a) = o /\ Other(o) = a /\ \A e \in Ends : e = a \/ e = o
  BY OtherEnd
<1> HIDE DEF o
<1>2. EndInv(a) /\ EndInv(o) /\ sock["A"] # "none"
  BY <1>1 DEF StreamInv
<1>3. /\ chan'[a] = chan[a]
      /\ Up => Longer(chan[o], chan'[o], "DATA")
      /\ ~Up => chan'[o] = chan[o]
  <2>1. "DATA" \in FrameTypes /\ SendTo(o, "DATA")
    BY DEF Data, o, FrameTypes
  <2> QED BY <1>1, <2>1, SentFrame
<1>4. /\ sock[a] = "open" /\ a \notin ended /\ taken'[a] = taken[a] + 1 /\ taken'[o] = taken[o]
      /\ UNCHANGED <<sock, inMap, control, ended, ending, asked, needDrain, wbuf, got, reset>>
      /\ \A e \in Ends : "R_PEER" \in pf'[e] => "R_PEER" \in pf[e]
  <2>1. \A e \in Ends : "R_PEER" \in pf'[e] => "R_PEER" \in pf[e]
    <3>1. CASE UNCHANGED flow
      BY <3>1 DEF flow
    <3>2. CASE pauseRead(a, "R_TUNNEL")
      BY <3>2 DEF pauseRead, WeakType
    <3> QED BY <3>1, <3>2 DEF Data
  <2> QED BY <1>1, <2>1 DEF Data, tables, halves, out, WeakType
<1>5. OpenInv(a)' /\ OpenInv(o)'
  BY <1>1, <1>2, <1>3, <1>4 DEF EndInv, OpenInv, Up, Live, Longer, Shorter, FrameTypes
<1>6. FinalInv(a)' /\ FinalInv(o)'
  BY <1>1, <1>2, <1>3, <1>4 DEF EndInv, OpenInv, FinalInv, Live, Longer, Shorter, FrameTypes
<1>7. TableInv(a)' /\ TableInv(o)'
  BY <1>1, <1>2, <1>3, <1>4 DEF EndInv, OpenInv, FinalInv, TableInv, Knows, Live, Up, Longer, Shorter, FrameTypes
<1>8. PauseInv(a)' /\ PauseInv(o)'
  BY <1>1, <1>2, <1>3, <1>4, Counts DEF EndInv, OpenInv, FinalInv, PauseInv, Up, Live, Longer, Shorter, FrameTypes
<1>9. CountInv(a)' /\ CountInv(o)'
  <2>1. /\ taken[a] \in Nat /\ got[a] \in Nat /\ wbuf[a] \in Nat /\ Cnt(chan[a], "DATA") \in Nat /\ Cnt(chan'[a], "DATA") \in Nat
        /\ taken[o] \in Nat /\ got[o] \in Nat /\ wbuf[o] \in Nat /\ Cnt(chan[o], "DATA") \in Nat /\ Cnt(chan'[o], "DATA") \in Nat
    BY <1>1, Counts, CntType DEF WeakType, FrameTypes
  <2>2. /\ Up => Cnt(chan'[o], "DATA") = Cnt(chan[o], "DATA") + 1
        /\ Has(chan'[o], "SHUTDOWN") => Has(chan[o], "SHUTDOWN")
        /\ Has(chan'[o], "CLOSE") => Has(chan[o], "CLOSE")
    BY <1>3, <2>1 DEF Longer, Shorter, FrameTypes
  <2>3. Takes(a)' => Takes(a)
    BY <1>1, <1>2, <1>3, <1>4 DEF EndInv, OpenInv, Takes, Live
  <2>4. Takes(o)' => Takes(o)
    BY <1>1, <1>2, <1>3, <1>4 DEF EndInv, OpenInv, Takes, Live
  <2>5. OpenInv(a) /\ OpenInv(o) /\ FinalInv(a) /\ FinalInv(o) /\ CountInv(a) /\ CountInv(o)
    BY <1>2 DEF EndInv
  <2>6. CountInv(a)'
    <3>1. Cnt(chan'[a], "DATA") + wbuf'[a] + got'[a] <= taken'[o]
      BY <1>3, <1>4, <2>1, <2>2, <2>5, <1>1 DEF CountInv
    <3>2. ASSUME Takes(a)', Up' \/ Has(chan'[a], "SHUTDOWN") \/ (Has(chan'[a], "CLOSE") /\ ~reset')
          PROVE  taken'[o] = Cnt(chan'[a], "DATA") + wbuf'[a] + got'[a]
      <4>1. taken[o] = Cnt(chan[a], "DATA") + wbuf[a] + got[a]
        BY <1>1, <1>3, <1>4, <2>2, <2>3, <2>5, <3>2 DEF CountInv, Up
      <4> QED BY <1>1, <1>3, <1>4, <2>1, <2>2, <2>5, <3>2, <4>1 DEF OpenInv, FinalInv, Takes, Live, Up
    <3> QED BY <1>1, <3>1, <3>2 DEF CountInv
  <2>7. CountInv(o)'
    <3>1. Cnt(chan'[o], "DATA") + wbuf'[o] + got'[o] <= taken'[a]
      BY <1>3, <1>4, <2>1, <2>2, <2>5, <1>1 DEF CountInv
    <3>2. ASSUME Takes(o)', Up' \/ Has(chan'[o], "SHUTDOWN") \/ (Has(chan'[o], "CLOSE") /\ ~reset')
          PROVE  taken'[a] = Cnt(chan'[o], "DATA") + wbuf'[o] + got'[o]
      <4>1. taken[a] = Cnt(chan[o], "DATA") + wbuf[o] + got[o]
        BY <1>1, <1>3, <1>4, <2>2, <2>4, <2>5, <3>2 DEF CountInv, Up
      <4> QED BY <1>1, <1>3, <1>4, <2>1, <2>2, <2>5, <3>2, <4>1 DEF FinalInv, Up
    <3> QED BY <1>1, <3>1, <3>2 DEF CountInv
  <2> QED BY <2>6, <2>7
<1>10. FinInv(a)' /\ FinInv(o)'
  BY <1>1, <1>2, <1>3, <1>4, Counts DEF EndInv, FinInv, FinalInv, CountInv, Takes, Live, Longer, Shorter, FrameTypes
<1> QED BY <1>1, <1>2, <1>4, <1>5, <1>6, <1>7, <1>8, <1>9, <1>10 DEF StreamInv, EndInv

LEMMA EndStep ==
    ASSUME WeakType, WeakType', StreamInv, NEW a \in Ends, End(a)
    PROVE  StreamInv'
<1> DEFINE o == Other(a)
<1>1. o \in Ends /\ o # a /\ Other(a) = o /\ Other(o) = a /\ \A e \in Ends : e = a \/ e = o
  BY OtherEnd
<1> HIDE DEF o
<1>2. EndInv(a) /\ EndInv(o) /\ sock["A"] # "none"
  BY <1>1 DEF StreamInv
<1>3. /\ chan'[a] = chan[a]
      /\ Up => Longer(chan[o], chan'[o], "SHUTDOWN")
      /\ ~Up => chan'[o] = chan[o]
  <2>1. "SHUTDOWN" \in FrameTypes /\ SendTo(o, "SHUTDOWN")
    BY DEF End, o, FrameTypes
  <2> QED BY <1>1, <2>1, SentFrame
<1>4. /\ sock[a] = "open" /\ ended' = ended \cup {a}
      /\ UNCHANGED <<sock, inMap, control, ending, pf, asked, needDrain, wbuf, taken, got, reset>>
  BY DEF End, tables, flow, out, app
<1>5. OpenInv(a)' /\ OpenInv(o)'
  BY <1>1, <1>2, <1>3, <1>4 DEF EndInv, OpenInv, Up, Live, Longer, Shorter, FrameTypes
<1>6. FinalInv(a)' /\ FinalInv(o)'
  BY <1>1, <1>2, <1>3, <1>4 DEF EndInv, OpenInv, FinalInv, Live, Longer, Shorter, FrameTypes
<1>7. TableInv(a)' /\ TableInv(o)'
  BY <1>1, <1>2, <1>3, <1>4 DEF EndInv, OpenInv, FinalInv, TableInv, Knows, Live, Up, Longer, Shorter, FrameTypes
<1>8. PauseInv(a)' /\ PauseInv(o)'
  BY <1>1, <1>2, <1>3, <1>4, Counts DEF EndInv, OpenInv, FinalInv, PauseInv, Up, Live, Longer, Shorter, FrameTypes
<1>9. CountInv(a)' /\ CountInv(o)'
  BY <1>1, <1>2, <1>3, <1>4, Counts DEF EndInv, OpenInv, FinalInv, CountInv, Takes, Live, Up, Longer, Shorter, FrameTypes
<1>10. FinInv(a)' /\ FinInv(o)'
  BY <1>1, <1>2, <1>3, <1>4, Counts DEF EndInv, FinInv, FinalInv, CountInv, Takes, Live, Longer, Shorter, FrameTypes
<1> QED BY <1>1, <1>2, <1>4, <1>5, <1>6, <1>7, <1>8, <1>9, <1>10 DEF StreamInv, EndInv

LEMMA ConsumeStep ==
    ASSUME WeakType, WeakType', StreamInv, NEW a \in Ends, Consume(a)
    PROVE  StreamInv'
<1> DEFINE o == Other(a)
<1>1. o \in Ends /\ o # a /\ Other(a) = o /\ Other(o) = a /\ \A e \in Ends : e = a \/ e = o
  BY OtherEnd
<1> HIDE DEF o
<1>2. EndInv(a) /\ EndInv(o) /\ sock["A"] # "none"
  BY <1>1 DEF StreamInv
<1>3. /\ chan'[a] = chan[a]
      /\ \/ chan'[o] = chan[o]
         \/ Up /\ Longer(chan[o], chan'[o], "RESUME")
      /\ \/ needDrain' = needDrain /\ asked' = asked /\ ~(wbuf[a] = 1 /\ a \in needDrain /\ a \notin ending)
         \/ /\ needDrain' = needDrain \ {a} /\ asked' = asked \ {a}
            /\ Up /\ a \in asked => Longer(chan[o], chan'[o], "RESUME")
  <2>1. CASE wbuf[a] = 1 /\ a \in needDrain /\ a \notin ending
    <3>1. CASE a \in asked
      <4>1. "RESUME" \in FrameTypes /\ SendTo(o, "RESUME")
        BY <2>1, <3>1 DEF Consume, o, FrameTypes
      <4> QED BY <1>1, <2>1, <4>1, SentFrame DEF Consume
    <3>2. CASE a \notin asked
      BY <2>1, <3>2 DEF Consume
    <3> QED BY <3>1, <3>2
  <2>2. CASE ~(wbuf[a] = 1 /\ a \in needDrain /\ a \notin ending)
    BY <2>2 DEF Consume
  <2> QED BY <2>1, <2>2
<1>4. /\ sock[a] = "open" /\ wbuf[a] > 0 /\ wbuf'[a] = wbuf[a] - 1 /\ wbuf'[o] = wbuf[o]
      /\ got'[a] = got[a] + 1 /\ got'[o] = got[o]
      /\ UNCHANGED <<sock, inMap, control, ended, ending, pf, taken, reset>>
  BY <1>1 DEF Consume, tables, halves, flow, WeakType
<1>5. OpenInv(a)' /\ OpenInv(o)'
  BY <1>1, <1>2, <1>3, <1>4 DEF EndInv, OpenInv, Up, Live, Longer, Shorter, FrameTypes
<1>6. FinalInv(a)' /\ FinalInv(o)'
  BY <1>1, <1>2, <1>3, <1>4 DEF EndInv, OpenInv, FinalInv, Live, Longer, Shorter, FrameTypes
<1>7. TableInv(a)' /\ TableInv(o)'
  BY <1>1, <1>2, <1>3, <1>4 DEF EndInv, OpenInv, FinalInv, TableInv, Knows, Live, Up, Longer, Shorter, FrameTypes
<1>8. PauseInv(a)' /\ PauseInv(o)'
  BY <1>1, <1>2, <1>3, <1>4, Counts DEF EndInv, OpenInv, FinalInv, PauseInv, Up, Live, Longer, Shorter, FrameTypes
<1>9. CountInv(a)' /\ CountInv(o)'
  <2>1. /\ taken[a] \in Nat /\ got[a] \in Nat /\ wbuf[a] \in Nat /\ Cnt(chan[a], "DATA") \in Nat /\ Cnt(chan'[a], "DATA") \in Nat
        /\ taken[o] \in Nat /\ got[o] \in Nat /\ wbuf[o] \in Nat /\ Cnt(chan[o], "DATA") \in Nat /\ Cnt(chan'[o], "DATA") \in Nat
    BY <1>1, Counts, CntType DEF WeakType, FrameTypes
  <2>2. /\ Cnt(chan'[o], "DATA") = Cnt(chan[o], "DATA")
        /\ Has(chan'[o], "SHUTDOWN") => Has(chan[o], "SHUTDOWN")
        /\ Has(chan'[o], "CLOSE") => Has(chan[o], "CLOSE")
    BY <1>3, <2>1 DEF Longer, Shorter, FrameTypes
  <2>3. Takes(a)' => Takes(a)
    BY <1>1, <1>2, <1>3, <1>4 DEF EndInv, OpenInv, Takes, Live
  <2>4. Takes(o)' => Takes(o)
    BY <1>1, <1>2, <1>3, <1>4 DEF EndInv, OpenInv, Takes, Live
  <2>5. OpenInv(a) /\ OpenInv(o) /\ FinalInv(a) /\ FinalInv(o) /\ CountInv(a) /\ CountInv(o)
    BY <1>2 DEF EndInv
  <2>6. CountInv(a)'
    <3>1. Cnt(chan'[a], "DATA") + wbuf'[a] + got'[a] <= taken'[o]
      BY <1>3, <1>4, <2>1, <2>2, <2>5, <1>1 DEF CountInv
    <3>2. ASSUME Takes(a)', Up' \/ Has(chan'[a], "SHUTDOWN") \/ (Has(chan'[a], "CLOSE") /\ ~reset')
          PROVE  taken'[o] = Cnt(chan'[a], "DATA") + wbuf'[a] + got'[a]
      <4>1. taken[o] = Cnt(chan[a], "DATA") + wbuf[a] + got[a]
        BY <1>1, <1>3, <1>4, <2>2, <2>3, <2>5, <3>2 DEF CountInv, Up
      <4> QED BY <1>1, <1>3, <1>4, <2>1, <2>2, <2>5, <3>2, <4>1 DEF OpenInv, FinalInv, Takes, Live, Up
    <3> QED BY <1>1, <3>1, <3>2 DEF CountInv
  <2>7. CountInv(o)'
    <3>1. Cnt(chan'[o], "DATA") + wbuf'[o] + got'[o] <= taken'[a]
      BY <1>3, <1>4, <2>1, <2>2, <2>5, <1>1 DEF CountInv
    <3>2. ASSUME Takes(o)', Up' \/ Has(chan'[o], "SHUTDOWN") \/ (Has(chan'[o], "CLOSE") /\ ~reset')
          PROVE  taken'[a] = Cnt(chan'[o], "DATA") + wbuf'[o] + got'[o]
      <4>1. taken[a] = Cnt(chan[o], "DATA") + wbuf[o] + got[o]
        BY <1>1, <1>3, <1>4, <2>2, <2>4, <2>5, <3>2 DEF CountInv, Up
      <4> QED BY <1>1, <1>3, <1>4, <2>1, <2>2, <2>5, <3>2, <4>1 DEF FinalInv, Up
    <3> QED BY <1>1, <3>1, <3>2 DEF CountInv
  <2> QED BY <2>6, <2>7
<1>10. FinInv(a)' /\ FinInv(o)'
  <2>1. wbuf'[a] + got'[a] = wbuf[a] + got[a] /\ wbuf'[o] + got'[o] = wbuf[o] + got[o]
    BY <1>1, <1>4, Counts
  <2>2. /\ Has(chan'[o], "CLOSE") => Has(chan[o], "CLOSE")
        /\ Has(chan'[o], "DATA") => Has(chan[o], "DATA")
    BY <1>3 DEF Longer, FrameTypes
  <2>3. FinInv(a) /\ FinInv(o)
    BY <1>2 DEF EndInv
  <2> QED BY <1>1, <1>3, <1>4, <2>1, <2>2, <2>3 DEF FinInv
<1> QED BY <1>1, <1>2, <1>4, <1>5, <1>6, <1>7, <1>8, <1>9, <1>10 DEF StreamInv, EndInv

LEMMA TunnelDrainStep ==
    ASSUME WeakType, WeakType', StreamInv, NEW a \in Ends, TunnelDrain(a)
    PROVE  StreamInv'
<1> DEFINE o == Other(a)
<1>1. o \in Ends /\ o # a /\ Other(a) = o /\ Other(o) = a /\ \A e \in Ends : e = a \/ e = o
  BY OtherEnd
<1> HIDE DEF o
<1>2. EndInv(a) /\ EndInv(o) /\ sock["A"] # "none"
  BY <1>1 DEF StreamInv
<1>3. chan' = chan
  BY DEF TunnelDrain
<1>4. /\ UNCHANGED <<sock, inMap, control, ended, ending, asked, needDrain, wbuf, taken, got, reset>>
      /\ \A e \in Ends : "R_PEER" \in pf'[e] => "R_PEER" \in pf[e]
  BY DEF TunnelDrain, resumeRead, tables, halves, out, app, WeakType
<1>5. OpenInv(a)' /\ OpenInv(o)'
  BY <1>1, <1>2, <1>3, <1>4 DEF EndInv, OpenInv, Up, Live, Longer, Shorter, FrameTypes
<1>6. FinalInv(a)' /\ FinalInv(o)'
  BY <1>1, <1>2, <1>3, <1>4 DEF EndInv, OpenInv, FinalInv, Live, Longer, Shorter, FrameTypes
<1>7. TableInv(a)' /\ TableInv(o)'
  BY <1>1, <1>2, <1>3, <1>4 DEF EndInv, OpenInv, FinalInv, TableInv, Knows, Live, Up, Longer, Shorter, FrameTypes
<1>8. PauseInv(a)' /\ PauseInv(o)'
  BY <1>1, <1>2, <1>3, <1>4, Counts DEF EndInv, OpenInv, FinalInv, PauseInv, Up, Live, Longer, Shorter, FrameTypes
<1>9. CountInv(a)' /\ CountInv(o)'
  BY <1>1, <1>2, <1>3, <1>4, Counts DEF EndInv, OpenInv, FinalInv, CountInv, Takes, Live, Up, Longer, Shorter, FrameTypes
<1>10. FinInv(a)' /\ FinInv(o)'
  BY <1>1, <1>2, <1>3, <1>4, Counts DEF EndInv, FinInv, FinalInv, CountInv, Takes, Live, Longer, Shorter, FrameTypes
<1> QED BY <1>1, <1>2, <1>4, <1>5, <1>6, <1>7, <1>8, <1>9, <1>10 DEF StreamInv, EndInv

LEMMA AutoDestroyStep ==
    ASSUME WeakType, WeakType', StreamInv, NEW a \in Ends, AutoDestroy(a)
    PROVE  StreamInv'
<1> DEFINE o == Other(a)
<1>1. o \in Ends /\ o # a /\ Other(a) = o /\ Other(o) = a /\ \A e \in Ends : e = a \/ e = o
  BY OtherEnd
<1> HIDE DEF o
<1>2. EndInv(a) /\ EndInv(o) /\ sock["A"] # "none"
  BY <1>1 DEF StreamInv
<1>3. chan' = chan
  BY DEF AutoDestroy
<1>4. /\ sock[a] = "open" /\ a \in ended /\ sock'[a] = "destroyed" /\ sock'[o] = sock[o] /\ sock'["A"] # "none"
      /\ UNCHANGED <<inMap, control, ended, ending, pf, asked, needDrain, wbuf, taken, got, reset>>
  BY <1>1, <1>2 DEF AutoDestroy, tables, halves, flow, out, app, WeakType, Ends
<1>5. OpenInv(a)' /\ OpenInv(o)'
  BY <1>1, <1>2, <1>3, <1>4 DEF EndInv, OpenInv, Up, Live, Longer, Shorter, FrameTypes
<1>6. FinalInv(a)' /\ FinalInv(o)'
  BY <1>1, <1>2, <1>3, <1>4 DEF EndInv, OpenInv, FinalInv, Live, Longer, Shorter, FrameTypes
<1>7. TableInv(a)' /\ TableInv(o)'
  BY <1>1, <1>2, <1>3, <1>4 DEF EndInv, OpenInv, FinalInv, TableInv, Knows, Live, Up, Longer, Shorter, FrameTypes
<1>8. PauseInv(a)' /\ PauseInv(o)'
  BY <1>1, <1>2, <1>3, <1>4, Counts DEF EndInv, OpenInv, FinalInv, PauseInv, Up, Live, Longer, Shorter, FrameTypes
<1>9. CountInv(a)' /\ CountInv(o)'
  BY <1>1, <1>2, <1>3, <1>4, Counts DEF EndInv, OpenInv, FinalInv, CountInv, Takes, Live, Up, Longer, Shorter, FrameTypes
<1>10. FinInv(a)' /\ FinInv(o)'
  BY <1>1, <1>2, <1>3, <1>4, Counts DEF EndInv, FinInv, FinalInv, CountInv, Takes, Live, Longer, Shorter, FrameTypes
<1> QED BY <1>1, <1>2, <1>4, <1>5, <1>6, <1>7, <1>8, <1>9, <1>10 DEF StreamInv, EndInv

LEMMA CloseStep ==
    ASSUME WeakType, WeakType', StreamInv, NEW a \in Ends, Close(a)
    PROVE  StreamInv'
<1> DEFINE o == Other(a)
<1>1. o \in Ends /\ o # a /\ Other(a) = o /\ Other(o) = a /\ \A e \in Ends : e = a \/ e = o
  BY OtherEnd
<1> HIDE DEF o
<1>2. EndInv(a) /\ EndInv(o) /\ sock["A"] # "none"
  BY <1>1 DEF StreamInv
<1>3. /\ chan'[a] = chan[a]
      /\ a \notin inMap \/ ~Up => chan'[o] = chan[o]
      /\ a \in inMap /\ Up => Longer(chan[o], chan'[o], "CLOSE")
  <2>1. CASE a \in inMap
    <3>1. "CLOSE" \in FrameTypes /\ SendTo(o, "CLOSE")
      BY <2>1 DEF Close, o, FrameTypes
    <3> QED BY <1>1, <2>1, <3>1, SentFrame
  <2>2. CASE a \notin inMap
    BY <2>2 DEF Close
  <2> QED BY <2>1, <2>2
<1>4. /\ sock[a] = "destroyed" /\ sock'[a] = "closed" /\ sock'[o] = sock[o] /\ sock'["A"] # "none"
      /\ inMap' = inMap \ {a}
      /\ UNCHANGED <<control, ended, ending, pf, asked, needDrain, wbuf, taken, got, reset>>
  BY <1>1, <1>2 DEF Close, halves, flow, out, app, WeakType, Ends
<1>5. OpenInv(a)' /\ OpenInv(o)'
  BY <1>1, <1>2, <1>3, <1>4 DEF EndInv, OpenInv, Up, Live, Longer, Shorter, FrameTypes
<1>6. FinalInv(a)' /\ FinalInv(o)'
  BY <1>1, <1>2, <1>3, <1>4 DEF EndInv, OpenInv, FinalInv, Live, Longer, Shorter, FrameTypes
<1>7. TableInv(a)' /\ TableInv(o)'
  BY <1>1, <1>2, <1>3, <1>4 DEF EndInv, OpenInv, FinalInv, TableInv, Knows, Live, Up, Longer, Shorter, FrameTypes
<1>8. PauseInv(a)' /\ PauseInv(o)'
  BY <1>1, <1>2, <1>3, <1>4, Counts DEF EndInv, OpenInv, FinalInv, PauseInv, Up, Live, Longer, Shorter, FrameTypes
<1>9. CountInv(a)' /\ CountInv(o)'
  BY <1>1, <1>2, <1>3, <1>4, Counts DEF EndInv, OpenInv, FinalInv, CountInv, Takes, Live, Up, Longer, Shorter, FrameTypes
<1>10. FinInv(a)' /\ FinInv(o)'
  BY <1>1, <1>2, <1>3, <1>4, Counts DEF EndInv, FinInv, FinalInv, CountInv, Takes, Live, Longer, Shorter, FrameTypes
<1> QED BY <1>1, <1>2, <1>4, <1>5, <1>6, <1>7, <1>8, <1>9, <1>10 DEF StreamInv, EndInv

LEMMA ControlLostStep ==
    ASSUME WeakType, WeakType', StreamInv, NEW a \in Ends, ControlLost(a)
    PROVE  StreamInv'
<1> DEFINE o == Other(a)
<1>1. o \in Ends /\ o # a /\ Other(a) = o /\ Other(o) = a /\ \A e \in Ends : e = a \/ e = o
  BY OtherEnd
<1> HIDE DEF o
<1>2. EndInv(a) /\ EndInv(o) /\ sock["A"] # "none"
  BY <1>1 DEF StreamInv
<1>3. /\ chan'[a] = << >> /\ chan'[o] = chan[o]
      /\ \A f \in FrameTypes : ~Has(chan'[a], f) /\ Cnt(chan'[a], f) = 0
      /\ ~LateData(chan'[a]) /\ ~LateOpen(chan'[a]) /\ ~Unlifted(chan'[a])
  <2>1. chan'[a] = << >> /\ chan'[o] = chan[o]
    BY <1>1 DEF ControlLost, WeakType
  <2> QED BY <2>1, NoFrames
<1>4. /\ ~Up'
      /\ UNCHANGED <<sock, inMap, ended, ending, pf, asked, needDrain, wbuf, taken, got, reset>>
  <2>1. control'[a] = "destroyed"
    BY DEF ControlLost, WeakType
  <2> QED BY <2>1 DEF ControlLost, Up, Both, halves, out, app
<1>5. OpenInv(a)' /\ OpenInv(o)'
  BY <1>1, <1>2, <1>3, <1>4 DEF EndInv, OpenInv, Up, Live, Longer, Shorter, FrameTypes
<1>6. FinalInv(a)' /\ FinalInv(o)'
  BY <1>1, <1>2, <1>3, <1>4 DEF EndInv, OpenInv, FinalInv, Live, Longer, Shorter, FrameTypes
<1>7. TableInv(a)' /\ TableInv(o)'
  BY <1>1, <1>2, <1>3, <1>4 DEF EndInv, OpenInv, FinalInv, TableInv, Knows, Live, Up, Longer, Shorter, FrameTypes
<1>8. PauseInv(a)' /\ PauseInv(o)'
  BY <1>1, <1>2, <1>3, <1>4, Counts DEF EndInv, OpenInv, FinalInv, PauseInv, Up, Live, Longer, Shorter, FrameTypes
<1>9. CountInv(a)' /\ CountInv(o)'
  BY <1>1, <1>2, <1>3, <1>4, Counts DEF EndInv, OpenInv, FinalInv, CountInv, Takes, Live, Up, Longer, Shorter, FrameTypes
<1>10. FinInv(a)' /\ FinInv(o)'
  BY <1>1, <1>2, <1>3, <1>4, Counts DEF EndInv, FinInv, FinalInv, CountInv, Takes, Live, Longer, Shorter, FrameTypes
<1> QED BY <1>1, <1>2, <1>4, <1>5, <1>6, <1>7, <1>8, <1>9, <1>10 DEF StreamInv, EndInv

LEMMA ControlClosedStep ==
    ASSUME WeakType, WeakType', StreamInv, NEW a \in Ends, ControlClosed(a)
    PROVE  StreamInv'
<1> DEFINE o == Other(a)
<1>1. o \in Ends /\ o # a /\ Other(a) = o /\ Other(o) = a /\ \A e \in Ends : e = a \/ e = o
  BY OtherEnd
<1> HIDE DEF o
<1>2. EndInv(a) /\ EndInv(o) /\ sock["A"] # "none"
  BY <1>1 DEF StreamInv
<1>3. chan' = chan
  BY DEF ControlClosed
<1>4. /\ ~Up /\ ~Up' /\ inMap' = inMap \ {a} /\ sock'[o] = sock[o] /\ sock'["A"] # "none"
      /\ \/ sock'[a] = sock[a]
         \/ Live(a) /\ sock'[a] = "destroyed"
      /\ UNCHANGED <<ended, ending, pf, asked, needDrain, wbuf, taken, got, reset>>
  <2>1. control[a] = "destroyed" /\ control'[a] = "closed"
    BY DEF ControlClosed, WeakType
  <2>2. ~Up /\ ~Up'
    BY <2>1 DEF Up, Both
  <2>3. sock' = sock \/ (Live(a) /\ sock' = [sock EXCEPT ![a] = "destroyed"])
    BY DEF ControlClosed, Orphaned
  <2>4. sock'[o] = sock[o] /\ sock'["A"] # "none" /\ (sock'[a] = sock[a] \/ (Live(a) /\ sock'[a] = "destroyed"))
    BY <1>1, <1>2, <2>3 DEF WeakType, Ends
  <2> QED BY <2>2, <2>4 DEF ControlClosed, halves, flow, out, app
<1>5. OpenInv(a)' /\ OpenInv(o)'
  BY <1>1, <1>2, <1>3, <1>4 DEF EndInv, OpenInv, Up, Live, Longer, Shorter, FrameTypes
<1>6. FinalInv(a)' /\ FinalInv(o)'
  BY <1>1, <1>2, <1>3, <1>4 DEF EndInv, OpenInv, FinalInv, Live, Longer, Shorter, FrameTypes
<1>7. TableInv(a)' /\ TableInv(o)'
  BY <1>1, <1>2, <1>3, <1>4 DEF EndInv, OpenInv, FinalInv, TableInv, Knows, Live, Up, Longer, Shorter, FrameTypes
<1>8. PauseInv(a)' /\ PauseInv(o)'
  BY <1>1, <1>2, <1>3, <1>4, Counts DEF EndInv, OpenInv, FinalInv, PauseInv, Up, Live, Longer, Shorter, FrameTypes
<1>9. CountInv(a)' /\ CountInv(o)'
  BY <1>1, <1>2, <1>3, <1>4, Counts DEF EndInv, OpenInv, FinalInv, CountInv, Takes, Live, Up, Longer, Shorter, FrameTypes
<1>10. FinInv(a)' /\ FinInv(o)'
  BY <1>1, <1>2, <1>3, <1>4, Counts DEF EndInv, FinInv, FinalInv, CountInv, Takes, Live, Longer, Shorter, FrameTypes
<1> QED BY <1>1, <1>2, <1>4, <1>5, <1>6, <1>7, <1>8, <1>9, <1>10 DEF StreamInv, EndInv

LEMMA FrameDataStep ==
    ASSUME WeakType, WeakType', StreamInv, NEW a \in Ends, FrameData(a)
    PROVE  StreamInv'
<1> DEFINE o == Other(a)
<1>1. o \in Ends /\ o # a /\ Other(a) = o /\ Other(o) = a /\ \A e \in Ends : e = a \/ e = o
  BY OtherEnd
<1> HIDE DEF o
<1>2. EndInv(a) /\ EndInv(o) /\ sock["A"] # "none"
  BY <1>1 DEF StreamInv
<1>3. /\ chan[a] # << >> /\ Head(chan[a]) = "DATA" /\ Shorter(chan[a], chan'[a], "DATA")
      /\ Has(chan[a], "DATA")
      /\ \/ /\ a \notin inMap \/ ~Live(a)
            /\ chan'[o] = chan[o] /\ UNCHANGED <<wbuf, needDrain, asked>>
         \/ /\ a \in inMap /\ Live(a) /\ wbuf'[a] = wbuf[a] + 1 /\ wbuf'[o] = wbuf[o]
            /\ \/ chan'[o] = chan[o] /\ asked' = asked /\ needDrain' \in {needDrain, needDrain \cup {a}}
               \/ /\ asked' = asked \cup {a} /\ needDrain' = needDrain \cup {a}
                  /\ Up => Longer(chan[o], chan'[o], "PAUSE")
                  /\ ~Up => chan'[o] = chan[o]
  <2>0. {"DATA", "PAUSE"} \subseteq FrameTypes
    BY DEF FrameTypes
  <2>1. CASE a \notin inMap \/ ~Live(a)
    <3>1. Receive(a, "DATA") /\ UNCHANGED <<wbuf, needDrain, asked>>
      BY <2>1 DEF FrameData, out
    <3> QED BY <1>1, <2>0, <2>1, <3>1, ReceivedFrame DEF Shorter
  <2>2. CASE ~(a \notin inMap \/ ~Live(a))
    <3>1. /\ wbuf' = [wbuf EXCEPT ![a] = @ + 1]
          /\ \/ Receive(a, "DATA") /\ asked' = asked /\ needDrain' \in {needDrain, needDrain \cup {a}}
             \/ /\ ReceiveAndSend(a, "DATA", "PAUSE")
                /\ asked' = asked \cup {a} /\ needDrain' = needDrain \cup {a}
      BY <2>2 DEF FrameData
    <3>2. wbuf'[a] = wbuf[a] + 1 /\ wbuf'[o] = wbuf[o]
      BY <1>1, <3>1 DEF WeakType
    <3>3. CASE Receive(a, "DATA") /\ asked' = asked /\ needDrain' \in {needDrain, needDrain \cup {a}}
      BY <1>1, <2>0, <2>2, <3>2, <3>3, ReceivedFrame DEF Shorter
    <3>4. CASE ReceiveAndSend(a, "DATA", "PAUSE") /\ asked' = asked \cup {a} /\ needDrain' = needDrain \cup {a}
      BY <1>1, <2>0, <2>2, <3>2, <3>4, AnsweredFrame DEF Shorter
    <3> QED BY <3>1, <3>3, <3>4
  <2> QED BY <2>1, <2>2
<1>4. /\ UNCHANGED <<sock, inMap, control, ended, ending, pf, taken, got, reset>>
      /\ sock[a] # "none"
  BY <1>2, <1>3 DEF EndInv, OpenInv, FrameData, tables, halves, flow, app
<1>5. OpenInv(a)' /\ OpenInv(o)'
  BY <1>1, <1>2, <1>3, <1>4 DEF EndInv, OpenInv, Up, Live, Longer, Shorter, FrameTypes
<1>6. FinalInv(a)' /\ FinalInv(o)'
  BY <1>1, <1>2, <1>3, <1>4 DEF EndInv, OpenInv, FinalInv, Live, Longer, Shorter, FrameTypes
<1>7. TableInv(a)' /\ TableInv(o)'
  BY <1>1, <1>2, <1>3, <1>4 DEF EndInv, OpenInv, FinalInv, TableInv, Knows, Live, Up, Longer, Shorter, FrameTypes
<1>8. PauseInv(a)' /\ PauseInv(o)'
  BY <1>1, <1>2, <1>3, <1>4, Counts DEF EndInv, OpenInv, FinalInv, PauseInv, Up, Live, Longer, Shorter, FrameTypes
<1>9. CountInv(a)' /\ CountInv(o)'
  <2>1. /\ taken[a] \in Nat /\ got[a] \in Nat /\ wbuf[a] \in Nat /\ Cnt(chan[a], "DATA") \in Nat /\ Cnt(chan'[a], "DATA") \in Nat
        /\ taken[o] \in Nat /\ got[o] \in Nat /\ wbuf[o] \in Nat /\ Cnt(chan[o], "DATA") \in Nat /\ Cnt(chan'[o], "DATA") \in Nat
    BY <1>1, Counts, CntType DEF WeakType, FrameTypes
  <2>2. /\ Cnt(chan[a], "DATA") = Cnt(chan'[a], "DATA") + 1
        /\ Has(chan'[a], "SHUTDOWN") => Has(chan[a], "SHUTDOWN")
        /\ Has(chan'[a], "CLOSE") => Has(chan[a], "CLOSE")
        /\ Cnt(chan'[o], "DATA") = Cnt(chan[o], "DATA")
        /\ Has(chan'[o], "SHUTDOWN") => Has(chan[o], "SHUTDOWN")
        /\ Has(chan'[o], "CLOSE") => Has(chan[o], "CLOSE")
    BY <1>3, <2>1 DEF Longer, Shorter, FrameTypes
  <2>3. /\ Takes(a)' <=> Takes(a)
        /\ Takes(o)' <=> Takes(o)
    BY <1>4 DEF Takes, Live
  <2>4. CountInv(a) /\ CountInv(o)
    BY <1>2 DEF EndInv
  <2>5. wbuf'[o] = wbuf[o] /\ (wbuf'[a] = wbuf[a] + 1 \/ (wbuf'[a] = wbuf[a] /\ ~Takes(a)))
    BY <1>3, <1>4 DEF Takes
  <2>6. UNCHANGED <<taken, got, reset>> /\ (Up' => Up)
    BY <1>4 DEF Up
  <2>7. CountInv(a)'
    BY <1>1, <2>1, <2>2, <2>3, <2>4, <2>5, <2>6 DEF CountInv
  <2>8. CountInv(o)'
    BY <1>1, <2>1, <2>2, <2>3, <2>4, <2>5, <2>6 DEF CountInv
  <2> QED BY <2>7, <2>8
<1>10. FinInv(a)' /\ FinInv(o)'
  BY <1>1, <1>2, <1>3, <1>4, Counts DEF EndInv, FinInv, FinalInv, CountInv, Takes, Live, Longer, Shorter, FrameTypes
<1> QED BY <1>1, <1>2, <1>4, <1>5, <1>6, <1>7, <1>8, <1>9, <1>10 DEF StreamInv, EndInv

LEMMA FramePauseStep ==
    ASSUME WeakType, WeakType', StreamInv, NEW a \in Ends, FramePause(a)
    PROVE  StreamInv'
<1> DEFINE o == Other(a)
<1>1. o \in Ends /\ o # a /\ Other(a) = o /\ Other(o) = a /\ \A e \in Ends : e = a \/ e = o
  BY OtherEnd
<1> HIDE DEF o
<1>2. EndInv(a) /\ EndInv(o) /\ sock["A"] # "none"
  BY <1>1 DEF StreamInv
<1>3. /\ chan[a] # << >> /\ Head(chan[a]) = "PAUSE" /\ Shorter(chan[a], chan'[a], "PAUSE")
      /\ chan'[o] = chan[o] /\ Has(chan[a], "PAUSE")
  <2>1. "PAUSE" \in FrameTypes /\ Receive(a, "PAUSE")
    BY DEF FramePause, FrameTypes
  <2> QED BY <1>1, <2>1, ReceivedFrame DEF Shorter
<1>4. /\ UNCHANGED <<sock, inMap, control, ended, ending, asked, needDrain, wbuf, taken, got, reset>>
      /\ sock[a] # "none" /\ pf'[o] = pf[o]
  <2>1. sock[a] # "none"
    BY <1>2, <1>3 DEF EndInv, OpenInv
  <2>2. pf'[o] = pf[o]
    BY <1>1 DEF FramePause, pauseRead, WeakType
  <2> QED BY <2>1, <2>2 DEF FramePause, tables, halves, out, app
<1>5. OpenInv(a)' /\ OpenInv(o)'
  BY <1>1, <1>2, <1>3, <1>4 DEF EndInv, OpenInv, Up, Live, Longer, Shorter, FrameTypes
<1>6. FinalInv(a)' /\ FinalInv(o)'
  BY <1>1, <1>2, <1>3, <1>4 DEF EndInv, OpenInv, FinalInv, Live, Longer, Shorter, FrameTypes
<1>7. TableInv(a)' /\ TableInv(o)'
  BY <1>1, <1>2, <1>3, <1>4 DEF EndInv, OpenInv, FinalInv, TableInv, Knows, Live, Up, Longer, Shorter, FrameTypes
<1>8. PauseInv(a)' /\ PauseInv(o)'
  BY <1>1, <1>2, <1>3, <1>4, Counts DEF EndInv, OpenInv, FinalInv, PauseInv, Up, Live, Longer, Shorter, FrameTypes
<1>9. CountInv(a)' /\ CountInv(o)'
  <2>1. /\ taken[a] \in Nat /\ got[a] \in Nat /\ wbuf[a] \in Nat /\ Cnt(chan[a], "DATA") \in Nat /\ Cnt(chan'[a], "DATA") \in Nat
        /\ taken[o] \in Nat /\ got[o] \in Nat /\ wbuf[o] \in Nat /\ Cnt(chan[o], "DATA") \in Nat /\ Cnt(chan'[o], "DATA") \in Nat
    BY <1>1, Counts, CntType DEF WeakType, FrameTypes
  <2>2. /\ Cnt(chan[a], "DATA") = Cnt(chan'[a], "DATA")
        /\ Has(chan'[a], "SHUTDOWN") => Has(chan[a], "SHUTDOWN")
        /\ Has(chan'[a], "CLOSE") => Has(chan[a], "CLOSE")
    BY <1>3, <2>1 DEF Longer, Shorter, FrameTypes
  <2>3. Takes(a)' => Takes(a)
    BY <1>1, <1>2, <1>3, <1>4 DEF EndInv, OpenInv, Takes, Live
  <2>4. Takes(o)' => Takes(o)
    BY <1>1, <1>2, <1>3, <1>4 DEF EndInv, OpenInv, Takes, Live
  <2>5. OpenInv(a) /\ OpenInv(o) /\ FinalInv(a) /\ FinalInv(o) /\ CountInv(a) /\ CountInv(o)
    BY <1>2 DEF EndInv
  <2>6. CountInv(a)'
    <3>1. Cnt(chan'[a], "DATA") + wbuf'[a] + got'[a] <= taken'[o]
      BY <1>3, <1>4, <2>1, <2>2, <2>5, <1>1 DEF CountInv
    <3>2. ASSUME Takes(a)', Up' \/ Has(chan'[a], "SHUTDOWN") \/ (Has(chan'[a], "CLOSE") /\ ~reset')
          PROVE  taken'[o] = Cnt(chan'[a], "DATA") + wbuf'[a] + got'[a]
      <4>1. taken[o] = Cnt(chan[a], "DATA") + wbuf[a] + got[a]
        BY <1>1, <1>3, <1>4, <2>2, <2>3, <2>5, <3>2 DEF CountInv, Up
      <4> QED BY <1>1, <1>3, <1>4, <2>1, <2>2, <2>5, <3>2, <4>1 DEF OpenInv, FinalInv, Takes, Live, Up
    <3> QED BY <1>1, <3>1, <3>2 DEF CountInv
  <2>7. CountInv(o)'
    <3>1. Cnt(chan'[o], "DATA") + wbuf'[o] + got'[o] <= taken'[a]
      BY <1>3, <1>4, <2>1, <2>2, <2>5, <1>1 DEF CountInv
    <3>2. ASSUME Takes(o)', Up' \/ Has(chan'[o], "SHUTDOWN") \/ (Has(chan'[o], "CLOSE") /\ ~reset')
          PROVE  taken'[a] = Cnt(chan'[o], "DATA") + wbuf'[o] + got'[o]
      <4>1. taken[a] = Cnt(chan[o], "DATA") + wbuf[o] + got[o]
        BY <1>1, <1>3, <1>4, <2>2, <2>4, <2>5, <3>2 DEF CountInv, Up
      <4> QED BY <1>1, <1>3, <1>4, <2>1, <2>2, <2>5, <3>2, <4>1 DEF FinalInv, Up
    <3> QED BY <1>1, <3>1, <3>2 DEF CountInv
  <2> QED BY <2>6, <2>7
<1>10. FinInv(a)' /\ FinInv(o)'
  BY <1>1, <1>2, <1>3, <1>4, Counts DEF EndInv, FinInv, FinalInv, CountInv, Takes, Live, Longer, Shorter, FrameTypes
<1> QED BY <1>1, <1>2, <1>4, <1>5, <1>6, <1>7, <1>8, <1>9, <1>10 DEF StreamInv, EndInv

LEMMA FrameResumeStep ==
    ASSUME WeakType, WeakType', StreamInv, NEW a \in Ends, FrameResume(a)
    PROVE  StreamInv'
<1> DEFINE o == Other(a)
<1>1. o \in Ends /\ o # a /\ Other(a) = o /\ Other(o) = a /\ \A e \in Ends : e = a \/ e = o
  BY OtherEnd
<1> HIDE DEF o
<1>2. EndInv(a) /\ EndInv(o) /\ sock["A"] # "none"
  BY <1>1 DEF StreamInv
<1>3. /\ chan[a] # << >> /\ Head(chan[a]) = "RESUME" /\ Shorter(chan[a], chan'[a], "RESUME")
      /\ chan'[o] = chan[o] /\ Has(chan[a], "RESUME")
  <2>1. "RESUME" \in FrameTypes /\ Receive(a, "RESUME")
    BY DEF FrameResume, FrameTypes
  <2> QED BY <1>1, <2>1, ReceivedFrame DEF Shorter
<1>4. /\ UNCHANGED <<sock, inMap, control, ended, ending, asked, needDrain, wbuf, taken, got, reset>>
      /\ sock[a] # "none" /\ pf'[o] = pf[o] /\ (a \in inMap => "R_PEER" \notin pf'[a])
  <2>1. sock[a] # "none"
    BY <1>2, <1>3 DEF EndInv, OpenInv
  <2>2. pf'[o] = pf[o] /\ (a \in inMap => "R_PEER" \notin pf'[a])
    <3>1. pf' = IF a \in inMap THEN [pf EXCEPT ![a] = @ \ {"R_PEER"}] ELSE pf
      BY DEF FrameResume, resumeRead
    <3>2. pf \in [Ends -> SUBSET {"R_TUNNEL", "R_PEER"}]
      BY DEF WeakType
    <3> QED BY ONLY <1>1, <3>1, <3>2
  <2> QED BY <2>1, <2>2 DEF FrameResume, tables, halves, out, app
<1>5. OpenInv(a)' /\ OpenInv(o)'
  BY <1>1, <1>2, <1>3, <1>4 DEF EndInv, OpenInv, Up, Live, Longer, Shorter, FrameTypes
<1>6. FinalInv(a)' /\ FinalInv(o)'
  BY <1>1, <1>2, <1>3, <1>4 DEF EndInv, OpenInv, FinalInv, Live, Longer, Shorter, FrameTypes
<1>7. TableInv(a)' /\ TableInv(o)'
  BY <1>1, <1>2, <1>3, <1>4 DEF EndInv, OpenInv, FinalInv, TableInv, Knows, Live, Up, Longer, Shorter, FrameTypes
<1>8. PauseInv(a)' /\ PauseInv(o)'
  BY <1>1, <1>2, <1>3, <1>4, Counts DEF EndInv, OpenInv, FinalInv, PauseInv, Up, Live, Longer, Shorter, FrameTypes
<1>9. CountInv(a)' /\ CountInv(o)'
  <2>1. /\ taken[a] \in Nat /\ got[a] \in Nat /\ wbuf[a] \in Nat /\ Cnt(chan[a], "DATA") \in Nat /\ Cnt(chan'[a], "DATA") \in Nat
        /\ taken[o] \in Nat /\ got[o] \in Nat /\ wbuf[o] \in Nat /\ Cnt(chan[o], "DATA") \in Nat /\ Cnt(chan'[o], "DATA") \in Nat
    BY <1>1, Counts, CntType DEF WeakType, FrameTypes
  <2>2. /\ Cnt(chan[a], "DATA") = Cnt(chan'[a], "DATA")
        /\ Has(chan'[a], "SHUTDOWN") => Has(chan[a], "SHUTDOWN")
        /\ Has(chan'[a], "CLOSE") => Has(chan[a], "CLOSE")
    BY <1>3, <2>1 DEF Longer, Shorter, FrameTypes
  <2>3. Takes(a)' => Takes(a)
    BY <1>1, <1>2, <1>3, <1>4 DEF EndInv, OpenInv, Takes, Live
  <2>4. Takes(o)' => Takes(o)
    BY <1>1, <1>2, <1>3, <1>4 DEF EndInv, OpenInv, Takes, Live
  <2>5. OpenInv(a) /\ OpenInv(o) /\ FinalInv(a) /\ FinalInv(o) /\ CountInv(a) /\ CountInv(o)
    BY <1>2 DEF EndInv
  <2>6. CountInv(a)'
    <3>1. Cnt(chan'[a], "DATA") + wbuf'[a] + got'[a] <= taken'[o]
      BY <1>3, <1>4, <2>1, <2>2, <2>5, <1>1 DEF CountInv
    <3>2. ASSUME Takes(a)', Up' \/ Has(chan'[a], "SHUTDOWN") \/ (Has(chan'[a], "CLOSE") /\ ~reset')
          PROVE  taken'[o] = Cnt(chan'[a], "DATA") + wbuf'[a] + got'[a]
      <4>1. taken[o] = Cnt(chan[a], "DATA") + wbuf[a] + got[a]
        BY <1>1, <1>3, <1>4, <2>2, <2>3, <2>5, <3>2 DEF CountInv, Up
      <4> QED BY <1>1, <1>3, <1>4, <2>1, <2>2, <2>5, <3>2, <4>1 DEF OpenInv, FinalInv, Takes, Live, Up
    <3> QED BY <1>1, <3>1, <3>2 DEF CountInv
  <2>7. CountInv(o)'
    <3>1. Cnt(chan'[o], "DATA") + wbuf'[o] + got'[o] <= taken'[a]
      BY <1>3, <1>4, <2>1, <2>2, <2>5, <1>1 DEF CountInv
    <3>2. ASSUME Takes(o)', Up' \/ Has(chan'[o], "SHUTDOWN") \/ (Has(chan'[o], "CLOSE") /\ ~reset')
          PROVE  taken'[a] = Cnt(chan'[o], "DATA") + wbuf'[o] + got'[o]
      <4>1. taken[a] = Cnt(chan[o], "DATA") + wbuf[o] + got[o]
        BY <1>1, <1>3, <1>4, <2>2, <2>4, <2>5, <3>2 DEF CountInv, Up
      <4> QED BY <1>1, <1>3, <1>4, <2>1, <2>2, <2>5, <3>2, <4>1 DEF FinalInv, Up
    <3> QED BY <1>1, <3>1, <3>2 DEF CountInv
  <2> QED BY <2>6, <2>7
<1>10. FinInv(a)' /\ FinInv(o)'
  BY <1>1, <1>2, <1>3, <1>4, Counts DEF EndInv, FinInv, FinalInv, CountInv, Takes, Live, Longer, Shorter, FrameTypes
<1> QED BY <1>1, <1>2, <1>4, <1>5, <1>6, <1>7, <1>8, <1>9, <1>10 DEF StreamInv, EndInv

LEMMA FrameShutdownStep ==
    ASSUME WeakType, WeakType', StreamInv, NEW a \in Ends, FrameShutdown(a)
    PROVE  StreamInv'
<1> DEFINE o == Other(a)
<1>1. o \in Ends /\ o # a /\ Other(a) = o /\ Other(o) = a /\ \A e \in Ends : e = a \/ e = o
  BY OtherEnd
<1> HIDE DEF o
<1>2. EndInv(a) /\ EndInv(o) /\ sock["A"] # "none"
  BY <1>1 DEF StreamInv
<1>3. /\ chan[a] # << >> /\ Head(chan[a]) = "SHUTDOWN" /\ Shorter(chan[a], chan'[a], "SHUTDOWN")
      /\ chan'[o] = chan[o] /\ Has(chan[a], "SHUTDOWN")
  <2>1. "SHUTDOWN" \in FrameTypes /\ Receive(a, "SHUTDOWN")
    BY DEF FrameShutdown, FrameTypes
  <2> QED BY <1>1, <2>1, ReceivedFrame DEF Shorter
<1>4. /\ UNCHANGED <<sock, inMap, control, ended, pf, asked, needDrain, wbuf, taken, got, reset>>
      /\ sock[a] # "none" /\ ending' = IF a \in inMap /\ Live(a) THEN ending \cup {a} ELSE ending
  BY <1>2, <1>3 DEF EndInv, OpenInv, FrameShutdown, tables, flow, out, app
<1>5. OpenInv(a)' /\ OpenInv(o)'
  BY <1>1, <1>2, <1>3, <1>4 DEF EndInv, OpenInv, Up, Live, Longer, Shorter, FrameTypes
<1>6. FinalInv(a)' /\ FinalInv(o)'
  BY <1>1, <1>2, <1>3, <1>4 DEF EndInv, OpenInv, FinalInv, Live, Longer, Shorter, FrameTypes
<1>7. TableInv(a)' /\ TableInv(o)'
  BY <1>1, <1>2, <1>3, <1>4 DEF EndInv, OpenInv, FinalInv, TableInv, Knows, Live, Up, Longer, Shorter, FrameTypes
<1>8. PauseInv(a)' /\ PauseInv(o)'
  BY <1>1, <1>2, <1>3, <1>4, Counts DEF EndInv, OpenInv, FinalInv, PauseInv, Up, Live, Longer, Shorter, FrameTypes
<1>9. CountInv(a)' /\ CountInv(o)'
  <2>1. /\ taken[a] \in Nat /\ got[a] \in Nat /\ wbuf[a] \in Nat /\ Cnt(chan[a], "DATA") \in Nat /\ Cnt(chan'[a], "DATA") \in Nat
        /\ taken[o] \in Nat /\ got[o] \in Nat /\ wbuf[o] \in Nat /\ Cnt(chan[o], "DATA") \in Nat /\ Cnt(chan'[o], "DATA") \in Nat
    BY <1>1, Counts, CntType DEF WeakType, FrameTypes
  <2>2. /\ Cnt(chan[a], "DATA") = Cnt(chan'[a], "DATA")
        /\ Has(chan'[a], "SHUTDOWN") => Has(chan[a], "SHUTDOWN")
        /\ Has(chan'[a], "CLOSE") => Has(chan[a], "CLOSE")
    BY <1>3, <2>1 DEF Longer, Shorter, FrameTypes
  <2>3. Takes(a)' => Takes(a)
    BY <1>1, <1>2, <1>3, <1>4 DEF EndInv, OpenInv, Takes, Live
  <2>4. Takes(o)' => Takes(o)
    BY <1>1, <1>2, <1>3, <1>4 DEF EndInv, OpenInv, Takes, Live
  <2>5. OpenInv(a) /\ OpenInv(o) /\ FinalInv(a) /\ FinalInv(o) /\ CountInv(a) /\ CountInv(o)
    BY <1>2 DEF EndInv
  <2>6. CountInv(a)'
    <3>1. Cnt(chan'[a], "DATA") + wbuf'[a] + got'[a] <= taken'[o]
      BY <1>3, <1>4, <2>1, <2>2, <2>5, <1>1 DEF CountInv
    <3>2. ASSUME Takes(a)', Up' \/ Has(chan'[a], "SHUTDOWN") \/ (Has(chan'[a], "CLOSE") /\ ~reset')
          PROVE  taken'[o] = Cnt(chan'[a], "DATA") + wbuf'[a] + got'[a]
      <4>1. taken[o] = Cnt(chan[a], "DATA") + wbuf[a] + got[a]
        BY <1>1, <1>3, <1>4, <2>2, <2>3, <2>5, <3>2 DEF CountInv, Up
      <4> QED BY <1>1, <1>3, <1>4, <2>1, <2>2, <2>5, <3>2, <4>1 DEF OpenInv, FinalInv, Takes, Live, Up
    <3> QED BY <1>1, <3>1, <3>2 DEF CountInv
  <2>7. CountInv(o)'
    <3>1. Cnt(chan'[o], "DATA") + wbuf'[o] + got'[o] <= taken'[a]
      BY <1>3, <1>4, <2>1, <2>2, <2>5, <1>1 DEF CountInv
    <3>2. ASSUME Takes(o)', Up' \/ Has(chan'[o], "SHUTDOWN") \/ (Has(chan'[o], "CLOSE") /\ ~reset')
          PROVE  taken'[a] = Cnt(chan'[o], "DATA") + wbuf'[o] + got'[o]
      <4>1. taken[a] = Cnt(chan[o], "DATA") + wbuf[o] + got[o]
        BY <1>1, <1>3, <1>4, <2>2, <2>4, <2>5, <3>2 DEF CountInv, Up
      <4> QED BY <1>1, <1>3, <1>4, <2>1, <2>2, <2>5, <3>2, <4>1 DEF FinalInv, Up
    <3> QED BY <1>1, <3>1, <3>2 DEF CountInv
  <2> QED BY <2>6, <2>7
<1>10. FinInv(a)' /\ FinInv(o)'
  BY <1>1, <1>2, <1>3, <1>4, Counts DEF EndInv, FinInv, FinalInv, CountInv, Takes, Live, Longer, Shorter, FrameTypes
<1> QED BY <1>1, <1>2, <1>4, <1>5, <1>6, <1>7, <1>8, <1>9, <1>10 DEF StreamInv, EndInv

LEMMA FrameCloseStep ==
    ASSUME WeakType, WeakType', StreamInv, NEW a \in Ends, FrameClose(a)
    PROVE  StreamInv'
<1> DEFINE o == Other(a)
<1>1. o \in Ends /\ o # a /\ Other(a) = o /\ Other(o) = a /\ \A e \in Ends : e = a \/ e = o
  BY OtherEnd
<1> HIDE DEF o
<1>2. EndInv(a) /\ EndInv(o) /\ sock["A"] # "none"
  BY <1>1 DEF StreamInv
<1>3. /\ chan[a] # << >> /\ Head(chan[a]) = "CLOSE" /\ Shorter(chan[a], chan'[a], "CLOSE")
      /\ chan'[o] = chan[o] /\ Has(chan[a], "CLOSE")
  <2>1. "CLOSE" \in FrameTypes /\ Receive(a, "CLOSE")
    BY DEF FrameClose, FrameTypes
  <2> QED BY <1>1, <2>1, ReceivedFrame DEF Shorter
<1>4. /\ UNCHANGED <<control, ended, pf, asked, needDrain, wbuf, taken, got, reset>>
      /\ sock[a] # "none" /\ inMap' = inMap \ {a} /\ sock'[o] = sock[o] /\ sock'["A"] # "none"
      /\ \/ Live(a) /\ sock'[a] = "destroyed" /\ ending' = ending
         \/ a \in inMap /\ Live(a) /\ sock'[a] = sock[a] /\ ending' = ending \cup {a}
         \/ sock'[a] = sock[a] /\ ending' = ending
  <2>1. sock[a] # "none"
    BY <1>2, <1>3 DEF EndInv, OpenInv
  <2>2. \/ Live(a) /\ sock' = [sock EXCEPT ![a] = "destroyed"] /\ ending' = ending
        \/ a \in inMap /\ Live(a) /\ sock' = sock /\ ending' = ending \cup {a}
        \/ sock' = sock /\ ending' = ending
    BY DEF FrameClose
  <2>3. sock'[o] = sock[o] /\ sock'["A"] # "none"
    BY <1>1, <1>2, <2>2 DEF WeakType, Ends
  <2>4. sock' = [sock EXCEPT ![a] = "destroyed"] => sock'[a] = "destroyed"
    BY DEF WeakType
  <2> QED BY <2>1, <2>2, <2>3, <2>4 DEF FrameClose, flow, out, app
<1>5. OpenInv(a)' /\ OpenInv(o)'
  BY <1>1, <1>2, <1>3, <1>4 DEF EndInv, OpenInv, Up, Live, Longer, Shorter, FrameTypes
<1>6. FinalInv(a)' /\ FinalInv(o)'
  BY <1>1, <1>2, <1>3, <1>4 DEF EndInv, OpenInv, FinalInv, Live, Longer, Shorter, FrameTypes
<1>7. TableInv(a)' /\ TableInv(o)'
  BY <1>1, <1>2, <1>3, <1>4 DEF EndInv, OpenInv, FinalInv, TableInv, Knows, Live, Up, Longer, Shorter, FrameTypes
<1>8. PauseInv(a)' /\ PauseInv(o)'
  BY <1>1, <1>2, <1>3, <1>4, Counts DEF EndInv, OpenInv, FinalInv, PauseInv, Up, Live, Longer, Shorter, FrameTypes
<1>9. CountInv(a)' /\ CountInv(o)'
  <2>1. /\ taken[a] \in Nat /\ got[a] \in Nat /\ wbuf[a] \in Nat /\ Cnt(chan[a], "DATA") \in Nat /\ Cnt(chan'[a], "DATA") \in Nat
        /\ taken[o] \in Nat /\ got[o] \in Nat /\ wbuf[o] \in Nat /\ Cnt(chan[o], "DATA") \in Nat /\ Cnt(chan'[o], "DATA") \in Nat
    BY <1>1, Counts, CntType DEF WeakType, FrameTypes
  <2>2. /\ Cnt(chan[a], "DATA") = Cnt(chan'[a], "DATA")
        /\ Has(chan'[a], "SHUTDOWN") => Has(chan[a], "SHUTDOWN")
        /\ Has(chan'[a], "CLOSE") => Has(chan[a], "CLOSE")
    BY <1>3, <2>1 DEF Longer, Shorter, FrameTypes
  <2>3. Takes(a)' => Takes(a)
    BY <1>1, <1>2, <1>3, <1>4 DEF EndInv, OpenInv, Takes, Live
  <2>4. Takes(o)' => Takes(o)
    BY <1>1, <1>2, <1>3, <1>4 DEF EndInv, OpenInv, Takes, Live
  <2>5. OpenInv(a) /\ OpenInv(o) /\ FinalInv(a) /\ FinalInv(o) /\ CountInv(a) /\ CountInv(o)
    BY <1>2 DEF EndInv
  <2>6. CountInv(a)'
    <3>1. Cnt(chan'[a], "DATA") + wbuf'[a] + got'[a] <= taken'[o]
      BY <1>3, <1>4, <2>1, <2>2, <2>5, <1>1 DEF CountInv
    <3>2. ASSUME Takes(a)', Up' \/ Has(chan'[a], "SHUTDOWN") \/ (Has(chan'[a], "CLOSE") /\ ~reset')
          PROVE  taken'[o] = Cnt(chan'[a], "DATA") + wbuf'[a] + got'[a]
      <4>1. taken[o] = Cnt(chan[a], "DATA") + wbuf[a] + got[a]
        BY <1>1, <1>3, <1>4, <2>2, <2>3, <2>5, <3>2 DEF CountInv, Up
      <4> QED BY <1>1, <1>3, <1>4, <2>1, <2>2, <2>5, <3>2, <4>1 DEF OpenInv, FinalInv, Takes, Live, Up
    <3> QED BY <1>1, <3>1, <3>2 DEF CountInv
  <2>7. CountInv(o)'
    <3>1. Cnt(chan'[o], "DATA") + wbuf'[o] + got'[o] <= taken'[a]
      BY <1>3, <1>4, <2>1, <2>2, <2>5, <1>1 DEF CountInv
    <3>2. ASSUME Takes(o)', Up' \/ Has(chan'[o], "SHUTDOWN") \/ (Has(chan'[o], "CLOSE") /\ ~reset')
          PROVE  taken'[a] = Cnt(chan'[o], "DATA") + wbuf'[o] + got'[o]
      <4>1. taken[a] = Cnt(chan[o], "DATA") + wbuf[o] + got[o]
        BY <1>1, <1>3, <1>4, <2>2, <2>4, <2>5, <3>2 DEF CountInv, Up
      <4> QED BY <1>1, <1>3, <1>4, <2>1, <2>2, <2>5, <3>2, <4>1 DEF FinalInv, Up
    <3> QED BY <1>1, <3>1, <3>2 DEF CountInv
  <2> QED BY <2>6, <2>7
<1>10. FinInv(a)' /\ FinInv(o)'
  BY <1>1, <1>2, <1>3, <1>4, Counts DEF EndInv, FinInv, FinalInv, CountInv, Takes, Live, Longer, Shorter, FrameTypes
<1> QED BY <1>1, <1>2, <1>4, <1>5, <1>6, <1>7, <1>8, <1>9, <1>10 DEF StreamInv, EndInv

\* A reset, or a dial that failed.
LEMMA AbortStep ==
    ASSUME WeakType, WeakType', StreamInv, NEW a \in Ends, Live(a),
           sock' = [sock EXCEPT ![a] = "destroyed"], reset' = TRUE,
           UNCHANGED <<tables, halves, flow, out, chan, taken, got>>
    PROVE  StreamInv'
<1> DEFINE o == Other(a)
<1>1. o \in Ends /\ o # a /\ Other(a) = o /\ Other(o) = a /\ \A e \in Ends : e = a \/ e = o
  BY OtherEnd
<1> HIDE DEF o
<1>2. EndInv(a) /\ EndInv(o) /\ sock["A"] # "none"
  BY <1>1 DEF StreamInv
<1>3. chan' = chan
  OBVIOUS
<1>4. /\ Live(a) /\ sock'[a] = "destroyed" /\ sock'[o] = sock[o] /\ sock'["A"] # "none" /\ reset'
      /\ UNCHANGED <<inMap, control, ended, ending, pf, asked, needDrain, wbuf, taken, got>>
  BY <1>1, <1>2 DEF tables, halves, flow, out, WeakType, Ends
<1>5. OpenInv(a)' /\ OpenInv(o)'
  BY <1>1, <1>2, <1>3, <1>4 DEF EndInv, OpenInv, Up, Live, Longer, Shorter, FrameTypes
<1>6. FinalInv(a)' /\ FinalInv(o)'
  BY <1>1, <1>2, <1>3, <1>4 DEF EndInv, OpenInv, FinalInv, Live, Longer, Shorter, FrameTypes
<1>7. TableInv(a)' /\ TableInv(o)'
  BY <1>1, <1>2, <1>3, <1>4 DEF EndInv, OpenInv, FinalInv, TableInv, Knows, Live, Up, Longer, Shorter, FrameTypes
<1>8. PauseInv(a)' /\ PauseInv(o)'
  BY <1>1, <1>2, <1>3, <1>4, Counts DEF EndInv, OpenInv, FinalInv, PauseInv, Up, Live, Longer, Shorter, FrameTypes
<1>9. CountInv(a)' /\ CountInv(o)'
  BY <1>1, <1>2, <1>3, <1>4, Counts DEF EndInv, OpenInv, FinalInv, CountInv, Takes, Live, Up, Longer, Shorter, FrameTypes
<1>10. FinInv(a)' /\ FinInv(o)'
  BY <1>1, <1>2, <1>3, <1>4, Counts DEF EndInv, FinInv, FinalInv, CountInv, Takes, Live, Longer, Shorter, FrameTypes
<1> QED BY <1>1, <1>2, <1>4, <1>5, <1>6, <1>7, <1>8, <1>9, <1>10 DEF StreamInv, EndInv

LEMMA FrameOpenStep ==
    ASSUME WeakType, WeakType', StreamInv, NEW a \in Ends, a = "B", FrameOpen
    PROVE  StreamInv'
<1> DEFINE o == Other(a)
<1>1. o \in Ends /\ o # a /\ Other(a) = o /\ Other(o) = a /\ \A e \in Ends : e = a \/ e = o
  BY OtherEnd
<1> HIDE DEF o
<1>2. EndInv(a) /\ EndInv(o) /\ sock["A"] # "none"
  BY <1>1 DEF StreamInv
<1>3. /\ chan[a] # << >> /\ Head(chan[a]) = "OPEN" /\ Shorter(chan[a], chan'[a], "OPEN")
      /\ chan'[o] = chan[o] /\ Has(chan[a], "OPEN")
  <2>1. "OPEN" \in FrameTypes /\ Receive(a, "OPEN")
    BY DEF FrameOpen, FrameTypes
  <2> QED BY <1>1, <2>1, ReceivedFrame DEF Shorter
<1>4. /\ UNCHANGED <<control, ended, ending, pf, asked, needDrain, wbuf, taken, got, reset>>
      /\ sock[a] = "none" /\ inMap' = inMap \cup {a} /\ sock'[a] = "connecting" /\ sock'[o] = sock[o] /\ sock'["A"] # "none"
  <2>1. sock[a] = "none"
    BY <1>2, <1>3 DEF EndInv, OpenInv
  <2> QED BY <1>1, <1>2, <2>1 DEF FrameOpen, halves, flow, out, app, WeakType, Ends
<1>5. OpenInv(a)' /\ OpenInv(o)'
  BY <1>1, <1>2, <1>3, <1>4 DEF EndInv, OpenInv, Up, Live, Longer, Shorter, FrameTypes
<1>6. FinalInv(a)' /\ FinalInv(o)'
  BY <1>1, <1>2, <1>3, <1>4 DEF EndInv, OpenInv, FinalInv, Live, Longer, Shorter, FrameTypes
<1>7. TableInv(a)' /\ TableInv(o)'
  BY <1>1, <1>2, <1>3, <1>4 DEF EndInv, OpenInv, FinalInv, TableInv, Knows, Live, Up, Longer, Shorter, FrameTypes
<1>8. PauseInv(a)' /\ PauseInv(o)'
  BY <1>1, <1>2, <1>3, <1>4, Counts DEF EndInv, OpenInv, FinalInv, PauseInv, Up, Live, Longer, Shorter, FrameTypes
<1>9. CountInv(a)' /\ CountInv(o)'
  <2>1. /\ taken[a] \in Nat /\ got[a] \in Nat /\ wbuf[a] \in Nat /\ Cnt(chan[a], "DATA") \in Nat /\ Cnt(chan'[a], "DATA") \in Nat
        /\ taken[o] \in Nat /\ got[o] \in Nat /\ wbuf[o] \in Nat /\ Cnt(chan[o], "DATA") \in Nat /\ Cnt(chan'[o], "DATA") \in Nat
    BY <1>1, Counts, CntType DEF WeakType, FrameTypes
  <2>2. /\ Cnt(chan[a], "DATA") = Cnt(chan'[a], "DATA")
        /\ Has(chan'[a], "SHUTDOWN") => Has(chan[a], "SHUTDOWN")
        /\ Has(chan'[a], "CLOSE") => Has(chan[a], "CLOSE")
    BY <1>3, <2>1 DEF Longer, Shorter, FrameTypes
  <2>3. Takes(a)' => Takes(a)
    BY <1>1, <1>2, <1>3, <1>4 DEF EndInv, OpenInv, Takes, Live
  <2>4. Takes(o)' => Takes(o)
    BY <1>1, <1>2, <1>3, <1>4 DEF EndInv, OpenInv, Takes, Live
  <2>5. OpenInv(a) /\ OpenInv(o) /\ FinalInv(a) /\ FinalInv(o) /\ CountInv(a) /\ CountInv(o)
    BY <1>2 DEF EndInv
  <2>6. CountInv(a)'
    <3>1. Cnt(chan'[a], "DATA") + wbuf'[a] + got'[a] <= taken'[o]
      BY <1>3, <1>4, <2>1, <2>2, <2>5, <1>1 DEF CountInv
    <3>2. ASSUME Takes(a)', Up' \/ Has(chan'[a], "SHUTDOWN") \/ (Has(chan'[a], "CLOSE") /\ ~reset')
          PROVE  taken'[o] = Cnt(chan'[a], "DATA") + wbuf'[a] + got'[a]
      <4>1. taken[o] = Cnt(chan[a], "DATA") + wbuf[a] + got[a]
        BY <1>1, <1>3, <1>4, <2>2, <2>3, <2>5, <3>2 DEF CountInv, Up
      <4> QED BY <1>1, <1>3, <1>4, <2>1, <2>2, <2>5, <3>2, <4>1 DEF OpenInv, FinalInv, Takes, Live, Up
    <3> QED BY <1>1, <3>1, <3>2 DEF CountInv
  <2>7. CountInv(o)'
    <3>1. Cnt(chan'[o], "DATA") + wbuf'[o] + got'[o] <= taken'[a]
      BY <1>3, <1>4, <2>1, <2>2, <2>5, <1>1 DEF CountInv
    <3>2. ASSUME Takes(o)', Up' \/ Has(chan'[o], "SHUTDOWN") \/ (Has(chan'[o], "CLOSE") /\ ~reset')
          PROVE  taken'[a] = Cnt(chan'[o], "DATA") + wbuf'[o] + got'[o]
      <4>1. taken[a] = Cnt(chan[o], "DATA") + wbuf[o] + got[o]
        BY <1>1, <1>3, <1>4, <2>2, <2>4, <2>5, <3>2 DEF CountInv, Up
      <4> QED BY <1>1, <1>3, <1>4, <2>1, <2>2, <2>5, <3>2, <4>1 DEF FinalInv, Up
    <3> QED BY <1>1, <3>1, <3>2 DEF CountInv
  <2> QED BY <2>6, <2>7
<1>10. FinInv(a)' /\ FinInv(o)'
  BY <1>1, <1>2, <1>3, <1>4, Counts DEF EndInv, FinInv, FinalInv, CountInv, Takes, Live, Longer, Shorter, FrameTypes
<1> QED BY <1>1, <1>2, <1>4, <1>5, <1>6, <1>7, <1>8, <1>9, <1>10 DEF StreamInv, EndInv

LEMMA ConnectedStep ==
    ASSUME WeakType, WeakType', StreamInv, NEW a \in Ends, a = "B", ProviderConnected
    PROVE  StreamInv'
<1> DEFINE o == Other(a)
<1>1. o \in Ends /\ o # a /\ Other(a) = o /\ Other(o) = a /\ \A e \in Ends : e = a \/ e = o
  BY OtherEnd
<1> HIDE DEF o
<1>2. EndInv(a) /\ EndInv(o) /\ sock["A"] # "none"
  BY <1>1 DEF StreamInv
<1>3. chan' = chan
  BY DEF ProviderConnected
<1>4. /\ UNCHANGED <<inMap, control, ended, ending, pf, asked, needDrain, wbuf, taken, got, reset>>
      /\ sock[a] = "connecting" /\ sock'[a] = "open" /\ sock'[o] = sock[o] /\ sock'["A"] # "none"
  BY <1>1, <1>2 DEF ProviderConnected, tables, halves, flow, out, app, WeakType, Ends
<1>5. OpenInv(a)' /\ OpenInv(o)'
  BY <1>1, <1>2, <1>3, <1>4 DEF EndInv, OpenInv, Up, Live, Longer, Shorter, FrameTypes
<1>6. FinalInv(a)' /\ FinalInv(o)'
  BY <1>1, <1>2, <1>3, <1>4 DEF EndInv, OpenInv, FinalInv, Live, Longer, Shorter, FrameTypes
<1>7. TableInv(a)' /\ TableInv(o)'
  BY <1>1, <1>2, <1>3, <1>4 DEF EndInv, OpenInv, FinalInv, TableInv, Knows, Live, Up, Longer, Shorter, FrameTypes
<1>8. PauseInv(a)' /\ PauseInv(o)'
  BY <1>1, <1>2, <1>3, <1>4, Counts DEF EndInv, OpenInv, FinalInv, PauseInv, Up, Live, Longer, Shorter, FrameTypes
<1>9. CountInv(a)' /\ CountInv(o)'
  BY <1>1, <1>2, <1>3, <1>4, Counts DEF EndInv, OpenInv, FinalInv, CountInv, Takes, Live, Up, Longer, Shorter, FrameTypes
<1>10. FinInv(a)' /\ FinInv(o)'
  BY <1>1, <1>2, <1>3, <1>4, Counts DEF EndInv, FinInv, FinalInv, CountInv, Takes, Live, Longer, Shorter, FrameTypes
<1> QED BY <1>1, <1>2, <1>4, <1>5, <1>6, <1>7, <1>8, <1>9, <1>10 DEF StreamInv, EndInv

LEMMA StreamInvStep == WeakType /\ StreamInv /\ [Next]_vars => StreamInv'
<1> SUFFICES ASSUME WeakType, StreamInv, [Next]_vars PROVE StreamInv'
  OBVIOUS
<1>t. WeakType'
  BY WeakTypeStep
<1>1. ASSUME NEW a \in Ends, Socket(a) PROVE StreamInv'
  BY <1>t, <1>1, DataStep, ConsumeStep, TunnelDrainStep, AutoDestroyStep, CloseStep,
     ControlLostStep, ControlClosedStep DEF Socket
<1>2. ASSUME NEW a \in Ends, Frame(a) PROVE StreamInv'
  BY <1>t, <1>2, FrameDataStep, FramePauseStep, FrameResumeStep, FrameShutdownStep, FrameCloseStep DEF Frame
<1>3. ASSUME NEW a \in Ends, End(a) \/ ControlLost(a) PROVE StreamInv'
  BY <1>t, <1>3, EndStep, ControlLostStep
<1>4. ASSUME NEW a \in Ends, Reset(a) PROVE StreamInv'
  BY <1>t, <1>4, AbortStep DEF Reset, Live
<1>5. CASE FrameOpen
  BY <1>t, <1>5, FrameOpenStep DEF Ends
<1>6. CASE ProviderConnected
  BY <1>t, <1>6, ConnectedStep DEF Ends
<1>7. CASE DialFailed
  <2>1. "B" \in Ends /\ Live("B")
    BY <1>7 DEF DialFailed, Live, Ends
  <2> QED BY <1>t, <1>7, <2>1, AbortStep DEF DialFailed
<1>8. CASE UNCHANGED vars
  <2>1. \A e \in Ends : EndInv(e)'
    BY <1>8 DEF StreamInv, EndInv, OpenInv, FinalInv, TableInv, PauseInv, CountInv, FinInv,
       Knows, Takes, Live, Up, vars, app, halves, flow, tables, out
  <2> QED BY <1>8, <2>1 DEF StreamInv, vars
<1> QED BY <1>1, <1>2, <1>3, <1>4, <1>5, <1>6, <1>7, <1>8 DEF Next

LEMMA StreamInvInit == Init => WeakType /\ StreamInv
<1> SUFFICES ASSUME Init PROVE WeakType /\ StreamInv
  OBVIOUS
<1>1. << >> \in Seq(FrameTypes) /\ <<"OPEN">> \in Seq(FrameTypes)
  BY DEF FrameTypes
<1>2. "A" \in Ends /\ "B" \in Ends /\ \A e \in Ends : e = "A" \/ e = "B"
  BY DEF Ends
<1>3. /\ chan["A"] = << >> /\ chan["B"] = <<"OPEN">>
      /\ sock["A"] = "open" /\ sock["B"] = "none"
  BY <1>2 DEF Init
<1>4. WeakType
  <2>1. 0 \in 0 .. MaxChunks
    BY DEF StreamPairAssumption
  <2>2. chan \in [Ends -> Seq(FrameTypes)]
    BY <1>1 DEF Init
  <2>3. sock \in [Ends -> {"none", "connecting", "open", "destroyed", "closed"}]
    BY DEF Init
  <2> QED BY <1>2, <2>1, <2>2, <2>3 DEF Init, WeakType, Both
<1>5. Longer(<< >>, <<"OPEN">>, "OPEN")
  <2>1. Longer(<< >>, Append(<< >>, "OPEN"), "OPEN")
    BY <1>1, AppendLonger DEF FrameTypes
  <2>2. Append(<< >>, "OPEN") = <<"OPEN">>
    OBVIOUS
  <2> QED BY <2>1, <2>2
<1>6. /\ \A f \in FrameTypes : ~Has(chan["A"], f) /\ Cnt(chan["A"], f) = 0
      /\ ~LateData(chan["A"]) /\ ~LateOpen(chan["A"]) /\ ~Unlifted(chan["A"])
  BY <1>3, NoFrames
<1>7. /\ \A f \in FrameTypes : Has(chan["B"], f) => f = "OPEN"
      /\ Cnt(chan["B"], "DATA") = 0
      /\ ~LateData(chan["B"]) /\ ~LateOpen(chan["B"]) /\ ~Unlifted(chan["B"])
      /\ chan["B"] # << >> /\ Head(chan["B"]) = "OPEN"
  BY <1>3, <1>5, NoFrames DEF Longer, FrameTypes
<1>8. /\ inMap = {"A"} /\ Up /\ ended = {} /\ ending = {} /\ asked = {} /\ needDrain = {}
      /\ \A e \in Ends : pf[e] = {} /\ wbuf[e] = 0 /\ taken[e] = 0 /\ got[e] = 0
  BY DEF Init, Both, Up
<1>9. EndInv("A")
  BY <1>2, <1>3, <1>6, <1>8, OtherEnd DEF EndInv, OpenInv, FinalInv, TableInv, PauseInv, CountInv, FinInv,
     Knows, FrameTypes, Other
<1>10. EndInv("B")
  BY <1>2, <1>3, <1>7, <1>8, OtherEnd DEF EndInv, OpenInv, FinalInv, TableInv, PauseInv, CountInv, FinInv,
     Knows, FrameTypes, Other
<1> QED BY <1>2, <1>3, <1>4, <1>9, <1>10 DEF StreamInv

LEMMA StreamInvHolds == Spec => [](WeakType /\ StreamInv)
BY StreamInvInit, StreamInvStep, WeakTypeStep, PTL DEF Spec

-----------------------------------------------------------------------------
(* Theorems *)

\* Every variable keeps its type; an application is not delivered more chunks
\* than the other one sent.
THEOREM TypeCorrect == Spec => []TypeOK
<1>1. WeakType /\ StreamInv => TypeOK
  <2> SUFFICES ASSUME WeakType, StreamInv PROVE TypeOK
    OBVIOUS
  <2>1. ASSUME NEW e \in Ends PROVE got[e] \in 0 .. MaxChunks
    <3>1. CountInv(e) /\ Other(e) \in Ends
      BY OtherEnd DEF StreamInv, EndInv
    <3>2. Cnt(chan[e], "DATA") + wbuf[e] + got[e] <= taken[Other(e)]
      BY <3>1 DEF CountInv
    <3>3. Cnt(chan[e], "DATA") \in Nat /\ wbuf[e] \in Nat /\ got[e] \in Nat
      BY Counts
    <3>4. taken[Other(e)] \in 0 .. MaxChunks
      BY <3>1 DEF WeakType
    <3> QED BY <3>2, <3>3, <3>4, StreamPairAssumption
  <2> QED BY <2>1 DEF WeakType, TypeOK
<1> QED BY <1>1, StreamInvHolds, PTL

\* While the tunnel holds, what the application behind a socket that is up was
\* delivered, what the socket buffers and what is in the tunnel is what the
\* other end read: no chunk is lost and none is doubled.
THEOREM ConservedHolds == Spec => []Conserved
<1>1. StreamInv => Conserved
  BY DEF StreamInv, EndInv, CountInv, Takes, Conserved, Count, Cnt
<1> QED BY <1>1, StreamInvHolds, PTL

\* No lost wake-up: a source that the peer paused hears from the peer again.
THEOREM PauseIsLiftedHolds == Spec => []PauseIsLifted
<1>1. WeakType /\ StreamInv => PauseIsLifted
  <2> SUFFICES ASSUME WeakType, StreamInv, NEW e \in Ends, Live(e), e \in inMap, e \notin ended, "R_PEER" \in pf[e],
                      Up, ~InTransit(e, "RESUME"), ~InTransit(e, "CLOSE"), sock[Other(e)] # "destroyed"
               PROVE  /\ Other(e) \in asked \cap needDrain
                      /\ wbuf[Other(e)] > 0 /\ Other(e) \notin ending
                      /\ Live(Other(e))
    BY DEF PauseIsLifted
  <2> DEFINE o == Other(e)
  <2>1. o \in Ends /\ Other(o) = e
    BY OtherEnd
  <2> HIDE DEF o
  <2>2. ~Has(chan[e], "RESUME") /\ ~Has(chan[e], "CLOSE")
    BY DEF InTransit, Has
  <2>3. EndInv(e) /\ EndInv(o)
    BY <2>1 DEF StreamInv
  <2>4. o \in asked /\ o \in needDrain
    BY <2>2, <2>3 DEF EndInv, PauseInv, o
  <2>5. o \notin ending /\ wbuf[o] > 0
    BY <2>1, <2>3, <2>4 DEF EndInv, PauseInv, Live
  <2>6. sock[o] # "none"
    BY <2>3, <2>4 DEF EndInv, OpenInv
  <2>7. o \in inMap
    BY <2>2, <2>3, <2>6 DEF EndInv, TableInv, Knows, o
  <2>8. sock[o] # "closed"
    BY <2>3, <2>7 DEF EndInv, FinalInv
  <2> QED BY <2>1, <2>4, <2>5, <2>6, <2>8 DEF Live, WeakType, o
<1> QED BY <1>1, StreamInvHolds, PTL

\* A CLOSE that destroys a read-paused socket comes after the other end's FIN and
\* after every chunk, unless somebody reset.
LEMMA CloseComesLast ==
    ASSUME WeakType, StreamInv, NEW a \in Ends, FrameClose(a), ~reset, a \in inMap, Live(a), pf[a] # {}
    PROVE  /\ chan[a] # << >> /\ Head(chan[a]) = "CLOSE"
           /\ Other(a) \in ended' /\ wbuf'[a] + got'[a] = taken'[Other(a)]
<1> DEFINE o == Other(a)
<1>1. o \in Ends
  BY OtherEnd
<1>2. EndInv(a)
  BY DEF StreamInv
<1>3. /\ chan[a] # << >> /\ Head(chan[a]) = "CLOSE" /\ Shorter(chan[a], chan'[a], "CLOSE")
      /\ Has(chan[a], "CLOSE")
  <2>1. "CLOSE" \in FrameTypes /\ Receive(a, "CLOSE")
    BY DEF FrameClose, FrameTypes
  <2> QED BY <2>1, ReceivedFrame DEF Shorter
<1>4. Cnt(chan[a], "DATA") = 0
  <2>1. ~Has(chan'[a], "DATA") /\ ~Has(chan[a], "DATA")
    BY <1>2, <1>3 DEF EndInv, FinalInv, Shorter, FrameTypes
  <2> QED BY <2>1, Counts
<1>5. o \in ended /\ taken[o] = Cnt(chan[a], "DATA") + wbuf[a] + got[a]
  BY <1>2, <1>3 DEF EndInv, FinInv, CountInv, Takes
<1>6. wbuf[a] \in Nat /\ got[a] \in Nat
  BY Counts
<1> QED BY <1>3, <1>4, <1>5, <1>6 DEF FrameClose, out, app

\* What ends a socket's life: its own FIN after the other one's, somebody's
\* reset, the end of the tunnel at this end, a CLOSE that finds it read-paused.
LEMMA SocketDestroyed ==
    ASSUME WeakType, Next, NEW e \in Ends,
           sock[e] \notin {"destroyed", "closed"}, sock'[e] \in {"destroyed", "closed"}
    PROVE  \/ e \in ending /\ wbuf[e] = 0
           \/ reset'
           \/ control[e] = "destroyed" /\ control'[e] = "closed"
           \/ FrameClose(e) /\ e \in inMap /\ Live(e) /\ pf[e] # {} /\ UNCHANGED reset
<1>1. ASSUME NEW a \in Ends, Data(a) \/ Consume(a) \/ TunnelDrain(a) \/ End(a) \/ ControlLost(a) PROVE sock' = sock
  BY <1>1 DEF Data, Consume, TunnelDrain, End, ControlLost
<1>2. ASSUME NEW a \in Ends, FrameData(a) \/ FramePause(a) \/ FrameResume(a) \/ FrameShutdown(a) PROVE sock' = sock
  BY <1>2 DEF FrameData, FramePause, FrameResume, FrameShutdown
<1>3. ASSUME NEW a \in Ends, AutoDestroy(a) PROVE e \in ending /\ wbuf[e] = 0
  BY <1>3 DEF AutoDestroy, WeakType
<1>4. ~\E a \in Ends : Close(a)
  BY DEF Close, WeakType
<1>5. ASSUME NEW a \in Ends, ControlClosed(a) PROVE control[e] = "destroyed" /\ control'[e] = "closed"
  BY <1>5 DEF ControlClosed, Orphaned, WeakType
<1>6. ASSUME NEW a \in Ends, FrameClose(a)
      PROVE  FrameClose(e) /\ e \in inMap /\ Live(e) /\ pf[e] # {} /\ UNCHANGED reset
  BY <1>6 DEF FrameClose, WeakType, app
<1>7. ASSUME NEW a \in Ends, Reset(a) PROVE reset'
  BY <1>7 DEF Reset
<1>8. CASE FrameOpen
  BY <1>8 DEF FrameOpen, WeakType
<1>9. CASE ProviderConnected
  BY <1>9 DEF ProviderConnected, WeakType
<1>10. CASE DialFailed
  BY <1>10 DEF DialFailed
<1> QED BY <1>1, <1>2, <1>3, <1>4, <1>5, <1>6, <1>7, <1>8, <1>9, <1>10 DEF Next, Socket, Frame

\* A FIN is truthful: unless somebody reset, an application that comes to see the
\* end of the stream has every chunk the other one sent before its own FIN.  Only
\* the end of its own tunnel, or a CLOSE that finds its socket read-paused, shows
\* it an end before that, and the CLOSE drops nothing but what the socket buffers.
THEOREM FinIsTruthfulHolds == Spec => FinIsTruthful
<1>1. WeakType /\ WeakType' /\ StreamInv /\ StreamInv' /\ [Next]_vars =>
        [\A e \in Ends :
            ~reset' /\ ~SeesFin(e) /\ SeesFin(e)' =>
                \/ Other(e) \in ended' /\ got'[e] = taken'[Other(e)]
                \/ control[e] = "destroyed" /\ control'[e] = "closed"
                \/ /\ chan[e] # << >> /\ Head(chan[e]) = "CLOSE" /\ pf[e] # {}
                   /\ Other(e) \in ended' /\ wbuf'[e] + got'[e] = taken'[Other(e)]]_vars
  <2> SUFFICES ASSUME WeakType, WeakType', StreamInv, StreamInv', Next,
                      NEW e \in Ends, ~reset', ~SeesFin(e), SeesFin(e)'
               PROVE  \/ Other(e) \in ended' /\ got'[e] = taken'[Other(e)]
                      \/ control[e] = "destroyed" /\ control'[e] = "closed"
                      \/ /\ chan[e] # << >> /\ Head(chan[e]) = "CLOSE" /\ pf[e] # {}
                         /\ Other(e) \in ended' /\ wbuf'[e] + got'[e] = taken'[Other(e)]
    OBVIOUS
  <2>1. CASE e \in ending' /\ wbuf'[e] = 0
    <3>1. Other(e) \in ended' /\ taken'[Other(e)] = wbuf'[e] + got'[e]
      BY <2>1 DEF StreamInv, EndInv, FinInv
    <3>2. got'[e] \in Nat
      BY DEF WeakType
    <3> QED BY <2>1, <3>1, <3>2
  <2>2. CASE sock'[e] \in {"destroyed", "closed"}
    <3>1. \/ control[e] = "destroyed" /\ control'[e] = "closed"
          \/ FrameClose(e) /\ e \in inMap /\ Live(e) /\ pf[e] # {} /\ UNCHANGED reset
      BY <2>2, SocketDestroyed DEF SeesFin
    <3> QED BY <3>1, CloseComesLast
  <2> QED BY <2>1, <2>2 DEF SeesFin
<1> QED BY <1>1, StreamInvHolds, PTL DEF Spec, FinIsTruthful

\* A CLOSE ends both tables: when nothing is in transit, both ends hold the
\* stream or both forgot it.
THEOREM TablesAgreeHolds == Spec => []TablesAgree
<1>1. StreamInv => TablesAgree
  <2> SUFFICES ASSUME StreamInv, Up, chan["A"] = << >>, chan["B"] = << >>
               PROVE  "A" \in inMap <=> "B" \in inMap
    BY DEF TablesAgree
  <2>1. Other("A") = "B" /\ Other("B") = "A" /\ EndInv("A") /\ EndInv("B") /\ sock["A"] # "none"
    BY DEF StreamInv, Ends, Other
  <2>2. ~Has(chan["A"], "CLOSE") /\ ~Has(chan["B"], "CLOSE")
    BY NoFrames DEF FrameTypes
  <2>3. sock["B"] # "none"
    BY <2>1 DEF EndInv, OpenInv
  <2> QED BY <2>1, <2>2, <2>3 DEF EndInv, TableInv, Knows
<1> QED BY <1>1, StreamInvHolds, PTL
=============================================================================
