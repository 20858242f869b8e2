---------------------------- MODULE FramingProofs ----------------------------
(***************************************************************************)
(* Proofs about Framing, for bytes of any value, frames of any length and  *)
(* any number of them, cut by TCP in any way: what has arrived and what is *)
(* under way encodes the frames that push has not returned yet.            *)
(***************************************************************************)
EXTENDS Framing, SequenceTheorems, WellFoundedInduction, NaturalsInduction, TLAPS

Size(f) == HeaderSize + Len(f.payload)

\* off[i] is where the first i of the frames fs end in the bytes.
Ends(off, fs, bytes) ==
    /\ off \in [0 .. Len(fs) -> 0 .. Len(bytes)]
    /\ off[0] = 0 /\ off[Len(fs)] = Len(bytes)
    /\ \A i, j \in 0 .. Len(fs) : i <= j => off[i] <= off[j]
    /\ \A i \in 1 .. Len(fs) :
          /\ off[i] = off[i - 1] + Size(fs[i])
          /\ bytes[off[i - 1] + 1] = fs[i].id
          /\ bytes[off[i - 1] + 2] = Len(fs[i].payload)
          /\ \A j \in 1 .. Len(fs[i].payload) :
                bytes[off[i - 1] + HeaderSize + j] = fs[i].payload[j]

\* The bytes are those of the frames fs, one after the other.
Encodes(fs, bytes) == \E off \in [0 .. Len(fs) -> 0 .. Len(bytes)] : Ends(off, fs, bytes)

From(s, n) == SubSeq(s, n + 1, Len(s))

Types ==
    /\ sent \in Seq(Frame \cup TooLong) /\ got \in Seq(Frame)
    /\ wire \in Seq(Nat) /\ buffer \in Seq(Nat)
    /\ thrown \in BOOLEAN

FramingInv ==
    /\ Types
    /\ FramesIntact
    /\ IF thrown THEN \E i \in DOMAIN sent : sent[i] \notin Frame
       ELSE /\ Encodes(From(sent, Len(got)), buffer \o wire)
            /\ ~Oversized(buffer) /\ ~Whole(buffer)

-----------------------------------------------------------------------------
(* Frames and bytes *)

LEMMA Joined ==
    ASSUME NEW S, NEW a \in Seq(S), NEW b \in Seq(S)
    PROVE  /\ a \o b \in Seq(S) /\ Len(a) \in Nat /\ Len(b) \in Nat
           /\ Len(a \o b) = Len(a) + Len(b)
           /\ \A i \in 1 .. Len(a) : (a \o b)[i] = a[i]
           /\ \A i \in 1 .. Len(b) : (a \o b)[Len(a) + i] = b[i]
<1> DEFINE ab == a \o b
<1>1. /\ ab \in Seq(S) /\ Len(ab) = Len(a) + Len(b)
      /\ \A i \in 1 .. Len(a) + Len(b) : ab[i] = IF i <= Len(a) THEN a[i] ELSE b[i - Len(a)]
  BY ConcatProperties
<1>2. Len(a) \in Nat /\ Len(b) \in Nat
  OBVIOUS
<1> HIDE DEF ab
<1>3. \A i \in 1 .. Len(a) : ab[i] = a[i]
  BY <1>1, <1>2
<1>4. ASSUME NEW i \in 1 .. Len(b) PROVE ab[Len(a) + i] = b[i]
  <2>1. Len(a) + i \in 1 .. Len(a) + Len(b) /\ ~(Len(a) + i <= Len(a)) /\ Len(a) + i - Len(a) = i
    BY <1>2
  <2>2. QED BY <1>1, <2>1
<1>5. QED BY <1>1, <1>2, <1>3, <1>4 DEF ab

LEMMA Associative ==
    ASSUME NEW a \in Seq(Nat), NEW b \in Seq(Nat), NEW c \in Seq(Nat)
    PROVE  (a \o b) \o c = a \o (b \o c)
  BY ConcatAssociative

LEMMA Cut ==
    ASSUME NEW S, NEW s \in Seq(S), NEW n \in 0 .. Len(s)
    PROVE  /\ From(s, n) \in Seq(S)
           /\ Len(From(s, n)) = Len(s) - n
           /\ \A i \in 1 .. Len(s) - n : From(s, n)[i] = s[n + i]
<1>1. n + 1 \in Int /\ Len(s) \in Int /\ \A i \in n + 1 .. Len(s) : s[i] \in S
  OBVIOUS
<1> DEFINE r == SubSeq(s, n + 1, Len(s))
<1>2. /\ r \in Seq(S)
      /\ Len(r) = IF n + 1 <= Len(s) THEN Len(s) - (n + 1) + 1 ELSE 0
      /\ \A i \in 1 .. Len(s) - (n + 1) + 1 : r[i] = s[n + 1 + i - 1]
  BY <1>1, SubSeqProperties
<1> HIDE DEF r
<1>3. Len(r) = Len(s) - n /\ \A i \in 1 .. Len(s) - n : r[i] = s[n + i]
  BY <1>1, <1>2
<1>4. QED BY <1>2, <1>3 DEF r, From

AnyFrame == [id : Nat, payload : Seq(Nat)]

LEMMA FrameShape ==
    ASSUME NEW f \in Frame \cup TooLong
    PROVE  /\ f \in AnyFrame
           /\ Len(f.payload) <= MaxLength <=> f \in Frame
<1>1. CASE f \in Frame
  <2>1. PICK n \in 0 .. MaxLength : f.payload \in [1 .. n -> Byte]
    BY <1>1 DEF Frame
  <2>2. f.payload \in Seq(Nat) /\ Len(f.payload) = n
    BY <2>1, FramingAssumption
  <2>3. f \in AnyFrame
    BY <1>1, <2>2, FramingAssumption DEF Frame, AnyFrame
  <2>4. QED BY <1>1, <2>2, <2>3, FramingAssumption
<1>2. CASE f \in TooLong
  <2>1. PICK b \in Byte : f.payload = [i \in 1 .. MaxLength + 1 |-> b]
    BY <1>2 DEF TooLong
  <2>2. f.payload \in Seq(Nat) /\ Len(f.payload) = MaxLength + 1
    BY <2>1, FramingAssumption
  <2>3. f \notin Frame
    <3>1. SUFFICES ASSUME f \in Frame PROVE FALSE
      OBVIOUS
    <3>2. PICK n \in 0 .. MaxLength : f.payload \in [1 .. n -> Byte]
      BY <3>1 DEF Frame
    <3>3. Len(f.payload) = n
      BY <3>2, FramingAssumption
    <3>4. QED BY <2>2, <3>2, <3>3, FramingAssumption
  <2>4. f \in AnyFrame
    BY <1>2, <2>2, FramingAssumption DEF TooLong, AnyFrame
  <2>5. QED BY <2>2, <2>3, <2>4, FramingAssumption
<1>3. QED BY <1>1, <1>2

LEMMA Encoded ==
    ASSUME NEW f \in AnyFrame
    PROVE  /\ encodeFrame(f) \in Seq(Nat)
           /\ Len(encodeFrame(f)) = Size(f)
           /\ encodeFrame(f)[1] = f.id
           /\ encodeFrame(f)[2] = Len(f.payload)
           /\ \A j \in 1 .. Len(f.payload) : encodeFrame(f)[HeaderSize + j] = f.payload[j]
<1> DEFINE h == <<f.id, Len(f.payload)>>
           p == f.payload
<1>1. p \in Seq(Nat) /\ f.id \in Nat /\ Len(p) \in Nat
  BY DEF AnyFrame
<1>2. h \in Seq(Nat) /\ Len(h) = 2 /\ h[1] = f.id /\ h[2] = Len(p)
  BY <1>1
<1>3. encodeFrame(f) = h \o p /\ Size(f) = 2 + Len(p)
  BY DEF encodeFrame, Size, HeaderSize
<1> HIDE DEF h, p
<1>4. /\ h \o p \in Seq(Nat) /\ Len(h \o p) = Len(h) + Len(p)
      /\ \A i \in 1 .. Len(h) : (h \o p)[i] = h[i]
      /\ \A j \in 1 .. Len(p) : (h \o p)[Len(h) + j] = p[j]
  <2>1. h \in Seq(Nat) /\ p \in Seq(Nat)
    BY <1>1, <1>2
  <2>2. QED BY <2>1, Joined
<1>5. \A i \in {1, 2} : (h \o p)[i] = h[i]
  BY <1>2, <1>4
<1>6. \A j \in 1 .. Len(p) : (h \o p)[2 + j] = p[j]
  BY <1>2, <1>4
<1>7. QED BY <1>2, <1>3, <1>4, <1>5, <1>6 DEF p, HeaderSize

\* What Send does to the bytes under way.
LEMMA OneMore ==
    ASSUME NEW fs \in Seq(AnyFrame), NEW bytes \in Seq(Nat), NEW f \in AnyFrame,
           Encodes(fs, bytes)
    PROVE  Encodes(Append(fs, f), bytes \o encodeFrame(f))
<1> DEFINE n == Len(fs)
           e == encodeFrame(f)
           all == bytes \o e
           gs == Append(fs, f)
<1>1. PICK off : Ends(off, fs, bytes)
  BY DEF Encodes
<1> DEFINE new == [i \in 0 .. n + 1 |-> IF i <= n THEN off[i] ELSE Len(all)]
<1>2. /\ e \in Seq(Nat) /\ Len(e) = Size(f) /\ Size(f) \in Nat
      /\ e[1] = f.id /\ e[2] = Len(f.payload) /\ Len(f.payload) \in Nat
      /\ Size(f) = 2 + Len(f.payload)
      /\ \A j \in 1 .. Len(f.payload) : e[2 + j] = f.payload[j]
  BY Encoded DEF AnyFrame, Size, HeaderSize
<1> HIDE DEF e
<1>3. /\ gs \in Seq(AnyFrame) /\ Len(gs) = n + 1 /\ n \in Nat
      /\ gs[n + 1] = f /\ \A i \in 1 .. n : gs[i] = fs[i]
  OBVIOUS
<1>4. /\ all \in Seq(Nat) /\ Len(all) = Len(bytes) + Len(e)
      /\ Len(bytes) \in Nat
      /\ \A i \in 1 .. Len(bytes) : all[i] = bytes[i]
      /\ \A i \in 1 .. Len(e) : all[Len(bytes) + i] = e[i]
  <2>1. bytes \in Seq(Nat) /\ e \in Seq(Nat)
    BY <1>2
  <2>2. QED BY <2>1, Joined
<1>5. Len(all) = Len(bytes) + Size(f) /\ Len(all) \in Nat
  BY <1>2, <1>4
<1>6. \A i \in 1 .. Size(f) : all[Len(bytes) + i] = e[i]
  BY <1>2, <1>4
<1>7a. \A i \in 1 .. n : fs[i] \in AnyFrame
  OBVIOUS
<1> HIDE DEF n, all, gs
<1>7. /\ off \in [0 .. n -> 0 .. Len(bytes)] /\ off[0] = 0 /\ off[n] = Len(bytes)
      /\ \A i, j \in 0 .. n : i <= j => off[i] <= off[j]
  BY <1>1 DEF Ends, n
<1>8. new \in [0 .. n + 1 -> 0 .. Len(all)] /\ new[0] = 0 /\ new[n + 1] = Len(all)
  <2>1. ASSUME NEW i \in 0 .. n + 1 PROVE new[i] \in 0 .. Len(all)
    <3>1. CASE i <= n
      <4>1. i \in 0 .. n /\ new[i] = off[i]
        BY <1>3, <3>1
      <4>2. new[i] \in 0 .. Len(bytes)
        BY <1>7, <4>1
      <4>3. Len(bytes) \in Nat /\ Size(f) \in Nat /\ Len(all) = Len(bytes) + Size(f)
        BY <1>2, <1>4, <1>5
      <4> HIDE DEF new
      <4>4. QED BY <4>2, <4>3
    <3>2. CASE ~(i <= n)
      BY <1>5, <3>2
    <3>3. QED BY <3>1, <3>2
  <2>2. 0 \in 0 .. n + 1 /\ 0 <= n /\ n + 1 \in 0 .. n + 1 /\ ~(n + 1 <= n)
    BY <1>3
  <2>3. QED BY <1>7, <2>1, <2>2
<1>9. ASSUME NEW i \in 0 .. n + 1, NEW j \in 0 .. n + 1, i <= j PROVE new[i] <= new[j]
  <2>1. CASE j <= n
    <3>1. i \in 0 .. n /\ j \in 0 .. n /\ new[i] = off[i] /\ new[j] = off[j]
      BY <1>3, <1>9, <2>1
    <3>2. QED BY <1>7, <1>9, <3>1
  <2>2. CASE j = n + 1
    <3>1. new[j] = Len(all) /\ new[i] \in 0 .. Len(all)
      BY <1>3, <1>8, <2>2
    <3>2. QED BY <1>5, <3>1
  <2>3. QED BY <1>3, <2>1, <2>2
<1>10. ASSUME NEW i \in 1 .. n + 1
       PROVE  /\ new[i] = new[i - 1] + Size(gs[i])
              /\ all[new[i - 1] + 1] = gs[i].id
              /\ all[new[i - 1] + 2] = Len(gs[i].payload)
              /\ \A j \in 1 .. Len(gs[i].payload) :
                    all[new[i - 1] + HeaderSize + j] = gs[i].payload[j]
  <2>1. CASE i <= n
    <3>1. i \in 1 .. n /\ i - 1 \in 0 .. n /\ i \in 0 .. n
      BY <1>3, <2>1
    <3>2. new[i] = off[i] /\ new[i - 1] = off[i - 1] /\ gs[i] = fs[i]
      BY <1>3, <3>1
    <3>3. /\ off[i] = off[i - 1] + Size(fs[i])
          /\ bytes[off[i - 1] + 1] = fs[i].id
          /\ bytes[off[i - 1] + 2] = Len(fs[i].payload)
          /\ \A j \in 1 .. Len(fs[i].payload) :
                bytes[off[i - 1] + 2 + j] = fs[i].payload[j]
      BY <1>1, <3>1 DEF Ends, n, HeaderSize
    <3> DEFINE o == off[i - 1]
               l == Len(fs[i].payload)
    <3>4. l \in Nat /\ Size(fs[i]) = 2 + l
      BY <1>7a, <3>1 DEF AnyFrame, Size, HeaderSize
    <3>5. o \in Nat /\ o + (2 + l) \in 0 .. Len(bytes)
      BY <1>7, <3>1, <3>3, <3>4
    <3> HIDE DEF o, l
    <3>6. Len(bytes) \in Nat /\ l \in Nat /\ o \in Nat /\ o + (2 + l) <= Len(bytes)
      BY <1>4, <3>4, <3>5
    <3>7. /\ o + 1 \in 1 .. Len(bytes) /\ o + 2 \in 1 .. Len(bytes)
          /\ \A j \in 1 .. l : o + 2 + j \in 1 .. Len(bytes)
      BY ONLY <3>6
    <3>8. all[o + 1] = bytes[o + 1] /\ all[o + 2] = bytes[o + 2]
      BY <1>4, <3>7
    <3>9. \A j \in 1 .. l : all[o + 2 + j] = bytes[o + 2 + j]
      BY <1>4, <3>7
    <3> HIDE DEF new
    <3>10. QED BY <3>2, <3>3, <3>8, <3>9 DEF o, l, HeaderSize
  <2>2. CASE i = n + 1
    <3>1. new[i] = Len(all) /\ new[i - 1] = Len(bytes) /\ gs[i] = f
      BY <1>3, <1>7, <2>2
    <3> HIDE DEF new
    <3>2. all[Len(bytes) + 1] = e[1] /\ all[Len(bytes) + 2] = e[2]
      <4>1. 1 \in 1 .. Size(f) /\ 2 \in 1 .. Size(f)
        BY <1>2
      <4>2. QED BY <1>6, <4>1
    <3>3. ASSUME NEW j \in 1 .. Len(f.payload)
          PROVE  all[Len(bytes) + 2 + j] = f.payload[j]
      <4>1. 2 + j \in 1 .. Size(f) /\ Len(bytes) + (2 + j) = Len(bytes) + 2 + j
        BY <1>2, <1>4
      <4>2. all[Len(bytes) + (2 + j)] = e[2 + j]
        BY <1>6, <4>1
      <4>3. QED BY <1>2, <4>1, <4>2
    <3>4. QED BY <1>2, <1>4, <3>1, <3>2, <3>3 DEF HeaderSize
  <2>3. i <= n \/ i = n + 1
    BY <1>3
  <2> HIDE DEF new
  <2>4. QED BY <2>1, <2>2, <2>3
<1> HIDE DEF new
<1>11. Ends(new, gs, all)
  BY <1>3, <1>8, <1>9, <1>10 DEF Ends
<1>12. Encodes(gs, all)
  BY <1>3, <1>8, <1>11 DEF Encodes
<1>13. QED BY <1>12 DEF gs, all, e

\* The first frame stands at the front, and the others follow it.
LEMMA Front ==
    ASSUME NEW fs \in Seq(AnyFrame), NEW bytes \in Seq(Nat), Encodes(fs, bytes), fs # << >>
    PROVE  /\ Size(fs[1]) \in 0 .. Len(bytes)
           /\ bytes[1] = fs[1].id
           /\ bytes[2] = Len(fs[1].payload)
           /\ \A j \in 1 .. Len(fs[1].payload) : bytes[HeaderSize + j] = fs[1].payload[j]
           /\ Encodes(From(fs, 1), From(bytes, Size(fs[1])))
<1> DEFINE n == Len(fs)
           k == Size(fs[1])
           rest == From(bytes, k)
           gs == From(fs, 1)
<1>1. PICK off : Ends(off, fs, bytes)
  BY DEF Encodes
<1>2. n \in Nat /\ n >= 1 /\ 1 \in 0 .. Len(fs)
  OBVIOUS
<1>3. k \in Nat /\ k = 2 + Len(fs[1].payload) /\ Len(fs[1].payload) \in Nat
  BY <1>2 DEF AnyFrame, Size, HeaderSize
<1>4. /\ gs \in Seq(AnyFrame) /\ Len(gs) = n - 1
      /\ \A i \in 1 .. n - 1 : gs[i] = fs[1 + i]
  BY <1>2, Cut
<1>5. \A i \in 1 .. n : fs[i] \in AnyFrame
  OBVIOUS
<1> HIDE DEF n, k, gs
<1>6. /\ off \in [0 .. n -> 0 .. Len(bytes)] /\ off[0] = 0 /\ off[n] = Len(bytes)
      /\ \A i, j \in 0 .. n : i <= j => off[i] <= off[j]
  BY <1>1 DEF Ends, n
<1>7. \A i \in 1 .. n :
        /\ off[i] = off[i - 1] + Size(fs[i])
        /\ bytes[off[i - 1] + 1] = fs[i].id
        /\ bytes[off[i - 1] + 2] = Len(fs[i].payload)
        /\ \A j \in 1 .. Len(fs[i].payload) :
              bytes[off[i - 1] + 2 + j] = fs[i].payload[j]
  BY <1>1 DEF Ends, n, HeaderSize
<1>8. /\ off[1] = 0 + k
      /\ bytes[0 + 1] = fs[1].id
      /\ bytes[0 + 2] = Len(fs[1].payload)
      /\ \A j \in 1 .. Len(fs[1].payload) : bytes[0 + 2 + j] = fs[1].payload[j]
  <2>1. 1 \in 1 .. n /\ 1 - 1 = 0
    BY <1>2
  <2>2. /\ off[1] = off[1 - 1] + Size(fs[1])
        /\ bytes[off[1 - 1] + 1] = fs[1].id
        /\ bytes[off[1 - 1] + 2] = Len(fs[1].payload)
        /\ \A j \in 1 .. Len(fs[1].payload) : bytes[off[1 - 1] + 2 + j] = fs[1].payload[j]
    BY <1>7, <2>1
  <2>3. off[1 - 1] = 0
    BY <1>6, <2>1
  <2>4. QED BY <2>2, <2>3 DEF k
<1>9. off[1] = k /\ k \in 0 .. Len(bytes)
  BY <1>2, <1>3, <1>6, <1>8 DEF n
<1>10. /\ rest \in Seq(Nat) /\ Len(rest) = Len(bytes) - k
       /\ \A i \in 1 .. Len(bytes) - k : rest[i] = bytes[k + i]
  BY <1>9, Cut
<1> HIDE DEF rest
<1> DEFINE new == [i \in 0 .. n - 1 |-> off[i + 1] - k]
<1>11. ASSUME NEW i \in 0 .. n - 1
       PROVE  /\ i + 1 \in 0 .. n /\ new[i] = off[i + 1] - k
              /\ off[i + 1] \in Nat /\ off[i + 1] >= k /\ off[i + 1] <= Len(bytes)
  <2>1. i + 1 \in 0 .. n /\ 1 \in 0 .. n /\ 1 <= i + 1
    BY <1>2
  <2>2. off[1] <= off[i + 1] /\ off[i + 1] \in 0 .. Len(bytes)
    BY <1>6, <2>1
  <2>3. QED BY <1>9, <2>1, <2>2
<1>12. Len(bytes) \in Nat
  OBVIOUS
<1>13. new \in [0 .. n - 1 -> 0 .. Len(rest)]
  <2>1. ASSUME NEW i \in 0 .. n - 1 PROVE new[i] \in 0 .. Len(rest)
    <3> DEFINE x == off[i + 1]
    <3>1. new[i] = x - k /\ x \in Nat /\ x >= k /\ x <= Len(bytes)
      BY <1>11
    <3>2. Len(rest) = Len(bytes) - k
      BY <1>10
    <3> HIDE DEF x, new
    <3>3. QED BY <1>3, <1>12, <3>1, <3>2
  <2>2. QED BY <2>1
<1>14. new[0] = 0 /\ new[n - 1] = Len(rest)
  <2>1. 0 \in 0 .. n - 1 /\ n - 1 \in 0 .. n - 1 /\ 0 + 1 = 1 /\ n - 1 + 1 = n
    BY <1>2
  <2>2. new[0] = off[1] - k /\ new[n - 1] = off[n] - k
    BY <2>1
  <2> HIDE DEF new
  <2>3. off[1] = k /\ off[n] = Len(bytes) /\ Len(rest) = Len(bytes) - k
    BY <1>6, <1>9, <1>10
  <2>4. QED BY <1>3, <2>2, <2>3
<1>15. ASSUME NEW i \in 0 .. n - 1, NEW j \in 0 .. n - 1, i <= j PROVE new[i] <= new[j]
  <2>1. off[i + 1] <= off[j + 1]
    BY <1>6, <1>11, <1>15
  <2>2. new[i] = off[i + 1] - k /\ new[j] = off[j + 1] - k /\ off[i + 1] \in Nat /\ off[j + 1] \in Nat
    BY <1>11
  <2> HIDE DEF new
  <2>3. QED BY <1>3, <2>1, <2>2
<1>16. ASSUME NEW i \in 1 .. n - 1
       PROVE  /\ new[i] = new[i - 1] + Size(gs[i])
              /\ rest[new[i - 1] + 1] = gs[i].id
              /\ rest[new[i - 1] + 2] = Len(gs[i].payload)
              /\ \A j \in 1 .. Len(gs[i].payload) :
                    rest[new[i - 1] + HeaderSize + j] = gs[i].payload[j]
  <2> DEFINE o == off[i]
             m == i + 1
             l == Len(fs[m].payload)
  <2>1. m \in 1 .. n /\ m - 1 = i /\ i \in 0 .. n - 1 /\ i - 1 \in 0 .. n - 1 /\ i - 1 + 1 = i
    BY <1>2
  <2>2. gs[i] = fs[m]
    <3>1. 1 + i = m
      BY <1>2
    <3>2. QED BY <1>4, <3>1
  <2> HIDE DEF m
  <2>3. /\ off[m] = o + Size(fs[m])
        /\ bytes[o + 1] = fs[m].id
        /\ bytes[o + 2] = l
        /\ \A j \in 1 .. l : bytes[o + 2 + j] = fs[m].payload[j]
    BY <1>7, <2>1
  <2>4. l \in Nat /\ Size(fs[m]) = 2 + l
    BY <1>5, <2>1 DEF AnyFrame, Size, HeaderSize
  <2>5. new[i - 1] = o - k /\ new[i] = off[m] - k /\ o \in Nat /\ o >= k
        /\ off[m] \in Nat /\ off[m] <= Len(bytes)
    <3>1. new[i - 1] = o - k /\ o \in Nat /\ o >= k
      BY <1>11, <2>1
    <3>2. new[i] = off[m] - k /\ off[m] \in Nat /\ off[m] <= Len(bytes)
      BY <1>11, <2>1 DEF m
    <3>3. QED BY <3>1, <3>2
  <2> HIDE DEF new, o, l
  <2>6. new[i] = new[i - 1] + (2 + l)
    <3>1. off[m] = o + (2 + l)
      BY <2>3, <2>4
    <3>2. QED BY <1>3, <2>4, <2>5, <3>1
  <2>7. \A x \in 1 .. 2 + l : rest[new[i - 1] + x] = bytes[o + x]
    <3> TAKE x \in 1 .. 2 + l
    <3>1. o - k + x \in 1 .. Len(bytes) - k /\ k + (o - k + x) = o + x
      <4>1. off[m] = o + (2 + l)
        BY <2>3, <2>4
      <4>2. o \in Nat /\ k \in Nat /\ l \in Nat /\ o >= k /\ o + (2 + l) <= Len(bytes)
        BY <1>3, <2>4, <2>5, <4>1
      <4>3. x \in Nat /\ 1 <= x /\ x <= 2 + l
        BY <4>2
      <4>4. QED BY <1>12, <4>2, <4>3
    <3>2. rest[o - k + x] = bytes[o + x]
      BY <1>10, <3>1
    <3>3. QED BY <2>5, <3>2
  <2>8. rest[new[i - 1] + 1] = bytes[o + 1] /\ rest[new[i - 1] + 2] = bytes[o + 2]
    BY <2>4, <2>7
  <2>9. ASSUME NEW j \in 1 .. l PROVE rest[new[i - 1] + 2 + j] = bytes[o + 2 + j]
    <3>1. 2 + j \in 1 .. 2 + l /\ o + (2 + j) = o + 2 + j /\ o - k + (2 + j) = o - k + 2 + j
      BY <1>3, <2>4, <2>5
    <3>2. QED BY <2>5, <2>7, <3>1
  <2>10. QED BY <2>2, <2>3, <2>4, <2>6, <2>8, <2>9 DEF l, HeaderSize
<1> HIDE DEF new
<1>17. Ends(new, gs, rest)
  BY <1>4, <1>13, <1>14, <1>15, <1>16 DEF Ends
<1>18. Encodes(gs, rest)
  BY <1>4, <1>13, <1>17 DEF Encodes
<1>19. QED BY <1>8, <1>9, <1>18 DEF k, gs, rest, HeaderSize

\* No frames, no bytes.
LEMMA NoFrames ==
    ASSUME NEW bytes \in Seq(Nat), Encodes(<< >>, bytes)
    PROVE  bytes = << >>
<1>1. PICK off : Ends(off, << >>, bytes)
  BY DEF Encodes
<1>2. Len(<< >>) = 0 /\ Len(bytes) = 0
  BY <1>1 DEF Ends
<1>3. QED BY <1>2

-----------------------------------------------------------------------------
(* The loop of push *)

LEMMA Least == ASSUME NEW T \in SUBSET Nat, T # {} PROVE \E m \in T : \A k \in T : m <= k
<1> DEFINE Below == {ss \in Nat \X Nat : ss[1] < ss[2]}
<1>1. IsWellFoundedOn(Below, Nat)
  BY NatLessThanWellFounded, Zenon DEF OpToRel, Below
<1>2. PICK m \in T : \A y \in T : ~(<<y, m>> \in Below)
  BY <1>1, WFMin
<1>3. \A y \in T : ~(y < m)
  <2> SUFFICES ASSUME NEW y \in T, y < m PROVE FALSE
    OBVIOUS
  <2>1. <<y, m>> \in Below
    BY DEF Below
  <2> QED BY <2>1, <1>2
<1> QED BY <1>3

\* Induction on the naturals, as a fact about sets.
LEMMA Induction ==
    ASSUME NEW T \in SUBSET Nat, 0 \in T, \A n \in T : n + 1 \in T
    PROVE  T = Nat
<1> SUFFICES ASSUME Nat \ T # {} PROVE FALSE
  OBVIOUS
<1>1. PICK m \in Nat \ T : \A k \in Nat \ T : m <= k
  BY Least
<1>2. m # 0 /\ m - 1 \in Nat /\ ~(m <= m - 1) /\ m - 1 + 1 = m
  OBVIOUS
<1>3. m - 1 \in T
  BY <1>1, <1>2
<1>4. QED BY <1>2, <1>3

Start(b) == [frames |-> << >>, rest |-> b]

\* g is the recursive function of Parse: g[i] is where the loop is after i turns.
Turns(g, b, most) ==
    g = [i \in 0 .. most |-> IF i = 0 THEN Start(b) ELSE Turn(g[i - 1])]

LEMMA TurnsExist ==
    ASSUME NEW b, NEW most \in Nat
    PROVE  \E g : Turns(g, b, most)
<1> DEFINE T == {n \in Nat : \E g : Turns(g, b, n)}
<1>1. 0 \in T
  <2> DEFINE g == [i \in 0 .. 0 |-> Start(b)]
  <2>1. g = [i \in 0 .. 0 |-> IF i = 0 THEN Start(b) ELSE Turn(g[i - 1])]
    OBVIOUS
  <2> HIDE DEF g
  <2>2. Turns(g, b, 0)
    BY <2>1 DEF Turns
  <2>3. QED BY <2>2
<1>2. ASSUME NEW n \in T PROVE n + 1 \in T
  <2>1. PICK g : Turns(g, b, n)
    OBVIOUS
  <2> DEFINE h == [i \in 0 .. n + 1 |-> IF i <= n THEN g[i] ELSE Turn(g[n])]
  <2>2. ASSUME NEW i \in 0 .. n + 1
        PROVE  h[i] = IF i = 0 THEN Start(b) ELSE Turn(h[i - 1])
    <3>1. CASE i = 0
      BY <2>1, <3>1 DEF Turns
    <3>2. CASE i # 0 /\ i <= n
      <4>1. i \in 0 .. n /\ i - 1 \in 0 .. n + 1 /\ i - 1 <= n
        BY <3>2
      <4>2. h[i] = g[i] /\ h[i - 1] = g[i - 1]
        BY <3>2, <4>1
      <4>3. g[i] = Turn(g[i - 1])
        BY <2>1, <3>2, <4>1 DEF Turns
      <4>4. QED BY <3>2, <4>2, <4>3
    <3>3. CASE i = n + 1
      <4>1. i # 0 /\ ~(i <= n) /\ i - 1 = n /\ n \in 0 .. n + 1 /\ n <= n
        BY <3>3
      <4>2. h[i] = Turn(g[n]) /\ h[n] = g[n]
        BY <4>1
      <4>3. QED BY <4>1, <4>2
    <3>4. QED BY <3>1, <3>2, <3>3
  <2>3. h = [i \in 0 .. n + 1 |-> IF i = 0 THEN Start(b) ELSE Turn(h[i - 1])]
    <3>1. h = [i \in 0 .. n + 1 |-> h[i]]
      OBVIOUS
    <3> HIDE DEF h
    <3>2. QED BY <2>2, <3>1
  <2> HIDE DEF h
  <2>4. Turns(h, b, n + 1)
    BY <2>3 DEF Turns
  <2>5. QED BY <2>4
<1> HIDE DEF T
<1>3. T = Nat
  <2>1. T \in SUBSET Nat
    BY DEF T
  <2>2. QED BY <1>1, <1>2, <2>1, Induction
<1>4. QED BY <1>3 DEF T

LEMMA Parsed ==
    ASSUME NEW b \in Seq(Nat)
    PROVE  \E g : /\ Turns(g, b, Len(b) \div HeaderSize)
                  /\ Parse(b).frames = g[Len(b) \div HeaderSize].frames
                  /\ Parse(b).rest = g[Len(b) \div HeaderSize].rest
                  /\ Parse(b).thrown = Oversized(g[Len(b) \div HeaderSize].rest)
<1> DEFINE most == Len(b) \div HeaderSize
           g == CHOOSE t : Turns(t, b, most)
<1>1. most \in Nat
  BY DEF HeaderSize
<1>2. Parse(b) = [frames |-> g[most].frames, rest |-> g[most].rest,
                  thrown |-> Oversized(g[most].rest)]
  BY DEF Parse, Turns, Start
<1> HIDE DEF most
<1>3. \E t : Turns(t, b, most)
  BY <1>1, TurnsExist
<1>4. Turns(g, b, most)
  BY <1>3
<1> HIDE DEF g
<1>5. QED BY <1>2, <1>4 DEF most

\* The loop after i turns: it has taken frames off the front of fs, what is left
\* of the buffer (of size bytes) begins the others, and each turn took a header.
Looped(st, i, fs, size, w) ==
    /\ st.frames \in Seq(Frame) /\ st.rest \in Seq(Nat)
    /\ Len(st.frames) <= Len(fs)
    /\ \A j \in 1 .. Len(st.frames) : st.frames[j] = fs[j]
    /\ Encodes(From(fs, Len(st.frames)), st.rest \o w)
    /\ Oversized(st.rest) \/ ~Whole(st.rest) \/ Len(st.rest) + HeaderSize * i <= size

Sent == Frame \cup TooLong

LEMMA Sequences ==
    /\ \A fs \in Seq(Sent) : fs \in Seq(AnyFrame)
    /\ \A fs \in Seq(Frame) : fs \in Seq(Sent)
<1>1. Sent \subseteq AnyFrame /\ Frame \subseteq Sent
  BY FrameShape DEF Sent
<1>2. QED BY <1>1, SeqMonotonic

LEMMA FromFrom ==
    ASSUME NEW S, NEW s \in Seq(S), NEW n \in 0 .. Len(s), NEW m \in 0 .. Len(s) - n
    PROVE  From(From(s, n), m) = From(s, n + m)
<1> DEFINE a == From(s, n)
           c == From(a, m)
           d == From(s, n + m)
<1>1. a \in Seq(S) /\ Len(a) = Len(s) - n /\ \A i \in 1 .. Len(s) - n : a[i] = s[n + i]
  BY Cut
<1>2. Len(s) \in Nat /\ n + m \in 0 .. Len(s) /\ Len(s) - (n + m) = Len(s) - n - m
  OBVIOUS
<1>3. /\ d \in Seq(S) /\ Len(d) = Len(s) - (n + m)
      /\ \A i \in 1 .. Len(s) - (n + m) : d[i] = s[n + m + i]
  BY <1>2, Cut
<1> HIDE DEF a, d
<1>4. c \in Seq(S) /\ Len(c) = Len(a) - m /\ \A i \in 1 .. Len(a) - m : c[i] = a[m + i]
  <2>1. a \in Seq(S) /\ m \in 0 .. Len(a)
    BY <1>1
  <2>2. QED BY <2>1, Cut
<1> HIDE DEF c
<1>5. ASSUME NEW i \in 1 .. Len(c) PROVE c[i] = d[i]
  <2>1. i \in 1 .. Len(a) - m /\ m + i \in 1 .. Len(s) - n /\ n + (m + i) = n + m + i
        /\ i \in 1 .. Len(s) - (n + m)
    BY <1>1, <1>2, <1>4
  <2>2. c[i] = a[m + i] /\ a[m + i] = s[n + (m + i)] /\ d[i] = s[n + m + i]
    BY <1>1, <1>3, <1>4, <2>1
  <2>3. QED BY <2>1, <2>2
<1>6. Len(c) = Len(d)
  BY <1>1, <1>2, <1>3, <1>4
<1>7. c = d
  BY <1>3, <1>4, <1>5, <1>6, SeqEqual
<1>8. QED BY <1>7 DEF a, c, d

LEMMA FromJoined ==
    ASSUME NEW S, NEW a \in Seq(S), NEW b \in Seq(S), NEW n \in 0 .. Len(a)
    PROVE  From(a \o b, n) = From(a, n) \o b
<1> DEFINE ab == a \o b
           an == From(a, n)
           l == From(ab, n)
           r == an \o b
<1>1. /\ ab \in Seq(S) /\ Len(a) \in Nat /\ Len(b) \in Nat
      /\ Len(ab) = Len(a) + Len(b)
      /\ \A i \in 1 .. Len(a) : ab[i] = a[i]
      /\ \A i \in 1 .. Len(b) : ab[Len(a) + i] = b[i]
  BY Joined
<1>2. an \in Seq(S) /\ Len(an) = Len(a) - n /\ \A i \in 1 .. Len(a) - n : an[i] = a[n + i]
  BY Cut
<1> HIDE DEF ab, an
<1>3. /\ r \in Seq(S) /\ Len(r) = Len(an) + Len(b)
      /\ \A i \in 1 .. Len(an) : r[i] = an[i]
      /\ \A i \in 1 .. Len(b) : r[Len(an) + i] = b[i]
  <2>1. an \in Seq(S)
    BY <1>2
  <2>2. QED BY <2>1, Joined
<1>4. n \in 0 .. Len(ab)
  BY <1>1
<1>5. l \in Seq(S) /\ Len(l) = Len(ab) - n /\ \A i \in 1 .. Len(ab) - n : l[i] = ab[n + i]
  BY <1>1, <1>4, Cut
<1> HIDE DEF l, r
<1>6. Len(l) = Len(r) /\ Len(l) = Len(a) - n + Len(b)
  BY <1>1, <1>2, <1>3, <1>5
<1>7. ASSUME NEW i \in 1 .. Len(l) PROVE l[i] = r[i]
  <2>1. l[i] = ab[n + i]
    BY <1>5
  <2>2. CASE i <= Len(a) - n
    <3>1. i \in 1 .. Len(a) - n /\ n + i \in 1 .. Len(a)
      BY <1>1, <2>2
    <3>2. i \in 1 .. Len(an)
      BY <1>2, <3>1
    <3>3. ab[n + i] = a[n + i] /\ an[i] = a[n + i] /\ r[i] = an[i]
      BY <1>1, <1>2, <1>3, <3>1, <3>2
    <3>4. QED BY <2>1, <3>3
  <2>3. CASE ~(i <= Len(a) - n)
    <3> DEFINE j == i - (Len(a) - n)
    <3>1. j \in 1 .. Len(b) /\ Len(a) + j = n + i /\ Len(an) + j = i
      BY <1>1, <1>2, <1>6, <2>3
    <3> HIDE DEF j
    <3>2. ab[Len(a) + j] = b[j] /\ r[Len(an) + j] = b[j]
      BY <1>1, <1>3, <3>1
    <3>3. QED BY <2>1, <3>1, <3>2
  <2>4. QED BY <2>2, <2>3
<1>8. l = r
  BY <1>3, <1>5, <1>6, <1>7, SeqEqual
<1>9. QED BY <1>8 DEF l, r, an, ab

\* A whole frame at the front of the buffer is the first that is not out yet.
LEMMA TurnKeeps ==
    ASSUME NEW fs \in Seq(Sent), NEW size \in Nat, NEW w \in Seq(Nat), NEW i \in Nat,
           NEW st, Looped(st, i, fs, size, w)
    PROVE  Looped(Turn(st), i + 1, fs, size, w)
<1> DEFINE rest == st.rest
           n == Len(st.frames)
           gs == From(fs, n)
           f == gs[1]
<1>1. CASE Oversized(rest) \/ ~Whole(rest)
  BY <1>1 DEF Turn, Looped
<1>2. CASE ~Oversized(rest) /\ Whole(rest)
  <2>1. /\ st.frames \in Seq(Frame) /\ rest \in Seq(Nat) /\ n \in 0 .. Len(fs) /\ n \in Nat
        /\ \A j \in 1 .. n : st.frames[j] = fs[j]
        /\ Encodes(gs, rest \o w)
    BY DEF Looped
  <2>2. Len(rest) + 2 * i <= size /\ Len(rest) \in Nat
    <3>1. Len(rest) + HeaderSize * i <= size
      BY <1>2 DEF Looped
    <3>2. Len(rest) \in Nat
      BY <2>1
    <3> HIDE DEF rest
    <3>3. QED BY <3>1, <3>2 DEF HeaderSize
  <2>3. /\ gs \in Seq(Sent) /\ Len(gs) = Len(fs) - n
        /\ \A j \in 1 .. Len(fs) - n : gs[j] = fs[n + j]
    BY <2>1, Cut, Zenon
  <2> DEFINE t == Turn(st)
  <2>4. t = [frames |-> Append(st.frames, First(rest)), rest |-> Rest(rest)]
    BY <1>2 DEF Turn
  <2>5. Len(rest) >= 2 /\ rest[2] <= MaxLength /\ rest[2] \in Nat /\ Len(rest) >= 2 + rest[2]
    <3>1. Len(rest) >= 2 /\ ~(rest[2] > MaxLength) /\ Len(rest) >= 2 + rest[2]
      BY <1>2 DEF Whole, Oversized, LengthOf, HeaderSize
    <3>2. 2 \in 1 .. Len(rest)
      BY <2>2, <3>1
    <3>3. rest[2] \in Nat
      BY <2>1, <3>2, ElementOfSeq
    <3>4. QED BY <3>1, <3>3, FramingAssumption
  <2> DEFINE all == rest \o w
  <2>6. /\ all \in Seq(Nat) /\ Len(all) >= Len(rest) /\ Len(all) \in Nat
        /\ \A j \in 1 .. Len(rest) : all[j] = rest[j]
    BY <2>1, Joined
  <2> HIDE DEF rest, n, gs, t, all
  <2>7. gs # << >>
    <3>1. SUFFICES ASSUME gs = << >> PROVE FALSE
      OBVIOUS
    <3>2. all = << >>
      BY <2>1, <2>6, <3>1, NoFrames DEF all
    <3>3. QED BY <2>2, <2>5, <2>6, <3>2
  <2>8. gs \in Seq(AnyFrame) /\ f \in Sent /\ f \in AnyFrame /\ Len(gs) >= 1 /\ Len(gs) \in Nat
    BY <2>3, <2>7, Sequences, FrameShape DEF Sent
  <2>9. /\ Size(f) \in 0 .. Len(all)
        /\ all[1] = f.id
        /\ all[2] = Len(f.payload)
        /\ \A j \in 1 .. Len(f.payload) : all[2 + j] = f.payload[j]
        /\ Encodes(From(gs, 1), From(all, Size(f)))
    BY <2>1, <2>6, <2>7, <2>8, Front DEF all, HeaderSize
  <2>10. f.id \in Nat /\ f.payload \in Seq(Nat) /\ f = [id |-> f.id, payload |-> f.payload]
    BY <2>8 DEF AnyFrame
  <2> DEFINE p == f.payload
             l == Len(f.payload)
             q == SubSeq(rest, HeaderSize + 1, HeaderSize + LengthOf(rest))
  <2>11. rest[1] = f.id /\ rest[2] = l /\ l \in Nat /\ Size(f) = 2 + l
    <3>1. 1 \in 1 .. Len(rest) /\ 2 \in 1 .. Len(rest)
      BY <2>2, <2>5
    <3>2. all[1] = rest[1] /\ all[2] = rest[2]
      BY <2>6, <3>1
    <3>3. l \in Nat /\ Size(f) = 2 + l
      BY <2>10 DEF Size, HeaderSize
    <3>4. QED BY <2>9, <3>2, <3>3
  <2>12. l <= MaxLength /\ f \in Frame
    BY <2>5, <2>8, <2>11, FrameShape DEF Sent
  <2>13. q = p
    <3>1. q = SubSeq(rest, 3, 2 + l)
      BY <2>11 DEF LengthOf, HeaderSize
    <3>2. ASSUME NEW j \in 3 .. 2 + l PROVE rest[j] \in Nat
      <4>1. j \in 1 .. Len(rest)
        BY <2>2, <2>5, <2>11
      <4>2. QED BY <2>1, <4>1, ElementOfSeq
    <3> HIDE DEF f, p, l, q
    <3> DEFINE m == 2 + l
               r == SubSeq(rest, 3, m)
    <3>3. q = r /\ m \in Int /\ \A j \in 3 .. m : rest[j] \in Nat
      BY <2>11, <3>1, <3>2
    <3> HIDE DEF m
    <3>4. /\ r \in Seq(Nat) /\ Len(r) = (IF 3 <= m THEN m - 3 + 1 ELSE 0)
          /\ \A j \in 1 .. m - 3 + 1 : r[j] = rest[3 + j - 1]
      <4>1. 3 \in Int /\ m \in Int /\ \A j \in 3 .. m : rest[j] \in Nat
        BY <3>3
      <4>2. QED BY <4>1, SubSeqProperties
    <3> HIDE DEF r
    <3>5. q \in Seq(Nat) /\ Len(q) = l
      BY <2>11, <3>3, <3>4 DEF m
    <3>6. ASSUME NEW j \in 1 .. l PROVE q[j] = p[j]
      <4>1. 3 + j - 1 = 2 + j /\ j \in 1 .. m - 3 + 1 /\ 2 + j \in 1 .. Len(rest)
        BY <2>2, <2>5, <2>11 DEF m
      <4>2. r[j] = rest[2 + j] /\ all[2 + j] = rest[2 + j]
        BY <2>6, <3>4, <4>1
      <4>3. all[2 + j] = p[j]
        BY <2>9 DEF l, p
      <4>4. QED BY <3>3, <4>2, <4>3
    <3>7. p \in Seq(Nat) /\ Len(p) = l
      BY <2>10 DEF p, l
    <3>8. QED BY <3>5, <3>6, <3>7, SeqEqual
  <2>14. First(rest) = f
    BY <2>10, <2>11, <2>13 DEF First
  <2>15. Rest(rest) = From(rest, Size(f))
    BY <2>11 DEF Rest, LengthOf, HeaderSize, From
  <2> HIDE DEF f, p, l, q
  <2>16. Size(f) \in 0 .. Len(rest)
    BY <2>2, <2>5, <2>11
  <2>17. t.frames = Append(st.frames, f) /\ t.rest = From(rest, Size(f))
    BY <2>4, <2>14, <2>15
  <2>18. /\ t.frames \in Seq(Frame) /\ Len(t.frames) = n + 1
         /\ t.frames[n + 1] = f /\ \A j \in 1 .. n : t.frames[j] = st.frames[j]
    BY <2>1, <2>12, <2>17 DEF n
  <2>19. f = fs[n + 1] /\ n + 1 <= Len(fs)
    <3>1. 1 \in 1 .. Len(fs) - n
      BY <2>3, <2>8
    <3>2. QED BY <2>1, <2>3, <3>1 DEF f
  <2>20. \A j \in 1 .. n + 1 : t.frames[j] = fs[j]
    BY <2>1, <2>18, <2>19
  <2>21. t.rest \in Seq(Nat) /\ Len(t.rest) = Len(rest) - Size(f)
    BY <2>1, <2>16, <2>17, Cut
  <2>22. Encodes(From(fs, n + 1), t.rest \o w)
    <3>1. From(gs, 1) = From(fs, n + 1)
      <4>1. 1 \in 0 .. Len(fs) - n
        BY <2>3, <2>8
      <4>2. QED BY <2>1, <4>1, FromFrom DEF gs
    <3>2. From(all, Size(f)) = From(rest, Size(f)) \o w
      BY <2>1, <2>16, FromJoined DEF all
    <3>3. QED BY <2>9, <2>17, <3>1, <3>2
  <2>23. Len(t.rest) + 2 * (i + 1) <= size
    BY <2>2, <2>11, <2>21
  <2>24. QED BY <2>18, <2>19, <2>20, <2>21, <2>22, <2>23 DEF Looped, HeaderSize, t
<1>3. QED BY <1>1, <1>2

LEMMA LoopKeeps ==
    ASSUME NEW fs \in Seq(Sent), NEW b \in Seq(Nat), NEW w \in Seq(Nat), NEW most \in Nat,
           NEW g, Turns(g, b, most), Encodes(fs, b \o w)
    PROVE  Looped(g[most], most, fs, Len(b), w)
<1> DEFINE T == {n \in Nat : n <= most => Looped(g[n], n, fs, Len(b), w)}
<1>1. \A i \in 0 .. most : g[i] = IF i = 0 THEN Start(b) ELSE Turn(g[i - 1])
  BY DEF Turns
<1>2. 0 \in T
  <2>1. g[0] = Start(b)
    BY <1>1
  <2>2. /\ Start(b).frames = << >> /\ Start(b).rest = b
        /\ << >> \in Seq(Frame) /\ Len(<< >>) = 0 /\ 1 .. 0 = {}
    BY DEF Start
  <2>3. From(fs, 0) = fs
    <3>1. SubSeq(fs, 1, Len(fs)) = fs
      BY SubSeqFull
    <3>2. QED BY <3>1 DEF From
  <2>4. Len(b) \in Nat /\ HeaderSize * 0 = 0 /\ Len(b) + 0 <= Len(b) /\ 0 <= Len(fs)
    BY DEF HeaderSize
  <2>5. Looped(Start(b), 0, fs, Len(b), w)
    BY <2>2, <2>3, <2>4 DEF Looped
  <2>6. QED BY <2>1, <2>5
<1>3. ASSUME NEW n \in T PROVE n + 1 \in T
  <2>1. SUFFICES ASSUME n + 1 <= most PROVE Looped(g[n + 1], n + 1, fs, Len(b), w)
    OBVIOUS
  <2>2. n \in Nat /\ n <= most /\ n + 1 \in 0 .. most /\ n + 1 # 0 /\ n + 1 - 1 = n
    BY <2>1
  <2>3. Looped(g[n], n, fs, Len(b), w) /\ g[n + 1] = Turn(g[n])
    BY <1>1, <2>2
  <2>4. Len(b) \in Nat
    OBVIOUS
  <2>5. QED BY <2>2, <2>3, <2>4, TurnKeeps
<1> HIDE DEF T
<1>4. T \in SUBSET Nat
  BY DEF T
<1>5. T = Nat
  BY <1>2, <1>3, <1>4, Induction
<1>6. most \in T /\ most <= most
  BY <1>5
<1>7. QED BY <1>6 DEF T

\* What push returns, keeps and refuses of the bytes b, when w are still under way.
LEMMA ParseKeeps ==
    ASSUME NEW fs \in Seq(Sent), NEW b \in Seq(Nat), NEW w \in Seq(Nat), Encodes(fs, b \o w)
    PROVE  LET p == Parse(b) IN
           /\ p.frames \in Seq(Frame) /\ p.rest \in Seq(Nat) /\ p.thrown \in BOOLEAN
           /\ Len(p.frames) <= Len(fs)
           /\ \A j \in 1 .. Len(p.frames) : p.frames[j] = fs[j]
           /\ Encodes(From(fs, Len(p.frames)), p.rest \o w)
           /\ p.thrown = Oversized(p.rest)
           /\ p.thrown \/ ~Whole(p.rest)
<1> DEFINE most == Len(b) \div HeaderSize
           p == Parse(b)
<1>1. PICK g : /\ Turns(g, b, most) /\ p.frames = g[most].frames /\ p.rest = g[most].rest
               /\ p.thrown = Oversized(g[most].rest)
  BY Parsed
<1>2. most \in Nat /\ Len(b) \in Nat /\ 2 * most >= Len(b) - 1
  BY DEF HeaderSize
<1> HIDE DEF most, p
<1>3. Looped(g[most], most, fs, Len(b), w)
  BY <1>1, <1>2, LoopKeeps
<1>4. ~(Len(p.rest) + HeaderSize * most <= Len(b)) \/ ~Whole(p.rest)
  <2>1. SUFFICES ASSUME Len(p.rest) + HeaderSize * most <= Len(b), Len(p.rest) >= 2 PROVE FALSE
    BY DEF Whole, HeaderSize
  <2>2. Len(p.rest) \in Nat
    BY <1>1, <1>3 DEF Looped
  <2> DEFINE r == Len(p.rest)
  <2>3. r + 2 * most <= Len(b) /\ r >= 2 /\ r \in Nat
    BY <2>1, <2>2 DEF HeaderSize
  <2> HIDE DEF r
  <2>4. QED BY <1>2, <2>3
<1>5. p.thrown \in BOOLEAN /\ p.thrown = Oversized(p.rest)
  BY <1>1 DEF Oversized
<1>6. p.thrown \/ ~Whole(p.rest)
  BY <1>1, <1>3, <1>4 DEF Looped
<1>7. QED BY <1>1, <1>3, <1>5, <1>6 DEF Looped, p

-----------------------------------------------------------------------------
(* The steps *)

LEMMA PrefixMore ==
    ASSUME NEW S, NEW s \in Seq(S), NEW t \in Seq(S), NEW x \in S, IsPrefixOf(s, t)
    PROVE  /\ Len(s) \in 0 .. Len(t)
           /\ IsPrefixOf(s, Append(t, x))
           /\ From(Append(t, x), Len(s)) = Append(From(t, Len(s)), x)
<1> DEFINE n == Len(s)
           tx == Append(t, x)
           l == From(tx, n)
           f == From(t, n)
           r == Append(f, x)
<1>1. n \in 0 .. Len(t) /\ Len(t) \in Nat /\ s = SubSeq(t, 1, n)
  BY DEF IsPrefixOf
<1>2. /\ tx \in Seq(S) /\ Len(tx) = Len(t) + 1 /\ tx[Len(t) + 1] = x
      /\ \A i \in 1 .. Len(t) : tx[i] = t[i]
  BY <1>1
<1>3. f \in Seq(S) /\ Len(f) = Len(t) - n /\ \A i \in 1 .. Len(t) - n : f[i] = t[n + i]
  BY <1>1, Cut
<1> HIDE DEF tx, f
<1>4. n \in 0 .. Len(tx)
  BY <1>1, <1>2
<1>5. l \in Seq(S) /\ Len(l) = Len(tx) - n /\ \A i \in 1 .. Len(tx) - n : l[i] = tx[n + i]
  BY <1>2, <1>4, Cut
<1>6. /\ r \in Seq(S) /\ Len(r) = Len(f) + 1 /\ r[Len(f) + 1] = x
      /\ \A i \in 1 .. Len(f) : r[i] = f[i]
  BY <1>3
<1>7. IsPrefixOf(s, tx)
  <2> DEFINE u == SubSeq(tx, 1, n)
  <2>1. u \in Seq(S) /\ Len(u) = n /\ \A i \in 1 .. n : u[i] = tx[i]
    BY <1>1, <1>2
  <2>2. \A i \in 1 .. n : s[i] = t[i] /\ tx[i] = t[i]
    BY <1>1, <1>2
  <2> HIDE DEF u
  <2>3. s = u
    BY <2>1, <2>2, SeqEqual
  <2>4. QED BY <1>1, <1>2, <2>3 DEF IsPrefixOf, u
<1> HIDE DEF l, r, n
<1>8. l = r
  <2>1. Len(l) = Len(r) /\ Len(r) = Len(t) - n + 1
    BY <1>1, <1>2, <1>3, <1>5, <1>6
  <2>2. ASSUME NEW i \in 1 .. Len(l) PROVE l[i] = r[i]
    <3>1. l[i] = tx[n + i]
      BY <1>5
    <3>2. CASE i <= Len(t) - n
      <4>1. i \in 1 .. Len(t) - n /\ n + i \in 1 .. Len(t) /\ i \in 1 .. Len(f)
        BY <1>1, <1>3, <3>2
      <4>2. tx[n + i] = t[n + i] /\ f[i] = t[n + i] /\ r[i] = f[i]
        BY <1>2, <1>3, <1>6, <4>1
      <4>3. QED BY <3>1, <4>2
    <3>3. CASE ~(i <= Len(t) - n)
      <4>1. n + i = Len(t) + 1 /\ i = Len(f) + 1
        <5>1. i \in 1 .. Len(t) - n + 1 /\ Len(f) = Len(t) - n
          BY <1>3, <2>1
        <5>2. QED BY <1>1, <3>3, <5>1
      <4>2. QED BY <1>2, <1>6, <3>1, <4>1
    <3>4. QED BY <3>2, <3>3
  <2>3. QED BY <1>5, <1>6, <2>1, <2>2, SeqEqual
<1>9. QED BY <1>1, <1>7, <1>8 DEF l, r, tx, f, n

\* The frames fs of t that follow s, put after s, are still a prefix of t.
LEMMA PrefixFurther ==
    ASSUME NEW S, NEW s \in Seq(S), NEW t \in Seq(S), NEW fs \in Seq(S), IsPrefixOf(s, t),
           Len(fs) <= Len(From(t, Len(s))),
           \A j \in 1 .. Len(fs) : fs[j] = From(t, Len(s))[j]
    PROVE  /\ IsPrefixOf(s \o fs, t)
           /\ From(From(t, Len(s)), Len(fs)) = From(t, Len(s \o fs))
<1> DEFINE n == Len(s)
           m == Len(fs)
           f == From(t, n)
           sf == s \o fs
           u == SubSeq(t, 1, n + m)
<1>1. /\ n \in 0 .. Len(t) /\ Len(t) \in Nat /\ s = SubSeq(t, 1, n) /\ m \in Nat
      /\ \A i \in 1 .. n : s[i] = t[i]
  <2>1. n \in 0 .. Len(t) /\ Len(t) \in Nat /\ s = SubSeq(t, 1, n) /\ m \in Nat
    BY DEF IsPrefixOf
  <2>2. \A i \in 1 .. n : SubSeq(t, 1, n)[i] = t[i]
    BY <2>1
  <2>3. QED BY <2>1, <2>2
<1>2. Len(f) = Len(t) - n /\ \A i \in 1 .. Len(t) - n : f[i] = t[n + i]
  BY <1>1, Cut
<1>3. m \in 0 .. Len(t) - n /\ \A j \in 1 .. m : fs[j] = t[n + j]
  <2>1. m <= Len(f) /\ \A j \in 1 .. m : fs[j] = f[j]
    OBVIOUS
  <2>2. m \in 0 .. Len(t) - n /\ \A j \in 1 .. m : j \in 1 .. Len(t) - n
    BY <1>1, <1>2, <2>1
  <2>3. QED BY <1>2, <2>1, <2>2
<1>4. /\ sf \in Seq(S) /\ Len(sf) = n + m
      /\ \A i \in 1 .. n : sf[i] = s[i]
      /\ \A j \in 1 .. m : sf[n + j] = fs[j]
  BY Joined
<1>5. n + m \in 0 .. Len(t)
  BY <1>1, <1>3
<1>6. u \in Seq(S) /\ Len(u) = n + m /\ \A i \in 1 .. n + m : u[i] = t[i]
  BY <1>5
<1> HIDE DEF u, sf, f, m, n
<1>7. ASSUME NEW i \in 1 .. n + m PROVE sf[i] = t[i]
  <2>1. CASE i <= n
    <3>1. i \in 1 .. n
      BY <1>1, <2>1
    <3>2. QED BY <1>1, <1>4, <3>1
  <2>2. CASE ~(i <= n)
    <3>1. i - n \in 1 .. m /\ n + (i - n) = i
      BY <1>1, <2>2
    <3>2. sf[n + (i - n)] = fs[i - n] /\ fs[i - n] = t[n + (i - n)]
      BY <1>3, <1>4, <3>1
    <3>3. QED BY <3>1, <3>2
  <2>3. QED BY <2>1, <2>2
<1>8. sf = u
  BY <1>4, <1>6, <1>7, SeqEqual
<1>9. IsPrefixOf(sf, t)
  BY <1>4, <1>5, <1>8 DEF IsPrefixOf, u
<1>10. From(f, m) = From(t, n + m)
  BY <1>1, <1>3, FromFrom DEF f
<1>11. QED BY <1>4, <1>9, <1>10 DEF sf, f, n, m

LEMMA SendKeeps == ASSUME FramingInv, Send PROVE FramingInv'
<1>1. PICK f \in Sent : sent' = Append(sent, f) /\ wire' = wire \o encodeFrame(f)
  BY DEF Send, Sent
<1>2. ~thrown /\ UNCHANGED <<buffer, got, thrown>>
  BY DEF Send
<1>3. /\ sent \in Seq(Sent) /\ got \in Seq(Frame) /\ got \in Seq(Sent)
      /\ wire \in Seq(Nat) /\ buffer \in Seq(Nat)
  BY Sequences DEF FramingInv, Types, Sent
<1>4. f \in AnyFrame
  BY FrameShape DEF Sent
<1>5. encodeFrame(f) \in Seq(Nat)
  BY <1>4, Encoded
<1>6. Types'
  <2>1. sent' \in Seq(Sent)
    BY <1>1, <1>3
  <2>2. wire' \in Seq(Nat)
    BY <1>1, <1>3, <1>5
  <2>3. QED BY <1>2, <2>1, <2>2 DEF FramingInv, Types, Sent
<1>7. /\ Len(got) \in 0 .. Len(sent) /\ IsPrefixOf(got, sent')
      /\ From(sent', Len(got)) = Append(From(sent, Len(got)), f)
  BY <1>1, <1>3, PrefixMore DEF FramingInv, FramesIntact
<1>8. FramesIntact'
  BY <1>2, <1>7 DEF FramingInv, FramesIntact
<1>9. Encodes(From(sent', Len(got)), buffer \o wire')
  <2>1. From(sent, Len(got)) \in Seq(AnyFrame)
    BY <1>3, <1>7, Cut, Sequences
  <2>2. buffer \o wire \in Seq(Nat)
    BY <1>3
  <2>3. Encodes(From(sent, Len(got)), buffer \o wire)
    BY <1>2 DEF FramingInv
  <2>4. Encodes(Append(From(sent, Len(got)), f), (buffer \o wire) \o encodeFrame(f))
    BY <1>4, <2>1, <2>2, <2>3, OneMore
  <2>5. (buffer \o wire) \o encodeFrame(f) = buffer \o (wire \o encodeFrame(f))
    <3>1. buffer \in Seq(Nat) /\ wire \in Seq(Nat) /\ encodeFrame(f) \in Seq(Nat)
      BY <1>3, <1>5
    <3>2. QED BY <3>1, Associative
  <2>6. QED BY <1>1, <1>7, <2>4, <2>5
<1>10. QED BY <1>2, <1>6, <1>8, <1>9 DEF FramingInv

LEMMA pushKeeps == ASSUME FramingInv, push PROVE FramingInv'
<1> DEFINE b(n) == buffer \o SubSeq(wire, 1, n)
           w(n) == From(wire, n)
           fs == From(sent, Len(got))
<1>1. PICK n \in 1 .. Len(wire) :
        /\ wire' = w(n)
        /\ buffer' = Parse(b(n)).rest
        /\ got' = IF Parse(b(n)).thrown THEN got ELSE got \o Parse(b(n)).frames
        /\ thrown' = Parse(b(n)).thrown
  BY DEF push, From
<1>2. ~thrown /\ sent' = sent
  BY DEF push
<1>3. /\ sent \in Seq(Sent) /\ got \in Seq(Frame) /\ got \in Seq(Sent)
      /\ wire \in Seq(Nat) /\ buffer \in Seq(Nat)
  BY Sequences DEF FramingInv, Types, Sent
<1>4. IsPrefixOf(got, sent) /\ Len(got) \in 0 .. Len(sent)
  <2>1. Len(sent) \in Nat /\ Len(got) \in Nat
    BY <1>3
  <2>2. QED BY <2>1 DEF FramingInv, FramesIntact, IsPrefixOf
<1>5. fs \in Seq(Sent) /\ Len(fs) = Len(sent) - Len(got)
      /\ \A i \in 1 .. Len(sent) - Len(got) : fs[i] = sent[Len(got) + i]
  BY <1>3, <1>4, Cut
<1>6. b(n) \in Seq(Nat) /\ w(n) \in Seq(Nat) /\ b(n) \o w(n) = buffer \o wire
  <2> DEFINE c == SubSeq(wire, 1, n)
             d == w(n)
  <2>1. n \in 0 .. Len(wire) /\ Len(wire) \in Nat
    BY <1>3
  <2>2. c \in Seq(Nat) /\ Len(c) = n /\ \A i \in 1 .. n : c[i] = wire[i]
    BY <1>3, <2>1
  <2>3. d \in Seq(Nat) /\ Len(d) = Len(wire) - n /\ \A i \in 1 .. Len(wire) - n : d[i] = wire[n + i]
    BY <1>3, <2>1, Cut
  <2> HIDE DEF c, d
  <2>4. c \o d = wire
    <3>1. /\ c \o d \in Seq(Nat) /\ Len(c \o d) = Len(c) + Len(d)
          /\ \A i \in 1 .. Len(c) : (c \o d)[i] = c[i]
          /\ \A i \in 1 .. Len(d) : (c \o d)[Len(c) + i] = d[i]
      <4>1. c \in Seq(Nat) /\ d \in Seq(Nat)
        BY <2>2, <2>3
      <4>2. QED BY <4>1, Joined
    <3>2. Len(c \o d) = Len(wire)
      BY <2>1, <2>2, <2>3, <3>1
    <3>3. ASSUME NEW i \in 1 .. Len(wire) PROVE (c \o d)[i] = wire[i]
      <4>1. CASE i <= n
        <5>1. i \in 1 .. n
          BY <2>1, <4>1
        <5>2. QED BY <2>2, <3>1, <5>1
      <4>2. CASE ~(i <= n)
        <5>1. i - n \in 1 .. Len(wire) - n /\ n + (i - n) = i
          BY <2>1, <4>2
        <5>2. (c \o d)[n + (i - n)] = d[i - n] /\ d[i - n] = wire[n + (i - n)]
          BY <2>2, <2>3, <3>1, <5>1
        <5>3. QED BY <5>1, <5>2
      <4>3. QED BY <4>1, <4>2
    <3>4. QED BY <1>3, <3>1, <3>2, <3>3, SeqEqual
  <2>5. (buffer \o c) \o d = buffer \o (c \o d)
    <3>1. buffer \in Seq(Nat) /\ c \in Seq(Nat) /\ d \in Seq(Nat)
      BY <1>3, <2>2, <2>3
    <3>2. QED BY <3>1, Associative
  <2>6. buffer \o c \in Seq(Nat)
    BY <1>3, <2>2
  <2>7. QED BY <2>3, <2>4, <2>5, <2>6 DEF c, d
<1> DEFINE p == Parse(b(n))
<1>7. Encodes(fs, b(n) \o w(n))
  BY <1>2, <1>6 DEF FramingInv
<1> HIDE DEF b, w, fs
<1>8. /\ p.frames \in Seq(Frame) /\ p.rest \in Seq(Nat) /\ p.thrown \in BOOLEAN
      /\ Len(p.frames) <= Len(fs)
      /\ \A j \in 1 .. Len(p.frames) : p.frames[j] = fs[j]
      /\ Encodes(From(fs, Len(p.frames)), p.rest \o w(n))
      /\ p.thrown = Oversized(p.rest)
      /\ p.thrown \/ ~Whole(p.rest)
  BY <1>5, <1>6, <1>7, ParseKeeps
<1> HIDE DEF p
<1>9. /\ wire' = w(n) /\ buffer' = p.rest /\ thrown' = p.thrown
      /\ got' = IF p.thrown THEN got ELSE got \o p.frames
  BY <1>1 DEF p
<1>10. CASE p.thrown
  <2>1. Types' /\ FramesIntact' /\ thrown'
    BY <1>2, <1>6, <1>8, <1>9, <1>10 DEF FramingInv, Types, FramesIntact
  <2> DEFINE k == Len(p.frames)
             gs == From(fs, k)
             all == p.rest \o w(n)
  <2>2. k \in 0 .. Len(fs) /\ Len(fs) \in Nat
    BY <1>5, <1>8
  <2>3. gs \in Seq(Sent) /\ Len(gs) = Len(fs) - k /\ \A i \in 1 .. Len(fs) - k : gs[i] = fs[k + i]
    <3>1. fs \in Seq(Sent) /\ k \in 0 .. Len(fs)
      BY <1>5, <2>2
    <3> HIDE DEF k
    <3>2. QED BY ONLY <3>1, Cut
  <2>4. Len(p.rest) >= 2 /\ p.rest[2] > MaxLength
    BY <1>8, <1>10 DEF Oversized, LengthOf, HeaderSize
  <2>5. /\ all \in Seq(Nat) /\ Len(p.rest) \in Nat /\ Len(all) >= 2 /\ all[2] = p.rest[2]
    <3>1. p.rest \in Seq(Nat) /\ w(n) \in Seq(Nat)
      BY <1>6, <1>8
    <3>2. /\ all \in Seq(Nat) /\ Len(p.rest) \in Nat /\ Len(w(n)) \in Nat
          /\ Len(all) = Len(p.rest) + Len(w(n))
          /\ \A i \in 1 .. Len(p.rest) : all[i] = p.rest[i]
      BY <3>1, Joined
    <3>3. 2 \in 1 .. Len(p.rest)
      BY <2>4, <3>2
    <3>4. QED BY <2>4, <3>2, <3>3
  <2> HIDE DEF k, gs, all
  <2>6. Encodes(gs, all)
    BY <1>8 DEF gs, all, k
  <2>7. gs # << >>
    <3>1. SUFFICES ASSUME gs = << >> PROVE FALSE
      OBVIOUS
    <3>2. all = << >>
      BY <2>5, <2>6, <3>1, NoFrames
    <3>3. QED BY <2>5, <3>2
  <2>8. gs \in Seq(AnyFrame) /\ gs[1] \in Sent /\ 1 \in 1 .. Len(gs)
    BY <2>3, <2>7, Sequences
  <2>9. all[2] = Len(gs[1].payload)
    BY <2>5, <2>6, <2>7, <2>8, Front
  <2>10. gs[1] \notin Frame
    <3>1. gs[1] \in AnyFrame /\ (Len(gs[1].payload) <= MaxLength <=> gs[1] \in Frame)
      BY <2>8, FrameShape DEF Sent
    <3>2. Len(gs[1].payload) > MaxLength /\ Len(gs[1].payload) \in Nat
      BY <2>4, <2>5, <2>9, <3>1 DEF AnyFrame
    <3>3. QED BY <3>1, <3>2, FramingAssumption
  <2>11. gs[1] = sent[Len(got) + (k + 1)] /\ Len(got) + (k + 1) \in 1 .. Len(sent)
    <3>1. 1 \in 1 .. Len(fs) - k /\ k + 1 \in 1 .. Len(sent) - Len(got)
          /\ Len(got) + (k + 1) \in 1 .. Len(sent)
      BY <1>4, <1>5, <2>2, <2>3, <2>8
    <3>2. gs[1] = fs[k + 1] /\ fs[k + 1] = sent[Len(got) + (k + 1)]
      BY <1>5, <2>3, <3>1
    <3>3. QED BY <3>1, <3>2
  <2>12. \E i \in DOMAIN sent : sent[i] \notin Frame
    BY <1>3, <2>10, <2>11
  <2>13. QED BY <1>2, <2>1, <2>12 DEF FramingInv
<1>11. CASE ~p.thrown
  <2>1. got' = got \o p.frames /\ ~thrown'
    BY <1>9, <1>11
  <2>2. got' \in Seq(Frame)
    BY <1>3, <1>8, <2>1
  <2>3. p.frames \in Seq(Sent)
    BY <1>8, Sequences
  <2>4. /\ IsPrefixOf(got \o p.frames, sent)
        /\ From(fs, Len(p.frames)) = From(sent, Len(got \o p.frames))
    BY <1>3, <1>4, <1>8, <2>3, PrefixFurther DEF fs
  <2>5. Types'
    BY <1>2, <1>6, <1>8, <1>9, <2>2 DEF FramingInv, Types
  <2>6. FramesIntact'
    <3>1. \A i \in DOMAIN got' : got'[i] \in Frame
      BY <2>2
    <3>2. QED BY <1>2, <2>1, <2>4, <3>1 DEF FramesIntact
  <2>7. Encodes(From(sent', Len(got')), buffer' \o wire')
    BY <1>2, <1>8, <1>9, <2>1, <2>4
  <2>8. ~Oversized(buffer') /\ ~Whole(buffer')
    BY <1>8, <1>9, <1>11
  <2>9. QED BY <2>1, <2>5, <2>6, <2>7, <2>8 DEF FramingInv
<1>12. QED BY <1>8, <1>10, <1>11

-----------------------------------------------------------------------------
\* What has arrived and what is under way encodes the frames that push has not
\* returned yet, until it throws.
THEOREM FramingInvHolds == Spec => []FramingInv
<1>1. Init => FramingInv
  <2> SUFFICES ASSUME Init PROVE FramingInv
    OBVIOUS
  <2>0. SubSeq(<< >>, 1, Len(<< >>)) = << >> /\ Len(<< >>) <= Len(<< >>) /\ DOMAIN << >> = {}
    OBVIOUS
  <2>1. Types /\ FramesIntact
    <3>1. /\ sent = << >> /\ wire = << >> /\ buffer = << >> /\ got = << >>
          /\ thrown \in BOOLEAN
      BY DEF Init
    <3>2. << >> \in Seq(Frame \cup TooLong) /\ << >> \in Seq(Frame) /\ << >> \in Seq(Nat)
      OBVIOUS
    <3>3. Types
      BY <3>1, <3>2 DEF Types
    <3>4. IsPrefixOf(<< >>, << >>)
      BY <2>0, Zenon DEF IsPrefixOf
    <3>5. QED BY <2>0, <3>1, <3>3, <3>4 DEF FramesIntact
  <2>2. ~Oversized(buffer) /\ ~Whole(buffer)
    BY DEF Init, Oversized, Whole, HeaderSize
  <2>3. From(sent, Len(got)) = << >> /\ buffer \o wire = << >>
    BY DEF Init, From
  <2>4. Encodes(<< >>, << >>)
    <3> DEFINE off == [i \in 0 .. 0 |-> 0]
    <3>1. Ends(off, << >>, << >>)
      BY DEF Ends
    <3>2. QED BY <3>1 DEF Encodes, Ends
  <2>5. QED BY <2>1, <2>2, <2>3, <2>4 DEF Init, FramingInv
<1>2. FramingInv /\ [Next]_vars => FramingInv'
  <2> SUFFICES ASSUME FramingInv, [Next]_vars PROVE FramingInv'
    OBVIOUS
  <2>1. CASE UNCHANGED vars
    BY <2>1 DEF vars, FramingInv, Types, FramesIntact
  <2>2. QED BY <2>1, SendKeeps, pushKeeps DEF Next
<1>3. QED BY <1>1, <1>2, PTL DEF Spec

\* However TCP cuts the stream, the frames come out as they went in (FramesIntact).
THEOREM FramesIntactHolds == Spec => []FramesIntact
  BY FramingInvHolds, PTL DEF FramingInv

\* When every byte has arrived, so has every frame, and push throws if and only
\* if one is too long (NothingHeld).
THEOREM NothingHeldHolds == Spec => []NothingHeld
<1>1. FramingInv => NothingHeld
  <2> SUFFICES ASSUME FramingInv PROVE NothingHeld
    OBVIOUS
  <2>1. /\ sent \in Seq(Sent) /\ got \in Seq(Frame) /\ got \in Seq(Sent)
        /\ wire \in Seq(Nat) /\ buffer \in Seq(Nat) /\ thrown \in BOOLEAN
    BY Sequences DEF FramingInv, Types, Sent
  <2>2. Len(got) \in 0 .. Len(sent) /\ got = SubSeq(sent, 1, Len(got))
    <3>1. Len(sent) \in Nat /\ Len(got) \in Nat
      BY <2>1
    <3>2. QED BY <3>1 DEF FramingInv, FramesIntact, IsPrefixOf
  <2>3. ASSUME wire = << >>, ~thrown PROVE got = sent /\ buffer = << >>
    <3> DEFINE gs == From(sent, Len(got))
    <3>1. gs \in Seq(Sent) /\ Len(gs) = Len(sent) - Len(got)
      BY <2>1, <2>2, Cut
    <3>2. buffer \o wire = buffer
      BY <2>1, <2>3, ConcatEmptySeq
    <3>3. Encodes(gs, buffer) /\ ~Whole(buffer)
      BY <2>3, <3>2 DEF FramingInv
    <3> HIDE DEF gs
    <3>4. gs = << >>
      <4>1. SUFFICES ASSUME gs # << >> PROVE FALSE
        OBVIOUS
      <4>2. gs \in Seq(AnyFrame)
        BY <3>1, Sequences
      <4>3. Size(gs[1]) \in 0 .. Len(buffer) /\ buffer[2] = Len(gs[1].payload)
        BY <2>1, <3>3, <4>1, <4>2, Front
      <4>4. Len(gs[1].payload) \in Nat /\ Size(gs[1]) = 2 + Len(gs[1].payload)
        BY <4>1, <4>2 DEF AnyFrame, Size, HeaderSize
      <4>5. Len(buffer) \in Nat
        BY <2>1
      <4>6. Len(buffer) >= 2 /\ Len(buffer) >= 2 + buffer[2]
        BY <4>3, <4>4, <4>5
      <4>7. QED BY <3>3, <4>6 DEF Whole, LengthOf, HeaderSize
    <3>5. buffer = << >>
      BY <2>1, <3>3, <3>4, NoFrames
    <3>6. Len(got) = Len(sent)
      BY <2>2, <3>1, <3>4
    <3>7. got = sent
      BY <2>1, <2>2, <3>6, SubSeqFull
    <3>8. QED BY <3>5, <3>7
  <2>4. \A i \in DOMAIN got : got[i] \in Frame
    BY DEF FramingInv, FramesIntact
  <2>5. thrown => \E i \in DOMAIN sent : sent[i] \notin Frame
    BY DEF FramingInv
  <2>6. QED BY <2>3, <2>4, <2>5 DEF NothingHeld
<1>2. QED BY FramingInvHolds, <1>1, PTL
=============================================================================
